------------------------------- MODULE Codec -------------------------------
(***************************************************************************)
(* The wire codec (spec.md 4.1): how the server turns request bytes into   *)
(* fields (ProtocolHandler, NetworkManager.get_*_payload) and response     *)
(* objects into bytes (response.py, with the header sizes request.py       *)
(* puts in them).  A byte is an integer in 0..255 and a byte string a      *)
(* sequence of them; names are the byte strings of their UTF-8 encoding,   *)
(* and a client id is carried as its 16 raw bytes (the hex string the      *)
(* code passes around is bytes.fromhex'd back before it is sent).          *)
(*                                                                         *)
(* The other side, the client's encoder of requests and parser of          *)
(* responses, is not code of this repository: it is written from the       *)
(* layout tables of spec.md 4.1 and serves as the reference the server's   *)
(* codec is checked against.                                               *)
(***************************************************************************)
EXTENDS Integers, Sequences, SequencesExt

----------------------------------------------------------------------------
(* Field widths of request.py and response.py. *)

SIZE_CLIENT_ID == 16
SIZE_HEADER == 23
SIZE_NAME == 255
SIZE_PUBLIC_KEY == 160
VERSION == 3

(* struct formats, as the byte widths of their fields. *)
UNPACK_HEADER_STRUCT == <<1, 2, 4>>            \* '<BHI'
UNPACK_PRE_FILE_NAME_AND_CONTENT_STRUCT == <<4, 4, 2, 2>>   \* '<IIHH'
RESPONSE_HEADER_STRUCT == <<1, 2, 4>>          \* '<BHI'
PRE_FILE_NAME_SIZE == 12

(* struct.unpack raises struct.error on a buffer of the wrong length. *)
StructError == "struct.error"

(* Little-endian: byte i carries the digit of weight 256^(i-1). *)
PackLE(n, k) == [i \in 1..k |-> (n \div 2^(8 * (i - 1))) % 256]
UnpackLE(bs) == FoldRight(LAMBDA b, acc : b + 256 * acc, bs, 0)

Offset(ws, i) == FoldLeft(+, 0, SubSeq(ws, 1, i - 1))

StructUnpack(ws, bs) ==
  IF Len(bs) # FoldLeft(+, 0, ws) THEN StructError
  ELSE [i \in DOMAIN ws |-> UnpackLE(SubSeq(bs, Offset(ws, i) + 1,
                                                Offset(ws, i) + ws[i]))]

StructPack(ws, vals) == FlattenSeq([i \in DOMAIN ws |-> PackLE(vals[i], ws[i])])

(* bytes.ljust(w, b'\0') *)
Ljust(s, w) == s \o [i \in 1..(w - Len(s)) |-> 0]

----------------------------------------------------------------------------
(* Decoding requests.                                                      *)

(* bytes.find(b'\0'): 0-based index of the first zero byte, -1 if none. *)
find_zero(data) ==
  LET zs == {i \in DOMAIN data : data[i] = 0}
  IN  IF zs = {} THEN -1 ELSE Min(zs) - 1

(* Python's data[:k]: a negative k counts from the end. *)
SliceTo(data, k) ==
  IF k >= 0 THEN SubSeq(data, 1, k) ELSE SubSeq(data, 1, Len(data) + k)

(* Off by one: the terminating zero is kept in the name. *)
remove_null_keep_zero(data) == SliceTo(data, find_zero(data) + 1)

(* ProtocolHandler.remove_null *)
remove_null(data) == SliceTo(data, find_zero(data))

(* ProtocolHandler.unpack_request_header on the 23 bytes get_header read. *)
unpack_request_header(raw) ==
  LET t == StructUnpack(UNPACK_HEADER_STRUCT, SubSeq(raw, SIZE_CLIENT_ID + 1, Len(raw)))
  IN  IF Len(raw) # SIZE_HEADER THEN StructError
      ELSE [client_id |-> SubSeq(raw, 1, SIZE_CLIENT_ID), version |-> t[1],
            code |-> t[2], payload_size |-> t[3]]

(* NetworkManager.infer_payload: the get_*_payload reader of the opcode,   *)
(* each recv taking the next bytes of the payload in order.  A send-file   *)
(* ciphertext is whatever payload_size declares beyond the first 267.      *)
DecodePayload(code, size, p) ==
  LET name(o) == remove_null(SubSeq(p, o + 1, o + SIZE_NAME))
      pre == StructUnpack(UNPACK_PRE_FILE_NAME_AND_CONTENT_STRUCT,
                          SubSeq(p, 1, PRE_FILE_NAME_SIZE))
      ct == size - PRE_FILE_NAME_SIZE - SIZE_NAME
  IN CASE code \in {825, 827, 900, 901, 902} -> [name |-> name(0)]
       [] code = 826 -> [name |-> name(0),
                         public_key |-> SubSeq(p, SIZE_NAME + 1, SIZE_NAME + SIZE_PUBLIC_KEY)]
       [] code = 828 -> [content_size |-> pre[1], original_file_size |-> pre[2],
                         packet_number |-> pre[3], total_packets |-> pre[4],
                         name |-> name(PRE_FILE_NAME_SIZE),
                         content |-> SubSeq(p, PRE_FILE_NAME_SIZE + SIZE_NAME + 1,
                                               PRE_FILE_NAME_SIZE + SIZE_NAME + ct)]

DecodeRequest(frame) ==
  LET h == unpack_request_header(SubSeq(frame, 1, SIZE_HEADER))
  IN  [header |-> h,
       payload |-> DecodePayload(h.code, h.payload_size,
                                 SubSeq(frame, SIZE_HEADER + 1, Len(frame)))]

(* The client's encoding of a request (spec.md 4.1), the reference.  A     *)
(* name is zero-padded to its 255-byte block; payload_size is the length   *)
(* of the payload.                                                          *)
EncodePayload(code, r) ==
  CASE code \in {825, 827, 900, 901, 902} -> Ljust(r.name, SIZE_NAME)
    [] code = 826 -> Ljust(r.name, SIZE_NAME) \o r.public_key
    [] code = 828 -> StructPack(UNPACK_PRE_FILE_NAME_AND_CONTENT_STRUCT,
                                <<r.content_size, r.original_file_size,
                                  r.packet_number, r.total_packets>>)
                     \o Ljust(r.name, SIZE_NAME) \o r.content

EncodeRequest(h, r) ==
  LET p == EncodePayload(h.code, r)
  IN  h.client_id \o StructPack(UNPACK_HEADER_STRUCT, <<h.version, h.code, Len(p)>>) \o p

----------------------------------------------------------------------------
(* Encoding responses.                                                     *)

ResponseHeader(code, payload_size) ==
  [version |-> VERSION, code |-> code, payload_size |-> payload_size]

(* The 1603 header without the trailing crc counted. *)
AcceptedFileHeaderNoCrc ==
  ResponseHeader(1603, SIZE_CLIENT_ID + 4 + SIZE_NAME)

(* The header request.py builds for each response code: the payload size  *)
(* is stated there, apart from the bytes response.py then emits.          *)
AcceptedFileHeader ==
  ResponseHeader(1603, SIZE_CLIENT_ID + 4 + SIZE_NAME + 4)

(* The response object request.py returns for a code: its header and the  *)
(* fields its create_packet appends.  aes is the RSA-wrapped key, whose    *)
(* length request.py adds to the declared size.                            *)
MakeResponse(code, id, aes, f) ==
  CASE code \in {1601, 1607} -> [header |-> ResponseHeader(code, 0)]
    [] code \in {1600, 1604, 1606} ->
         [header |-> ResponseHeader(code, SIZE_CLIENT_ID), client_id |-> id]
    [] code \in {1602, 1605} ->
         [header |-> ResponseHeader(code, SIZE_CLIENT_ID + Len(aes)),
          client_id |-> id, aes_key |-> aes]
    [] code = 1603 ->
         [header |-> AcceptedFileHeader, client_id |-> id,
          content_size |-> f.content_size, file_name |-> f.name, crc |-> f.crc]

(* Response.create_packet and its overrides. *)
create_packet(r) ==
  LET h == r.header
      payload ==
        CASE h.code \in {1601, 1607} -> <<>>
          [] h.code \in {1600, 1604, 1606} -> r.client_id
          [] h.code \in {1602, 1605} -> r.client_id \o r.aes_key
          [] h.code = 1603 -> r.client_id \o PackLE(r.content_size, 4)
                                \o Ljust(r.file_name, SIZE_NAME) \o PackLE(r.crc, 4)
  IN  StructPack(RESPONSE_HEADER_STRUCT, <<h.version, h.code, h.payload_size>>) \o payload

(* The client's parser (spec.md 4.1), the reference: the 7-byte header,    *)
(* then the payload split by the layout of the code; a zero-padded name    *)
(* is cut at its first zero.  Framed: the payload is exactly payload_size  *)
(* bytes long, so the client's next read starts at the next response.      *)
TruncAtZero(s) ==
  LET zs == {i \in DOMAIN s : s[i] = 0}
  IN  IF zs = {} THEN s ELSE SubSeq(s, 1, Min(zs) - 1)

ParseResponse(pkt) ==
  LET t == StructUnpack(RESPONSE_HEADER_STRUCT, SubSeq(pkt, 1, 7))
      p == SubSeq(pkt, 8, Len(pkt))
      h == [version |-> t[1], code |-> t[2], payload_size |-> t[3]]
      id == SubSeq(p, 1, SIZE_CLIENT_ID)
  IN  CASE h.code \in {1601, 1607} -> [header |-> h]
        [] h.code \in {1600, 1604, 1606} -> [header |-> h, client_id |-> id]
        [] h.code \in {1602, 1605} ->
             [header |-> h, client_id |-> id, aes_key |-> SubSeq(p, 17, Len(p))]
        [] h.code = 1603 ->
             [header |-> h, client_id |-> id,
              content_size |-> UnpackLE(SubSeq(p, 17, 20)),
              file_name |-> TruncAtZero(SubSeq(p, 21, 20 + SIZE_NAME)),
              crc |-> UnpackLE(SubSeq(p, 21 + SIZE_NAME, 24 + SIZE_NAME))]

Framed(pkt) == Len(pkt) = 7 + UnpackLE(SubSeq(pkt, 4, 7))

----------------------------------------------------------------------------
(* The round trips, over the inputs an MC module enumerates.               *)

(* The fields a conforming client sends: the header with payload_size set  *)
(* to the length of the payload it encodes.                                 *)
Sent(req) ==
  [header |-> [req.header EXCEPT !.payload_size =
                 Len(EncodePayload(req.header.code, req.payload))],
   payload |-> req.payload]

(* Every request a conforming client can write (names of at most 254 bytes *)
(* none of them zero, spec.md 2; any integer its field holds) is decoded  *)
(* by unpack_request_header, the get_*_payload readers and remove_null    *)
(* into exactly the fields the client encoded: no byte of a name, of the   *)
(* public key or of the ciphertext is lost, kept or shifted.               *)
RequestRoundTrip(Reqs) ==
  \A req \in Reqs :
    DecodeRequest(EncodeRequest(req.header, req.payload)) = Sent(req)

(* Every response a request handler can return is framed by the size its  *)
(* header declares, and the client's parser reads back from it exactly the *)
(* fields the handler put in the object: the declared sizes of request.py  *)
(* agree with the bytes create_packet of response.py emits.                *)
ResponseRoundTrip(Resps) ==
  \A r \in Resps : Framed(create_packet(r)) /\ ParseResponse(create_packet(r)) = r

=============================================================================
