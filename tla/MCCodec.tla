------------------------------ MODULE MCCodec ------------------------------
(***************************************************************************)
(* Inputs of the codec round trips, shared by the MC modules that check   *)
(* them against the requests a server executes and the responses it       *)
(* builds: the boundary values of the integer fields, names of length 0,  *)
(* 1 and 254 (the longest the spec allows) and one of two UTF-8 bytes     *)
(* above 127, ids, keys and ciphertexts that contain zero bytes.           *)
(***************************************************************************)
EXTENDS Codec

Bytes(k, b) == [i \in 1..k |-> b]
MCIds == {Bytes(16, 0), <<7>> \o Bytes(14, 0) \o <<255>>}
MCNames == {<<>>, <<97>>, <<195, 169>>, Bytes(254, 98)}
MCU32 == {0, 1, 2147483647}   \* TLC's integers stop at 2^31 - 1
MCU16 == {0, 2^16 - 1}
MCKeys == {Bytes(160, 0), <<1>> \o Bytes(158, 0) \o <<2>>}
MCCiphers == {<<>>, <<0, 5, 0>>}
MCAes == {<<>>, Bytes(128, 9)}

MCHeaders(code) ==
  [client_id : MCIds, version : {0, 255}, code : {code}, payload_size : {0}]

MCPayloads(code) ==
  CASE code \in {825, 827, 900, 901, 902} -> [name : MCNames]
    [] code = 826 -> [name : MCNames, public_key : MCKeys]
    [] code = 828 -> [content_size : MCU32, original_file_size : {0},
                      packet_number : MCU16, total_packets : {1},
                      name : MCNames, content : MCCiphers]

RequestCodes == {825, 826, 827, 828, 900, 901, 902}
ResponseCodes == 1600..1607

(* Whether every request of an opcode, and every response of a code,     *)
(* survives the codec: computed once per code.                            *)
MCRequestCodecOK ==
  [code \in RequestCodes |->
     RequestRoundTrip({[header |-> h, payload |-> p] :
                         h \in MCHeaders(code), p \in MCPayloads(code)})]

MCResponseCodecOK ==
  [code \in ResponseCodes |->
     ResponseRoundTrip({MakeResponse(code, id, aes, f) :
                          id \in MCIds, aes \in MCAes,
                          f \in [content_size : MCU32, name : MCNames, crc : MCU32]})]

=============================================================================
