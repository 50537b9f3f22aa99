------------------------------- MODULE Stream -------------------------------
(***************************************************************************)
(* The byte-stream side of the connection server: how Server._read turns  *)
(* the bytes a peer wrote into requests (network_manager.py get_header,  *)
(* infer_payload and the get_*_payload readers, protocol_handler.py       *)
(* unpack_request_header), and how send_response fares against a peer    *)
(* that has gone away.                                                     *)
(*                                                                         *)
(* Bytes are abstracted to parts: the header is HeaderSize parts (the     *)
(* 16-byte client id, then version/code/payload_size), every fixed-size   *)
(* payload field one part, the ciphertext of a send-file two.  A part is  *)
(* tagged with the message, field and position it was written as, so a   *)
(* field the server reads is intact exactly when it consists of the parts *)
(* the peer wrote for that field.  One recv(n) returns what has arrived,  *)
(* up to n parts, blocks while nothing has arrived and the peer is        *)
(* neither closed nor reset, and returns b"" at end of stream.           *)
(*                                                                         *)
(* What the handlers do with a request is modelled in Dispatcher; here    *)
(* only whether an intact request gets a response matters.  A request     *)
(* read from misframed parts may reply, stay silent, or raise.           *)
(***************************************************************************)
EXTENDS Integers, Sequences, SequencesExt

CONSTANTS
  Conns,          \* accepted connections
  Script,         \* c -> the requests its peer writes, in order
  SplitFields,    \* fields a TCP segment boundary may fall inside
  CloseMidMessage,\* a peer may close between two parts of one message
  PeersFinish,    \* a peer that has started writing finishes and closes
  InvalidCode,    \* an opcode outside RequestHeader.possible_codes
  None

OP_SEND_PUBLIC_KEY == 826
OP_SEND_FILE == 828

(* RequestHeader.possible_codes *)
PossibleCodes == {825, 826, 827, 828, 900, 901, 902}

(* A request as a peer writes it: its opcode, and whether the handler of *)
(* the intact request returns a response (an intermediate send-file      *)
(* fragment does not).                                                     *)
(* size is the ciphertext length the header's payload_size declares for  *)
(* a send-file, payload_size - 267, in parts: negative when payload_size  *)
(* is below 267 (it is an unsigned field the peer fills in).              *)
DeclaredSizes == -1..3

Kind == [op : PossibleCodes \cup {InvalidCode}, reply : BOOLEAN,
         size : DeclaredSizes]

ASSUME Script \in [Conns -> Seq(Kind)]
ASSUME SplitFields \subseteq {"header", "content"}
ASSUME CloseMidMessage \in BOOLEAN /\ PeersFinish \in BOOLEAN

(************************** The wire (spec.md 4) ***************************)

(* The parts a peer writes for each opcode: header, then payload fields.  *)
WireFields(op) == CASE op = OP_SEND_PUBLIC_KEY -> <<1, 1>>
                    [] op = OP_SEND_FILE       -> <<1, 1, 2>>
                    [] OTHER                   -> <<1>>
WireParts(op, f) == IF f = 0 THEN 2 ELSE WireFields(op)[f]

Part(m, f, p) == [m |-> m, f |-> f, p |-> p]

MsgParts(m, op) ==
  FlattenSeq([i \in 1..(Len(WireFields(op)) + 1) |->
               [p \in 1..WireParts(op, i - 1) |-> Part(m, i - 1, p)]])

(* c -> every part its peer writes, in order. *)
Wire == [c \in Conns |->
          FlattenSeq([m \in 1..Len(Script[c]) |-> MsgParts(m, Script[c][m].op)])]

FieldName(op, f) == CASE f = 0 -> "header"
                      [] op = OP_SEND_FILE /\ f = 3 -> "content"
                      [] OTHER -> "other"

(* A segment may end after part k: at the end of a field, or inside a     *)
(* field the network may split.                                           *)
ChunkEnd(c, k) ==
  LET u == Wire[c][k]
      op == Script[c][u.m].op
  IN  u.p = WireParts(op, u.f) \/ FieldName(op, u.f) \in SplitFields

-----------------------------------------------------------------------------
VARIABLES
  running,   \* the server process is alive
  wpos,      \* c -> number of parts of Wire[c] that have arrived
  rpos,      \* c -> number of parts the server has read
  pstate,    \* c -> "open" | "closed" (the peer sent FIN)
  sock,      \* c -> "ok" | "rstPending" | "rst" (the peer's RST arrived)
  srv,       \* c -> "open" | "closed" (close_connection was called)
  phase,     \* the _read in progress: connection, opcode, message, field
  executed   \* c -> messages executed: their index, 0 for a misframed one

vars == <<running, wpos, rpos, pstate, sock, srv, phase, executed>>

Idle == [conn |-> None, op |-> 0, m |-> 0, f |-> 0, size |-> 0]

Phase == {Idle} \cup [conn : Conns, op : PossibleCodes,
                      m : Nat, f : Nat \ {0}, size : DeclaredSizes]

StreamTypeOK ==
  /\ running \in BOOLEAN
  /\ \A c \in Conns : wpos[c] \in 0..Len(Wire[c]) /\ rpos[c] \in 0..wpos[c]
  /\ pstate \in [Conns -> {"open", "closed"}]
  /\ sock \in [Conns -> {"ok", "rstPending", "rst"}]
  /\ srv \in [Conns -> {"open", "closed"}]
  /\ phase \in Phase
  /\ \A c \in Conns : executed[c] \in Seq(0..Len(Script[c]))

Init ==
  /\ running = TRUE
  /\ wpos = [c \in Conns |-> 0]
  /\ rpos = [c \in Conns |-> 0]
  /\ pstate = [c \in Conns |-> "open"]
  /\ sock = [c \in Conns |-> "ok"]
  /\ srv = [c \in Conns |-> "open"]
  /\ phase = Idle
  /\ executed = [c \in Conns |-> <<>>]

Avail(c) == wpos[c] - rpos[c]

(* connection.recv(n): what has arrived, up to n parts. *)
Recv(c, n) == SubSeq(Wire[c], rpos[c] + 1,
                     rpos[c] + (IF n < Avail(c) THEN n ELSE Avail(c)))

(* Mutant: _read run on a connection select() did not report, whose     *)
(* empty recv is taken for end of stream.                                  *)
ReadableAlways(c) == TRUE

(* The selector reports c readable: data, FIN or RST has arrived. *)
Readable(c) == Avail(c) > 0 \/ pstate[c] = "closed" \/ sock[c] = "rst"

(* The parts that form field f of message m, intact. *)
Intact(m, f, n) == [p \in 1..n |-> Part(m, f, p)]

(* got is the whole of field f of message m of c, as its peer wrote it.   *)
Whole(c, m, f, got) ==
  /\ m # 0
  /\ f <= Len(WireFields(Script[c][m].op))
  /\ got = Intact(m, f, WireParts(Script[c][m].op, f))

(************************** The server (src/server) ************************)

(* RequestHeader.SIZE: recv size of get_header. *)
HeaderSize == 2

(* Mutant: get_public_key_payload without the recv of the public key.     *)
LayoutNoPubKey(op) == CASE op = OP_SEND_FILE -> <<1, 1, 2>>
                        [] OTHER             -> <<1>>

(* Mutant: get_send_file_payload with one recv too many.                  *)
LayoutExtraField(op) == CASE op = OP_SEND_PUBLIC_KEY -> <<1, 1>>
                          [] op = OP_SEND_FILE       -> <<1, 1, 2, 1>>
                          [] OTHER                   -> <<1>>

(* infer_payload: the recv sizes the get_*_payload reader of each opcode *)
(* asks for, in order (826: name, key; 828: sizes, name, ciphertext).     *)
Layout(op) == CASE op = OP_SEND_PUBLIC_KEY -> <<1, 1>>
                [] op = OP_SEND_FILE       -> <<1, 1, 2>>
                [] OTHER                   -> <<1>>

(* unpack_request_header: the opcode of an intact header is the one the   *)
(* peer wrote; parts of anything else decode to an arbitrary code.  Codes *)
(* with the same recv layout behave alike, so one stands for each.       *)
ParsedCodes(c, got) ==
  IF got = Intact(got[1].m, 0, HeaderSize) THEN {Script[c][got[1].m].op}
  ELSE {825, OP_SEND_PUBLIC_KEY, OP_SEND_FILE, InvalidCode}

(* The payload_size field of a parsed header, as a declared ciphertext    *)
(* size: the peer's for an intact header, anything for misframed bytes.  *)
DeclaredSizesOf(c, got) ==
  IF got = Intact(got[1].m, 0, HeaderSize) THEN {Script[c][got[1].m].size}
  ELSE DeclaredSizes

(* Mutant: _read without the is_valid_header check.                      *)
IsValidCodeAny(op) == TRUE

(* is_valid_request_code *)
IsValidCode(op) == op \in PossibleCodes

(* close_connection: unregister and close. *)
CloseConn(c) ==
  /\ srv' = [srv EXCEPT ![c] = "closed"]
  /\ UNCHANGED <<running, sock>>

(* An exception other than ConnectionResetError/ConnectionAbortedError    *)
(* leaves _read and Server.start: the process ends.                       *)
Crash ==
  /\ running' = FALSE
  /\ UNCHANGED <<srv, sock>>

(* send_response.  To a peer that closed, the bytes are accepted and the  *)
(* peer answers with RST.  Once the RST has arrived, send raises           *)
(* ConnectionResetError (caught in _read: close) or BrokenPipeError (not  *)
(* caught), depending on whether the pending socket error was already     *)
(* consumed.                                                               *)
Send(c) ==
  \/ /\ sock[c] = "rst"
     /\ CloseConn(c) \/ Crash
  \/ /\ sock[c] # "rst"
     /\ sock' = IF pstate[c] = "closed" THEN [sock EXCEPT ![c] = "rstPending"]
                                       ELSE sock
     /\ UNCHANGED <<running, srv>>

(* Mutant: a connection with an invalid opcode is closed, not answered.   *)
RejectHeaderCloses(c) == CloseConn(c)

(* _read on an invalid code: a 1607 is sent and _read returns, leaving    *)
(* the payload the header announced unread.                                *)
RejectHeader(c) == Send(c)

(* _read up to infer_payload: get_header (recv(SIZE); close on no data),  *)
(* unpack_request_header (struct.error on a short header), is_valid_header.*)
StartRead(c) ==
  /\ running /\ phase = Idle /\ srv[c] = "open" /\ Readable(c)
  /\ LET got == Recv(c, HeaderSize)
     IN  \/ /\ got = <<>>
            /\ CloseConn(c)
            /\ UNCHANGED <<rpos, phase>>
         \/ /\ 0 < Len(got) /\ Len(got) < HeaderSize
            /\ Crash
            /\ UNCHANGED <<rpos, phase>>
         \/ /\ Len(got) = HeaderSize
            /\ rpos' = [rpos EXCEPT ![c] = @ + HeaderSize]
            /\ \E op \in ParsedCodes(c, got) :
                 IF IsValidCode(op)
                 THEN /\ \E sz \in DeclaredSizesOf(c, got) :
                           phase' = [conn |-> c, op |-> op, f |-> 1, size |-> sz,
                                     m |-> IF got = Intact(got[1].m, 0, HeaderSize)
                                           THEN got[1].m ELSE 0]
                      /\ UNCHANGED <<running, srv, sock>>
                 ELSE RejectHeader(c) /\ UNCHANGED phase
  /\ UNCHANGED <<wpos, pstate, executed>>

(* The recv size of the current field: fixed by the reader, except the    *)
(* ciphertext of a send-file, encrypted_file_size = header.payload_size - *)
(* 4 - 4 - 2 - 2 - 255, which nothing checks.                             *)
RecvSize(ph) ==
  IF ph.op = OP_SEND_FILE /\ ph.f = 3 THEN ph.size ELSE Layout(ph.op)[ph.f]

(* The get_*_payload reader's recv of the next field.  recv(0) returns   *)
(* b"" at once; recv of a negative size raises ValueError, which _read   *)
(* does not catch.  At end of stream recv returns b"": a name decodes to  *)
(* "", the sizes of a send-file fail in struct.unpack.  Once the RST has  *)
(* arrived recv raises ConnectionResetError, caught in _read.             *)
RecvField(c) ==
  /\ running /\ phase.conn = c /\ phase.f <= Len(Layout(phase.op))
  /\ LET n == RecvSize(phase)
         got == Recv(c, n)
     IN  \/ /\ n < 0
            /\ Crash
            /\ phase' = Idle /\ UNCHANGED rpos
         \/ /\ n >= 0 /\ (got # <<>> \/ n = 0)
            /\ rpos' = [rpos EXCEPT ![c] = @ + Len(got)]
            /\ phase' = [phase EXCEPT !.f = @ + 1,
                           !.m = IF Whole(c, @, phase.f, got) THEN @ ELSE 0]
            /\ UNCHANGED <<running, srv, sock>>
         \/ /\ n > 0 /\ got = <<>> /\ sock[c] = "rst"
            /\ CloseConn(c)
            /\ phase' = Idle /\ UNCHANGED rpos
         \/ /\ n > 0 /\ got = <<>> /\ sock[c] # "rst" /\ pstate[c] = "closed"
            /\ IF phase.op = OP_SEND_FILE /\ phase.f = 1
               THEN Crash /\ phase' = Idle
               ELSE /\ phase' = [phase EXCEPT !.f = @ + 1, !.m = 0]
                    /\ UNCHANGED <<running, srv, sock>>
            /\ UNCHANGED rpos
  /\ UNCHANGED <<wpos, pstate, executed>>

(* _read after infer_payload: request.execute(), and send_response when  *)
(* it returned a response.                                                 *)
Finish(c) ==
  /\ running /\ phase.conn = c /\ phase.f > Len(Layout(phase.op))
  /\ executed' = [executed EXCEPT ![c] = Append(@, phase.m)]
  /\ phase' = Idle
  /\ IF phase.m # 0
     THEN IF Script[c][phase.m].reply THEN Send(c)
          ELSE UNCHANGED <<running, srv, sock>>
     ELSE \/ Send(c)
          \/ UNCHANGED <<running, srv, sock>>
          \/ Crash
  /\ UNCHANGED <<wpos, rpos, pstate>>

(**************************** The peers and TCP ***************************)

(* A segment of what the peer wrote arrives. *)
PeerWrite(c) ==
  /\ pstate[c] = "open"
  /\ \E k \in (wpos[c] + 1)..Len(Wire[c]) :
       ChunkEnd(c, k) /\ wpos' = [wpos EXCEPT ![c] = k]
  /\ UNCHANGED <<running, rpos, pstate, sock, srv, phase, executed>>

AtBoundary(c) ==
  IF wpos[c] = Len(Wire[c]) THEN TRUE
  ELSE Wire[c][wpos[c] + 1] = Part(Wire[c][wpos[c] + 1].m, 0, 1)

(* The peer closes its socket (FIN); what it had not written is lost.     *)
PeerClose(c) ==
  /\ pstate[c] = "open"
  /\ CloseMidMessage \/ AtBoundary(c)
  /\ pstate' = [pstate EXCEPT ![c] = "closed"]
  /\ UNCHANGED <<running, wpos, rpos, sock, srv, phase, executed>>

(* The RST the closed peer answered a response with arrives. *)
RstArrives(c) ==
  /\ sock[c] = "rstPending"
  /\ sock' = [sock EXCEPT ![c] = "rst"]
  /\ UNCHANGED <<running, wpos, rpos, pstate, srv, phase, executed>>

Next ==
  \E c \in Conns :
    \/ StartRead(c) \/ RecvField(c) \/ Finish(c)
    \/ PeerWrite(c) \/ PeerClose(c) \/ RstArrives(c)

(* Server.start calls select() and runs the callback of every connection  *)
(* it reports ready, so a connection that stays readable is read; a        *)
(* started _read runs on unless recv blocks.  Peers finish what they       *)
(* write and eventually close only under PeersFinish.                      *)
Fairness ==
  \A c \in Conns :
    /\ WF_vars(StartRead(c)) /\ WF_vars(RecvField(c)) /\ WF_vars(Finish(c))
    /\ WF_vars(RstArrives(c))
    /\ IF PeersFinish THEN WF_vars(PeerWrite(c)) /\ WF_vars(PeerClose(c))
                      ELSE TRUE

Spec == Init /\ [][Next]_vars /\ Fairness

-----------------------------------------------------------------------------
Written(c, m) == \A i \in DOMAIN Wire[c] : Wire[c][i].m <= m => i <= wpos[c]
Consumed(c, m) == \A i \in DOMAIN Wire[c] : Wire[c][i].m <= m => i <= rpos[c]
Served(c, m) == \E i \in DOMAIN executed[c] : executed[c][i] = m

(* Framing (spec.md 4.6: exactly one header, then exactly payload_size   *)
(* bytes): the i-th request _read executes on a connection is the i-th    *)
(* request its peer wrote, intact.                                         *)
Framing == \A c \in Conns : executed[c] = [i \in 1..Len(executed[c]) |-> i]

(* Every request that has fully arrived is eventually executed, unless   *)
(* its peer reset the connection or the server died (spec.md 5: no        *)
(* blocking point may stall the accept loop indefinitely).                 *)
RequestsServed ==
  \A c \in Conns : \A m \in 1..Len(Script[c]) :
    Written(c, m) ~> (Served(c, m) \/ ~running \/ sock[c] = "rst")

(* Every request that has arrived is eventually read off the socket by   *)
(* _read, unless the peer reset or the server died: no connection is left *)
(* with unread bytes.                                                      *)
RequestsRead ==
  \A c \in Conns : \A m \in 1..Len(Script[c]) :
    Written(c, m) ~> (Consumed(c, m) \/ ~running \/ sock[c] = "rst")

(* No bytes a peer sends, and no way it leaves, end the server process    *)
(* (_read catches only ConnectionResetError/ConnectionAbortedError).       *)
ServerSurvives == running

(* Refinement: the code, with the framing it gets right, implements the   *)
(* promise of RequestChannel.  A request counts as arrived once all its   *)
(* parts have; the peer has left once it sent FIN.  Parts in flight, the  *)
(* read position, the _read in progress and the RST are internal.         *)
Chan == INSTANCE RequestChannel
          WITH Depth <- [c \in Conns |-> Len(Script[c])],
               arrived <- [c \in Conns |->
                            Cardinality({m \in 1..Len(Script[c]) : Written(c, m)})],
               done <- executed,
               alive <- running,
               accepting <- [c \in Conns |-> srv[c] = "open"],
               peerGone <- [c \in Conns |-> pstate[c] = "closed"]

(* Stream implements RequestChannel: every request is executed once, in   *)
(* order, after all its bytes arrived, and eventually when it can be;     *)
(* close_connection and a process-ending exception only follow a peer's   *)
(* FIN (the _read/get_header/send_response paths of server.py and         *)
(* network_manager.py).                                                    *)
ChannelRefinement == Chan!ChannelSpec

=============================================================================
