------------------------------ MODULE MCStream ------------------------------
(***************************************************************************)
(* Instances of Stream: two connections, each with a short script of      *)
(* pipelined requests.                                                     *)
(***************************************************************************)
EXTENDS Stream, MCCodec

CONSTANTS c1, c2

(* A request whose header declares the payload its peer writes.          *)
Req(op, reply) == [op |-> op, reply |-> reply, size |-> 2]

(* c1 pipelines a send-public-key and a register (both answered); c2     *)
(* uploads a file in two fragments (only the last one answered).          *)
MCScriptBenign ==
  (c1 :> <<Req(826, TRUE), Req(825, TRUE)>>) @@
  (c2 :> <<Req(828, FALSE), Req(828, TRUE)>>)

(* c1 sends a request with an opcode the server does not know, then a    *)
(* register; c2 uploads a file in one fragment.                           *)
MCScriptInvalid ==
  (c1 :> <<Req(InvalidCode, TRUE), Req(825, TRUE)>>) @@
  (c2 :> <<Req(828, TRUE)>>)

----------------------------------------------------------------------------
(* Every request the server has executed, whatever a conforming client     *)
(* put in its fields (names of at most 254 non-zero bytes, spec.md 2), was *)
(* decoded by unpack_request_header, the get_*_payload reader of its       *)
(* opcode and remove_null into exactly the fields the client encoded: no   *)
(* byte of a name, key or ciphertext is lost, kept or shifted.             *)
RequestsDecode ==
  \A c \in Conns : \A i \in DOMAIN executed[c] :
    LET op == Script[c][executed[c][i]].op
    IN  op \in RequestCodes => MCRequestCodecOK[op]

=============================================================================
