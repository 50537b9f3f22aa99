--------------------------- MODULE MCFileTransfer ---------------------------
(* Model constants for FileTransfer: two clients with distinct names,     *)
(* each uploading its own file, one public key that RSA accepts and one   *)
(* it rejects.                                                             *)
EXTENDS FileTransfer, MCCodec

CONSTANTS u1, u2, n1, n2, f1, f2, p1, p2, goodPub, badPub, i2, t

MCNameOf == [u \in Users |-> IF u = u1 THEN n1 ELSE n2]
MCFileOf == [u \in Users |-> IF u = u1 THEN f1 ELSE f2]
MCContentOf == [u \in Users |-> IF u = u1 THEN p1 ELSE p2]
MCBasename == [f \in FileNames |-> f]
MCNoTraversal == [f \in FileNames |-> None]

(* u1 names its file t = "../i2/f2": the file u2 keeps as f2 if u2 was     *)
(* given the id i2.                                                        *)
MCTraversalFileOf == [u \in Users |-> IF u = u1 THEN t ELSE f2]
MCTraversalBasename == [f \in FileNames |-> IF f = t THEN f2 ELSE f]
MCTraversal == [f \in FileNames |-> IF f = t THEN i2 ELSE None]
(* CRC-32 values of the plaintexts and of garbage; collisions have        *)
(* probability 2^-32 and are left out.                                    *)
MCChecksum == (p1 :> 1) @@ (p2 :> 2) @@ (Garbage :> 3)

(* A peer that claims any id with client u1's name and a valid key, or    *)
(* sends an empty fragment (content_size 0) under any id, or registers  *)
(* the second name.                                                         *)
MCRogueRequests ==
  LET base == [op |-> OP_SEND_PUBLIC_KEY, id |-> None, name |-> n1,
               pub |-> goodPub, fname |-> f1, piece |-> Plain(p1), no |-> 1,
               total |-> 1, csize |-> 1]
  IN  {[base EXCEPT !.id = i] : i \in Ids}
      \cup {[base EXCEPT !.op = OP_SEND_FILE, !.id = i, !.csize = 0] : i \in Ids}
      \cup {[base EXCEPT !.op = OP_REGISTER, !.name = n2]}

MCSymmetry == Permutations(Ids) \cup Permutations(Conns)

----------------------------------------------------------------------------
(* Every response the dispatcher builds, whatever id, wrapped key, name    *)
(* and checksum it carries, is framed by the payload_size request.py       *)
(* declares for it, and the client reads back from the bytes create_packet *)
(* emits exactly the fields the handler put in the response object.        *)
ResponsesParse ==
  response.code \in ResponseCodes => MCResponseCodecOK[response.code]

=============================================================================
