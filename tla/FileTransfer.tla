---------------------------- MODULE FileTransfer ----------------------------
(***************************************************************************)
(* The server (module Server) together with the client programs that use *)
(* it.  The client is not part of this repository; it is the environment *)
(* and follows the protocol of spec.md section 4.5: register, send its    *)
(* public key, send its file in ordered fragments on one connection,      *)
(* answer the 1603 checksum with 900, 901 (and upload again) or 902, and  *)
(* reconnect after a restart.  A client may quit at any moment (process  *)
(* exit, or abandoning a connection after an unexpected response): its   *)
(* socket is closed with FIN, so what it had already sent is still read  *)
(* and executed by the server.                                            *)
(***************************************************************************)
EXTENDS Server

CONSTANTS
  Users,      \* client programs
  NameOf,     \* Users -> Names
  FileOf,     \* Users -> FileNames: the file each client uploads
  ContentOf,  \* Users -> Contents:  its plaintext
  MaxPackets, \* bound on total_packets of an upload
  MaxTries,   \* uploads a client retries after a 1603 with a wrong CRC
  RogueRequests \* requests a misbehaving peer may send ({} for none)

ASSUME NameOf \in [Users -> Names] /\ FileOf \in [Users -> FileNames]
ASSUME ContentOf \in [Users -> Contents]
ASSUME MaxPackets \in Nat \ {0} /\ MaxTries \in Nat
ASSUME RogueRequests \subseteq Request

VARIABLES
  cl,         \* u -> the client's own state
  keyReqs,    \* 826 and 827 requests sent so far (bounded by MaxKeys)
  confirmed   \* history: <<path, content>> the owner sent a 900 for

vars == <<dispVars, serverVars, cl, keyReqs, confirmed>>

Stages == {"start", "registered", "keyed", "uploading", "await", "failed"}

ClientState ==
  [id : Ids \cup {None}, key : Keys \cup {None}, stage : Stages,
   await : PossibleCodes \cup {None}, conn : Conns \cup {None},
   next : 0..MaxPackets, total : 0..MaxPackets, tries : 0..MaxTries]

TypeOK ==
  /\ ServerTypeOK
  /\ cl \in [Users -> ClientState]
  /\ keyReqs \in 0..MaxKeys
  /\ confirmed \subseteq Path \X Contents

Init ==
  /\ ServerInit
  /\ cl = [u \in Users |-> [id |-> None, key |-> None, stage |-> "start",
                            await |-> None, conn |-> None, next |-> 0,
                            total |-> 0, tries |-> 0]]
  /\ keyReqs = 0
  /\ confirmed = {}

(***************************** client side ********************************)

DefaultPub == CHOOSE pk \in ValidPubKeys : TRUE

Req(u, op) ==
  [op |-> op, id |-> cl[u].id, name |-> NameOf[u], pub |-> DefaultPub,
   fname |-> FileOf[u], piece |-> Plain(ContentOf[u]), no |-> 0, total |-> 0,
   csize |-> 1]

FragReq(u, i, n) ==
  [Req(u, OP_SEND_FILE) EXCEPT !.piece = Frag(cl[u].key, ContentOf[u], i, n),
                               !.no = i, !.total = n]

CanSend(u) == cl[u].conn # None /\ cstate[cl[u].conn] = "open"

Send(u, r) == inbox' = [inbox EXCEPT ![cl[u].conn] = Append(@, r)]

Await(u, op) == cl' = [cl EXCEPT ![u].stage = "await", ![u].await = op]

(* The responses a client accepts for the request it awaits.              *)
Expected ==
  {<<OP_REGISTER, CODE_REGISTER_SUCCESS>>, <<OP_REGISTER, CODE_REGISTER_FAILURE>>,
   <<OP_SEND_PUBLIC_KEY, CODE_SEND_AES>>,
   <<OP_SEND_PUBLIC_KEY, CODE_REGISTER_FAILURE>>,
   <<OP_RECONNECT, CODE_RECONNECT_SUCCESS>>,
   <<OP_RECONNECT, CODE_RECONNECT_FAILURE>>,
   <<OP_SEND_FILE, CODE_ACCEPTED_FILE>>,
   <<OP_CRC_OK, CODE_MESSAGE_CONFIRM>>, <<OP_CRC_TERMINATE, CODE_MESSAGE_CONFIRM>>}

Connect(u) ==
  /\ running
  /\ cl[u].conn = None /\ cl[u].stage # "failed"
  /\ \E c \in Conns :
       /\ cstate[c] = "free"
       /\ cstate' = [cstate EXCEPT ![c] = "open"]
       /\ cl' = [cl EXCEPT ![u].conn = c]
  /\ UNCHANGED <<dispVars, running, inbox, outbox, delivered, keyReqs, confirmed>>

ClientRegister(u) ==
  /\ CanSend(u) /\ cl[u].stage = "start" /\ cl[u].id = None
  /\ Send(u, Req(u, OP_REGISTER))
  /\ Await(u, OP_REGISTER)
  /\ UNCHANGED <<dispVars, running, cstate, outbox, delivered, keyReqs, confirmed>>

ClientReconnect(u) ==
  /\ CanSend(u) /\ cl[u].stage = "start" /\ cl[u].id # None
  /\ keyReqs < MaxKeys
  /\ Send(u, Req(u, OP_RECONNECT))
  /\ Await(u, OP_RECONNECT)
  /\ keyReqs' = keyReqs + 1
  /\ UNCHANGED <<dispVars, running, cstate, outbox, delivered, confirmed>>

ClientSendPublicKey(u) ==
  /\ CanSend(u) /\ cl[u].stage = "registered"
  /\ keyReqs < MaxKeys
  /\ \E pk \in PubKeys :
       Send(u, [Req(u, OP_SEND_PUBLIC_KEY) EXCEPT !.pub = pk])
  /\ Await(u, OP_SEND_PUBLIC_KEY)
  /\ keyReqs' = keyReqs + 1
  /\ UNCHANGED <<dispVars, running, cstate, outbox, delivered, confirmed>>

(* The client begins an upload of its file in n fragments.                *)
StartUpload(u) ==
  /\ CanSend(u) /\ cl[u].stage = "keyed"
  /\ \E n \in 1..MaxPackets :
       cl' = [cl EXCEPT ![u].stage = "uploading", ![u].next = 1, ![u].total = n]
  /\ UNCHANGED <<dispVars, serverVars, keyReqs, confirmed>>

(* Fragments are sent back to back; only the last one is answered.        *)
SendFragment(u) ==
  /\ CanSend(u) /\ cl[u].stage = "uploading"
  /\ Send(u, FragReq(u, cl[u].next, cl[u].total))
  /\ IF cl[u].next = cl[u].total THEN Await(u, OP_SEND_FILE)
     ELSE cl' = [cl EXCEPT ![u].next = @ + 1]
  /\ UNCHANGED <<dispVars, running, cstate, outbox, delivered, keyReqs, confirmed>>

(* A misbehaving peer: it connects, sends one well-formed request from    *)
(* RogueRequests and closes without reading the answer.                   *)
RogueSend ==
  /\ running
  /\ \E c \in Conns, r \in RogueRequests :
       /\ cstate[c] = "free"
       /\ cstate' = [cstate EXCEPT ![c] = "closing"]
       /\ inbox' = [inbox EXCEPT ![c] = <<r>>]
       /\ IF r.op \in {OP_SEND_PUBLIC_KEY, OP_RECONNECT}
          THEN keyReqs < MaxKeys /\ keyReqs' = keyReqs + 1
          ELSE UNCHANGED keyReqs
  /\ UNCHANGED <<dispVars, running, outbox, delivered, cl, confirmed>>

(* The client's state after its connection is gone: its AES key was only *)
(* held in memory; its id survives (me.info).                            *)
Gone(s) == [s EXCEPT !.conn = None, !.key = None, !.await = None,
                     !.stage = IF s.stage = "failed" THEN "failed" ELSE "start"]

(* The client process quits or gives up on the connection.                *)
Quit(u) ==
  /\ CanSend(u)
  /\ cstate' = [cstate EXCEPT ![cl[u].conn] = "closing"]
  /\ cl' = [cl EXCEPT ![u] = Gone(@)]
  /\ UNCHANGED <<dispVars, running, inbox, outbox, delivered, keyReqs, confirmed>>

(* The client finds its connection reset by a server that died.           *)
NoticeClosed(u) ==
  /\ cl[u].conn # None
  /\ cstate[cl[u].conn] = "closed" /\ outbox[cl[u].conn] = <<>>
  /\ cl' = [cl EXCEPT ![u] = Gone(@)]
  /\ UNCHANGED <<dispVars, serverVars, keyReqs, confirmed>>

(* The client reads the next response and reacts to it.  A response it    *)
(* did not ask for makes it drop the connection.                           *)
Receive(u) ==
  LET c == cl[u].conn
      rsp == Head(outbox[c])
      s == cl[u]
      Expect(op, code) == s.stage = "await" /\ s.await = op /\ rsp.code = code
      Become(st) == cl' = [cl EXCEPT ![u].stage = st, ![u].await = None]
      Rest == <<dispVars, running, cstate, delivered, keyReqs>>
  IN
  /\ c # None /\ outbox[c] # <<>>
  /\ outbox' = [outbox EXCEPT ![c] = Tail(@)]
  /\ \/ /\ Expect(OP_REGISTER, CODE_REGISTER_SUCCESS)
        /\ cl' = [cl EXCEPT ![u].id = rsp.id, ![u].stage = "registered",
                            ![u].await = None]
        /\ UNCHANGED <<Rest, inbox, confirmed>>
     \/ /\ Expect(OP_REGISTER, CODE_REGISTER_FAILURE)
        /\ Become("failed")
        /\ UNCHANGED <<Rest, inbox, confirmed>>
     \/ /\ Expect(OP_SEND_PUBLIC_KEY, CODE_REGISTER_FAILURE)
        /\ Become("registered")
        /\ UNCHANGED <<Rest, inbox, confirmed>>
     \/ /\ \/ Expect(OP_SEND_PUBLIC_KEY, CODE_SEND_AES)
           \/ Expect(OP_RECONNECT, CODE_RECONNECT_SUCCESS)
        /\ cl' = [cl EXCEPT ![u].key = rsp.key, ![u].stage = "keyed",
                            ![u].await = None]
        /\ UNCHANGED <<Rest, inbox, confirmed>>
     \/ /\ Expect(OP_RECONNECT, CODE_RECONNECT_FAILURE)
        /\ cl' = [cl EXCEPT ![u].id = None, ![u].stage = "start",
                            ![u].await = None]
        /\ UNCHANGED <<Rest, inbox, confirmed>>
     \/ /\ Expect(OP_SEND_FILE, CODE_ACCEPTED_FILE)
        /\ rsp.crc = Checksum[ContentOf[u]]
        /\ Send(u, Req(u, OP_CRC_OK))
        /\ Await(u, OP_CRC_OK)
        /\ confirmed' = confirmed \cup {<<GetPath(s.id, FileOf[u]), ContentOf[u]>>}
        /\ UNCHANGED Rest
     \/ /\ Expect(OP_SEND_FILE, CODE_ACCEPTED_FILE)
        /\ rsp.crc # Checksum[ContentOf[u]] /\ s.tries < MaxTries
        /\ Send(u, Req(u, OP_CRC_NOT_OK))
        /\ cl' = [cl EXCEPT ![u].stage = "keyed", ![u].await = None,
                            ![u].tries = @ + 1]
        /\ UNCHANGED <<Rest, confirmed>>
     \/ /\ Expect(OP_SEND_FILE, CODE_ACCEPTED_FILE)
        /\ rsp.crc # Checksum[ContentOf[u]] /\ s.tries = MaxTries
        /\ Send(u, Req(u, OP_CRC_TERMINATE))
        /\ Await(u, OP_CRC_TERMINATE)
        /\ UNCHANGED <<Rest, confirmed>>
     \/ /\ \/ Expect(OP_CRC_OK, CODE_MESSAGE_CONFIRM)
           \/ Expect(OP_CRC_TERMINATE, CODE_MESSAGE_CONFIRM)
        /\ cl' = [cl EXCEPT ![u].stage = "keyed", ![u].await = None,
                            ![u].tries = 0]
        /\ UNCHANGED <<Rest, inbox, confirmed>>
     \/ /\ ~(s.stage = "await" /\ <<s.await, rsp.code>> \in Expected)
        /\ cstate' = [cstate EXCEPT ![c] = IF @ = "open" THEN "closing" ELSE @]
        /\ cl' = [cl EXCEPT ![u] = Gone(@)]
        /\ UNCHANGED <<dispVars, running, delivered, keyReqs, inbox, confirmed>>

(******************************* system ***********************************)

Next ==
  \/ /\ \/ \E c \in Conns : Read(c) \/ PeerLeft(c)
        \/ Restart
     /\ UNCHANGED <<cl, keyReqs, confirmed>>
  \/ RogueSend
  \/ \E u \in Users :
       \/ Connect(u) \/ ClientRegister(u) \/ ClientReconnect(u)
       \/ ClientSendPublicKey(u) \/ StartUpload(u) \/ SendFragment(u)
       \/ Quit(u) \/ NoticeClosed(u) \/ Receive(u)

(* Server.start's select() reports every ready socket on each iteration  *)
(* and _read handles each of them: a request that has arrived is read, a  *)
(* connection whose peer closed is closed.  A client that waits for a     *)
(* response is blocked in recv, so it reads the response, or the reset of *)
(* a server that died, once it is there.  Nothing obliges a client to     *)
(* send, quit or reconnect, nor the operator to restart the server.       *)
Fairness ==
  /\ \A c \in Conns :
       /\ WF_vars(Read(c) /\ UNCHANGED <<cl, keyReqs, confirmed>>)
       /\ WF_vars(PeerLeft(c) /\ UNCHANGED <<cl, keyReqs, confirmed>>)
  /\ \A u \in Users :
       /\ WF_vars(cl[u].stage = "await" /\ Receive(u))
       /\ WF_vars(cl[u].stage = "await" /\ NoticeClosed(u))

Spec == Init /\ [][Next]_vars /\ Fairness

(****************************** properties **********************************)

(* The request the server executes in this step on connection c.          *)
Executes(c, op) ==
  /\ inbox[c] # <<>> /\ Head(inbox[c]).op = op
  /\ running' /\ inbox' = [inbox EXCEPT ![c] = Tail(@)]

(* Two clients never share a name (create_client's name check), across    *)
(* re-registrations after 1606 and server restarts.                        *)
NameUnique ==
  \A i, j \in DOMAIN clients : i # j => clients[i].name # clients[j].name

(* A registered client's row is never replaced: the id create_client      *)
(* hands out is one no other client holds (the generate_uuid retry loop). *)
ClientRecordsStable ==
  [][\A id \in DOMAIN clients :
       id \in DOMAIN clients' /\ clients'[id].name = clients[id].name]_vars

(* The verified flag of a file row changes only as spec.md 3 and 8.7 say: *)
(* it becomes TRUE only when the owner's 900 for that file is executed,   *)
(* and it is FALSE again whenever an upload of the file completes (the    *)
(* INSERT OR REPLACE of create_file); 901 and 902 never set it.           *)
VerificationGate ==
  [][\A p \in DOMAIN files' :
       LET was == p \in DOMAIN files /\ files[p].verified
       IN  /\ (files'[p].verified /\ ~was) =>
                \E c \in Conns : Executes(c, OP_CRC_OK)
                               /\ GetPath(Head(inbox[c]).id, Head(inbox[c]).fname) = p
           /\ (\E c \in Conns : Executes(c, OP_SEND_FILE)
                               /\ response' # NoReply
                               /\ response'.code = CODE_ACCEPTED_FILE
                               /\ GetPath(Head(inbox[c]).id, Head(inbox[c]).fname) = p)
                => ~files'[p].verified]_vars

(* The AES key stored for a client is the one send_response sent to it,  *)
(* wrapped under its public key, in the 1602 or 1605 of the handler that  *)
(* stored it: the key wrapped and the key stored are the same, in         *)
(* send_public_key and in reconnect, whichever requests of rogue peers or *)
(* stale connections run in between.  Sent is not read: a peer that has   *)
(* closed never reads it.  Excepted is a public key that cannot wrap:     *)
(* there reconnect stores the new key before it wraps it and answers 1606 *)
(* (request.py:159, as spec.md 4.5 prescribes), so the stored key is sent *)
(* to nobody.                                                              *)
StoredKeyDelivered ==
  \A id \in DOMAIN clients :
    clients[id].aes # None =>
      \/ <<id, clients[id].aes>> \in delivered
      \/ clients[id].pub \notin ValidPubKeys

(* spec.md 8.4 (basename sandbox): a send-file changes only files in the  *)
(* directory of the client id in its header, whatever its file name;     *)
(* save_in_dir basenames the name, decrypt_file opens get_path, which    *)
(* does not.                                                               *)
Sandbox ==
  [][\A c \in Conns :
       Executes(c, OP_SEND_FILE) =>
         \A loc \in DOMAIN disk' :
           (loc \notin DOMAIN disk \/ disk'[loc] # disk[loc])
             => loc[1] = Head(inbox[c]).id]_vars

(* Every request a client waits on is answered (spec.md 4.5: 825, 826,   *)
(* 827, the last 828, 900 and 902 each get a response): a client waiting  *)
(* for a response eventually stops waiting, through infer_payload's       *)
(* routing, the handler and send_response, unless the server process has *)
(* died in between.                                                        *)
AwaitAnswered ==
  \A u \in Users : cl[u].stage = "await" ~> (cl[u].stage # "await" \/ ~running)

(* spec.md 7: no error kills the server process.                          *)
NoServerCrash == running

(* spec.md 4.5: a crc-not-ok (901) produces no response.                  *)
CrcNotOkSilent ==
  [][\A c \in Conns : Executes(c, OP_CRC_NOT_OK) => response' = NoReply]_vars

(* A file row marked verified holds, on disk, exactly the content its     *)
(* owner confirmed with a 900.                                             *)
VerifiedMeansIntact ==
  \A p \in DOMAIN files :
    files[p].verified =>
      /\ p \in DOMAIN disk
      /\ \E x \in Contents : disk[p] = <<Plain(x)>> /\ <<p, x>> \in confirmed

=============================================================================
