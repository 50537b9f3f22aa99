------------------------------- MODULE Server -------------------------------
(***************************************************************************)
(* The connection server (server.py, network_manager.py): one thread, a   *)
(* selectors loop whose callback Server._read reads one header, reads the *)
(* payload with blocking recv calls, runs Request.execute() and sends the *)
(* response.  Because the loop is single-threaded, one request is handled *)
(* from its header to its response in one step, and requests of          *)
(* different connections interleave only between such steps, in any     *)
(* order the selector reports readiness.                                  *)
(*                                                                         *)
(* Only ConnectionResetError/ConnectionAbortedError are caught in _read;  *)
(* any other exception of execute() leaves Server.start(), main() prints  *)
(* it and the process ends: every connection is lost, the database and   *)
(* the files stay.  Restart is the operator starting the process again.  *)
(***************************************************************************)
EXTENDS Dispatcher

CONSTANT Conns      \* connection slots; each is accepted at most once

VARIABLES
  running,    \* the server process is alive
  cstate,     \* c -> "free" | "open" | "closing" (peer closed) | "closed"
  inbox,      \* c -> requests sent by the peer, not yet read by the server
  outbox,     \* c -> responses sent by the server, not yet read by the peer
  delivered   \* history: <<id, key>> pairs send_response sent in a 1602 or 1605

serverVars == <<running, cstate, inbox, outbox, delivered>>

ConnStates == {"free", "open", "closing", "closed"}

Response == [code : {CODE_REGISTER_SUCCESS, CODE_REGISTER_FAILURE,
                     CODE_SEND_AES, CODE_ACCEPTED_FILE, CODE_MESSAGE_CONFIRM,
                     CODE_RECONNECT_SUCCESS, CODE_RECONNECT_FAILURE,
                     CODE_FAILURE},
             id : Ids \cup {None}, key : Keys \cup {None},
             crc : Nat \cup {None}]

ServerTypeOK ==
  /\ StoreTypeOK
  /\ response \in Response \cup {NoReply, Raised}
  /\ running \in BOOLEAN
  /\ cstate \in [Conns -> ConnStates]
  /\ inbox \in [Conns -> Seq(Request)]
  /\ outbox \in [Conns -> Seq(Response)]
  /\ delivered \subseteq Ids \X Keys

ServerInit ==
  /\ DispatcherInit
  /\ running = TRUE
  /\ cstate = [c \in Conns |-> "free"]
  /\ inbox = [c \in Conns |-> <<>>]
  /\ outbox = [c \in Conns |-> <<>>]
  /\ delivered = {}

Live(c) == cstate[c] \in {"open", "closing"}

(* Server._read on a connection whose next request has fully arrived:     *)
(* infer_payload, execute, and send_response when execute returned one.   *)
(* A response to a peer that has already closed is lost.  An exception    *)
(* out of execute ends the process.                                        *)
Read(c) ==
  /\ running
  /\ Live(c)
  /\ inbox[c] # <<>>
  /\ Execute(Head(inbox[c]))
  /\ IF response' = Raised
     THEN /\ running' = FALSE
          /\ cstate' = [d \in Conns |-> IF cstate[d] = "free" THEN "free"
                                                              ELSE "closed"]
          /\ inbox' = [d \in Conns |-> <<>>]
          /\ UNCHANGED <<outbox, delivered>>
     ELSE /\ inbox' = [inbox EXCEPT ![c] = Tail(@)]
          /\ outbox' = IF response' # NoReply /\ cstate[c] = "open"
                       THEN [outbox EXCEPT ![c] = Append(@, response')]
                       ELSE outbox
          /\ delivered' = IF response' # NoReply
                             /\ response'.code \in {CODE_SEND_AES,
                                                    CODE_RECONNECT_SUCCESS}
                          THEN delivered \cup {<<response'.id, response'.key>>}
                          ELSE delivered
          /\ UNCHANGED <<running, cstate>>

(* NetworkManager.get_header: recv returns no data once the peer has      *)
(* closed and everything it sent has been read; close_connection.         *)
PeerLeft(c) ==
  /\ running
  /\ cstate[c] = "closing"
  /\ inbox[c] = <<>>
  /\ cstate' = [cstate EXCEPT ![c] = "closed"]
  /\ UNCHANGED <<dispVars, running, inbox, outbox, delivered>>

(* main() started again: load_up reads back the tables as they were.      *)
Restart ==
  /\ ~running
  /\ running' = TRUE
  /\ UNCHANGED <<dispVars, cstate, inbox, outbox, delivered>>

=============================================================================
