--------------------------- MODULE RequestChannel ---------------------------
(***************************************************************************)
(* What the connection server promises each peer, with bytes, segments    *)
(* and recv calls abstracted away (spec.md 4.6 and 5): the requests a     *)
(* peer writes arrive whole; the server executes them one at a time, in   *)
(* the order written, each once, and only once it has fully arrived; it   *)
(* stops serving a connection, or stops altogether, only in reaction to a *)
(* peer that has left.  Stream is checked to implement this module.       *)
(***************************************************************************)
EXTENDS Naturals, Sequences

CONSTANTS
  Conns,   \* accepted connections
  Depth    \* c -> how many requests the peer of c writes

VARIABLES
  arrived,   \* c -> number of requests that have fully arrived
  done,      \* c -> the requests executed, by index, in execution order
  alive,     \* the server process runs
  accepting, \* c -> the server still serves c
  peerGone   \* c -> the peer has closed its end

cvars == <<arrived, done, alive, accepting, peerGone>>

ChannelInit ==
  /\ arrived = [c \in Conns |-> 0]
  /\ done = [c \in Conns |-> <<>>]
  /\ alive = TRUE
  /\ accepting = [c \in Conns |-> TRUE]
  /\ peerGone = [c \in Conns |-> FALSE]

(* One or more further requests of a peer that is still there arrive.    *)
Arrive(c) ==
  /\ ~peerGone[c]
  /\ \E k \in (arrived[c] + 1)..Depth[c] : arrived' = [arrived EXCEPT ![c] = k]
  /\ UNCHANGED <<done, alive, accepting, peerGone>>

(* The peer closes its end. *)
Leave(c) ==
  /\ ~peerGone[c]
  /\ peerGone' = [peerGone EXCEPT ![c] = TRUE]
  /\ UNCHANGED <<arrived, done, alive, accepting>>

(* The next request of c is executed.  Replying to a peer that has left   *)
(* may end the connection or the server in the same step.                 *)
Serve(c) ==
  /\ alive /\ accepting[c] /\ Len(done[c]) < arrived[c]
  /\ done' = [done EXCEPT ![c] = Append(@, Len(@) + 1)]
  /\ \/ UNCHANGED <<alive, accepting>>
     \/ peerGone[c] /\ accepting' = [accepting EXCEPT ![c] = FALSE]
                    /\ UNCHANGED alive
     \/ peerGone[c] /\ alive' = FALSE /\ UNCHANGED accepting
  /\ UNCHANGED <<arrived, peerGone>>

(* The server stops serving a connection whose peer has left. *)
Drop(c) ==
  /\ alive /\ accepting[c] /\ peerGone[c]
  /\ accepting' = [accepting EXCEPT ![c] = FALSE]
  /\ UNCHANGED <<arrived, done, alive, peerGone>>

(* The server dies on a connection whose peer has left. *)
Die(c) ==
  /\ alive /\ peerGone[c]
  /\ alive' = FALSE
  /\ UNCHANGED <<arrived, done, accepting, peerGone>>

ChannelNext ==
  \E c \in Conns : Arrive(c) \/ Leave(c) \/ Serve(c) \/ Drop(c) \/ Die(c)

(* A request that can be served is eventually served. *)
ChannelSpec == ChannelInit /\ [][ChannelNext]_cvars
                 /\ \A c \in Conns : WF_cvars(Serve(c))

=============================================================================
