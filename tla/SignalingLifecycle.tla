-------------------------- MODULE SignalingLifecycle --------------------------
(***************************************************************************)
(* What SignalingClient.ts promises its observers: the events of one        *)
(* connection come in order, connections follow each other, and a request   *)
(* waits only while a connection is being closed.  phase is what an          *)
(* observer has heard of the current connection.                             *)
(***************************************************************************)
EXTENDS Naturals

VARIABLES
  phase,       \* the last lifecycle event: Connecting, Open, Failed, Closing; none
  attempts,    \* WebSocketConnecting events so far
  ends,        \* WebSocketClosed events so far
  waiting      \* requests not yet tried

vars == <<phase, attempts, ends, waiting>>

Init == phase = "none" /\ attempts = 0 /\ ends = 0 /\ waiting = 0

(* openConnection without a connection tries at once. *)
RequestTried ==
  /\ phase = "none"
  /\ phase' = "connecting"
  /\ attempts' = attempts + 1
  /\ UNCHANGED <<ends, waiting>>

(* openConnection with a connection, and closeConnection. *)
Closing(requests) ==
  /\ phase # "none"
  /\ phase' = "closing"
  /\ waiting' = waiting + requests
  /\ UNCHANGED <<attempts, ends>>

Opened ==
  /\ phase = "connecting"
  /\ phase' = "open"
  /\ UNCHANGED <<attempts, ends, waiting>>

Failed ==
  /\ phase = "connecting"
  /\ phase' = "failed"
  /\ UNCHANGED <<attempts, ends, waiting>>

(* WebSocketClosed, followed at once by the next attempt if one waits. *)
Closed ==
  /\ phase \in {"open", "failed", "closing"}
  /\ ends' = ends + 1
  /\ IF waiting > 0
     THEN phase' = "connecting" /\ attempts' = attempts + 1 /\ waiting' = waiting - 1
     ELSE phase' = "none" /\ UNCHANGED <<attempts, waiting>>

Next == RequestTried \/ Closing(0) \/ Closing(1) \/ Opened \/ Failed \/ Closed

Spec == Init /\ [][Next]_vars

=============================================================================
