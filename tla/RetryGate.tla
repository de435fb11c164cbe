------------------------------ MODULE RetryGate ------------------------------
(***************************************************************************)
(* What a session may rely on from its reconnect controller, without the    *)
(* clock: whether a retry is still allowed, whether a connection attempt is *)
(* under way, and how many backoff timers are running.  Only the last timer *)
(* armed is remembered (`armed`) and can be stopped; one that was still     *)
(* running when the next was armed is an orphan.                            *)
(* ReconnectController implements this module.                              *)
(***************************************************************************)
EXTENDS Naturals

CONSTANT MaxOrphans  \* bound on forgotten timers

VARIABLES shouldReconnect, attempted, pastDeadline, armed, orphans

gateVars == <<shouldReconnect, attempted, pastDeadline, armed, orphans>>

GateInit ==
  /\ shouldReconnect = TRUE
  /\ attempted = FALSE
  /\ pastDeadline = FALSE
  /\ armed = FALSE
  /\ orphans = 0

(* reset: the remembered timer is stopped and the deadline starts afresh.    *)
Reset ==
  /\ shouldReconnect' = TRUE
  /\ attempted' = FALSE
  /\ pastDeadline' = FALSE
  /\ armed' = FALSE
  /\ UNCHANGED orphans

(* reset followed by startedConnectionAttempt, as a first start does.        *)
ResetAndAttempt ==
  /\ shouldReconnect' = TRUE
  /\ attempted' = TRUE
  /\ pastDeadline' = FALSE
  /\ armed' = FALSE
  /\ UNCHANGED orphans

Attempt ==
  /\ attempted' = TRUE
  /\ UNCHANGED <<shouldReconnect, pastDeadline, armed, orphans>>

Disable ==
  /\ shouldReconnect' = FALSE
  /\ UNCHANGED <<attempted, pastDeadline, armed, orphans>>

Cancel ==
  /\ shouldReconnect' = FALSE
  /\ armed' = FALSE
  /\ UNCHANGED <<attempted, pastDeadline, orphans>>

WillRetry == shouldReconnect /\ ~pastDeadline

(* retryWithBackoff when it will retry; a running timer becomes an orphan.   *)
Retry ==
  /\ WillRetry
  /\ orphans' = orphans + (IF armed THEN 1 ELSE 0)
  /\ orphans' <= MaxOrphans
  /\ armed' = TRUE
  /\ UNCHANGED <<shouldReconnect, attempted, pastDeadline>>

TimerFires ==
  /\ \/ armed /\ armed' = FALSE /\ UNCHANGED orphans
     \/ orphans > 0 /\ orphans' = orphans - 1 /\ UNCHANGED armed
  /\ UNCHANGED <<shouldReconnect, attempted, pastDeadline>>

DeadlinePasses ==
  /\ ~pastDeadline
  /\ pastDeadline' = TRUE
  /\ UNCHANGED <<shouldReconnect, attempted, armed, orphans>>

(* A pong moves the last active time; the time spent on an attempt stays.    *)
DeadlineLifts ==
  /\ pastDeadline
  /\ pastDeadline' = FALSE
  /\ UNCHANGED <<shouldReconnect, attempted, armed, orphans>>

GateNext ==
  \/ Reset \/ Attempt \/ Disable \/ Cancel \/ Retry \/ TimerFires
  \/ DeadlinePasses \/ DeadlineLifts

GateSpec == GateInit /\ [][GateNext]_gateVars
=============================================================================
