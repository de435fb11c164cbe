------------------------- MODULE ReconnectController -------------------------
(***************************************************************************)
(* DefaultReconnectController with FullJitterBackoff and the backoff        *)
(* TimeoutScheduler: when a lost session may be retried, after how long,    *)
(* and what cancelling does to a pending retry.  Each call of               *)
(* retryWithBackoff that retries makes a new timer, numbered in order;      *)
(* 0 stands for null in backoffTimer and backoffCancel.                     *)
(***************************************************************************)
EXTENDS Naturals, Sequences, FiniteSets

CONSTANTS
  reconnectTimeoutMs,                          \* how long a session may be retried
  fixedWaitMs, shortBackoffMs, longBackoffMs,  \* FullJitterBackoff
  Infinity,                                    \* lastActiveTimestampMs before any pong
  Overlaps,    \* whether a retry may be asked for while one is pending: {FALSE}, {TRUE} or both
  MaxNow,      \* bound on the clock
  MaxTimers    \* bound on the retries of a behaviour

ASSUME TimesAssumption ==
  /\ reconnectTimeoutMs \in Nat \ {0}
  /\ fixedWaitMs \in Nat /\ shortBackoffMs \in Nat /\ longBackoffMs \in Nat
  /\ Infinity \notin Nat
  /\ Overlaps \subseteq BOOLEAN
  /\ MaxNow \in Nat /\ MaxTimers \in Nat

VARIABLES
  now,
  shouldReconnect, onlyRestartPeerConnection,
  firstConnectionAttempted, firstConnectionAttemptTimestampMs, isFirstConnection,
  lastActiveTimestampMs,
  backoffTimer, backoffCancel,
  timers,        \* the timers made so far: [state, at]
  canceled,      \* the timers whose cancelFunc was called
  currentRetry,
  overlap        \* whether that happens in this behaviour, fixed at its start

controllerVars ==
  <<shouldReconnect, onlyRestartPeerConnection, firstConnectionAttempted,
    firstConnectionAttemptTimestampMs, isFirstConnection, lastActiveTimestampMs>>
timerVars == <<backoffTimer, backoffCancel, timers, canceled>>
reconnectVars == <<now, controllerVars, timerVars, currentRetry>>

TimerStates == {"pending", "fired", "stopped"}

Pending == {t \in DOMAIN timers : timers[t].state = "pending"}

ReconnectInit ==
  /\ now = 0
  /\ shouldReconnect = TRUE
  /\ onlyRestartPeerConnection = FALSE
  /\ firstConnectionAttempted = FALSE
  /\ firstConnectionAttemptTimestampMs = 0
  /\ isFirstConnection = TRUE
  /\ lastActiveTimestampMs = Infinity
  /\ backoffTimer = 0 /\ backoffCancel = 0
  /\ timers = <<>>
  /\ canceled = {}
  /\ currentRetry = 0
  /\ overlap \in Overlaps

-----------------------------------------------------------------------------
LongestBackoff(retry) ==
  fixedWaitMs + (IF longBackoffMs <= shortBackoffMs * 2^retry
                 THEN longBackoffMs ELSE shortBackoffMs * 2^retry)

TimeSpentReconnecting ==
  IF firstConnectionAttempted THEN now - firstConnectionAttemptTimestampMs ELSE 0

(* Bug: only the last pong counts, not the time spent reconnecting. *)
OnlyActivityDeadline ==
  lastActiveTimestampMs # Infinity /\ now - lastActiveTimestampMs >= reconnectTimeoutMs

HasPastReconnectDeadline ==
  \/ lastActiveTimestampMs # Infinity /\ now - lastActiveTimestampMs >= reconnectTimeoutMs
  \/ TimeSpentReconnecting >= reconnectTimeoutMs

(* Bug: a terminal status does not stop the retries. *)
WillRetryUnlessLate == ~HasPastReconnectDeadline

WillRetry == shouldReconnect /\ ~HasPastReconnectDeadline

(* Bug: the timer is forgotten but left running. *)
ForgetTimer ==
  /\ backoffTimer' = 0 /\ backoffCancel' = 0
  /\ UNCHANGED <<timers, canceled>>

(* stop of the remembered timer, if it is still running, and its cancelFunc. *)
StopTimer ==
  IF backoffTimer = 0
  THEN UNCHANGED timerVars
  ELSE /\ timers' = IF timers[backoffTimer].state = "pending"
                    THEN [timers EXCEPT ![backoffTimer].state = "stopped"]
                    ELSE timers
       /\ canceled' = canceled \cup ({backoffCancel} \ {0})
       /\ backoffCancel' = 0
       /\ UNCHANGED backoffTimer

Cancel ==
  /\ StopTimer
  /\ shouldReconnect' = FALSE
  /\ UNCHANGED <<now, onlyRestartPeerConnection, firstConnectionAttempted,
                 firstConnectionAttemptTimestampMs, isFirstConnection,
                 lastActiveTimestampMs, currentRetry>>

Reset ==
  /\ StopTimer
  /\ shouldReconnect' = TRUE
  /\ onlyRestartPeerConnection' = FALSE
  /\ firstConnectionAttempted' = FALSE
  /\ firstConnectionAttemptTimestampMs' = 0
  /\ lastActiveTimestampMs' = Infinity
  /\ currentRetry' = 0
  /\ UNCHANGED <<now, isFirstConnection>>

StartedConnectionAttempt(isFirst) ==
  /\ isFirstConnection' = isFirst
  /\ firstConnectionAttempted' = TRUE
  /\ firstConnectionAttemptTimestampMs' =
       IF firstConnectionAttempted THEN firstConnectionAttemptTimestampMs ELSE now
  /\ UNCHANGED <<now, shouldReconnect, onlyRestartPeerConnection,
                 lastActiveTimestampMs, timerVars, currentRetry>>

DisableReconnect ==
  /\ shouldReconnect' = FALSE
  /\ UNCHANGED <<now, onlyRestartPeerConnection, firstConnectionAttempted,
                 firstConnectionAttemptTimestampMs, isFirstConnection,
                 lastActiveTimestampMs, timerVars, currentRetry>>

EnableRestartPeerConnection ==
  /\ onlyRestartPeerConnection' = TRUE
  /\ UNCHANGED <<now, shouldReconnect, firstConnectionAttempted,
                 firstConnectionAttemptTimestampMs, isFirstConnection,
                 lastActiveTimestampMs, timerVars, currentRetry>>

SetLastActiveTimestamp ==
  /\ lastActiveTimestampMs' = now
  /\ UNCHANGED <<now, shouldReconnect, onlyRestartPeerConnection, firstConnectionAttempted,
                 firstConnectionAttemptTimestampMs, isFirstConnection,
                 timerVars, currentRetry>>

(* A retry that is refused changes nothing.                                  *)
RetryWithBackoff ==
  /\ WillRetry
  /\ overlap \/ Pending = {}
  /\ Len(timers) < MaxTimers
  /\ \E wait \in fixedWaitMs..LongestBackoff(currentRetry) :
       timers' = Append(timers, [state |-> "pending", at |-> now + wait])
  /\ backoffTimer' = Len(timers') /\ backoffCancel' = Len(timers')
  /\ currentRetry' = currentRetry + 1
  /\ UNCHANGED <<now, controllerVars, canceled>>

(* Bug: the cancel function outlives the retry. *)
KeepCancel == UNCHANGED backoffCancel

ClearCancel == backoffCancel' = 0

(* setTimeout fires no earlier than asked, possibly later.                   *)
TimerFires ==
  \E t \in Pending :
    /\ timers[t].at <= now
    /\ timers' = [timers EXCEPT ![t].state = "fired"]
    /\ ClearCancel
    /\ UNCHANGED <<now, controllerVars, backoffTimer, canceled, currentRetry>>

Tick ==
  /\ now < MaxNow
  /\ now' = now + 1
  /\ UNCHANGED <<controllerVars, timerVars, currentRetry>>

ReconnectNext ==
  \/ Cancel \/ Reset \/ DisableReconnect
  \/ \E isFirst \in BOOLEAN : StartedConnectionAttempt(isFirst)
  \/ EnableRestartPeerConnection \/ SetLastActiveTimestamp
  \/ RetryWithBackoff \/ TimerFires \/ Tick

ReconnectSpec == ReconnectInit /\ [][ReconnectNext /\ UNCHANGED overlap]_<<reconnectVars, overlap>>

-----------------------------------------------------------------------------
(* Every variable keeps its type, and the remembered timer is the last made. *)
ReconnectTypeOK ==
  /\ now \in 0..MaxNow
  /\ {shouldReconnect, onlyRestartPeerConnection, firstConnectionAttempted, isFirstConnection} \subseteq BOOLEAN
  /\ firstConnectionAttemptTimestampMs \in 0..now
  /\ lastActiveTimestampMs \in (0..now) \cup {Infinity}
  /\ timers \in Seq([state : TimerStates, at : Nat]) /\ Len(timers) <= MaxTimers
  /\ backoffTimer = Len(timers)
  /\ backoffCancel \in {0, backoffTimer}
  /\ canceled \subseteq DOMAIN timers
  /\ currentRetry \in 0..MaxTimers

(* A retry's cancel function is called for a retry that was stopped, never   *)
(* for one that fires or will fire.                                         *)
CanceledNeverRuns == \A t \in canceled : timers[t].state = "stopped"

(* The retries of a lost session end: none is scheduled later than one       *)
(* longest backoff after the time allowed for reconnecting.                 *)
GivesUpInTime ==
  firstConnectionAttempted =>
    \A t \in Pending :
      timers[t].at < firstConnectionAttemptTimestampMs + reconnectTimeoutMs
                       + fixedWaitMs + longBackoffMs + 1

(* No retry runs that should not: one that was canceled, or one too late.    *)
NoStrayRetry == CanceledNeverRuns /\ GivesUpInTime

(* "Cancels any pending retry": with one retry at a time cancel, and the      *)
(* cancel inside reset, leaves none pending and calls "the cancel function    *)
(* supplied to retryWithBackoff".                                           *)
CancelIsComplete ==
  [][(Cancel \/ Reset) /\ ~overlap =>
       /\ \A t \in DOMAIN timers' : timers'[t].state # "pending"
       /\ Pending \subseteq canceled']_reconnectVars

(* The controller implements what the session relies on. *)
Gate == INSTANCE RetryGate WITH
  MaxOrphans   <- MaxTimers,
  attempted    <- firstConnectionAttempted,
  pastDeadline <- HasPastReconnectDeadline,
  armed        <- backoffTimer \in Pending,
  orphans      <- Cardinality(Pending \ {backoffTimer})

ImplementsGate == Gate!GateSpec
=============================================================================
