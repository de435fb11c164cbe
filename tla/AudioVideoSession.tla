-------------------------- MODULE AudioVideoSession --------------------------
(***************************************************************************)
(* The life of an audio-video session: DefaultAudioVideoController over its *)
(* session state controller (SessionState) and its reconnect controller     *)
(* (RetryGate).                                                             *)
(*                                                                         *)
(* Calls of the application, reported statuses, backoff timers and the ends *)
(* of asynchronous operations arrive in any order, each when no JavaScript  *)
(* is running (`stack` is empty).  They call perform; the work of its frame *)
(* then runs, may call perform in turn, and returns; one that resumes tasks  *)
(* goes on with the second when the calls of the first have returned.  The   *)
(* asynchronous functions a work starts are the bag `ops`.                  *)
(***************************************************************************)
EXTENDS Naturals, Sequences, Bags

CONSTANTS
  Cases,       \* the sets of hard circumstances considered
  MaxInputs,   \* bound on calls, reported statuses, failures and late reports
  MaxOrphans   \* bound on forgotten backoff timers

(* "overlap": something fails, or stop is called, while an earlier failure or *)
(* operation is being dealt with.  "late": an index or a metrics report that asks for an   *)
(* update arrives while they are paused.  "sdp": the server rejects the SDP.  *)
(* "half": the first of the two updates of a restart of local video fails.   *)
Circumstances == {"overlap", "late", "sdp", "half"}

ASSUME BoundsAssumption ==
  Cases \subseteq SUBSET Circumstances /\ MaxInputs \in Nat /\ MaxOrphans \in Nat

VARIABLES
  currentState, deferredAction, deferredWork, stack,             \* SessionState
  shouldReconnect, attempted, pastDeadline, armed, orphans,      \* RetryGate
  ops,           \* the asynchronous functions in flight
  listening,     \* whether MonitorTask observes, so statuses are reported
  paused,        \* which of the index and monitor tasks are paused
  toResume,      \* the task a finishing update or connect has yet to resume
  lastNotified,  \* the last lifecycle event told to the observers
  inputs,        \* what may still come from outside
  hard           \* the hard circumstances of this behaviour, fixed at its start

controllerVars == <<currentState, deferredAction, deferredWork, stack>>
gateVars == <<shouldReconnect, attempted, pastDeadline, armed, orphans>>
vars == <<controllerVars, gateVars, ops, listening, paused, toResume, lastNotified, inputs>>

(* The statuses a reaction tells apart: retriable failures, terminal ones,   *)
(* IncompatibleSDP, and Left.                                               *)
Statuses == {"fail", "terminal", "sdp", "left"}

Work(k, s) == [kind |-> k, status |-> s]
NoWork == Work("none", "none")
Works ==
  {Work(k, "none") : k \in {"start", "retryConnect", "reconnect", "update", "restart",
                            "stop", "finishConnecting", "finishUpdating", "cleaned"}}
  \cup {Work(k, s) : k \in {"failConnect", "failSession", "operationFailed", "notifyStop"},
                     s \in Statuses}

Op(k, s) == [kind |-> k, status |-> s]
OpKinds == {"connect", "reconnect", "update", "restartStopped", "restartAgain",
            "disconnect", "disconnectAndRetry", "retryAfterDisconnect"}

Tasks == {"index", "monitor"}

Controller == INSTANCE SessionState WITH MaxDepth <- 4
Gate == INSTANCE RetryGate

Init ==
  /\ Controller!Init
  /\ Gate!GateInit
  /\ ops = EmptyBag
  /\ listening = FALSE
  /\ paused = {}
  /\ toResume = "none"
  /\ lastNotified = "none"
  /\ inputs = MaxInputs
  /\ hard \in Cases

-----------------------------------------------------------------------------
Returned == stack = <<>> /\ toResume = "none"

(* What follows an await of an operation that has just ended runs at once.   *)
Continuations == {"restartAgain", "retryAfterDisconnect"}

Idle == Returned /\ \A o \in BagToSet(ops) : o.kind \notin Continuations

Started(o) == ops (+) SetToBag({o})
Ended(o) == ops (-) SetToBag({o})
InFlight(o) == BagIn(o, ops)
Copies(o) == IF InFlight(o) THEN ops[o] ELSE 0

Spend == inputs > 0 /\ inputs' = inputs - 1
Input == Idle /\ Spend

NoBackoff == ~armed /\ orphans = 0
NoRecovery == NoBackoff /\ ops = EmptyBag

MayFail == Spend /\ ("overlap" \in hard \/ NoBackoff)

-----------------------------------------------------------------------------
(* handleMeetingSessionStatus and reconnect. *)

HandleStatus(s) ==
  \/ /\ s = "sdp"
     /\ Controller!Perform("Update", Work("restart", "none"))
     /\ UNCHANGED gateVars
  \/ /\ s = "terminal"
     /\ Gate!Disable
     /\ Controller!Perform("Fail", Work("failSession", s))
  \/ /\ s = "fail" /\ Gate!WillRetry
     /\ Gate!Retry
     /\ stack' = Controller!CallerMarked("further")
     /\ UNCHANGED <<currentState, deferredAction, deferredWork>>
  \/ /\ s = "fail" /\ ~Gate!WillRetry
     /\ Controller!Perform("Fail", Work("failSession", s))
     /\ UNCHANGED gateVars

-----------------------------------------------------------------------------
(* actionFinishConnecting and actionFinishUpdating resume both tasks in turn. *)

(* resumeIngestion or resumeResubscribeCheck: a task that was paused may have *)
(* kept a late index or report, which may ask for an update.                 *)
LateUpdate(t) ==
  /\ "late" \in hard /\ t \in paused
  /\ Spend
  /\ Controller!Perform("Update", Work("update", "none"))

(* The first of the two is resumed, `rest` is still to be.                   *)
ResumeFirst(t, rest) ==
  /\ paused' = paused \ {t}
  /\ toResume' = rest
  /\ \/ stack' = Controller!CallerMarked("further")
        /\ UNCHANGED <<currentState, deferredAction, deferredWork, inputs>>
     \/ LateUpdate(t)

FinishUpdating == ResumeFirst("monitor", "index")

-----------------------------------------------------------------------------
(* Calls of the application and what the connection reports. *)

Start ==
  /\ Input
  /\ Controller!Perform("Connect", Work("start", "none"))
  /\ UNCHANGED <<gateVars, ops, listening, paused, toResume, lastNotified>>

(* stop of a session that is not connected only closes the signaling client. *)
Stop ==
  /\ Input
  /\ currentState # "NotConnected"
  /\ "overlap" \in hard \/ NoRecovery
  /\ Controller!Perform("Disconnect", Work("stop", "none"))
  /\ UNCHANGED <<gateVars, ops, listening, paused, toResume, lastNotified>>

(* update that needs renegotiation, as a video tile or policy change asks.   *)
Update ==
  /\ Input
  /\ Controller!Perform("Update", Work("update", "none"))
  /\ UNCHANGED <<gateVars, ops, listening, paused, toResume, lastNotified>>

(* update that a report asks for and that needs no renegotiation: it ends as  *)
(* an update that has been renegotiated does, whatever the state; without a  *)
(* task to resume it changes nothing.                                       *)
UpdateInPlace ==
  /\ Idle /\ listening /\ paused \notin {{}, Tasks}
  /\ FinishUpdating
  /\ UNCHANGED <<gateVars, ops, listening, lastNotified>>

ReportStatus(s) ==
  /\ Input
  /\ listening
  /\ "overlap" \in hard \/ NoRecovery
  /\ HandleStatus(s)
  /\ UNCHANGED <<ops, listening, paused, toResume, lastNotified>>

-----------------------------------------------------------------------------
(* The works that perform runs.  A work returns in the step that runs it     *)
(* unless it calls perform; then it returns when that call has and, if it    *)
(* resumes tasks, when both are resumed.                                    *)

Running(k) == stack # <<>> /\ Head(stack).progress = "begun" /\ Head(stack).work.kind = k
RunningStatus == Head(stack).work.status

Return == Controller!WorkReturns

(* actionConnect(false) up to its first await. *)
RunStart ==
  /\ Running("start")
  /\ Gate!ResetAndAttempt
  /\ ops' = Started(Op("connect", "none"))
  /\ listening' = TRUE /\ paused' = Tasks
  /\ lastNotified' = "connecting"
  /\ Return
  /\ UNCHANGED <<toResume, inputs>>

(* actionConnect(true). *)
RunRetryConnect ==
  /\ Running("retryConnect")
  /\ Gate!Attempt
  /\ ops' = Started(Op("connect", "none"))
  /\ listening' = TRUE /\ paused' = Tasks
  /\ Return
  /\ UNCHANGED <<toResume, lastNotified, inputs>>

RunReconnect ==
  /\ Running("reconnect")
  /\ Gate!Attempt
  /\ lastNotified' = IF attempted THEN lastNotified ELSE "reconnecting"
  /\ ops' = Started(Op("reconnect", "none"))
  /\ Return
  /\ UNCHANGED <<listening, paused, toResume, inputs>>

(* Bug: nothing is paused for the time of an update. *)
RunUpdateUnpaused ==
  /\ Running("update")
  /\ ops' = Started(Op("update", "none"))
  /\ Return
  /\ UNCHANGED <<gateVars, listening, paused, toResume, lastNotified, inputs>>

RunUpdate ==
  /\ Running("update")
  /\ paused' = Tasks
  /\ ops' = Started(Op("update", "none"))
  /\ Return
  /\ UNCHANGED <<gateVars, listening, toResume, lastNotified, inputs>>

(* restartLocalVideo: with a local tile, stopping it calls update, which the *)
(* Updating state defers.                                                   *)
RunRestart ==
  /\ Running("restart")
  /\ paused' = Tasks
  /\ \/ ops' = Started(Op("update", "none")) /\ Return
     \/ /\ ops' = Started(Op("restartStopped", "none"))
        /\ Controller!Perform("Update", Work("update", "none"))
  /\ UNCHANGED <<gateVars, listening, toResume, lastNotified, inputs>>

RunStop ==
  /\ Running("stop")
  /\ Gate!Disable
  /\ ops' = Started(Op("disconnect", "left"))
  /\ Return
  /\ UNCHANGED <<listening, paused, toResume, lastNotified, inputs>>

RunFailConnect ==
  /\ Running("failConnect")
  /\ ops' = Started(Op("disconnectAndRetry", RunningStatus))
  /\ Return
  /\ UNCHANGED <<gateVars, listening, paused, toResume, lastNotified, inputs>>

RunFailSession ==
  /\ Running("failSession")
  /\ ops' = Started(Op("disconnect", RunningStatus))
  /\ Return
  /\ UNCHANGED <<gateVars, listening, paused, toResume, lastNotified, inputs>>

RunFinishConnecting ==
  /\ Running("finishConnecting")
  /\ lastNotified' = "started"
  /\ Gate!Reset
  /\ ResumeFirst("index", "monitor")
  /\ UNCHANGED <<ops, listening>>

RunFinishUpdating ==
  /\ Running("finishUpdating")
  /\ FinishUpdating
  /\ UNCHANGED <<gateVars, ops, listening, lastNotified>>

(* An update the call of the first resume started is now under way.          *)
ResumeSecond ==
  /\ toResume # "none"
  /\ stack # <<>> => Head(stack).work.kind \in {"finishConnecting", "finishUpdating"}
  /\ paused' = paused \ {toResume}
  /\ toResume' = "none"
  /\ \/ UNCHANGED <<controllerVars, inputs>>
     \/ LateUpdate(toResume)
  /\ UNCHANGED <<gateVars, ops, listening, lastNotified>>

(* The catch blocks of actionReconnect and actionUpdateWithRenegotiation.    *)
RunOperationFailed ==
  /\ Running("operationFailed")
  /\ HandleStatus(RunningStatus)
  /\ UNCHANGED <<ops, listening, paused, toResume, lastNotified, inputs>>

(* Bug: the observers are told the reason of a stop as if it was an event. *)
RunNotifyReason ==
  /\ Running("notifyStop")
  /\ lastNotified' = RunningStatus
  /\ Return
  /\ UNCHANGED <<gateVars, ops, listening, paused, toResume, inputs>>

RunNotifyStop ==
  /\ Running("notifyStop")
  /\ lastNotified' = IF RunningStatus = "left" THEN "left" ELSE "stopped"
  /\ Return
  /\ UNCHANGED <<gateVars, ops, listening, paused, toResume, inputs>>

RunCleaned ==
  /\ Running("cleaned")
  /\ Return
  /\ UNCHANGED <<gateVars, ops, listening, paused, toResume, lastNotified, inputs>>

NestedReturn ==
  /\ stack # <<>> /\ Head(stack).progress # "begun"
  /\ Head(stack).work.kind \in {"finishConnecting", "finishUpdating"} => toResume = "none"
  /\ Return
  /\ UNCHANGED <<gateVars, ops, listening, paused, toResume, lastNotified, inputs>>

RunWork ==
  \/ RunStart \/ RunRetryConnect \/ RunReconnect \/ RunUpdate \/ RunRestart
  \/ RunStop \/ RunFailConnect \/ RunFailSession
  \/ RunFinishConnecting \/ RunFinishUpdating \/ ResumeSecond \/ RunOperationFailed
  \/ RunNotifyStop \/ RunCleaned \/ NestedReturn

-----------------------------------------------------------------------------
(* The ends of the asynchronous operations. *)

Ends(k, s) ==
  /\ Idle
  /\ InFlight(Op(k, s))
  /\ UNCHANGED inputs

Fails(k) == Idle /\ MayFail /\ InFlight(Op(k, "none"))

(* The ways an update can fail. *)
UpdateFailures == {"fail"} \cup ({"sdp"} \cap hard)

Connected(k) ==
  /\ Ends(k, "none")
  /\ ops' = Ended(Op(k, "none"))
  /\ Controller!Perform("FinishConnecting", Work("finishConnecting", "none"))
  /\ UNCHANGED <<gateVars, listening, paused, toResume, lastNotified>>

(* Bug: a failed start is only logged. *)
ConnectFailsSilently(s) ==
  /\ Fails("connect")
  /\ ops' = Ended(Op("connect", "none"))
  /\ UNCHANGED <<controllerVars, gateVars, listening, paused, toResume, lastNotified>>

ConnectFails(s) ==
  /\ Fails("connect")
  /\ ops' = Ended(Op("connect", "none"))
  /\ IF currentState = "NotConnected"
     THEN UNCHANGED controllerVars
     ELSE Controller!Perform("Fail", Work("failConnect", s))
  /\ UNCHANGED <<gateVars, listening, paused, toResume, lastNotified>>

(* Bug: a failed reconnect is only logged. *)
ReconnectFailsSilently(s) ==
  /\ Fails("reconnect")
  /\ ops' = Ended(Op("reconnect", "none"))
  /\ UNCHANGED <<controllerVars, gateVars, listening, paused, toResume, lastNotified>>

(* To be able to reconnect again, the session becomes Connected.             *)
ReconnectFails(s) ==
  /\ Fails("reconnect")
  /\ ops' = Ended(Op("reconnect", "none"))
  /\ Controller!Perform("FinishConnecting", Work("operationFailed", s))
  /\ UNCHANGED <<gateVars, listening, paused, toResume, lastNotified>>

Updated ==
  /\ Ends("update", "none")
  /\ ops' = Ended(Op("update", "none"))
  /\ Controller!Perform("FinishUpdating", Work("finishUpdating", "none"))
  /\ UNCHANGED <<gateVars, listening, paused, toResume, lastNotified>>

UpdateFails(s) ==
  /\ Fails("update")
  /\ ops' = Ended(Op("update", "none"))
  /\ Controller!Perform("FinishUpdating", Work("operationFailed", s))
  /\ UNCHANGED <<gateVars, listening, paused, toResume, lastNotified>>

(* Bug: the first half of a restart ends the update as the second does.      *)
RestartStoppedNotifying ==
  /\ Idle /\ InFlight(Op("restartStopped", "none"))
  /\ ops' = Ended(Op("restartStopped", "none")) (+) SetToBag({Op("restartAgain", "none")})
  /\ Controller!Perform("FinishUpdating", Work("finishUpdating", "none"))
  /\ UNCHANGED <<gateVars, listening, paused, toResume, lastNotified, inputs>>

(* The first half of a restart ends, and the session stays Updating; or it    *)
(* fails, which ends the update, and the second half follows all the same.   *)
RestartStopped ==
  /\ Idle /\ InFlight(Op("restartStopped", "none"))
  /\ ops' = Ended(Op("restartStopped", "none")) (+) SetToBag({Op("restartAgain", "none")})
  /\ \/ UNCHANGED <<controllerVars, inputs>>
     \/ "half" \in hard /\ MayFail /\ \E s \in UpdateFailures :
          Controller!Perform("FinishUpdating", Work("operationFailed", s))
  /\ UNCHANGED <<gateVars, listening, paused, toResume, lastNotified>>

(* Starting the local tile calls update; then the session is updated again.  *)
RestartAgain ==
  /\ Returned /\ InFlight(Op("restartAgain", "none"))
  /\ ops' = Ended(Op("restartAgain", "none")) (+) SetToBag({Op("update", "none")})
  /\ paused' = Tasks
  /\ Controller!Perform("Update", Work("update", "none"))
  /\ UNCHANGED <<gateVars, listening, toResume, lastNotified, inputs>>

(* CleanStoppedSessionTask removes the observers, whatever happens to it.    *)
Disconnected(s) ==
  /\ Ends("disconnect", s)
  /\ ops' = Ended(Op("disconnect", s))
  /\ listening' = FALSE
  /\ Controller!Perform("FinishDisconnecting", Work("notifyStop", s))
  /\ UNCHANGED <<gateVars, paused, toResume, lastNotified>>

(* Bug: the observers are told of a stop although the start is retried. *)
DisconnectedNotifying(s) ==
  /\ Ends("disconnectAndRetry", s)
  /\ ops' = Ended(Op("disconnectAndRetry", s)) (+) SetToBag({Op("retryAfterDisconnect", s)})
  /\ listening' = FALSE
  /\ Controller!Perform("FinishDisconnecting", Work("notifyStop", s))
  /\ UNCHANGED <<gateVars, paused, toResume, lastNotified>>

DisconnectedToRetry(s) ==
  /\ Ends("disconnectAndRetry", s)
  /\ ops' = Ended(Op("disconnectAndRetry", s)) (+) SetToBag({Op("retryAfterDisconnect", s)})
  /\ listening' = FALSE
  /\ Controller!Perform("FinishDisconnecting", Work("cleaned", "none"))
  /\ UNCHANGED <<gateVars, paused, toResume, lastNotified>>

(* A failed start is retried, or the observers are told that it stopped.     *)
RetryAfterDisconnect(s) ==
  /\ Returned /\ InFlight(Op("retryAfterDisconnect", s))
  /\ ops' = Ended(Op("retryAfterDisconnect", s))
  /\ HandleStatus(s)
  /\ lastNotified' = IF s = "fail" /\ Gate!WillRetry THEN lastNotified ELSE "stopped"
  /\ UNCHANGED <<listening, paused, toResume, inputs>>

OperationEnds ==
  \/ \E k \in {"connect", "reconnect"} : Connected(k)
  \/ \E s \in {"fail", "terminal"} :
       ConnectFails(s) \/ ReconnectFails(s) \/ DisconnectedToRetry(s)
         \/ RetryAfterDisconnect(s)
  \/ \E s \in UpdateFailures : UpdateFails(s)
  \/ Updated \/ RestartStopped \/ RestartAgain
  \/ \E s \in Statuses : Disconnected(s)

-----------------------------------------------------------------------------
BackoffFires ==
  /\ Idle
  /\ Gate!TimerFires
  /\ IF currentState = "NotConnected"
     THEN Controller!Perform("Connect", Work("retryConnect", "none"))
     ELSE Controller!Perform("Reconnect", Work("reconnect", "none"))
  /\ UNCHANGED <<ops, listening, paused, toResume, lastNotified, inputs>>

(* Time passes: too long since the first attempt or the last pong; a pong    *)
(* helps only if no attempt is being timed.                                 *)
DeadlinePasses ==
  /\ Idle
  /\ attempted \/ listening
  /\ Gate!DeadlinePasses
  /\ UNCHANGED <<controllerVars, ops, listening, paused, toResume, lastNotified, inputs>>

Pong ==
  /\ Idle
  /\ listening /\ ~attempted
  /\ Gate!DeadlineLifts
  /\ UNCHANGED <<controllerVars, ops, listening, paused, toResume, lastNotified, inputs>>

Next ==
  \/ Start \/ Stop \/ Update \/ UpdateInPlace
  \/ \E s \in {"fail", "terminal"} : ReportStatus(s)
  \/ RunWork
  \/ OperationEnds
  \/ BackoffFires \/ DeadlinePasses \/ Pong

(* A turn of JavaScript runs to its end, timers fire, and every operation    *)
(* ends: it has a timeout, or waits for a device the browser answers for.    *)
Fairness ==
  /\ WF_vars(RunWork)
  /\ WF_vars(BackoffFires)
  /\ WF_vars(OperationEnds)

Spec == Init /\ [][Next /\ UNCHANGED hard]_<<vars, hard>> /\ Fairness

-----------------------------------------------------------------------------
(* Every variable keeps its type. *)
TypeOK ==
  /\ Controller!TypeOK
  /\ {shouldReconnect, attempted, pastDeadline, armed, listening} \subseteq BOOLEAN
  /\ paused \subseteq Tasks /\ toResume \in Tasks \cup {"none"}
  /\ orphans \in 0..MaxOrphans
  /\ \A o \in BagToSet(ops) : o.kind \in OpKinds /\ o.status \in Statuses \cup {"none"}
  /\ lastNotified \in {"none", "connecting", "reconnecting", "started", "stopped", "left"}
  /\ inputs \in 0..MaxInputs /\ hard \in Cases

(* A session is never stuck in transit: whenever it is Connecting, Updating  *)
(* or Disconnecting, an operation is in flight whose end takes it out.       *)
TransitHasOwner ==
  Idle =>
    /\ currentState = "Connecting" =>
         \E o \in BagToSet(ops) : o.kind \in {"connect", "reconnect"}
    /\ currentState = "Updating" =>
         \E o \in BagToSet(ops) : o.kind \in {"update", "restartStopped", "restartAgain"}
    /\ currentState = "Disconnecting" =>
         \E o \in BagToSet(ops) : o.kind \in {"disconnect", "disconnectAndRetry"}

(* A connected session is not left deaf: while its resubscribe checks and    *)
(* index ingestion are paused, something is under way that will resume them. *)
PausedIsTemporary ==
  Idle /\ currentState = "Connected" /\ paused # {} =>
    armed \/ orphans > 0 \/ ops # EmptyBag

(* Nothing that a session waits for can fail to come: neither in transit nor *)
(* with its tasks paused (actionFinishUpdating, actionFinishConnecting).     *)
NothingHangs == TransitHasOwner /\ PausedIsTemporary

(* Connection attempts do not overlap when failures come one at a time: they *)
(* share the signaling client and the peer connection of the session.       *)
OneConnectionAttempt ==
  "overlap" \notin hard =>
    Copies(Op("connect", "none")) + Copies(Op("reconnect", "none")) <= 1

(* "... as this mutable state needs to be consistent over the course of the update" *)
(* while a session is Updating no task that changes that state is running;   *)
(* unless late reports ask for updates of their own.                        *)
ConsistentUpdate ==
  Idle /\ currentState = "Updating" /\ "late" \notin hard => paused = Tasks

(* When failures come one at a time and do not cut a restart in half, updates *)
(* do not overlap, and the end of one never finds the tasks of another       *)
(* running: as long as an update is in flight the session is Updating.       *)
(* A restart whose first half fails goes on in a session that is Connected,  *)
(* and may meet an update that was deferred meanwhile.                       *)
UpdateOps == {Op(k, "none") : k \in {"update", "restartStopped", "restartAgain"}}

UpdatesAlone ==
  Idle /\ {"overlap", "half"} \cap hard = {} =>
    /\ \A o, p \in UpdateOps : InFlight(o) /\ InFlight(p) => o = p /\ Copies(o) = 1
    /\ (\E o \in UpdateOps : InFlight(o)) => currentState = "Updating"

(* What shares the state of a session runs alone: connection attempts, and   *)
(* the updates (actionConnect, actionReconnect, actionUpdateWithRenegotiation);*)
(* with ConsistentUpdate the tasks stay paused for all of an update.         *)
OneAtATime == OneConnectionAttempt /\ UpdatesAlone /\ ConsistentUpdate

(* When failures come one at a time observers see the life of a session in   *)
(* order: it starts connecting, has started, reconnects, and stops, and      *)
(* only then starts again.                                                  *)
NotificationOrder ==
  [][lastNotified' # lastNotified /\ "overlap" \notin hard =>
       <<lastNotified, lastNotified'>> \in
         ({"none", "stopped", "left"} \X {"connecting"})
         \cup ({"connecting", "reconnecting"} \X {"started"})
         \cup ({"started"} \X {"reconnecting"})
         \cup ({"connecting", "reconnecting", "started"} \X {"stopped", "left"})]_vars

(* Once the application and the connection are quiet, the session settles.   *)
Settles == <>[](currentState \in {"NotConnected", "Connected"})
=============================================================================
