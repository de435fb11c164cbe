-------------------------------- MODULE Tasks --------------------------------
(***************************************************************************)
(* The groups of tasks DefaultAudioVideoController runs, and how a group    *)
(* ends: tasks that wait for the server or the browser, in series, in       *)
(* parallel, under a timeout, or once for all who depend on them.           *)
(* A behaviour is one operation, with the connection a start may find       *)
(* opened in advance.  run() and cancel() reach subtasks within the call;   *)
(* what follows a settled promise is a step of its own, taken before the    *)
(* next event of the browser.                                               *)
(***************************************************************************)
EXTENDS Naturals, SequencesExt

CONSTANTS
  Operations,             \* the operations considered
  MaxAttempts, MaxStops   \* bounds: starts of a session; stops before it starts

----------------------------------------------------------------------------
(* The operations, each a tree of tasks. *)

Serial(subtasks) == [kind |-> "serial", sub |-> subtasks]
Parallel(subtasks) == [kind |-> "parallel", sub |-> subtasks]
Timeout(task) == [kind |-> "timeout", sub |-> <<task>>]
Once(subtasks) == [kind |-> "once", sub |-> subtasks]  \* the task and its dependencies
InTurn(groups) == [kind |-> "each", sub |-> groups]    \* awaited whatever became of the last

(* two trees of one operation *)
tree ++ other ==
  [n \in DOMAIN tree \cup DOMAIN other |-> IF n \in DOMAIN tree THEN tree[n] ELSE other[n]]

Signaling(open) ==
  Serial(<<open, "ListenForVolumeIndicators", "SendAndReceiveDataMessages",
           "JoinAndReceiveIndex", "ReceiveTURNCredentials", "ReceiveVideoStreamIndex">>)

UpdateSession ==
  Serial(<<"AttachMediaInput", "CreateSDP", "SetLocalDescription", "FinishGatheringICECandidates",
           "SubscribeAndReceiveSubscribeAck", "SetRemoteDescription">>)

(* WaitForAttendeePresence, when the session uses audio *)
Finalize(waits) ==
  IF ~waits THEN <<>>
  ELSE [presenceTimeout |-> Timeout("FinalizeConnection"),
        FinalizeConnection |-> Parallel(<<"WaitForAttendeePresence", "SetRemoteDescription">>)]
Final(waits) == IF waits THEN "presenceTimeout" ELSE "SetRemoteDescription"

createOrReuseSignalingTask ==
  [open |-> Once(<<"openTimeout">>), openTimeout |-> Timeout("OpenSignalingConnection")]

connectWithPromises(waits) ==
  [root |-> Serial(<<"monitor", "connectionTimeout">>),
   monitor |-> Once(<<"Monitor">>),
   connectionTimeout |-> Timeout("Peer"),
   Peer |-> Serial(<<"subscribeAck", Final(waits)>>),
   subscribeAck |-> Once(<<"SubscribeAndReceiveSubscribeAck", "ice">>),
   ice |-> Once(<<"FinishGatheringICECandidates", "setLocalDescription">>),
   setLocalDescription |-> Once(<<"SetLocalDescription", "createSDP">>),
   createSDP |-> Once(<<"CreateSDP", "attachMediaInput">>),
   attachMediaInput |-> Once(<<"AttachMediaInput", "createPeerConnection", "receiveAudioInput">>),
   createPeerConnection |-> Once(<<"CreatePeerConnection", "signaling">>),
   receiveAudioInput |-> Once(<<"ReceiveAudioInput">>),
   signaling |-> Once(<<"Signaling">>),
   Signaling |-> Signaling("open")]
  ++ createOrReuseSignalingTask ++ Finalize(waits)

connectWithTasks(waits) ==
  [root |-> Serial(<<"Monitor", "ReceiveAudioInput", "connectionTimeout">>),
   connectionTimeout |-> Timeout("Media"),
   Media |-> Serial(<<"Signaling", "Peer">>),
   Signaling |-> Signaling("OpenSignalingConnection"),
   Peer |-> Serial(<<"CreatePeerConnection", "AttachMediaInput", "CreateSDP",
                     "SetLocalDescription", "FinishGatheringICECandidates",
                     "SubscribeAndReceiveSubscribeAck", Final(waits)>>)]
  ++ Finalize(waits)

actionReconnect ==
  [root |-> Serial(<<"mediaTimeout", "ReceiveVideoInput", "updateTimeout">>),
   mediaTimeout |-> Timeout("Media"),
   Media |-> Serial(<<"CleanRestartedSession", "Signaling", "CreatePeerConnection">>),
   Signaling |->
     Serial(<<"OpenSignalingConnection", "JoinAndReceiveIndex", "ReceiveTURNCredentials">>),
   updateTimeout |-> Timeout("UpdateSession"),
   UpdateSession |-> UpdateSession]

actionUpdateWithRenegotiation ==
  [root |-> Serial(<<"ReceiveVideoInput", "updateTimeout">>),
   updateTimeout |-> Timeout("UpdateSession"),
   UpdateSession |-> UpdateSession]

actionDisconnect ==
  [root |-> InTurn(<<"AudioVideoStop", "AudioVideoClean">>),
   AudioVideoStop |-> Serial(<<"leaveTimeout">>),
   leaveTimeout |-> Timeout("LeaveAndReceiveLeaveAck"),
   AudioVideoClean |-> Serial(<<"cleanTimeout">>),
   cleanTimeout |-> Timeout("CleanStoppedSession")]

actionPromoteToPrimaryMeeting ==
  [root |-> Serial(<<"promoteTimeout">>),
   promoteTimeout |-> Timeout("PromoteToPrimaryMeeting")]

Plan ==
  [start |-> connectWithPromises(TRUE), startWithoutAudio |-> connectWithPromises(FALSE),
   tasks |-> connectWithTasks(TRUE), tasksWithoutAudio |-> connectWithTasks(FALSE),
   reconnect |-> actionReconnect, update |-> actionUpdateWithRenegotiation,
   disconnect |-> actionDisconnect, promote |-> actionPromoteToPrimaryMeeting]

(* with promises, a start can use a connection opened in advance *)
Promised == {"start", "startWithoutAudio"}

Nodes == [p \in DOMAIN Plan |->
            DOMAIN Plan[p] \cup UNION {ToSet(Plan[p][g].sub) : g \in DOMAIN Plan[p]}]
ParentsOf(p, n) == {g \in DOMAIN Plan[p] : n \in ToSet(Plan[p][g].sub)}
Parents == [p \in DOMAIN Plan |-> [n \in Nodes[p] |-> ParentsOf(p, n)]]

(* A task has one parent, and root none; the tasks of a group are different   *)
(* ones; a timeout has one; the dependencies of a OnceTask, and no task that  *)
(* it or a timeout wraps, are OnceTasks.                                      *)
ASSUME TreeAssumption ==
  \A p \in DOMAIN Plan :
    LET IsOnceIn(n) == n \in DOMAIN Plan[p] /\ Plan[p][n].kind = "once"
    IN /\ \A n \in Nodes[p] :
            /\ \A g, h \in ParentsOf(p, n) : g = h
            /\ ParentsOf(p, n) = {} <=> n = "root"
       /\ "root" \in DOMAIN Plan[p] /\ ~IsOnceIn("root")
       /\ \A g \in DOMAIN Plan[p] :
            LET kind == Plan[p][g].kind
                sub == Plan[p][g].sub
            IN /\ kind \in {"serial", "each", "timeout", "parallel", "once"}
               /\ sub \in Seq(Nodes[p]) /\ sub # <<>>
               /\ \A i, j \in DOMAIN sub : sub[i] = sub[j] => i = j
               /\ kind = "timeout" => Len(sub) = 1
               /\ kind \in {"timeout", "parallel", "once"} => ~IsOnceIn(sub[1])
               /\ \A i \in 2..Len(sub) : IsOnceIn(sub[i]) <=> kind = "once"
ASSUME OperationsAssumption == Operations \subseteq DOMAIN Plan
ASSUME BoundsAssumption == MaxAttempts \in Nat \ {0} /\ MaxStops \in Nat

----------------------------------------------------------------------------
(* The tasks themselves: what cancel() does to one that waits, and for which *)
(* state of the signaling connection an answer or a failure can come.        *)

AnyLine == {"none", "opening", "open", "closing"}
Never == {}
Waits(cancel, answer, failure) ==
  [waits |-> TRUE, cancel |-> cancel, answer |-> answer, failure |-> failure]
(* run() is done when it returns *)
Immediate == [waits |-> FALSE, cancel |-> "ignored", answer |-> AnyLine, failure |-> Never]

OpenSignalingConnection == Waits("rejects", {"opening"}, {"opening", "closing"})
(* A connection that closes does not end the wait. *)
JoinAndReceiveIndex == Waits("rejects", {"open"}, Never)
ReceiveTURNCredentials == Waits("rejects", AnyLine, AnyLine)
CreateSDP == Waits("rejects", AnyLine, AnyLine)
SetLocalDescription == Waits("rejects", AnyLine, AnyLine)
FinishGatheringICECandidates == Waits("rejects", AnyLine, AnyLine)
(* Nor does it here; the answer may turn out not to be readable. *)
SubscribeAndReceiveSubscribeAck == Waits("rejects", {"open"}, {"open"})
SetRemoteDescription == Waits("rejects", AnyLine, AnyLine)
WaitForAttendeePresence == Waits("rejects", {"open"}, Never)
(* An acknowledgement, or a connection that closes or is not there. *)
LeaveAndReceiveLeaveAck == Waits("rejects", AnyLine, Never)
CleanStoppedSession == Waits("rejects", AnyLine, Never)
(* cancel() reports the failure with completionCallback and resolves. *)
PromoteToPrimaryMeeting == Waits("resolves", AnyLine, Never)
(* Without a cancel of their own they wait until the browser answers; what   *)
(* the devices refuse is caught, what a sender refuses is not.               *)
ReceiveAudioInput == Waits("ignored", AnyLine, Never)
ReceiveVideoInput == Waits("ignored", AnyLine, Never)
AttachMediaInput == Waits("ignored", AnyLine, AnyLine)
Monitor == Immediate
ListenForVolumeIndicators == Immediate
SendAndReceiveDataMessages == Immediate
ReceiveVideoStreamIndex == Immediate
CreatePeerConnection == Immediate
CleanRestartedSession == Immediate

Task ==
  [OpenSignalingConnection |-> OpenSignalingConnection, JoinAndReceiveIndex |-> JoinAndReceiveIndex,
   ReceiveTURNCredentials |-> ReceiveTURNCredentials, CreateSDP |-> CreateSDP,
   SetLocalDescription |-> SetLocalDescription,
   FinishGatheringICECandidates |-> FinishGatheringICECandidates,
   SubscribeAndReceiveSubscribeAck |-> SubscribeAndReceiveSubscribeAck,
   SetRemoteDescription |-> SetRemoteDescription,
   WaitForAttendeePresence |-> WaitForAttendeePresence,
   LeaveAndReceiveLeaveAck |-> LeaveAndReceiveLeaveAck, CleanStoppedSession |-> CleanStoppedSession,
   PromoteToPrimaryMeeting |-> PromoteToPrimaryMeeting, ReceiveAudioInput |-> ReceiveAudioInput,
   ReceiveVideoInput |-> ReceiveVideoInput, AttachMediaInput |-> AttachMediaInput,
   Monitor |-> Monitor, ListenForVolumeIndicators |-> ListenForVolumeIndicators,
   SendAndReceiveDataMessages |-> SendAndReceiveDataMessages,
   ReceiveVideoStreamIndex |-> ReceiveVideoStreamIndex,
   CreatePeerConnection |-> CreatePeerConnection, CleanRestartedSession |-> CleanRestartedSession]

(* what is no group is a task *)
ASSUME LeavesAssumption ==
  \A p \in DOMAIN Plan :
    /\ IsFiniteSet(Nodes[p])
    /\ \A n \in Nodes[p] : n \in DOMAIN Task <=> n \notin DOMAIN Plan[p]

Deaf == {n \in DOMAIN Task : Task[n].waits /\ Task[n].cancel = "ignored"}

(* once tasks in the order in which cancel() reaches them, the deepest first *)
Depth == [open |-> 1, signaling |-> 2, createPeerConnection |-> 3, receiveAudioInput |-> 4,
          attachMediaInput |-> 5, createSDP |-> 6, setLocalDescription |-> 7, ice |-> 8,
          subscribeAck |-> 9, monitor |-> 10]

----------------------------------------------------------------------------
VARIABLES
  plan,           \* the operation of this behaviour
  tasks,          \* status (BaseTask; "canceled" of a OnceTask) and promise of each
  timers,         \* TimeoutTask's timers, in the order they were started
  ticks,          \* AsyncScheduler.nextTick: the callbacks of OnceTask.cancel to come,
                  \* those of one cancel() together
  line,           \* the signaling connection: none, opening, open, closing
  signalingTask,  \* whether the controller holds on to the "open" task
  prestarted,     \* the promise of prestart()
  observed,       \* preStartObserver is registered
  attempts, stops

connectionVars == <<signalingTask, prestarted, observed>>
vars == <<plan, tasks, timers, ticks, line, connectionVars, attempts, stops>>

Node == Nodes[plan]
Groups == DOMAIN Plan[plan]
Leaves == Node \ Groups
Kind(n) == Plan[plan][n].kind
Sub(n) == Plan[plan][n].sub
IsOnce(n) == n \in Groups /\ Kind(n) = "once"

New == [status |-> "idle", promise |-> "none"]

Init ==
  /\ plan \in Operations
  /\ tasks = [n \in Nodes[plan] |-> New]
  /\ timers = <<>> /\ ticks = <<>>
  /\ line \in IF plan \in {"update", "disconnect", "promote"} THEN {"none", "open"} ELSE {"none"}
  /\ signalingTask = FALSE /\ prestarted = "none" /\ observed = FALSE
  /\ attempts = 0 /\ stops = 0

----------------------------------------------------------------------------
(* run() *)

Fresh(n, t) == IF IsOnce(n) THEN t[n].promise = "none" ELSE t[n].status = "idle"

(* the subtasks a group runs within its own run() *)
RunsFirst(n) ==
  IF Kind(n) \in {"serial", "each"} THEN {Head(Sub(n))}
  ELSE IF Kind(n) = "once" THEN ToSet(Tail(Sub(n)))
  ELSE ToSet(Sub(n))

(* the tasks that run() of n reaches *)
Reached(n, t) ==
  LET reached[d \in Node] ==
        \/ d = n
        \/ \E g \in Parents[plan][d] : reached[g] /\ Fresh(g, t) /\ d \in RunsFirst(g)
  IN {d \in Node : reached[d]}

(* a OnceTask runs once; a BaseTask that is not idle throws *)
baseRun(n, task) ==
  IF IsOnce(n)
  THEN IF task.promise = "none" THEN [task EXCEPT !.promise = "pending"] ELSE task
  ELSE IF task.status # "idle" THEN [task EXCEPT !.promise = "broken"]
  ELSE IF n \in DOMAIN Task /\ ~Task[n].waits THEN [status |-> "finished", promise |-> "kept"]
  ELSE [status |-> "running", promise |-> "pending"]

(* n.run() in the state t of the tasks *)
Run(n, t) ==
  LET reached == Reached(n, t)
      new == [d \in Node |-> IF d \in reached THEN baseRun(d, t[d]) ELSE t[d]]
      Begins(d) == d \in Node /\ t[d].status = "idle" /\ new[d].status = "running"
      started == {d \in Groups : Kind(d) = "timeout" /\ Begins(d)}
  IN /\ tasks' = new
     /\ timers' = timers \o SetToSeq(started)
     /\ line' = IF Begins("OpenSignalingConnection") THEN "opening" ELSE line

----------------------------------------------------------------------------
(* cancel() *)

(* currentTask of a serial group *)
Current(n, t) == {d \in ToSet(Sub(n)) : t[n].status = "running" /\ t[d].promise = "pending"}

CancelsNow(n, t) ==
  CASE Kind(n) \in {"serial", "each"} -> Current(n, t)
    [] Kind(n) = "once" -> ToSet(Tail(Sub(n)))
    [] OTHER -> ToSet(Sub(n))

(* the tasks that cancel() of n reaches and that are not canceled or finished *)
Canceled(n, t) ==
  LET canceled[d \in Node] ==
        /\ t[d].status \in {"idle", "running"}
        /\ d = n \/ \E g \in Parents[plan][d] : canceled[g] /\ d \in CancelsNow(g, t)
  IN {d \in Node : canceled[d]}

baseCancel(n, task) ==
  [status |-> "canceled",
   promise |-> IF n \notin Leaves \/ task.promise # "pending" THEN task.promise
               ELSE CASE Task[n].cancel = "rejects" -> "broken"
                      [] Task[n].cancel = "resolves" -> "kept"
                      [] Task[n].cancel = "ignored" -> "pending"]

Tick(call, n) == [call |-> call, on |-> n]

(* Bug: the promise is not rejected, or only the promise is. *)
CancelsOnly(n, t) == {Tick("cancel", n)}
RejectsOnly(n, t) == IF t[n].promise = "none" THEN {} ELSE {Tick("reject", n)}

(* a tick later OnceTask cancels its task and rejects its promise *)
OnceTicks(n, t) ==
  {Tick("cancel", n)} \cup (IF t[n].promise = "none" THEN {} ELSE {Tick("reject", n)})

(* the callbacks of one cancel(), if there are any *)
Batch(calls) == IF calls = {} THEN <<>> ELSE <<calls>>

(* n.cancel(), with the callbacks left to come *)
Cancel(n, remaining) ==
  LET canceled == Canceled(n, tasks)
      once == {d \in canceled : IsOnce(d)}
  IN /\ tasks' = [d \in Node |-> IF d \in canceled THEN baseCancel(d, tasks[d]) ELSE tasks[d]]
     /\ ticks' = remaining \o Batch(UNION {OnceTicks(d, tasks) : d \in once})

----------------------------------------------------------------------------
(* What follows a settled promise. *)

Settled(n) == tasks[n].promise \in {"kept", "broken"}
Kept(n) == tasks[n].promise = "kept"
Broken(n) == tasks[n].promise = "broken"
Pending(n) == tasks[n].promise = "pending"

(* the subtask a serial group awaits: the last it has run *)
Position(n) == Cardinality({i \in DOMAIN Sub(n) : tasks[Sub(n)[i]].promise # "none"})
Awaited(n) == Sub(n)[Position(n)]
Dependencies(n) == ToSet(Tail(Sub(n)))

Goes(n) ==          \* a serial group goes on to its next subtask
  /\ Kind(n) \in {"serial", "each"} /\ Pending(n) /\ Position(n) < Len(Sub(n))
  /\ IF Kind(n) = "each" THEN Settled(Awaited(n))
     ELSE Kept(Awaited(n)) /\ tasks[n].status # "canceled"
GoesOnce(n) ==      \* a OnceTask's dependencies are there
  /\ Kind(n) = "once" /\ tasks[n].promise # "none" /\ tasks[Head(Sub(n))].promise = "none"
  /\ \A d \in Dependencies(n) : Kept(d)
EndsWell(n) ==
  /\ Pending(n)
  /\ CASE Kind(n) = "serial" -> Kept(Awaited(n)) /\ Position(n) = Len(Sub(n))
       [] Kind(n) = "each" -> Settled(Awaited(n)) /\ Position(n) = Len(Sub(n))
       [] Kind(n) = "once" -> Kept(Head(Sub(n)))
       [] OTHER -> \A d \in ToSet(Sub(n)) : Kept(d)
EndsBadly(n) ==
  /\ Pending(n)
  /\ CASE Kind(n) = "serial" ->
            \/ Broken(Awaited(n))
            \/ Kept(Awaited(n)) /\ Position(n) < Len(Sub(n)) /\ tasks[n].status = "canceled"
       [] Kind(n) = "each" -> FALSE
       [] Kind(n) = "once" -> \E d \in ToSet(Sub(n)) : Broken(d)
       [] OTHER -> (\A d \in ToSet(Sub(n)) : Settled(d)) /\ \E d \in ToSet(Sub(n)) : Broken(d)

PrestartSettled == prestarted = "pending" /\ Settled("open")

(* no promise is left to follow up: the browser's next event can come *)
Quiet ==
  /\ ~PrestartSettled
  /\ \A n \in Groups : ~(Goes(n) \/ GoesOnce(n) \/ EndsWell(n) \/ EndsBadly(n))

(* Bug: TimeoutTask without its finally. *)
EndWithTimer(n, promise) ==
  /\ tasks' = [tasks EXCEPT ![n] =
       [status |-> IF IsOnce(n) \/ @.status = "canceled" THEN @.status ELSE "finished",
        promise |-> promise]]
  /\ UNCHANGED timers

(* clearTimeout *)
Without(t) ==
  IF \E i \in DOMAIN timers : timers[i] = t
  THEN RemoveAt(timers, CHOOSE i \in DOMAIN timers : timers[i] = t)
  ELSE timers

(* the promise of a task that ends; a timeout stops its timer *)
End(n, promise) ==
  /\ tasks' = [tasks EXCEPT ![n] =
       [status |-> IF IsOnce(n) \/ @.status = "canceled" THEN @.status ELSE "finished",
        promise |-> promise]]
  /\ timers' = Without(n)

(* actionConnect's end: actionFinishConnecting, or its catch *)
ForgetSignalingTask(n) == signalingTask' = (signalingTask /\ n # "root")

GoOn(n) ==
  /\ \/ Goes(n) /\ Run(Sub(n)[Position(n) + 1], tasks)
     \/ GoesOnce(n) /\ Run(Head(Sub(n)), tasks)
  /\ UNCHANGED <<plan, ticks, connectionVars, attempts, stops>>

EndWell(n) ==
  /\ EndsWell(n)
  /\ End(n, "kept") /\ ForgetSignalingTask(n)
  /\ UNCHANGED <<plan, ticks, line, prestarted, observed, attempts, stops>>

EndBadly(n) ==
  /\ EndsBadly(n)
  /\ End(n, "broken") /\ ForgetSignalingTask(n)
  /\ UNCHANGED <<plan, ticks, line, prestarted, observed, attempts, stops>>

(* prestart()'s then and catch *)
PrestartEnds ==
  /\ PrestartSettled
  /\ prestarted' = "none"
  /\ observed' = (observed \/ Kept("open"))
  /\ signalingTask' = (signalingTask /\ Kept("open"))
  /\ UNCHANGED <<plan, tasks, timers, ticks, line, attempts, stops>>

FollowUp ==
  \/ PrestartEnds
  \/ \E n \in Groups : GoOn(n)
  \/ \E n \in Groups : EndWell(n)
  \/ \E n \in Groups : EndBadly(n)

----------------------------------------------------------------------------
(* The events of the browser and the server. *)

(* the task's wait ends as it should, or it had nothing to wait for *)
Answer(n) ==
  /\ n \in Leaves /\ Pending(n) /\ line \in Task[n].answer /\ Quiet
  /\ End(n, "kept")
  /\ line' = IF n = "OpenSignalingConnection" THEN "open"
             ELSE IF n = "CleanStoppedSession" THEN "none" ELSE line
  /\ UNCHANGED <<plan, ticks, connectionVars, attempts, stops>>

Failure(n) ==
  /\ n \in Leaves /\ Pending(n) /\ line \in Task[n].failure /\ Quiet
  /\ End(n, "broken")
  /\ line' = IF n = "OpenSignalingConnection" THEN "none" ELSE line
  /\ UNCHANGED <<plan, ticks, connectionVars, attempts, stops>>

(* timers of the same duration, connectionTimeoutMs, fire in the order of their start *)
Due(t) ==
  \E i \in DOMAIN timers :
    /\ timers[i] = t
    /\ t = "presenceTimeout" \/ \A j \in 1..(i - 1) : timers[j] = "presenceTimeout"

TimeoutReached(t) ==
  /\ Due(t) /\ Quiet
  /\ timers' = Without(t)
  /\ Cancel(Head(Sub(t)), ticks)
  /\ UNCHANGED <<plan, line, connectionVars, attempts, stops>>

(* the callbacks of the deepest task come first, and cancel() before reject() *)
Sooner(tick, other) ==
  \/ Depth[tick.on] < Depth[other.on]
  \/ tick.on = other.on /\ tick.call = "cancel"

NextTick ==
  /\ ticks # <<>> /\ Quiet
  /\ \E tick \in Head(ticks) :
       LET others == Head(ticks) \ {tick}
           remaining == Batch(others) \o Tail(ticks)
       IN /\ \A other \in others : Sooner(tick, other)
          /\ IF tick.call = "cancel"
             THEN Cancel(Head(Sub(tick.on)), remaining)
             ELSE /\ ticks' = remaining
                  /\ tasks' = IF Pending(tick.on)
                              THEN [tasks EXCEPT ![tick.on].promise = "broken"] ELSE tasks
  /\ UNCHANGED <<plan, timers, line, connectionVars, attempts, stops>>

(* Bug: the early connection is not watched. *)
goOnWithClosed == UNCHANGED <<observed, signalingTask>>

(* preStartObserver hears of it *)
handleClosed ==
  /\ observed' = FALSE
  /\ signalingTask' = (signalingTask /\ ~observed)

ConnectionCloses ==
  /\ line \in {"open", "closing"} /\ Quiet
  /\ line' = "none" /\ handleClosed
  /\ UNCHANGED <<plan, tasks, timers, ticks, prestarted, attempts, stops>>

----------------------------------------------------------------------------
(* The calls of the application and of the controller. *)

(* createOrReuseSignalingTask: a new task unless the controller holds one *)
WithSignalingTask ==
  [n \in Node |->
    IF ~signalingTask /\ n \in {"open", "openTimeout", "OpenSignalingConnection"}
    THEN New ELSE tasks[n]]

(* start({ signalingOnly: true }); once more while one is in place is left out *)
prestart ==
  /\ plan \in Promised /\ tasks["root"] = New /\ prestarted = "none" /\ ~signalingTask /\ Quiet
  /\ Run("open", WithSignalingTask)
  /\ signalingTask' = TRUE /\ prestarted' = "pending"
  /\ UNCHANGED <<plan, ticks, observed, attempts, stops>>

(* stop() while NotConnected closes the connection directly *)
stopReturningPromise ==
  /\ plan \in Promised /\ tasks["root"] = New /\ line \in {"opening", "open"}
  /\ stops < MaxStops /\ Quiet
  /\ line' = "closing" /\ stops' = stops + 1
  /\ UNCHANGED <<plan, tasks, timers, ticks, connectionVars, attempts>>

(* the operation begins *)
Start ==
  /\ tasks["root"] = New /\ Quiet
  /\ IF plan \in Promised
     THEN /\ observed' = FALSE /\ signalingTask' = TRUE
          /\ Run("root", WithSignalingTask)
     ELSE UNCHANGED <<observed, signalingTask>> /\ Run("root", tasks)
  /\ attempts' = attempts + 1
  /\ UNCHANGED <<plan, ticks, prestarted, stops>>

(* the controller's retry of a start that failed, after actionDisconnect: new tasks *)
Retry ==
  /\ plan \in Promised /\ Broken("root") /\ ticks = <<>> /\ attempts < MaxAttempts /\ Quiet
  /\ tasks' = [n \in Node |->
       IF n \in {"open", "openTimeout", "OpenSignalingConnection"} THEN tasks[n] ELSE New]
  /\ IF line = "open"
     THEN line' = "none" /\ handleClosed
     ELSE UNCHANGED <<line, observed, signalingTask>>
  /\ UNCHANGED <<plan, timers, ticks, prestarted, attempts, stops>>

Next ==
  \/ FollowUp
  \/ \E n \in Leaves : Answer(n)
  \/ \E n \in Leaves : Failure(n)
  \/ \E t \in Groups : TimeoutReached(t)
  \/ NextTick \/ ConnectionCloses
  \/ prestart \/ stopReturningPromise \/ Start \/ Retry

(* Timers and ticks fire.  In the start, what a group waits for can be left   *)
(* behind; the other operations wait for the devices and the senders, which   *)
(* are taken to answer.                                                        *)
Fairness ==
  /\ WF_vars(FollowUp \/ NextTick \/ \E t \in Groups : TimeoutReached(t))
  /\ WF_vars(plan \notin Promised /\ \E n \in Deaf : Answer(n))

Spec == Init /\ [][Next]_vars /\ Fairness

----------------------------------------------------------------------------
(* Values of the variables. *)
TypeOK ==
  /\ plan \in Operations
  /\ tasks \in [Node -> [status : {"idle", "running", "canceled", "finished"},
                         promise : {"none", "pending", "kept", "broken"}]]
  /\ timers \in Seq(Groups) /\ ToSet(timers) \subseteq {n \in Groups : Pending(n)}
  /\ ticks \in Seq(SUBSET [call : {"cancel", "reject"}, on : {n \in Node : IsOnce(n)}])
  /\ line \in {"none", "opening", "open", "closing"}
  /\ signalingTask \in BOOLEAN /\ prestarted \in {"none", "pending"} /\ observed \in BOOLEAN
  /\ attempts \in 0..MaxAttempts /\ stops \in 0..MaxStops

(* The promise of every operation is settled once and always in the end,      *)
(* whatever its tasks wait for, and with promises even when the microphone    *)
(* never answers (TimeoutTask, SerialGroupTask, ParallelGroupTask, OnceTask). *)
Op == INSTANCE Operation WITH phase <- tasks["root"].promise
ImplementsOperation == Op!Spec

(* No task begins after its operation has ended, and once the callbacks of    *)
(* its cancellation have run nothing of it is left, no timer and no observer  *)
(* of the signaling client: only a device or a sender that has yet to answer  *)
(* (OnceTask.cancel's order, TimeoutTask's finally).                          *)
Over == Settled("root") /\ ticks = <<>> /\ Quiet
NothingOutlives ==
  /\ [](Over => timers = <<>> /\ \A n \in Leaves : Pending(n) => n \in Deaf)
  /\ [][\A n \in Leaves : ~Pending(n) /\ Pending(n)' =>
          Pending("root") \/ tasks["root"] = New]_vars

(* A start joins the meeting over a connection that is there, the one opened  *)
(* in advance or its own; the application may at most have begun to close it  *)
(* (prestart, preStartObserver, createOrReuseSignalingTask, actionConnect).   *)
JoinsOpenConnection ==
  [][\A n \in Leaves \cap {"JoinAndReceiveIndex"} :
       ~Pending(n) /\ Pending(n)' => line \in {"open", "closing"}]_vars
==============================================================================
