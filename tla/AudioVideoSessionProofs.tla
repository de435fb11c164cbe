------------------------ MODULE AudioVideoSessionProofs ------------------------
(***************************************************************************)
(* For any circumstances, any number of inputs and any bound on forgotten   *)
(* timers: a session never waits for what cannot come, its connection        *)
(* attempts and updates run alone, and its observers hear of it in order.   *)
(*                                                                         *)
(* SessionInv relates five things: the state, the work that runs next, the  *)
(* operations in flight, the tasks still paused and the backoff timer.      *)
(* CtlInv and OpsInv are the types; OwnerInv says who ends a state, PausedInv *)
(* who resumes a task.  What holds only while failures come one at a time,  *)
(* what the observers have heard among it, is in TurnInv.                   *)
(***************************************************************************)
EXTENDS AudioVideoSession, TLAPS

(* A bag: how many there are of each of its elements, at least one. *)

Positive(B) == B \in [DOMAIN B -> Nat \ {0}]

(* A bag with one more of an element has one more of it and no less of any other. *)
LEMMA AddOne ==
  ASSUME NEW B, Positive(B), NEW o
  PROVE  /\ Positive(B (+) SetToBag({o}))
         /\ DOMAIN (B (+) SetToBag({o})) = DOMAIN B \cup {o}
         /\ \A p \in DOMAIN B : p # o => (B (+) SetToBag({o}))[p] = B[p]
         /\ (B (+) SetToBag({o}))[o] = IF o \in DOMAIN B THEN B[o] + 1 ELSE 1
<1> DEFINE C == B (+) SetToBag({o})
<1>1. C = [e \in DOMAIN B \cup {o} |->
             (IF e \in DOMAIN B THEN B[e] ELSE 0) + (IF e \in {o} THEN 1 ELSE 0)]
  BY DEF (+), SetToBag
<1> HIDE DEF C
<1>2. DOMAIN C = DOMAIN B \cup {o}  BY <1>1
<1>3. \A p \in DOMAIN B : p # o => C[p] = B[p]  BY <1>1 DEF Positive
<1>4. C[o] = IF o \in DOMAIN B THEN B[o] + 1 ELSE 1  BY <1>1 DEF Positive
<1>5. \A p \in DOMAIN C : C[p] \in Nat \ {0}  BY <1>2, <1>3, <1>4 DEF Positive
<1>6. Positive(C)  BY <1>1, <1>5 DEF Positive
<1> QED  BY <1>2, <1>3, <1>4, <1>6 DEF C

(* A bag with one less of an element has one less of it and as many of any other. *)
LEMMA TakeOne ==
  ASSUME NEW B, Positive(B), NEW o, o \in DOMAIN B
  PROVE  /\ Positive(B (-) SetToBag({o}))
         /\ DOMAIN (B (-) SetToBag({o})) = IF B[o] = 1 THEN DOMAIN B \ {o} ELSE DOMAIN B
         /\ \A p \in DOMAIN B : p # o => (B (-) SetToBag({o}))[p] = B[p]
<1> DEFINE D == [e \in DOMAIN B |-> IF e \in {o} THEN B[e] - 1 ELSE B[e]]
           C == B (-) SetToBag({o})
<1>1. C = [e \in {d \in DOMAIN D : D[d] > 0} |-> D[e]]
  BY DEF (-), SetToBag
<1> HIDE DEF C
<1>2. DOMAIN D = DOMAIN B /\ \A p \in DOMAIN B : p # o => D[p] = B[p] /\ D[p] > 0
  BY DEF Positive
<1>3. D[o] = B[o] - 1  OBVIOUS
<1> HIDE DEF D
<1>4. DOMAIN C = {d \in DOMAIN D : D[d] > 0}  BY <1>1
<1>5. DOMAIN C = IF B[o] = 1 THEN DOMAIN B \ {o} ELSE DOMAIN B
  BY <1>2, <1>3, <1>4 DEF Positive
<1>6. \A p \in DOMAIN B : p # o => C[p] = B[p]  BY <1>1, <1>2
<1>7. \A p \in DOMAIN C : C[p] \in Nat \ {0}
  BY <1>1, <1>2, <1>3, <1>4 DEF Positive
<1>8. Positive(C)  BY <1>1, <1>7 DEF Positive
<1> QED  BY <1>5, <1>6, <1>8 DEF C

-----------------------------------------------------------------------------
(* The work that runs next, if JavaScript is running: only the innermost      *)
(* frame can have one, and the state is the one its perform moved to.         *)
Pending == stack # <<>> /\ Head(stack).progress = "begun"
Job == IF Pending THEN Head(stack).work ELSE NoWork

(* The works of each state. *)
JobKinds ==
  [NotConnected  |-> {"notifyStop", "cleaned"},
   Connecting    |-> {"start", "retryConnect", "reconnect"},
   Connected     |-> {"finishConnecting", "finishUpdating", "operationFailed"},
   Updating      |-> {"update", "restart"},
   Disconnecting |-> {"stop", "failConnect", "failSession"}]

(* perform nests four deep at most, and only the innermost has a work to run. *)
StackInv ==
  /\ stack \in Seq(Controller!Frames) /\ Len(stack) <= 4
  /\ \A i \in 2..Len(stack) : stack[i].progress # "begun"

(* The work that runs next belongs to the state. *)
JobInv == Pending => Job.kind \in JobKinds[currentState]

(* An action and its work are deferred together. *)
SlotInv ==
  \/ deferredAction = "none" /\ deferredWork = NoWork
  \/ deferredAction = "Disconnect" /\ deferredWork = Work("stop", "none")
  \/ deferredAction = "Reconnect" /\ deferredWork = Work("reconnect", "none")
  \/ deferredAction = "Update" /\ deferredWork \in {Work("update", "none"), Work("restart", "none")}

CtlInv == currentState \in Controller!States /\ StackInv /\ JobInv /\ SlotInv

OpSet == [kind : OpKinds, status : Statuses \cup {"none"}]
OpsInv == Positive(ops) /\ DOMAIN ops \subseteq OpSet

(* A state of transit has a work or an operation that will end it. *)
Attempts == {"connect", "reconnect"}
Updates == {"update", "restartStopped", "restartAgain"}
Endings == {"disconnect", "disconnectAndRetry"}
Retries == {"retryAfterDisconnect"}
Flying(K) == \E o \in DOMAIN ops : o.kind \in K

OwnerInv ==
  ~Pending =>
    /\ currentState = "Connecting" => Flying(Attempts)
    /\ currentState = "Updating" => Flying(Updates)
    /\ currentState = "Disconnecting" => Flying(Endings)

(* Paused tasks are resumed by a timer that will fire, or by the work under   *)
(* way; otherwise by the operation that follows.                             *)
PausedInv ==
  currentState = "Connected" /\ ~Pending =>
    \/ paused = {} \/ armed \/ orphans > 0
    \/ toResume # "none" /\ paused \subseteq {toResume}

(* While an update is under way both tasks are paused, unless late reports    *)
(* start updates while the other is being resumed.                           *)
ConsistentInv ==
  "late" \notin hard =>
    /\ currentState = "Updating" /\ ~Pending => paused = Tasks
    /\ toResume # "none" =>
         /\ currentState # "Updating" /\ ~Pending
         /\ stack # <<>> => Head(stack).work.kind \in {"finishConnecting", "finishUpdating"}

(* The work that resumes the tasks has run when one of them is to be resumed. *)
ResumeInv == toResume # "none" => Job.kind \notin {"finishConnecting", "finishUpdating"}

(* A session that is stopped hears nothing from a connection. *)
QuietInv == currentState = "NotConnected" => ~listening

(* One operation of the kinds K at a time, and only where it belongs. *)
Single(K) ==
  \A o \in DOMAIN ops : o.kind \in K =>
    ops[o] = 1 /\ \A p \in DOMAIN ops : p.kind \in K => p = o

SingleIn(K, st) ==
  Single(K) /\ (Flying(K) => currentState = st /\ ~Pending)

(* Attempts, disconnects and retries, in turn: one of each, in its own state. *)
AttemptInv == SingleIn(Attempts, "Connecting")
EndInv == SingleIn(Endings, "Disconnecting")
RetryInv ==
  /\ Single(Retries)
  /\ Flying(Retries) =>
       currentState = "NotConnected" /\ Job.kind \in {"none", "cleaned"}
       /\ lastNotified = "connecting" /\ ~armed

(* Unless a restart is cut in half, an update is in flight only while a session *)
(* is Updating, and never with another.                                      *)
UpdateInv == "half" \notin hard => SingleIn(Updates, "Updating")

(* In turn, no timer is forgotten and none is left to fire when a session     *)
(* stops or an operation has failed.                                         *)
BackoffInv ==
  /\ orphans = 0
  /\ deferredAction # "Disconnect"
  /\ currentState = "Disconnecting" \/ Job.kind \in {"operationFailed", "notifyStop"} => ~armed

(* What observers have heard of a session that is starting, or under way. *)
Before == {"none", "stopped", "left", "connecting"}
During == {"started", "reconnecting"}

(* What the observers have heard, state by state. *)
NoteNotConnected ==
  currentState = "NotConnected" =>
    IF Job.kind = "notifyStop" THEN lastNotified \in {"connecting"} \cup During
    ELSE /\ lastNotified \in Before
         /\ armed \/ Job.kind = "cleaned" => lastNotified = "connecting"
NoteConnecting ==
  currentState = "Connecting" =>
    /\ Job.kind = "start" => lastNotified \in Before
    /\ Job.kind = "retryConnect" \/ Flying({"connect"}) => lastNotified = "connecting"
    /\ Job.kind = "reconnect" \/ Flying({"reconnect"}) => lastNotified \in During
NoteConnected ==
  /\ currentState = "Connected" =>
       lastNotified \in During \/ (Job.kind = "finishConnecting" /\ lastNotified = "connecting")
  /\ currentState = "Updating" => lastNotified \in During
NoteDisconnecting ==
  currentState = "Disconnecting" =>
    /\ lastNotified \in {"connecting"} \cup During
    /\ Job.kind = "failConnect" \/ Flying({"disconnectAndRetry"}) => lastNotified = "connecting"

NoteInv == NoteNotConnected /\ NoteConnecting /\ NoteConnected /\ NoteDisconnecting

(* Failures come one at a time. *)
InTurn == "overlap" \notin hard
TurnInv == InTurn => AttemptInv /\ UpdateInv /\ EndInv /\ RetryInv /\ BackoffInv /\ NoteInv

PlaceInv == paused \in SUBSET Tasks /\ toResume \in Tasks \cup {"none"}

SessionInv ==
  /\ CtlInv /\ OpsInv /\ PlaceInv /\ OwnerInv /\ PausedInv /\ ConsistentInv /\ ResumeInv /\ QuietInv
  /\ TurnInv
-----------------------------------------------------------------------------
(* The controller's steps, in terms of the state and of the work that runs   *)
(* next.                                                                     *)
LEMMA EdgeTable ==
  ASSUME NEW s, NEW a, NEW t
  PROVE  <<s, a, t>> \in Controller!Edges <=>
           \/ a = "Connect" /\ s = "NotConnected" /\ t = "Connecting"
           \/ a = "Reconnect" /\ s = "Connected" /\ t = "Connecting"
           \/ a = "Update" /\ s = "Connected" /\ t = "Updating"
           \/ a = "Disconnect" /\ s = "Connected" /\ t = "Disconnecting"
           \/ a = "Fail" /\ s \in {"Connecting", "Connected", "Updating"} /\ t = "Disconnecting"
           \/ a = "FinishConnecting" /\ s = "Connecting" /\ t = "Connected"
           \/ a = "FinishUpdating" /\ s = "Updating" /\ t = "Connected"
           \/ a = "FinishDisconnecting" /\ s = "Disconnecting" /\ t = "NotConnected"
  BY DEF Controller!Edges, Controller!StartEdges, Controller!FailEdges, Controller!FinishEdges

(* The actions that are deferred, and the states that defer them. *)
LEMMA Deferrable ==
  ASSUME NEW a \in Controller!Actions
  PROVE  Controller!CanDefer(a) <=>
           a \in {"Disconnect", "Fail", "Reconnect", "Update"}
             /\ currentState \in {"Connecting", "Updating"}
  BY DEF Controller!CanDefer, Controller!DeferPriority, Controller!Actions

(* A new frame has its work to run, a marked one has none. *)
LEMMA Push ==
  ASSUME StackInv, NEW f \in Controller!Frames, f.progress = "begun",
         NEW base \in Seq(Controller!Frames), Len(base) < 4,
         \A i \in 1..Len(base) : base[i].progress # "begun",
         stack' = <<f>> \o base
  PROVE  StackInv' /\ Pending' /\ Job' = f.work
<1>1. /\ stack' \in Seq(Controller!Frames) /\ Len(base) \in Nat /\ Len(stack') = Len(base) + 1
      /\ stack' # <<>> /\ Head(stack') = f
      /\ \A i \in 1..Len(base) : stack'[i + 1] = base[i]
  OBVIOUS
<1>2. ASSUME NEW i \in 2..Len(stack') PROVE stack'[i].progress # "begun"
  <2>1. i - 1 \in 1..Len(base) /\ stack'[i] = base[i - 1]  BY <1>1
  <2> QED  BY <2>1
<1>3. StackInv'  BY <1>1, <1>2 DEF StackInv
<1>4. Pending'  BY <1>1 DEF Pending
<1> QED  BY <1>1, <1>3, <1>4 DEF Job

(* Marking the caller leaves the works of the stack, and none of them to run. *)
LEMMA Marked ==
  ASSUME StackInv, NEW p \in {"further", "last"}, NEW base, base = Controller!CallerMarked(p)
  PROVE  /\ base \in Seq(Controller!Frames) /\ Len(base) = Len(stack)
         /\ \A i \in 1..Len(base) : base[i].progress # "begun"
         /\ base # <<>> => Head(base).work = Head(stack).work
<1>1. /\ Len(stack) \in Nat /\ DOMAIN stack = 1..Len(stack)
      /\ \A i \in 1..Len(stack) : stack[i] \in Controller!Frames
  BY DEF StackInv
<1>2. ASSUME NEW i \in 1..Len(stack)
      PROVE  /\ base[i] \in Controller!Frames /\ base[i].progress # "begun"
             /\ base[i].work = stack[i].work
  <2>1. base[i] = IF p = "last" \/ (i = 1 /\ stack[1].progress = "begun")
                  THEN [stack[i] EXCEPT !.progress = p] ELSE stack[i]
    BY <1>1 DEF Controller!CallerMarked
  <2>2. stack[i] \in Controller!Frames  BY <1>1
  <2>3. CASE p = "last" \/ (i = 1 /\ stack[1].progress = "begun")
    BY <2>1, <2>2, <2>3 DEF Controller!Frames, Controller!Progress
  <2>4. CASE p # "last" /\ i = 1 /\ stack[1].progress # "begun"
    BY <2>1, <2>2, <2>4
  <2>5. CASE p # "last" /\ i # 1
    BY <2>1, <2>2, <2>5, <1>1 DEF StackInv
  <2> QED  BY <2>3, <2>4, <2>5
<1>3. base = [i \in 1..Len(stack) |-> base[i]]  BY <1>1 DEF Controller!CallerMarked
<1>4. base \in [1..Len(stack) -> Controller!Frames]  BY <1>2, <1>3
<1>5. base \in Seq(Controller!Frames) /\ Len(base) = Len(stack)  BY <1>1, <1>4
<1>6. ASSUME base # <<>> PROVE Head(base).work = Head(stack).work
  <2>1. 1 \in 1..Len(stack) /\ Head(base) = base[1]  BY <1>1, <1>5, <1>6
  <2>2. Head(stack) = stack[1]  BY <1>1, <2>1
  <2> QED  BY <1>2, <2>1, <2>2
<1> QED  BY <1>2, <1>5, <1>6

(* The frames below the innermost are marked. *)
LEMMA Popped ==
  ASSUME StackInv, stack # <<>>, NEW base, base = Tail(stack)
  PROVE  /\ base \in Seq(Controller!Frames) /\ Len(base) < 4
         /\ \A i \in 1..Len(base) : base[i].progress # "begun"
<1>1. /\ base \in Seq(Controller!Frames) /\ Len(stack) \in Nat \ {0} /\ Len(base) = Len(stack) - 1
      /\ \A i \in 1..Len(base) : base[i] = stack[i + 1]
  BY DEF StackInv
<1>2. ASSUME NEW i \in 1..Len(base) PROVE base[i].progress # "begun"
  <2>1. i + 1 \in 2..Len(stack)  BY <1>1
  <2> QED  BY <1>1, <2>1 DEF StackInv
<1> QED  BY <1>1, <1>2 DEF StackInv

(* A stack of marked frames has no work to run. *)
LEMMA Waiting ==
  ASSUME NEW base \in Seq(Controller!Frames), Len(base) <= 4,
         \A i \in 1..Len(base) : base[i].progress # "begun", stack' = base
  PROVE  StackInv' /\ ~Pending' /\ Job' = NoWork
<1>1. StackInv'
  <2>1. \A i \in 2..Len(base) : i \in 1..Len(base)  OBVIOUS
  <2> QED  BY <2>1 DEF StackInv
<1>2. ~Pending'
  <2>1. base # <<>> => 1 \in 1..Len(base) /\ Head(base) = base[1]  OBVIOUS
  <2> QED  BY <2>1 DEF Pending
<1> QED  BY <1>1, <1>2 DEF Job

(* What becomes of a call of perform. *)
Moves(a, w) ==
  /\ <<currentState, a, currentState'>> \in Controller!Edges
  /\ Pending' /\ Job' = w
  /\ UNCHANGED <<deferredAction, deferredWork>>
Stays == currentState' = currentState /\ ~Pending' /\ Job' = NoWork
Keeps == UNCHANGED <<deferredAction, deferredWork>>

(* A call of perform moves, or is deferred or dropped and stays. *)
LEMMA Performed ==
  ASSUME CtlInv, NEW a \in Controller!Actions, NEW w \in Works, Controller!Perform(a, w)
  PROVE  /\ StackInv'
         /\ \/ Moves(a, w)
            \/ /\ \A t \in Controller!States : <<currentState, a, t>> \notin Controller!Edges
               /\ Stays
               /\ Keeps \/ (Controller!CanDefer(a) /\ deferredAction' = a /\ deferredWork' = w)
<1> DEFINE base == Controller!AfterCall(a)
           f == Controller!Frame(a, w)
<1>1. base \in Seq(Controller!Frames) /\ Len(base) = Len(stack)
      /\ \A i \in 1..Len(base) : base[i].progress # "begun"
  BY Marked DEF CtlInv, Controller!AfterCall
<1>2. f \in Controller!Frames /\ f.progress = "begun" /\ f.work = w
  BY DEF Controller!Frame, Controller!Frames, Controller!Progress, CtlInv
<1>3. CASE Controller!Transition(a, w, base) /\ UNCHANGED Controller!slot
  <2>1. PICK t \in Controller!States :
          <<currentState, a, t>> \in Controller!Edges /\ currentState' = t /\ stack' = <<f>> \o base
    BY <1>3 DEF Controller!Transition
  <2>2. Len(base) < 4  BY <1>1 DEF Controller!Perform
  <2>3. UNCHANGED <<deferredAction, deferredWork>>  BY <1>3 DEF Controller!slot
  <2> HIDE DEF base, f
  <2>4. StackInv' /\ Pending' /\ Job' = w
    BY <1>1, <1>2, <2>1, <2>2, Push DEF CtlInv
  <2> QED  BY <2>1, <2>3, <2>4 DEF Moves
<1>4. CASE ~Controller!HasTransition(a) /\ stack' = base
  <2> HIDE DEF base
  <2>1. StackInv' /\ ~Pending' /\ Job' = NoWork
    BY <1>1, <1>4, Waiting DEF CtlInv, StackInv
  <2>2. \A t \in Controller!States : <<currentState, a, t>> \notin Controller!Edges
    BY <1>4 DEF Controller!HasTransition
  <2>3. ~ \E t : <<currentState, a, t>> \in Controller!Edges /\ t \in Controller!States
    BY <2>2
  <2>4. currentState' = currentState
        /\ (Keeps \/ (Controller!CanDefer(a) /\ deferredAction' = a /\ deferredWork' = w))
    <3>1. ~Controller!Transition(a, w, base)  BY <2>3 DEF Controller!Transition
    <3> QED
      BY <1>4, <3>1 DEF Controller!Perform, Controller!DeferAction, Controller!slot, Keeps, base
  <2> QED  BY <2>1, <2>2, <2>4 DEF Stays
<1> QED  BY <1>3, <1>4 DEF Controller!Perform

(* What becomes of the deferred action when a work returns. *)
LEMMA WorkReturned ==
  ASSUME CtlInv, Controller!WorkReturns
  PROVE  /\ CtlInv'
         /\ \/ Stays
            \/ /\ currentState = "Connected" /\ Pending'
               /\ \/ deferredAction = "Disconnect" /\ currentState' = "Disconnecting"
                     /\ Job'.kind = "stop"
                  \/ deferredAction = "Reconnect" /\ currentState' = "Connecting"
                     /\ Job'.kind = "reconnect"
                  \/ deferredAction = "Update" /\ currentState' = "Updating"
                     /\ Job'.kind \in {"update", "restart"}
         /\ deferredAction' \in {"none", deferredAction}
<1> DEFINE base == Tail(stack)
           f == Controller!Frame(deferredAction, deferredWork)
<1>0. stack # <<>> /\ Controller!PerformDeferredAction(base)  BY DEF Controller!WorkReturns
<1>1. base \in Seq(Controller!Frames) /\ Len(base) < 4 /\ \A i \in 1..Len(base) : base[i].progress # "begun"
  BY <1>0, Popped DEF CtlInv
<1>2. deferredAction # "none" => deferredAction \in {"Disconnect", "Reconnect", "Update"}
      /\ deferredWork \in Works
  BY DEF CtlInv, SlotInv, Work, Works
<1>3. CASE deferredAction # "none" /\ Controller!Transition(deferredAction, deferredWork, base)
           /\ Controller!ClearSlot
  <2>1. PICK t \in Controller!States : /\ <<currentState, deferredAction, t>> \in Controller!Edges
                                       /\ currentState' = t /\ stack' = <<f>> \o base
    BY <1>3 DEF Controller!Transition
  <2>2. f \in Controller!Frames /\ f.progress = "begun" /\ f.work = deferredWork
    BY <1>2, <1>3 DEF Controller!Frame, Controller!Frames, Controller!Progress, CtlInv, Controller!Actions
  <2>3. deferredAction' = "none" /\ deferredWork' = NoWork
    BY <1>3 DEF Controller!ClearSlot, Controller!NoAction
  <2> HIDE DEF base, f
  <2>4. StackInv' /\ Pending' /\ Job' = deferredWork
    BY <1>1, <2>1, <2>2, Push DEF CtlInv
  <2>5. \/ currentState = "Connected" /\ deferredAction = "Disconnect"
           /\ currentState' = "Disconnecting"
        \/ currentState = "Connected" /\ deferredAction = "Reconnect"
           /\ currentState' = "Connecting"
        \/ currentState = "Connected" /\ deferredAction = "Update" /\ currentState' = "Updating"
    BY <1>2, <1>3, <2>1, EdgeTable
  <2>6. /\ deferredAction = "Disconnect" => Job'.kind = "stop"
        /\ deferredAction = "Reconnect" => Job'.kind = "reconnect"
        /\ deferredAction = "Update" => Job'.kind \in {"update", "restart"}
    BY <2>4 DEF CtlInv, SlotInv, Work
  <2>7. JobInv'  BY <2>5, <2>6 DEF JobInv, JobKinds
  <2>8. SlotInv'  BY <2>3 DEF SlotInv
  <2> QED  BY <2>1, <2>3, <2>4, <2>5, <2>6, <2>7, <2>8 DEF CtlInv
<1>4. CASE stack' = base /\ currentState' = currentState
           /\ (UNCHANGED Controller!slot \/ Controller!ClearSlot)
  <2> HIDE DEF base
  <2>1. StackInv' /\ ~Pending' /\ Job' = NoWork
    BY <1>1, <1>4, Waiting
  <2>2. JobInv'  BY <2>1 DEF JobInv
  <2>3. SlotInv' /\ deferredAction' \in {"none", deferredAction}
    BY <1>4 DEF CtlInv, SlotInv, Controller!slot, Controller!ClearSlot, Controller!NoAction
  <2> QED  BY <1>4, <2>1, <2>2, <2>3 DEF CtlInv, Stays
<1> QED  BY <1>0, <1>3, <1>4 DEF Controller!PerformDeferredAction, Controller!NoAction

(* A call of perform whose action leads from the states froms to t. *)
LEMMA Performs ==
  ASSUME CtlInv, NEW a \in Controller!Actions, NEW w \in Works, NEW t \in Controller!States, NEW froms,
         \A s, u : <<s, a, u>> \in Controller!Edges <=> s \in froms /\ u = t,
         w.kind \in JobKinds[t],
         a \in {"Disconnect", "Reconnect", "Update"} =>
           \/ a = "Disconnect" /\ w = Work("stop", "none")
           \/ a = "Reconnect" /\ w = Work("reconnect", "none")
           \/ a = "Update" /\ w \in {Work("update", "none"), Work("restart", "none")},
         a = "Fail" => {"Connecting", "Updating"} \subseteq froms,
         Controller!Perform(a, w)
  PROVE  /\ CtlInv'
         /\ \/ currentState \in froms /\ currentState' = t /\ Pending' /\ Job' = w /\ Keeps
            \/ /\ currentState \notin froms /\ Stays
               /\ \/ Keeps
                  \/ a \in {"Disconnect", "Reconnect", "Update"} /\ deferredAction' = a
                       /\ currentState \in {"Connecting", "Updating"}
<1>1. StackInv'  BY Performed
<1>2. CASE Moves(a, w)
  <2>1. currentState \in froms /\ currentState' = t /\ Pending' /\ Job' = w /\ Keeps
    BY <1>2 DEF Moves, Keeps
  <2>2. JobInv'  BY <2>1 DEF JobInv
  <2>3. SlotInv'  BY <2>1 DEF CtlInv, SlotInv, Keeps
  <2> QED  BY <1>1, <2>1, <2>2, <2>3 DEF CtlInv
<1>3. CASE ~Moves(a, w)
  <2>1. /\ Stays /\ \A u \in Controller!States : <<currentState, a, u>> \notin Controller!Edges
        /\ Keeps \/ (Controller!CanDefer(a) /\ deferredAction' = a /\ deferredWork' = w)
    BY <1>3, Performed
  <2>2. currentState \notin froms  BY <2>1
  <2>3. Keeps
        \/ (/\ a \in {"Disconnect", "Reconnect", "Update"} /\ deferredAction' = a /\ deferredWork' = w
                  /\ currentState \in {"Connecting", "Updating"})
    BY <2>1, <2>2, Deferrable
  <2>4. JobInv'  BY <2>1 DEF JobInv, Stays
  <2>5. SlotInv'  BY <2>3 DEF CtlInv, SlotInv, Keeps
  <2> QED  BY <1>1, <2>1, <2>2, <2>3, <2>4, <2>5 DEF CtlInv, Stays
<1> QED  BY <1>2, <1>3

(* The calls of perform one by one. *)
LEMMA Connects ==
  ASSUME CtlInv, NEW w \in Works, w.kind \in {"start", "retryConnect"}, Controller!Perform("Connect", w)
  PROVE  /\ CtlInv' /\ Keeps
         /\ \/ currentState = "NotConnected" /\ currentState' = "Connecting" /\ Pending' /\ Job' = w
            \/ currentState # "NotConnected" /\ Stays
<1>1. "Connect" \in Controller!Actions /\ "Connecting" \in Controller!States
      /\ w.kind \in JobKinds["Connecting"]
  BY DEF Controller!Actions, Controller!States, JobKinds
<1>2. \A s, u : <<s, "Connect", u>> \in Controller!Edges
      <=> s \in {"NotConnected"} /\ u = "Connecting"
  BY EdgeTable
<1> QED  BY <1>1, <1>2, Performs

(* Reconnect, as the timer of a backoff asks for it. *)
LEMMA Reconnects ==
  ASSUME CtlInv, Controller!Perform("Reconnect", Work("reconnect", "none"))
  PROVE  /\ CtlInv'
         /\ \/ currentState = "Connected" /\ currentState' = "Connecting" /\ Pending'
               /\ Job'.kind = "reconnect" /\ Keeps
            \/ currentState # "Connected" /\ Stays /\ (Keeps \/ deferredAction' = "Reconnect")
<1> DEFINE w == Work("reconnect", "none")
<1>1. "Reconnect" \in Controller!Actions /\ "Connecting" \in Controller!States /\ w \in Works
      /\ w.kind = "reconnect" /\ w.kind \in JobKinds["Connecting"]
  BY DEF Controller!Actions, Controller!States, JobKinds, Works, Work
<1>2. \A s, u : <<s, "Reconnect", u>> \in Controller!Edges
      <=> s \in {"Connected"} /\ u = "Connecting"
  BY EdgeTable
<1>3. w = Work("reconnect", "none")  OBVIOUS
<1> HIDE DEF w
<1> QED  BY <1>1, <1>2, <1>3, Performs

(* Update, to negotiate again or to restart the local tile. *)
LEMMA UpdatesOrDefers ==
  ASSUME CtlInv, NEW w \in {Work("update", "none"), Work("restart", "none")}, Controller!Perform("Update", w)
  PROVE  /\ CtlInv'
         /\ \/ currentState = "Connected" /\ currentState' = "Updating" /\ Pending' /\ Keeps
               /\ Job'.kind \in {"update", "restart"}
            \/ currentState # "Connected" /\ Stays /\ (Keeps \/ deferredAction' = "Update")
<1>1. "Update" \in Controller!Actions /\ "Updating" \in Controller!States /\ w \in Works
      /\ w.kind \in {"update", "restart"} /\ w.kind \in JobKinds["Updating"]
  BY DEF Controller!Actions, Controller!States, JobKinds, Works, Work
<1>2. \A s, u : <<s, "Update", u>> \in Controller!Edges <=> s \in {"Connected"} /\ u = "Updating"
  BY EdgeTable
<1> QED  BY <1>1, <1>2, Performs

(* Disconnect, as stop asks for it. *)
LEMMA Disconnects ==
  ASSUME CtlInv, Controller!Perform("Disconnect", Work("stop", "none"))
  PROVE  /\ CtlInv'
         /\ \/ currentState = "Connected" /\ currentState' = "Disconnecting" /\ Pending'
               /\ Job'.kind = "stop" /\ Keeps
            \/ currentState # "Connected" /\ Stays /\ (Keeps \/ deferredAction' = "Disconnect")
<1> DEFINE w == Work("stop", "none")
<1>1. "Disconnect" \in Controller!Actions /\ "Disconnecting" \in Controller!States /\ w \in Works
      /\ w.kind = "stop" /\ w.kind \in JobKinds["Disconnecting"]
  BY DEF Controller!Actions, Controller!States, JobKinds, Works, Work
<1>2. \A s, u : <<s, "Disconnect", u>> \in Controller!Edges
      <=> s \in {"Connected"} /\ u = "Disconnecting"
  BY EdgeTable
<1>3. w = Work("stop", "none")  OBVIOUS
<1> HIDE DEF w
<1> QED  BY <1>1, <1>2, <1>3, Performs

(* Fail: nothing is left to fail of a session that is stopped or stopping. *)
LEMMA FailsOrDrops ==
  ASSUME CtlInv, NEW w \in Works, w.kind \in {"failConnect", "failSession"}, Controller!Perform("Fail", w)
  PROVE  /\ CtlInv' /\ Keeps
         /\ \/ currentState \in {"Connecting", "Connected", "Updating"}
               /\ currentState' = "Disconnecting"
               /\ Pending' /\ Job' = w
            \/ currentState \in {"NotConnected", "Disconnecting"} /\ Stays
<1>1. "Fail" \in Controller!Actions /\ "Disconnecting" \in Controller!States
      /\ w.kind \in JobKinds["Disconnecting"]
  BY DEF Controller!Actions, Controller!States, JobKinds
<1>2. \A s, u : <<s, "Fail", u>> \in Controller!Edges <=>
        s \in {"Connecting", "Connected", "Updating"} /\ u = "Disconnecting"
  BY EdgeTable
<1> DEFINE froms == {"Connecting", "Connected", "Updating"}
<1>3. froms = {"Connecting", "Connected", "Updating"} /\ {"Connecting", "Updating"} \subseteq froms
      /\ (currentState \in froms \/ currentState \in {"NotConnected", "Disconnecting"})
  BY DEF CtlInv, Controller!States
<1> HIDE DEF froms
<1>4. \A s, u : <<s, "Fail", u>> \in Controller!Edges <=> s \in froms /\ u = "Disconnecting"
  BY <1>2, <1>3
<1>5. /\ CtlInv' /\ Keeps
      /\ \/ currentState \in froms /\ currentState' = "Disconnecting" /\ Pending' /\ Job' = w
         \/ currentState \notin froms /\ Stays
  BY <1>1, <1>3, <1>4, Performs
<1> QED  BY <1>3, <1>5

(* FinishConnecting, at the end of a connect or of a reconnect. *)
LEMMA FinishesConnecting ==
  ASSUME CtlInv, NEW w \in Works, w.kind \in {"finishConnecting", "operationFailed"},
         Controller!Perform("FinishConnecting", w)
  PROVE  /\ CtlInv' /\ Keeps
         /\ \/ currentState = "Connecting" /\ currentState' = "Connected" /\ Pending' /\ Job' = w
            \/ currentState # "Connecting" /\ Stays
<1>1. "FinishConnecting" \in Controller!Actions /\ "Connected" \in Controller!States
      /\ w.kind \in JobKinds["Connected"]
  BY DEF Controller!Actions, Controller!States, JobKinds
<1>2. \A s, u : <<s, "FinishConnecting", u>> \in Controller!Edges
      <=> s \in {"Connecting"} /\ u = "Connected"
  BY EdgeTable
<1> QED  BY <1>1, <1>2, Performs

(* FinishUpdating, at the end of an update. *)
LEMMA FinishesUpdating ==
  ASSUME CtlInv, NEW w \in Works, w.kind \in {"finishUpdating", "operationFailed"},
         Controller!Perform("FinishUpdating", w)
  PROVE  /\ CtlInv' /\ Keeps
         /\ \/ currentState = "Updating" /\ currentState' = "Connected" /\ Pending' /\ Job' = w
            \/ currentState # "Updating" /\ Stays
<1>1. "FinishUpdating" \in Controller!Actions /\ "Connected" \in Controller!States
      /\ w.kind \in JobKinds["Connected"]
  BY DEF Controller!Actions, Controller!States, JobKinds
<1>2. \A s, u : <<s, "FinishUpdating", u>> \in Controller!Edges
      <=> s \in {"Updating"} /\ u = "Connected"
  BY EdgeTable
<1> QED  BY <1>1, <1>2, Performs

(* FinishDisconnecting, at the end of a disconnect. *)
LEMMA FinishesDisconnecting ==
  ASSUME CtlInv, NEW w \in Works, w.kind \in {"notifyStop", "cleaned"},
         Controller!Perform("FinishDisconnecting", w)
  PROVE  /\ CtlInv' /\ Keeps
         /\ \/ currentState = "Disconnecting" /\ currentState' = "NotConnected" /\ Pending'
               /\ Job' = w
            \/ currentState # "Disconnecting" /\ Stays
<1>1. "FinishDisconnecting" \in Controller!Actions /\ "NotConnected" \in Controller!States
      /\ w.kind \in JobKinds["NotConnected"]
  BY DEF Controller!Actions, Controller!States, JobKinds
<1>2. \A s, u : <<s, "FinishDisconnecting", u>> \in Controller!Edges <=>
        s \in {"Disconnecting"} /\ u = "NotConnected"
  BY EdgeTable
<1> QED  BY <1>1, <1>2, Performs

-----------------------------------------------------------------------------
(* What starts and ends of operations do to the kinds in flight.             *)
KindsKept(K) == (Flying(K)' <=> Flying(K)) /\ (Single(K) => Single(K)')

(* No operation starts or ends. *)
LEMMA SameOps == ASSUME OpsInv, ops' = ops, NEW K PROVE OpsInv' /\ KindsKept(K)
BY DEF OpsInv, Positive, KindsKept, Flying, Single

(* One operation starts. *)
LEMMA StartedOps ==
  ASSUME OpsInv, NEW o \in OpSet, ops' = Started(o), NEW K
  PROVE  /\ OpsInv'
         /\ o.kind \notin K => KindsKept(K)
         /\ o.kind \in K => Flying(K)' /\ (~Flying(K) => Single(K)')
<1>1. /\ Positive(ops') /\ DOMAIN ops' = DOMAIN ops \cup {o}
      /\ \A p \in DOMAIN ops : p # o => ops'[p] = ops[p]
      /\ ops'[o] = IF o \in DOMAIN ops THEN ops[o] + 1 ELSE 1
  BY AddOne DEF OpsInv, Started
<1>2. OpsInv'  BY <1>1 DEF OpsInv
<1>3. CASE o.kind \notin K  BY <1>1, <1>2, <1>3 DEF KindsKept, Flying, Single
<1>4. CASE o.kind \in K
  <2>1. Flying(K)'  BY <1>1, <1>4 DEF Flying
  <2>2. ASSUME ~Flying(K) PROVE Single(K)'
    <3>1. \A p \in DOMAIN ops' : p.kind \in K => p = o /\ ops'[p] = 1
      BY <1>1, <2>2, <1>4 DEF Flying
    <3> QED  BY <3>1 DEF Single
  <2> QED  BY <1>2, <1>4, <2>1, <2>2
<1> QED  BY <1>3, <1>4

(* One operation ends: the only one of its kinds leaves none of them. *)
LEMMA EndedOps ==
  ASSUME OpsInv, NEW o, InFlight(o), ops' = Ended(o), NEW K
  PROVE  /\ OpsInv' /\ o.kind \in OpKinds
         /\ o.kind \notin K => KindsKept(K)
         /\ o.kind \in K => Flying(K)
         /\ Single(K) => Single(K)' /\ (o.kind \in K => ~Flying(K)')
<1>0. o \in DOMAIN ops  BY DEF InFlight, BagIn, BagToSet
<1>1. /\ Positive(ops') /\ DOMAIN ops' = IF ops[o] = 1 THEN DOMAIN ops \ {o} ELSE DOMAIN ops
      /\ \A p \in DOMAIN ops : p # o => ops'[p] = ops[p]
  BY <1>0, TakeOne DEF OpsInv, Ended
<1>2. OpsInv' /\ o.kind \in OpKinds  BY <1>0, <1>1 DEF OpsInv, OpSet
<1>3. CASE o.kind \notin K
  <2>1. \A p : p.kind \in K => (p \in DOMAIN ops' <=> p \in DOMAIN ops)
    BY <1>1, <1>3
  <2>2. \A p \in DOMAIN ops : p.kind \in K => ops'[p] = ops[p]
    BY <1>1, <1>3
  <2> QED  BY <1>2, <1>3, <2>1, <2>2 DEF KindsKept, Flying, Single
<1>4. CASE o.kind \in K
  <2>1. Flying(K)  BY <1>0, <1>4 DEF Flying
  <2>2. ASSUME Single(K) PROVE Single(K)' /\ ~Flying(K)'
    <3>1. ops[o] = 1 /\ \A p \in DOMAIN ops : p.kind \in K => p = o
      BY <1>0, <1>4, <2>2 DEF Single
    <3>2. \A p \in DOMAIN ops' : p.kind \notin K
      BY <1>1, <3>1
    <3> QED  BY <3>2 DEF Single, Flying
  <2> QED  BY <1>2, <1>4, <2>1, <2>2
<1> QED  BY <1>3, <1>4

(* One operation ends and the next half of it starts. *)
LEMMA ReplacedOps ==
  ASSUME OpsInv, NEW o, InFlight(o), NEW q \in OpSet, ops' = Ended(o) (+) SetToBag({q}), NEW K
  PROVE  /\ OpsInv'
         /\ o.kind \notin K /\ q.kind \notin K => KindsKept(K)
         /\ q.kind \in K => Flying(K)'
         /\ Single(K) /\ o.kind \in K /\ q.kind \notin K => Single(K)' /\ ~Flying(K)'
         /\ ~Flying(K) /\ q.kind \in K => Single(K)'
         /\ o.kind \in K => Flying(K)
         /\ Single(K) /\ o.kind \in K /\ q.kind \in K => Single(K)'
<1>0. o \in DOMAIN ops  BY DEF InFlight, BagIn, BagToSet
<1> DEFINE B == Ended(o)
<1>1. /\ Positive(B) /\ DOMAIN B = IF ops[o] = 1 THEN DOMAIN ops \ {o} ELSE DOMAIN ops
      /\ \A p \in DOMAIN ops : p # o => B[p] = ops[p]
  BY <1>0, TakeOne DEF OpsInv, Ended
<1>2. ops' = B (+) SetToBag({q})  OBVIOUS
<1> HIDE DEF B
<1>3. /\ Positive(ops') /\ DOMAIN ops' = DOMAIN B \cup {q}
      /\ \A p \in DOMAIN B : p # q => ops'[p] = B[p]
      /\ ops'[q] = IF q \in DOMAIN B THEN B[q] + 1 ELSE 1
  <2>1. Positive(B)  BY <1>1
  <2> QED  BY ONLY <2>1, <1>2, AddOne
<1>4. OpsInv'  BY <1>0, <1>1, <1>3 DEF OpsInv
<1>5. ASSUME o.kind \notin K, q.kind \notin K PROVE KindsKept(K)
  <2>1. \A p : p.kind \in K => (p \in DOMAIN ops' <=> p \in DOMAIN ops)
    BY <1>1, <1>3, <1>5
  <2>2. \A p \in DOMAIN ops : p.kind \in K => ops'[p] = ops[p]
    BY <1>1, <1>3, <1>5
  <2> QED  BY <2>1, <2>2 DEF KindsKept, Flying, Single
<1>6. ASSUME q.kind \in K PROVE Flying(K)'  BY <1>3, <1>6 DEF Flying
<1>7. ASSUME Single(K), o.kind \in K, q.kind \notin K PROVE Single(K)' /\ ~Flying(K)'
  <2>1. ops[o] = 1 /\ \A p \in DOMAIN ops : p.kind \in K => p = o
    BY <1>0, <1>7 DEF Single
  <2>2. \A p \in DOMAIN ops' : p.kind \notin K  BY <1>1, <1>3, <1>7, <2>1
  <2> QED  BY <2>2 DEF Single, Flying
<1>8. ASSUME ~Flying(K), q.kind \in K PROVE Single(K)'
  <2>1. \A p \in DOMAIN ops : p.kind \notin K  BY <1>8 DEF Flying
  <2>2. q \notin DOMAIN B  BY <1>1, <2>1, <1>8
  <2>3. \A p \in DOMAIN ops' : p.kind \in K => p = q  BY <1>1, <1>3, <2>1
  <2>4. ops'[q] = 1  BY <1>3, <2>2
  <2> QED  BY <2>3, <2>4 DEF Single
<1>9. ASSUME o.kind \in K PROVE Flying(K)  BY <1>0, <1>9 DEF Flying
<1>10. ASSUME Single(K), o.kind \in K, q.kind \in K PROVE Single(K)'
  <2>1. ops[o] = 1 /\ \A p \in DOMAIN ops : p.kind \in K => p = o
    BY <1>0, <1>10 DEF Single
  <2>2. DOMAIN B = DOMAIN ops \ {o}  BY <1>1, <2>1
  <2>3. \A p \in DOMAIN B : p.kind \notin K  BY <2>1, <2>2
  <2>4. q \notin DOMAIN B  BY <2>3, <1>10
  <2>5. \A p \in DOMAIN ops' : p.kind \in K => p = q  BY <1>3, <2>3
  <2>6. ops'[q] = 1  BY <1>3, <2>4
  <2> QED  BY <2>5, <2>6 DEF Single
<1> QED  BY <1>4, <1>5, <1>6, <1>7, <1>8, <1>9, <1>10

(* Between turns no work is pending and no operation is about to go on. *)
LEMMA IdleFacts ==
  ASSUME Idle
  PROVE  ~Pending /\ Job = NoWork /\ Job.kind = "none" /\ stack = <<>> /\ toResume = "none"
         /\ ~Flying(Retries)
<1>1. stack = <<>> /\ toResume = "none"  BY DEF Idle, Returned
<1>2. ~Pending  BY <1>1 DEF Pending
<1>3. ~Flying(Retries)  BY DEF Idle, Flying, Continuations, Retries, BagToSet
<1> QED  BY <1>1, <1>2, <1>3 DEF Job, NoWork, Work

(* A work that runs is the innermost one, in the state of its action. *)
LEMMA RunFacts ==
  ASSUME CtlInv, NEW k, Running(k), k # "none"
  PROVE  /\ Pending /\ stack # <<>> /\ Job = Head(stack).work /\ Job.kind = k /\ Job \in Works
         /\ k \in JobKinds[currentState]
<1>1. Pending /\ Job = Head(stack).work /\ Job.kind = k  BY DEF Running, Pending, Job
<1>2. stack # <<>> /\ Head(stack) \in Controller!Frames  BY DEF Running, CtlInv, StackInv
<1>3. Job \in Works  BY <1>1, <1>2 DEF Controller!Frames
<1> QED  BY <1>1, <1>2, <1>3 DEF CtlInv, JobInv

(* Marking the caller is all that a call does which performs nothing. *)
LEMMA MarksOnly ==
  ASSUME CtlInv, stack' = Controller!CallerMarked("further"), UNCHANGED <<currentState, deferredAction, deferredWork>>
  PROVE  CtlInv' /\ Stays /\ Keeps
<1> DEFINE base == Controller!CallerMarked("further")
<1>1. base \in Seq(Controller!Frames) /\ Len(base) <= 4 /\ \A i \in 1..Len(base) : base[i].progress # "begun"
  BY Marked DEF CtlInv, StackInv
<1>2. stack' = base  OBVIOUS
<1> HIDE DEF base
<1>3. StackInv' /\ ~Pending' /\ Job' = NoWork  BY <1>1, <1>2, Waiting
<1>4. JobInv' /\ SlotInv'  BY <1>3 DEF JobInv, CtlInv, SlotInv
<1> QED  BY <1>3, <1>4 DEF CtlInv, Stays, Keeps

(* handleMeetingSessionStatus retries, fails the session, or updates it.      *)
LEMMA Handles ==
  ASSUME CtlInv, NEW s \in Statuses, HandleStatus(s)
  PROVE  /\ CtlInv' /\ deferredAction' \in {deferredAction, "Update"}
         /\ \/ /\ s = "fail" /\ Gate!WillRetry /\ Gate!Retry /\ Stays /\ Keeps
            \/ /\ armed' = armed /\ orphans' = orphans /\ (s = "fail" => ~Gate!WillRetry)
               /\ \/ /\ currentState \in {"Connecting", "Connected", "Updating"}
                        /\ currentState' = "Disconnecting"
                     /\ Pending' /\ Job'.kind = "failSession"
                  \/ /\ currentState = "Connected" /\ currentState' = "Updating"
                     /\ Pending' /\ Job'.kind \in {"update", "restart"} /\ s = "sdp"
                  \/ currentState # "Connected" /\ Stays
<1>1. CASE s = "sdp" /\ Controller!Perform("Update", Work("restart", "none")) /\ UNCHANGED gateVars
  BY <1>1, UpdatesOrDefers DEF gateVars, Keeps
<1>2. CASE s \in {"terminal", "fail"} /\ Controller!Perform("Fail", Work("failSession", s))
           /\ (s = "fail" => ~Gate!WillRetry) /\ armed' = armed /\ orphans' = orphans
  <2> DEFINE w == Work("failSession", s)
  <2>1. w \in Works /\ w.kind = "failSession"  BY DEF Works, Work
  <2>2. Controller!Perform("Fail", w)  BY <1>2
  <2> HIDE DEF w
  <2> QED  BY <1>2, <2>1, <2>2, FailsOrDrops DEF Keeps
<1>3. CASE s = "fail" /\ Gate!WillRetry /\ Gate!Retry
           /\ stack' = Controller!CallerMarked("further")
              /\ UNCHANGED <<currentState, deferredAction, deferredWork>>
  BY <1>3, MarksOnly DEF Keeps
<1> QED  BY <1>1, <1>2, <1>3 DEF HandleStatus, Gate!Disable, gateVars

(* The first of two tasks is resumed; what it kept may update the session.    *)
LEMMA Resumes ==
  ASSUME CtlInv, NEW t, NEW rest, ResumeFirst(t, rest)
  PROVE  /\ CtlInv' /\ paused' = paused \ {t} /\ toResume' = rest
         /\ deferredAction' \in {deferredAction, "Update"}
         /\ \/ Stays
            \/ currentState = "Connected" /\ currentState' = "Updating" /\ Pending'
                 /\ Job'.kind \in {"update", "restart"} /\ "late" \in hard
         /\ Stays => "late" \in hard \/ stack' = Controller!CallerMarked("further")
<1>1. paused' = paused \ {t} /\ toResume' = rest  BY DEF ResumeFirst
<1>2. CASE stack' = Controller!CallerMarked("further")
           /\ UNCHANGED <<currentState, deferredAction, deferredWork>>
  BY <1>1, <1>2, MarksOnly DEF Keeps
<1>3. CASE LateUpdate(t)
  BY <1>1, <1>3, UpdatesOrDefers DEF LateUpdate, Keeps
<1> QED  BY <1>2, <1>3 DEF ResumeFirst

-----------------------------------------------------------------------------
(* One lemma per action, or per kind of action: it keeps the invariant.      *)
SubKinds ==
  /\ Flying({"connect"}) => Flying(Attempts)
  /\ Flying({"reconnect"}) => Flying(Attempts)
  /\ Flying({"disconnectAndRetry"}) => Flying(Endings)

(* The kinds the notifications tell apart are among the attempts and endings. *)
LEMMA KindsWithin == SubKinds
BY DEF SubKinds, Flying, Attempts, Endings

NotedKinds == KindsKept({"connect"}) /\ KindsKept({"reconnect"})
/\ KindsKept({"disconnectAndRetry"})
AllKept ==
  KindsKept(Attempts) /\ KindsKept(Updates) /\ KindsKept(Endings) /\ KindsKept(Retries)
  /\ NotedKinds

(* While no operation starts or ends, all that is said of the kinds stays. *)
LEMMA OpsStay == ASSUME OpsInv, ops' = ops PROVE OpsInv' /\ AllKept
BY SameOps DEF AllKept, NotedKinds

(* Nothing in flight is nothing of any kind. *)
LEMMA OpsEmpty == ASSUME ops = EmptyBag, NEW K PROVE ~Flying(K)
BY DEF EmptyBag, SetToBag, Flying

(* No work is pending exactly when there is none to run. *)
LEMMA NoWorkFacts == NoWork.kind = "none" /\ (~Pending => Job = NoWork /\ Job.kind = "none")
BY DEF NoWork, Work, Job

(* When JavaScript has returned no work is pending. *)
LEMMA ReturnedFacts ==
  ASSUME Returned PROVE ~Pending /\ Job = NoWork /\ Job.kind = "none" /\ stack = <<>>
         /\ toResume = "none"
BY DEF Returned, Pending, Job, NoWork, Work

(* Without a recovery going on, a session that is not stopped is connected.   *)
LEMMA QuietState ==
  ASSUME SessionInv, Idle, NoRecovery
  PROVE  currentState \in {"NotConnected", "Connected"} /\ ~armed /\ orphans = 0
<1>1. ~Pending  BY IdleFacts
<1>2. ~Flying(Attempts) /\ ~Flying(Updates) /\ ~Flying(Endings)  BY OpsEmpty DEF NoRecovery
<1>3. currentState \notin {"Connecting", "Updating", "Disconnecting"}
  BY <1>1, <1>2 DEF SessionInv, OwnerInv
<1> QED  BY <1>3 DEF SessionInv, CtlInv, Controller!States, NoRecovery, NoBackoff


(* Nothing the invariant speaks of changes. *)
LEMMA NothingMoves ==
  ASSUME SessionInv, hard' = hard, UNCHANGED controllerVars, ops' = ops, armed' = armed, orphans' = orphans,
         listening' = listening, paused' = paused, toResume' = toResume, lastNotified' = lastNotified
  PROVE  SessionInv'
<1>1. UNCHANGED <<currentState, deferredAction, deferredWork, stack>>  BY DEF controllerVars
<1>2. (Pending' <=> Pending) /\ Job' = Job  BY <1>1 DEF Pending, Job
<1>3. OpsInv' /\ AllKept  BY OpsStay DEF SessionInv
<1>4. StackInv' /\ JobInv' /\ SlotInv'
  BY <1>1, <1>2 DEF SessionInv, CtlInv, StackInv, JobInv, SlotInv
<1>5. CtlInv'  BY <1>1, <1>4 DEF SessionInv, CtlInv
<1>6. PlaceInv'  BY DEF SessionInv, PlaceInv
<1>7. OwnerInv'  BY <1>1, <1>2, <1>3 DEF SessionInv, OwnerInv, AllKept, KindsKept
<1>8. PausedInv'  BY <1>1, <1>2 DEF SessionInv, PausedInv
<1>9. ConsistentInv'  BY <1>1, <1>2 DEF SessionInv, ConsistentInv
<1>10. QuietInv'  BY <1>1 DEF SessionInv, QuietInv
<1>11. ResumeInv'  BY <1>2 DEF SessionInv, ResumeInv
<1>12. ASSUME InTurn'
      PROVE  AttemptInv' /\ UpdateInv' /\ EndInv' /\ RetryInv' /\ BackoffInv' /\ NoteInv'
  <2>0. AttemptInv /\ UpdateInv /\ EndInv /\ RetryInv /\ BackoffInv /\ NoteInv
    BY <1>12 DEF InTurn, SessionInv, TurnInv
  <2>1. AttemptInv' /\ EndInv'
    BY <1>1, <1>2, <1>3, <2>0 DEF AttemptInv, EndInv, SingleIn, AllKept, KindsKept
  <2>2. RetryInv'  BY <1>1, <1>2, <1>3, <2>0 DEF RetryInv, AllKept, KindsKept
  <2>3. BackoffInv'  BY <1>1, <1>2, <2>0 DEF BackoffInv
  <2>4. NoteInv'
    BY <1>1, <1>2, <1>3, <2>0 DEF NoteInv, NoteNotConnected, NoteConnecting, NoteConnected,
       NoteDisconnecting, AllKept, NotedKinds, KindsKept
  <2>up. UpdateInv'
    BY <2>0, <1>1, <1>2, <1>3 DEF Stays, KindsKept, AllKept, UpdateInv, SingleIn
  <2> QED  BY <2>1, <2>2, <2>3, <2>4, <2>up
<1> QED  BY <1>3, <1>5, <1>6, <1>7, <1>8, <1>9, <1>10, <1>11, <1>12 DEF SessionInv, TurnInv


(* start is called. *)
LEMMA StartStep ==
  ASSUME SessionInv, hard' = hard, Start
  PROVE  SessionInv'
<1>1. ~Pending /\ Job.kind = "none" /\ toResume = "none" /\ ~Flying(Retries) /\ Idle
  BY IdleFacts DEF Start, Input
<1>2. OpsInv' /\ AllKept /\ SubKinds /\ UNCHANGED <<ops, listening, paused, toResume, lastNotified>>
  BY OpsStay, KindsWithin DEF SessionInv, Start
<1>3. /\ CtlInv' /\ Keeps
      /\ \/ currentState = "NotConnected" /\ currentState' = "Connecting" /\ Pending'
            /\ Job'.kind = "start"
         \/ currentState # "NotConnected" /\ Stays
  <2>1. Work("start", "none") \in Works /\ Work("start", "none").kind = "start"  BY DEF Works, Work
  <2> QED  BY <2>1, Connects DEF SessionInv, Start
<1>4. Stays => Job'.kind = "none"
  BY NoWorkFacts DEF Stays
<1>5. armed' = armed /\ orphans' = orphans
  BY DEF Start, gateVars
<1>6. OpsInv'  BY <1>2
<1>7. PlaceInv'  BY <1>2 DEF SessionInv, PlaceInv
<1>8. OwnerInv'  BY <1>1, <1>2, <1>3 DEF SessionInv, Stays, KindsKept, AllKept, OwnerInv
<1>9. PausedInv'  BY <1>1, <1>2, <1>3, <1>5 DEF SessionInv, Stays, PausedInv
<1>10. ConsistentInv'  BY <1>1, <1>2, <1>3 DEF SessionInv, Stays, ConsistentInv
<1>11. ResumeInv'  BY <1>3, <1>4 DEF ResumeInv
<1>12. QuietInv'  BY <1>3 DEF Stays, QuietInv
<1>13. ASSUME InTurn'
      PROVE  AttemptInv' /\ UpdateInv' /\ EndInv' /\ RetryInv' /\ BackoffInv' /\ NoteInv'
  <2>0. InTurn /\ AttemptInv /\ UpdateInv /\ EndInv /\ RetryInv /\ BackoffInv /\ NoteInv
    BY <1>13 DEF InTurn, SessionInv, TurnInv
  <2>1. AttemptInv'  BY <2>0, <1>2, <1>3 DEF Stays, KindsKept, AllKept, AttemptInv, SingleIn
  <2>2. EndInv'  BY <2>0, <1>2, <1>3 DEF Stays, KindsKept, AllKept, EndInv, SingleIn
  <2>3. RetryInv'  BY <2>0, <1>1, <1>2 DEF KindsKept, AllKept, RetryInv
  <2>4. BackoffInv'  BY <2>0, <1>3, <1>4, <1>5 DEF Stays, Keeps, BackoffInv
  <2>5. NoteInv'
    <3>1. NoteNotConnected'  BY <1>3 DEF Stays, NoteNotConnected
    <3>2. NoteConnecting'
      BY <2>0, <1>1, <1>2, <1>3, <1>4 DEF NoteInv, KindsKept, AllKept, NotedKinds, SubKinds,
         NoteConnecting, NoteNotConnected, AttemptInv, SingleIn
    <3>3. NoteConnected'  BY <2>0, <1>1, <1>2, <1>3 DEF NoteInv, Stays, NoteConnected
    <3>4. NoteDisconnecting'
      BY <2>0, <1>2, <1>3, <1>4 DEF NoteInv, Stays, KindsKept, AllKept, NotedKinds,
         NoteDisconnecting
    <3> QED  BY <3>1, <3>2, <3>3, <3>4 DEF NoteInv
  <2>up. UpdateInv'
    BY <2>0, <1>1, <1>2, <1>3, <1>4, <1>5 DEF Stays, KindsKept, AllKept, UpdateInv, SingleIn
  <2> QED  BY <2>1, <2>2, <2>3, <2>4, <2>5, <2>up
<1> QED  BY <1>3, <1>6, <1>7, <1>8, <1>9, <1>10, <1>11, <1>12, <1>13 DEF SessionInv, TurnInv

(* stop is called. *)
LEMMA StopStep ==
  ASSUME SessionInv, hard' = hard, Stop
  PROVE  SessionInv'
<1>1. ~Pending /\ Job.kind = "none" /\ toResume = "none" /\ ~Flying(Retries) /\ Idle
  BY IdleFacts DEF Stop, Input
<1>2. OpsInv' /\ AllKept /\ SubKinds /\ UNCHANGED <<ops, listening, paused, toResume, lastNotified>>
  BY OpsStay, KindsWithin DEF SessionInv, Stop
<1>3. /\ CtlInv' /\ currentState # "NotConnected"
      /\ \/ currentState = "Connected" /\ currentState' = "Disconnecting" /\ Pending'
            /\ Job'.kind = "stop" /\ Keeps
         \/ currentState # "Connected" /\ Stays
  BY Disconnects DEF SessionInv, Stop
<1>4. Stays => Job'.kind = "none"
  BY NoWorkFacts DEF Stays
<1>5. armed' = armed /\ orphans' = orphans
  BY DEF Stop, gateVars
<1>6. InTurn => NoRecovery
  BY DEF Stop, InTurn
<1>7. OpsInv'  BY <1>2
<1>8. PlaceInv'  BY <1>2 DEF SessionInv, PlaceInv
<1>9. OwnerInv'  BY <1>1, <1>2, <1>3 DEF SessionInv, Stays, KindsKept, AllKept, OwnerInv
<1>10. PausedInv'  BY <1>3 DEF Stays, PausedInv
<1>11. ConsistentInv'  BY <1>1, <1>2, <1>3 DEF SessionInv, Stays, ConsistentInv
<1>12. ResumeInv'  BY <1>3, <1>4 DEF ResumeInv
<1>13. QuietInv'  BY <1>3 DEF Stays, QuietInv
<1>14. ASSUME InTurn'
      PROVE  AttemptInv' /\ UpdateInv' /\ EndInv' /\ RetryInv' /\ BackoffInv' /\ NoteInv'
  <2>0. InTurn /\ AttemptInv /\ UpdateInv /\ EndInv /\ RetryInv /\ BackoffInv /\ NoteInv
    BY <1>14 DEF InTurn, SessionInv, TurnInv
  <2>1. currentState = "Connected" /\ ~armed
    BY <1>1, <1>3, <1>6, <2>0, QuietState
  <2>2. AttemptInv'  BY <2>0, <2>1, <1>2 DEF KindsKept, AllKept, AttemptInv, SingleIn
  <2>3. EndInv'  BY <2>0, <2>1, <1>2 DEF KindsKept, AllKept, EndInv, SingleIn
  <2>4. RetryInv'  BY <2>0, <2>1, <1>2 DEF KindsKept, AllKept, RetryInv
  <2>5. BackoffInv'  BY <2>0, <2>1, <1>3, <1>5 DEF Keeps, BackoffInv
  <2>6. NoteInv'
    <3>1. NoteNotConnected'  BY <2>1, <1>3 DEF NoteNotConnected
    <3>2. NoteConnecting'  BY <2>1, <1>3 DEF NoteConnecting
    <3>3. NoteConnected'  BY <2>1, <1>3 DEF NoteConnected
    <3>4. NoteDisconnecting'
      BY <2>0, <2>1, <1>2, <1>3 DEF NoteInv, KindsKept, AllKept, NotedKinds, SubKinds,
         NoteDisconnecting, NoteConnected, EndInv, SingleIn
    <3> QED  BY <3>1, <3>2, <3>3, <3>4 DEF NoteInv
  <2>up. UpdateInv'
    BY <2>0, <2>1, <1>1, <1>2, <1>3, <1>5, <1>6 DEF Stays, KindsKept, AllKept, UpdateInv, SingleIn
  <2> QED  BY <2>2, <2>3, <2>4, <2>5, <2>6, <2>up
<1> QED  BY <1>3, <1>7, <1>8, <1>9, <1>10, <1>11, <1>12, <1>13, <1>14 DEF SessionInv, TurnInv

(* update is called. *)
LEMMA UpdateStep ==
  ASSUME SessionInv, hard' = hard, Update
  PROVE  SessionInv'
<1>1. ~Pending /\ Job.kind = "none" /\ toResume = "none" /\ ~Flying(Retries) /\ Idle
  BY IdleFacts DEF Update, Input
<1>2. OpsInv' /\ AllKept /\ SubKinds /\ UNCHANGED <<ops, listening, paused, toResume, lastNotified>>
  BY OpsStay, KindsWithin DEF SessionInv, Update
<1>3. /\ CtlInv'
      /\ \/ currentState = "Connected" /\ currentState' = "Updating" /\ Pending' /\ Keeps
            /\ Job'.kind \in {"update", "restart"}
         \/ currentState # "Connected" /\ Stays /\ (Keeps \/ deferredAction' = "Update")
  BY UpdatesOrDefers DEF SessionInv, Update
<1>4. Stays => Job'.kind = "none"
  BY NoWorkFacts DEF Stays
<1>5. armed' = armed /\ orphans' = orphans
  BY DEF Update, gateVars
<1>6. OpsInv'  BY <1>2
<1>7. PlaceInv'  BY <1>2 DEF SessionInv, PlaceInv
<1>8. OwnerInv'  BY <1>1, <1>2, <1>3 DEF SessionInv, Stays, KindsKept, AllKept, OwnerInv
<1>9. PausedInv'  BY <1>3 DEF Stays, PausedInv
<1>10. ConsistentInv'  BY <1>1, <1>2, <1>3 DEF SessionInv, Stays, ConsistentInv
<1>11. ResumeInv'  BY <1>3, <1>4 DEF ResumeInv
<1>12. QuietInv'  BY <1>2, <1>3 DEF SessionInv, Stays, QuietInv
<1>13. ASSUME InTurn'
      PROVE  AttemptInv' /\ UpdateInv' /\ EndInv' /\ RetryInv' /\ BackoffInv' /\ NoteInv'
  <2>0. InTurn /\ AttemptInv /\ UpdateInv /\ EndInv /\ RetryInv /\ BackoffInv /\ NoteInv
    BY <1>13 DEF InTurn, SessionInv, TurnInv
  <2>1. AttemptInv'  BY <2>0, <1>2, <1>3 DEF Stays, KindsKept, AllKept, AttemptInv, SingleIn
  <2>2. EndInv'  BY <2>0, <1>2, <1>3 DEF Stays, KindsKept, AllKept, EndInv, SingleIn
  <2>3. RetryInv'  BY <2>0, <1>1, <1>2 DEF KindsKept, AllKept, RetryInv
  <2>4. BackoffInv'  BY <2>0, <1>3, <1>4, <1>5 DEF Stays, Keeps, BackoffInv
  <2>5. NoteInv'
    <3>1. NoteNotConnected'
      BY <2>0, <1>1, <1>2, <1>3, <1>4, <1>5 DEF NoteInv, Stays, NoteNotConnected
    <3>2. NoteConnecting'
      BY <2>0, <1>2, <1>3, <1>4 DEF NoteInv, Stays, KindsKept, AllKept, NotedKinds, NoteConnecting
    <3>3. NoteConnected'  BY <2>0, <1>1, <1>2, <1>3 DEF NoteInv, Stays, NoteConnected
    <3>4. NoteDisconnecting'
      BY <2>0, <1>2, <1>3, <1>4 DEF NoteInv, Stays, KindsKept, AllKept, NotedKinds,
         NoteDisconnecting
    <3> QED  BY <3>1, <3>2, <3>3, <3>4 DEF NoteInv
  <2>up. UpdateInv'
    BY <2>0, <1>1, <1>2, <1>3, <1>4, <1>5 DEF Stays, KindsKept, AllKept, UpdateInv, SingleIn
  <2> QED  BY <2>1, <2>2, <2>3, <2>4, <2>5, <2>up
<1> QED  BY <1>3, <1>6, <1>7, <1>8, <1>9, <1>10, <1>11, <1>12, <1>13 DEF SessionInv, TurnInv

(* The connection reports a status. *)
LEMMA ReportStep ==
  ASSUME SessionInv, hard' = hard, NEW s \in {"fail", "terminal"}, ReportStatus(s)
  PROVE  SessionInv'
<1>1. ~Pending /\ Job.kind = "none" /\ toResume = "none" /\ ~Flying(Retries) /\ Idle
  BY IdleFacts DEF ReportStatus, Input
<1>2. OpsInv' /\ AllKept /\ SubKinds /\ UNCHANGED <<ops, listening, paused, toResume, lastNotified>>
  BY OpsStay, KindsWithin DEF SessionInv, ReportStatus
<1>3. /\ CtlInv' /\ deferredAction' \in {deferredAction, "Update"}
      /\ \/ /\ armed' = TRUE /\ Stays
            /\ orphans' = orphans + (IF armed THEN 1 ELSE 0)
         \/ /\ armed' = armed /\ orphans' = orphans
            /\ \/ /\ currentState \in {"Connecting", "Connected", "Updating"}
                     /\ currentState' = "Disconnecting"
                  /\ Pending' /\ Job'.kind = "failSession"
               \/ /\ currentState = "Connected" /\ currentState' = "Updating"
                  /\ Pending' /\ Job'.kind \in {"update", "restart"}
               \/ currentState # "Connected" /\ Stays
  <2>1. s \in Statuses /\ HandleStatus(s)  BY DEF Statuses, ReportStatus
  <2> QED  BY <2>1, Handles DEF SessionInv, Gate!Retry
<1>4. Stays => Job'.kind = "none"
  BY NoWorkFacts DEF Stays
<1>5. (InTurn => NoRecovery) /\ listening
  BY DEF ReportStatus, InTurn
<1>6. OpsInv'  BY <1>2
<1>7. PlaceInv'  BY <1>2 DEF SessionInv, PlaceInv
<1>8. OwnerInv'  BY <1>1, <1>2, <1>3 DEF SessionInv, Stays, KindsKept, AllKept, OwnerInv
<1>9. PausedInv'  BY <1>3 DEF Stays, PausedInv
<1>10. ConsistentInv'  BY <1>1, <1>2, <1>3 DEF SessionInv, Stays, ConsistentInv
<1>11. ResumeInv'  BY <1>3, <1>4 DEF ResumeInv
<1>12. QuietInv'  BY <1>3, <1>5 DEF SessionInv, Stays, QuietInv
<1>13. ASSUME InTurn'
      PROVE  AttemptInv' /\ UpdateInv' /\ EndInv' /\ RetryInv' /\ BackoffInv' /\ NoteInv'
  <2>0. InTurn /\ AttemptInv /\ UpdateInv /\ EndInv /\ RetryInv /\ BackoffInv /\ NoteInv
    BY <1>13 DEF InTurn, SessionInv, TurnInv
  <2>1. currentState = "Connected" /\ ~armed /\ orphans = 0
    BY <1>1, <1>5, <2>0, QuietState DEF SessionInv, QuietInv
  <2>2. AttemptInv'  BY <2>0, <2>1, <1>2 DEF KindsKept, AllKept, AttemptInv, SingleIn
  <2>3. EndInv'  BY <2>0, <2>1, <1>2 DEF KindsKept, AllKept, EndInv, SingleIn
  <2>4. RetryInv'  BY <2>0, <2>1, <1>2 DEF KindsKept, AllKept, RetryInv
  <2>5. BackoffInv'  BY <2>0, <2>1, <1>3, <1>4 DEF Stays, BackoffInv
  <2>6. NoteInv'
    <3>1. NoteNotConnected'  BY <2>1, <1>3 DEF Stays, NoteNotConnected
    <3>2. NoteConnecting'  BY <2>1, <1>3 DEF Stays, NoteConnecting
    <3>3. NoteConnected'  BY <2>0, <2>1, <1>1, <1>2 DEF NoteInv, NoteConnected
    <3>4. NoteDisconnecting'
      BY <2>0, <2>1, <1>2, <1>3, <1>4 DEF NoteInv, KindsKept, AllKept, NotedKinds, SubKinds,
         NoteDisconnecting, NoteConnected, EndInv, SingleIn
    <3> QED  BY <3>1, <3>2, <3>3, <3>4 DEF NoteInv
  <2>up. UpdateInv'
    BY <2>0, <2>1, <1>1, <1>2, <1>3, <1>4, <1>5 DEF Stays, KindsKept, AllKept, UpdateInv, SingleIn
  <2> QED  BY <2>2, <2>3, <2>4, <2>5, <2>6, <2>up
<1> QED  BY <1>3, <1>6, <1>7, <1>8, <1>9, <1>10, <1>11, <1>12, <1>13 DEF SessionInv, TurnInv

(* The timer of a backoff fires. *)
LEMMA BackoffStep ==
  ASSUME SessionInv, hard' = hard, BackoffFires
  PROVE  SessionInv'
<1>1. ~Pending /\ Job.kind = "none" /\ toResume = "none" /\ ~Flying(Retries) /\ Idle
  BY IdleFacts DEF BackoffFires
<1>2. OpsInv' /\ AllKept /\ SubKinds /\ UNCHANGED <<ops, listening, paused, toResume, lastNotified>>
  BY OpsStay, KindsWithin DEF SessionInv, BackoffFires
<1>3. /\ CtlInv'
      /\ \/ currentState = "NotConnected" /\ currentState' = "Connecting" /\ Pending'
            /\ Job'.kind = "retryConnect" /\ Keeps
         \/ currentState = "Connected" /\ currentState' = "Connecting" /\ Pending'
            /\ Job'.kind = "reconnect" /\ Keeps
         \/ /\ currentState \notin {"NotConnected", "Connected"} /\ Stays
            /\ Keeps \/ deferredAction' = "Reconnect"
  <2>1. CASE currentState = "NotConnected"
             /\ Controller!Perform("Connect", Work("retryConnect", "none"))
    <3>1. Work("retryConnect", "none") \in Works
          /\ Work("retryConnect", "none").kind = "retryConnect"
      BY DEF Works, Work
    <3> QED  BY <2>1, <3>1, Connects DEF SessionInv
  <2>2. CASE currentState # "NotConnected"
             /\ Controller!Perform("Reconnect", Work("reconnect", "none"))
    BY <2>2, Reconnects DEF SessionInv
  <2> QED  BY <2>1, <2>2 DEF BackoffFires
<1>4. Stays => Job'.kind = "none"
  BY NoWorkFacts DEF Stays
<1>5. \/ armed /\ armed' = FALSE /\ orphans' = orphans
      \/ armed' = armed /\ orphans > 0 /\ orphans' = orphans - 1
  BY DEF BackoffFires, Gate!TimerFires
<1>6. OpsInv'  BY <1>2
<1>7. PlaceInv'  BY <1>2 DEF SessionInv, PlaceInv
<1>8. OwnerInv'  BY <1>1, <1>2, <1>3 DEF SessionInv, Stays, KindsKept, AllKept, OwnerInv
<1>9. PausedInv'  BY <1>3 DEF Stays, PausedInv
<1>10. ConsistentInv'  BY <1>1, <1>2, <1>3 DEF SessionInv, Stays, ConsistentInv
<1>11. ResumeInv'  BY <1>3, <1>4 DEF ResumeInv
<1>12. QuietInv'  BY <1>3 DEF Stays, QuietInv
<1>13. ASSUME InTurn'
      PROVE  AttemptInv' /\ UpdateInv' /\ EndInv' /\ RetryInv' /\ BackoffInv' /\ NoteInv'
  <2>0. InTurn /\ AttemptInv /\ UpdateInv /\ EndInv /\ RetryInv /\ BackoffInv /\ NoteInv
    BY <1>13 DEF InTurn, SessionInv, TurnInv
  <2>1. orphans = 0
    BY <2>0 DEF BackoffInv
  <2>2. AttemptInv'  BY <2>0, <1>2, <1>3 DEF Stays, KindsKept, AllKept, AttemptInv, SingleIn
  <2>3. EndInv'  BY <2>0, <1>2, <1>3 DEF Stays, KindsKept, AllKept, EndInv, SingleIn
  <2>4. RetryInv'  BY <2>0, <2>1, <1>2, <1>5 DEF KindsKept, AllKept, RetryInv
  <2>5. BackoffInv'  BY <2>0, <1>3, <1>5 DEF Keeps, BackoffInv
  <2>6. NoteInv'
    <3>1. NoteNotConnected'  BY <1>3 DEF Stays, NoteNotConnected
    <3>2. NoteConnecting'
      BY <2>0, <2>1, <1>1, <1>2, <1>3, <1>4, <1>5 DEF NoteInv, KindsKept, AllKept, NotedKinds,
         SubKinds, NoteConnecting, NoteNotConnected, NoteConnected, AttemptInv, SingleIn
    <3>3. NoteConnected'  BY <2>0, <1>2, <1>3 DEF NoteInv, Stays, NoteConnected
    <3>4. NoteDisconnecting'
      BY <2>0, <1>2, <1>3, <1>4 DEF NoteInv, Stays, KindsKept, AllKept, NotedKinds,
         NoteDisconnecting
    <3> QED  BY <3>1, <3>2, <3>3, <3>4 DEF NoteInv
  <2>up. UpdateInv'
    BY <2>0, <2>1, <1>1, <1>2, <1>3, <1>4, <1>5 DEF Stays, KindsKept, AllKept, UpdateInv, SingleIn
  <2> QED  BY <2>2, <2>3, <2>4, <2>5, <2>6, <2>up
<1> QED  BY <1>3, <1>6, <1>7, <1>8, <1>9, <1>10, <1>11, <1>12, <1>13 DEF SessionInv, TurnInv

(* A work in a state other than Connected returns to the same state. *)
LEMMA ReturnsHere ==
  ASSUME CtlInv, Controller!WorkReturns, currentState # "Connected"
  PROVE  CtlInv' /\ Stays /\ Job'.kind = "none" /\ deferredAction' \in {"none", deferredAction}
BY WorkReturned, NoWorkFacts DEF Stays

(* The works, one by one.  actionConnect starts to connect. *)
LEMMA RunStartStep ==
  ASSUME SessionInv, hard' = hard, RunStart
  PROVE  SessionInv'
<1>1. Pending /\ Job.kind = "start" /\ currentState = "Connecting" /\ SubKinds
  <2>1. "start" \in JobKinds[currentState] /\ currentState \in Controller!States
    BY RunFacts DEF SessionInv, CtlInv, RunStart
  <2> QED  BY <2>1, RunFacts, KindsWithin DEF JobKinds, Controller!States, SessionInv, RunStart
<1>2. CtlInv' /\ Stays /\ Job'.kind = "none" /\ deferredAction' \in {"none", deferredAction}
  BY <1>1, ReturnsHere DEF SessionInv, RunStart, Return
<1>3. /\ OpsInv' /\ Flying(Attempts)' /\ (~Flying(Attempts) => Single(Attempts)')
      /\ KindsKept(Updates) /\ KindsKept(Endings) /\ KindsKept(Retries) /\ KindsKept({"reconnect"})
      /\ KindsKept({"disconnectAndRetry"})
  <2> DEFINE o == Op("connect", "none")
  <2>1. o \in OpSet /\ o.kind = "connect"  BY DEF OpSet, Op, OpKinds, Statuses
  <2>2. ops' = Started(o)  BY DEF RunStart
  <2> HIDE DEF o
  <2> QED  BY <2>1, <2>2, StartedOps DEF SessionInv, Attempts, Updates, Endings, Retries
<1>4. paused' = Tasks /\ listening' = TRUE /\ toResume' = toResume /\ lastNotified' = "connecting"
      /\ armed' = FALSE /\ orphans' = orphans
  BY DEF RunStart, gateVars, Gate!ResetAndAttempt
<1>5. OpsInv'  BY <1>3
<1>6. PlaceInv'  BY <1>4 DEF SessionInv, PlaceInv
<1>7. OwnerInv'  BY <1>1, <1>2, <1>3 DEF Stays, OwnerInv
<1>8. PausedInv'  BY <1>1, <1>2 DEF Stays, PausedInv
<1>9. ConsistentInv'  BY <1>1, <1>4 DEF SessionInv, ConsistentInv
<1>10. ResumeInv'  BY <1>2 DEF ResumeInv
<1>11. QuietInv'  BY <1>1, <1>2 DEF Stays, QuietInv
<1>12. ASSUME InTurn'
      PROVE  AttemptInv' /\ UpdateInv' /\ EndInv' /\ RetryInv' /\ BackoffInv' /\ NoteInv'
  <2>0. InTurn /\ AttemptInv /\ UpdateInv /\ EndInv /\ RetryInv /\ BackoffInv /\ NoteInv
    BY <1>12 DEF InTurn, SessionInv, TurnInv
  <2>1. AttemptInv'  BY <2>0, <1>1, <1>2, <1>3 DEF Stays, AttemptInv, SingleIn
  <2>2. EndInv'  BY <2>0, <1>1, <1>3 DEF KindsKept, EndInv, SingleIn
  <2>3. RetryInv'  BY <2>0, <1>1, <1>3 DEF KindsKept, RetryInv
  <2>4. BackoffInv'  BY <2>0, <1>2, <1>4 DEF BackoffInv
  <2>5. NoteInv'
    <3>1. NoteNotConnected'  BY <1>4 DEF Before, NoteNotConnected
    <3>2. NoteConnecting'
      BY <2>0, <1>1, <1>2, <1>3, <1>4 DEF NoteInv, Before, During, KindsKept, NoteConnecting
    <3>3. NoteConnected'  BY <1>1, <1>2 DEF Stays, NoteConnected
    <3>4. NoteDisconnecting'  BY <1>4 DEF NoteDisconnecting
    <3> QED  BY <3>1, <3>2, <3>3, <3>4 DEF NoteInv
  <2>up. UpdateInv'
    BY <2>0, <1>1, <1>2, <1>3, <1>4 DEF Stays, KindsKept, AllKept, UpdateInv, SingleIn
  <2> QED  BY <2>1, <2>2, <2>3, <2>4, <2>5, <2>up
<1> QED  BY <1>2, <1>5, <1>6, <1>7, <1>8, <1>9, <1>10, <1>11, <1>12 DEF SessionInv, TurnInv

(* actionConnect starts to connect again. *)
LEMMA RunRetryConnectStep ==
  ASSUME SessionInv, hard' = hard, RunRetryConnect
  PROVE  SessionInv'
<1>1. Pending /\ Job.kind = "retryConnect" /\ currentState = "Connecting" /\ SubKinds
  <2>1. "retryConnect" \in JobKinds[currentState] /\ currentState \in Controller!States
    BY RunFacts DEF SessionInv, CtlInv, RunRetryConnect
  <2> QED
    BY <2>1, RunFacts, KindsWithin DEF JobKinds, Controller!States, SessionInv, RunRetryConnect
<1>2. CtlInv' /\ Stays /\ Job'.kind = "none" /\ deferredAction' \in {"none", deferredAction}
  BY <1>1, ReturnsHere DEF SessionInv, RunRetryConnect, Return
<1>3. /\ OpsInv' /\ Flying(Attempts)' /\ (~Flying(Attempts) => Single(Attempts)')
      /\ KindsKept(Updates) /\ KindsKept(Endings) /\ KindsKept(Retries) /\ KindsKept({"reconnect"})
      /\ KindsKept({"disconnectAndRetry"})
  <2> DEFINE o == Op("connect", "none")
  <2>1. o \in OpSet /\ o.kind = "connect"  BY DEF OpSet, Op, OpKinds, Statuses
  <2>2. ops' = Started(o)  BY DEF RunRetryConnect
  <2> HIDE DEF o
  <2> QED  BY <2>1, <2>2, StartedOps DEF SessionInv, Attempts, Updates, Endings, Retries
<1>4. paused' = Tasks /\ listening' = TRUE /\ UNCHANGED <<toResume, lastNotified, armed, orphans>>
  BY DEF RunRetryConnect, gateVars, Gate!Attempt
<1>5. OpsInv'  BY <1>3
<1>6. PlaceInv'  BY <1>4 DEF SessionInv, PlaceInv
<1>7. OwnerInv'  BY <1>1, <1>2, <1>3 DEF Stays, OwnerInv
<1>8. PausedInv'  BY <1>1, <1>2 DEF Stays, PausedInv
<1>9. ConsistentInv'  BY <1>1, <1>4 DEF SessionInv, ConsistentInv
<1>10. ResumeInv'  BY <1>2 DEF ResumeInv
<1>11. QuietInv'  BY <1>1, <1>2 DEF Stays, QuietInv
<1>12. ASSUME InTurn'
      PROVE  AttemptInv' /\ UpdateInv' /\ EndInv' /\ RetryInv' /\ BackoffInv' /\ NoteInv'
  <2>0. InTurn /\ AttemptInv /\ UpdateInv /\ EndInv /\ RetryInv /\ BackoffInv /\ NoteInv
    BY <1>12 DEF InTurn, SessionInv, TurnInv
  <2>1. AttemptInv'  BY <2>0, <1>1, <1>2, <1>3 DEF Stays, AttemptInv, SingleIn
  <2>2. EndInv'  BY <2>0, <1>1, <1>3 DEF KindsKept, EndInv, SingleIn
  <2>3. RetryInv'  BY <2>0, <1>1, <1>3 DEF KindsKept, RetryInv
  <2>4. BackoffInv'  BY <2>0, <1>2, <1>4 DEF Stays, BackoffInv
  <2>5. NoteInv'
    <3>1. NoteNotConnected'  BY <1>1, <1>2 DEF Stays, NoteNotConnected
    <3>2. NoteConnecting'  BY <2>0, <1>1, <1>2, <1>3, <1>4 DEF NoteInv, KindsKept, NoteConnecting
    <3>3. NoteConnected'  BY <1>1, <1>2 DEF Stays, NoteConnected
    <3>4. NoteDisconnecting'  BY <2>0, <1>1, <1>4 DEF NoteInv, NoteDisconnecting, NoteConnecting
    <3> QED  BY <3>1, <3>2, <3>3, <3>4 DEF NoteInv
  <2>up. UpdateInv'
    BY <2>0, <1>1, <1>2, <1>3, <1>4 DEF Stays, KindsKept, AllKept, UpdateInv, SingleIn
  <2> QED  BY <2>1, <2>2, <2>3, <2>4, <2>5, <2>up
<1> QED  BY <1>2, <1>5, <1>6, <1>7, <1>8, <1>9, <1>10, <1>11, <1>12 DEF SessionInv, TurnInv

(* actionReconnect starts. *)
LEMMA RunReconnectStep ==
  ASSUME SessionInv, hard' = hard, RunReconnect
  PROVE  SessionInv'
<1>1. Pending /\ Job.kind = "reconnect" /\ currentState = "Connecting" /\ SubKinds
  <2>1. "reconnect" \in JobKinds[currentState] /\ currentState \in Controller!States
    BY RunFacts DEF SessionInv, CtlInv, RunReconnect
  <2> QED  BY <2>1, RunFacts, KindsWithin DEF JobKinds, Controller!States, SessionInv, RunReconnect
<1>2. CtlInv' /\ Stays /\ Job'.kind = "none" /\ deferredAction' \in {"none", deferredAction}
  BY <1>1, ReturnsHere DEF SessionInv, RunReconnect, Return
<1>3. /\ OpsInv' /\ Flying(Attempts)' /\ (~Flying(Attempts) => Single(Attempts)')
      /\ KindsKept(Updates) /\ KindsKept(Endings) /\ KindsKept(Retries) /\ KindsKept({"connect"})
      /\ KindsKept({"disconnectAndRetry"})
  <2> DEFINE o == Op("reconnect", "none")
  <2>1. o \in OpSet /\ o.kind = "reconnect"  BY DEF OpSet, Op, OpKinds, Statuses
  <2>2. ops' = Started(o)  BY DEF RunReconnect
  <2> HIDE DEF o
  <2> QED  BY <2>1, <2>2, StartedOps DEF SessionInv, Attempts, Updates, Endings, Retries
<1>4. UNCHANGED <<paused, listening, toResume, armed, orphans>>
      /\ lastNotified' \in {lastNotified, "reconnecting"}
  BY DEF RunReconnect, gateVars, Gate!Attempt
<1>5. OpsInv'  BY <1>3
<1>6. PlaceInv'  BY <1>4 DEF SessionInv, PlaceInv
<1>7. OwnerInv'  BY <1>1, <1>2, <1>3 DEF Stays, OwnerInv
<1>8. PausedInv'  BY <1>1, <1>2 DEF Stays, PausedInv
<1>9. ConsistentInv'  BY <1>1, <1>2, <1>4 DEF SessionInv, Stays, ConsistentInv
<1>10. ResumeInv'  BY <1>2 DEF ResumeInv
<1>11. QuietInv'  BY <1>1, <1>2 DEF Stays, QuietInv
<1>12. ASSUME InTurn'
      PROVE  AttemptInv' /\ UpdateInv' /\ EndInv' /\ RetryInv' /\ BackoffInv' /\ NoteInv'
  <2>0. InTurn /\ AttemptInv /\ UpdateInv /\ EndInv /\ RetryInv /\ BackoffInv /\ NoteInv
    BY <1>12 DEF InTurn, SessionInv, TurnInv
  <2>1. AttemptInv'  BY <2>0, <1>1, <1>2, <1>3 DEF Stays, AttemptInv, SingleIn
  <2>2. EndInv'  BY <2>0, <1>1, <1>3 DEF KindsKept, EndInv, SingleIn
  <2>3. RetryInv'  BY <2>0, <1>1, <1>3 DEF KindsKept, RetryInv
  <2>4. BackoffInv'  BY <2>0, <1>2, <1>4 DEF Stays, BackoffInv
  <2>5. NoteInv'
    <3>1. NoteNotConnected'  BY <1>1, <1>2 DEF Stays, NoteNotConnected
    <3>2. NoteConnecting'
      BY <2>0, <1>1, <1>2, <1>3, <1>4 DEF NoteInv, During, KindsKept, NoteConnecting
    <3>3. NoteConnected'  BY <2>0, <1>1, <1>4 DEF NoteInv, During, NoteConnected, NoteConnecting
    <3>4. NoteDisconnecting'  BY <1>1, <1>2 DEF Stays, NoteDisconnecting
    <3> QED  BY <3>1, <3>2, <3>3, <3>4 DEF NoteInv
  <2>up. UpdateInv'
    BY <2>0, <1>1, <1>2, <1>3, <1>4 DEF Stays, KindsKept, AllKept, UpdateInv, SingleIn
  <2> QED  BY <2>1, <2>2, <2>3, <2>4, <2>5, <2>up
<1> QED  BY <1>2, <1>5, <1>6, <1>7, <1>8, <1>9, <1>10, <1>11, <1>12 DEF SessionInv, TurnInv

(* actionUpdateWithRenegotiation starts. *)
LEMMA RunUpdateStep ==
  ASSUME SessionInv, hard' = hard, RunUpdate
  PROVE  SessionInv'
<1>1. Pending /\ Job.kind = "update" /\ currentState = "Updating" /\ SubKinds
  <2>1. "update" \in JobKinds[currentState] /\ currentState \in Controller!States
    BY RunFacts DEF SessionInv, CtlInv, RunUpdate
  <2> QED  BY <2>1, RunFacts, KindsWithin DEF JobKinds, Controller!States, SessionInv, RunUpdate
<1>2. CtlInv' /\ Stays /\ Job'.kind = "none" /\ deferredAction' \in {"none", deferredAction}
  BY <1>1, ReturnsHere DEF SessionInv, RunUpdate, Return
<1>3. /\ OpsInv' /\ Flying(Updates)' /\ (~Flying(Updates) => Single(Updates)')
      /\ KindsKept(Attempts) /\ KindsKept(Endings) /\ KindsKept(Retries) /\ KindsKept({"connect"})
      /\ KindsKept({"reconnect"}) /\ KindsKept({"disconnectAndRetry"})
  <2> DEFINE o == Op("update", "none")
  <2>1. o \in OpSet /\ o.kind = "update"  BY DEF OpSet, Op, OpKinds, Statuses
  <2>2. ops' = Started(o)  BY DEF RunUpdate
  <2> HIDE DEF o
  <2> QED  BY <2>1, <2>2, StartedOps DEF SessionInv, Attempts, Updates, Endings, Retries
<1>4. paused' = Tasks /\ UNCHANGED <<listening, toResume, lastNotified, armed, orphans>>
  BY DEF RunUpdate, gateVars, Gate!Attempt
<1>5. OpsInv'  BY <1>3
<1>6. PlaceInv'  BY <1>4 DEF SessionInv, PlaceInv
<1>7. OwnerInv'  BY <1>1, <1>2, <1>3 DEF Stays, OwnerInv
<1>8. PausedInv'  BY <1>1, <1>2 DEF Stays, PausedInv
<1>9. ConsistentInv'  BY <1>1, <1>4 DEF SessionInv, ConsistentInv
<1>10. ResumeInv'  BY <1>2 DEF ResumeInv
<1>11. QuietInv'  BY <1>1, <1>2 DEF Stays, QuietInv
<1>12. ASSUME InTurn'
      PROVE  AttemptInv' /\ UpdateInv' /\ EndInv' /\ RetryInv' /\ BackoffInv' /\ NoteInv'
  <2>0. InTurn /\ AttemptInv /\ UpdateInv /\ EndInv /\ RetryInv /\ BackoffInv /\ NoteInv
    BY <1>12 DEF InTurn, SessionInv, TurnInv
  <2>1. AttemptInv'  BY <2>0, <1>1, <1>3 DEF KindsKept, AttemptInv, SingleIn
  <2>2. EndInv'  BY <2>0, <1>1, <1>3 DEF KindsKept, EndInv, SingleIn
  <2>3. RetryInv'  BY <2>0, <1>1, <1>3 DEF KindsKept, RetryInv
  <2>4. BackoffInv'  BY <2>0, <1>2, <1>4 DEF Stays, BackoffInv
  <2>5. NoteInv'
    <3>1. NoteNotConnected'  BY <1>1, <1>2 DEF Stays, NoteNotConnected
    <3>2. NoteConnecting'  BY <1>1, <1>2 DEF Stays, NoteConnecting
    <3>3. NoteConnected'  BY <2>0, <1>1, <1>4 DEF NoteInv, NoteConnected
    <3>4. NoteDisconnecting'  BY <1>1, <1>2 DEF Stays, NoteDisconnecting
    <3> QED  BY <3>1, <3>2, <3>3, <3>4 DEF NoteInv
  <2>up. UpdateInv'
    BY <2>0, <1>1, <1>2, <1>3, <1>4 DEF Stays, KindsKept, AllKept, UpdateInv, SingleIn
  <2> QED  BY <2>1, <2>2, <2>3, <2>4, <2>5, <2>up
<1> QED  BY <1>2, <1>5, <1>6, <1>7, <1>8, <1>9, <1>10, <1>11, <1>12 DEF SessionInv, TurnInv

(* actionDisconnect starts, because the application asked for it. *)
LEMMA RunStopStep ==
  ASSUME SessionInv, hard' = hard, RunStop
  PROVE  SessionInv'
<1>1. Pending /\ Job.kind = "stop" /\ currentState = "Disconnecting" /\ SubKinds
  <2>1. "stop" \in JobKinds[currentState] /\ currentState \in Controller!States
    BY RunFacts DEF SessionInv, CtlInv, RunStop
  <2> QED  BY <2>1, RunFacts, KindsWithin DEF JobKinds, Controller!States, SessionInv, RunStop
<1>2. CtlInv' /\ Stays /\ Job'.kind = "none" /\ deferredAction' \in {"none", deferredAction}
  BY <1>1, ReturnsHere DEF SessionInv, RunStop, Return
<1>3. /\ OpsInv' /\ Flying(Endings)' /\ (~Flying(Endings) => Single(Endings)')
      /\ KindsKept(Attempts) /\ KindsKept(Updates) /\ KindsKept(Retries) /\ KindsKept({"connect"})
      /\ KindsKept({"reconnect"}) /\ KindsKept({"disconnectAndRetry"})
  <2> DEFINE o == Op("disconnect", "left")
  <2>1. o \in OpSet /\ o.kind = "disconnect"  BY DEF OpSet, Op, OpKinds, Statuses
  <2>2. ops' = Started(o)  BY DEF RunStop
  <2> HIDE DEF o
  <2> QED  BY <2>1, <2>2, StartedOps DEF SessionInv, Attempts, Updates, Endings, Retries
<1>4. UNCHANGED <<paused, listening, toResume, lastNotified, armed, orphans>>
  BY DEF RunStop, gateVars, Gate!Disable
<1>5. OpsInv'  BY <1>3
<1>6. PlaceInv'  BY <1>4 DEF SessionInv, PlaceInv
<1>7. OwnerInv'  BY <1>1, <1>2, <1>3 DEF Stays, OwnerInv
<1>8. PausedInv'  BY <1>1, <1>2 DEF Stays, PausedInv
<1>9. ConsistentInv'  BY <1>1, <1>2, <1>4 DEF SessionInv, Stays, ConsistentInv
<1>10. ResumeInv'  BY <1>2 DEF ResumeInv
<1>11. QuietInv'  BY <1>1, <1>2 DEF Stays, QuietInv
<1>12. ASSUME InTurn'
      PROVE  AttemptInv' /\ UpdateInv' /\ EndInv' /\ RetryInv' /\ BackoffInv' /\ NoteInv'
  <2>0. InTurn /\ AttemptInv /\ UpdateInv /\ EndInv /\ RetryInv /\ BackoffInv /\ NoteInv
    BY <1>12 DEF InTurn, SessionInv, TurnInv
  <2>1. AttemptInv'  BY <2>0, <1>1, <1>3 DEF KindsKept, AttemptInv, SingleIn
  <2>2. EndInv'  BY <2>0, <1>1, <1>2, <1>3 DEF Stays, EndInv, SingleIn
  <2>3. RetryInv'  BY <2>0, <1>1, <1>3 DEF KindsKept, RetryInv
  <2>4. BackoffInv'  BY <2>0, <1>1, <1>2, <1>4 DEF BackoffInv
  <2>5. NoteInv'
    <3>1. NoteNotConnected'  BY <1>1, <1>2 DEF Stays, NoteNotConnected
    <3>2. NoteConnecting'  BY <1>1, <1>2 DEF Stays, NoteConnecting
    <3>3. NoteConnected'  BY <1>1, <1>2 DEF Stays, NoteConnected
    <3>4. NoteDisconnecting'
      BY <2>0, <1>1, <1>2, <1>3, <1>4 DEF NoteInv, KindsKept, NoteDisconnecting
    <3> QED  BY <3>1, <3>2, <3>3, <3>4 DEF NoteInv
  <2>up. UpdateInv'
    BY <2>0, <1>1, <1>2, <1>3, <1>4 DEF Stays, KindsKept, AllKept, UpdateInv, SingleIn
  <2> QED  BY <2>1, <2>2, <2>3, <2>4, <2>5, <2>up
<1> QED  BY <1>2, <1>5, <1>6, <1>7, <1>8, <1>9, <1>10, <1>11, <1>12 DEF SessionInv, TurnInv

(* actionDisconnect starts, because the session failed. *)
LEMMA RunFailSessionStep ==
  ASSUME SessionInv, hard' = hard, RunFailSession
  PROVE  SessionInv'
<1>1. Pending /\ Job.kind = "failSession" /\ currentState = "Disconnecting" /\ SubKinds
  <2>1. "failSession" \in JobKinds[currentState] /\ currentState \in Controller!States
    BY RunFacts DEF SessionInv, CtlInv, RunFailSession
  <2> QED
    BY <2>1, RunFacts, KindsWithin DEF JobKinds, Controller!States, SessionInv, RunFailSession
<1>2. CtlInv' /\ Stays /\ Job'.kind = "none" /\ deferredAction' \in {"none", deferredAction}
  BY <1>1, ReturnsHere DEF SessionInv, RunFailSession, Return
<1>3. /\ OpsInv' /\ Flying(Endings)' /\ (~Flying(Endings) => Single(Endings)')
      /\ KindsKept(Attempts) /\ KindsKept(Updates) /\ KindsKept(Retries) /\ KindsKept({"connect"})
      /\ KindsKept({"reconnect"}) /\ KindsKept({"disconnectAndRetry"})
  <2> DEFINE o == Op("disconnect", RunningStatus)
  <2>1. o \in OpSet /\ o.kind = "disconnect"
    BY RunFacts DEF SessionInv, OpSet, Op, OpKinds, RunFailSession, Works, Work, Statuses,
       RunningStatus
  <2>2. ops' = Started(o)  BY DEF RunFailSession
  <2> HIDE DEF o
  <2> QED  BY <2>1, <2>2, StartedOps DEF SessionInv, Attempts, Updates, Endings, Retries
<1>4. UNCHANGED <<paused, listening, toResume, lastNotified, armed, orphans>>
  BY DEF RunFailSession, gateVars, Gate!Disable
<1>5. OpsInv'  BY <1>3
<1>6. PlaceInv'  BY <1>4 DEF SessionInv, PlaceInv
<1>7. OwnerInv'  BY <1>1, <1>2, <1>3 DEF Stays, OwnerInv
<1>8. PausedInv'  BY <1>1, <1>2 DEF Stays, PausedInv
<1>9. ConsistentInv'  BY <1>1, <1>2, <1>4 DEF SessionInv, Stays, ConsistentInv
<1>10. ResumeInv'  BY <1>2 DEF ResumeInv
<1>11. QuietInv'  BY <1>1, <1>2 DEF Stays, QuietInv
<1>12. ASSUME InTurn'
      PROVE  AttemptInv' /\ UpdateInv' /\ EndInv' /\ RetryInv' /\ BackoffInv' /\ NoteInv'
  <2>0. InTurn /\ AttemptInv /\ UpdateInv /\ EndInv /\ RetryInv /\ BackoffInv /\ NoteInv
    BY <1>12 DEF InTurn, SessionInv, TurnInv
  <2>1. AttemptInv'  BY <2>0, <1>1, <1>3 DEF KindsKept, AttemptInv, SingleIn
  <2>2. EndInv'  BY <2>0, <1>1, <1>2, <1>3 DEF Stays, EndInv, SingleIn
  <2>3. RetryInv'  BY <2>0, <1>1, <1>3 DEF KindsKept, RetryInv
  <2>4. BackoffInv'  BY <2>0, <1>1, <1>2, <1>4 DEF BackoffInv
  <2>5. NoteInv'
    <3>1. NoteNotConnected'  BY <1>1, <1>2 DEF Stays, NoteNotConnected
    <3>2. NoteConnecting'  BY <1>1, <1>2 DEF Stays, NoteConnecting
    <3>3. NoteConnected'  BY <1>1, <1>2 DEF Stays, NoteConnected
    <3>4. NoteDisconnecting'
      BY <2>0, <1>1, <1>2, <1>3, <1>4 DEF NoteInv, KindsKept, NoteDisconnecting
    <3> QED  BY <3>1, <3>2, <3>3, <3>4 DEF NoteInv
  <2>up. UpdateInv'
    BY <2>0, <1>1, <1>2, <1>3, <1>4 DEF Stays, KindsKept, AllKept, UpdateInv, SingleIn
  <2> QED  BY <2>1, <2>2, <2>3, <2>4, <2>5, <2>up
<1> QED  BY <1>2, <1>5, <1>6, <1>7, <1>8, <1>9, <1>10, <1>11, <1>12 DEF SessionInv, TurnInv

(* actionDisconnect starts, because the start failed. *)
LEMMA RunFailConnectStep ==
  ASSUME SessionInv, hard' = hard, RunFailConnect
  PROVE  SessionInv'
<1>1. Pending /\ Job.kind = "failConnect" /\ currentState = "Disconnecting" /\ SubKinds
  <2>1. "failConnect" \in JobKinds[currentState] /\ currentState \in Controller!States
    BY RunFacts DEF SessionInv, CtlInv, RunFailConnect
  <2> QED
    BY <2>1, RunFacts, KindsWithin DEF JobKinds, Controller!States, SessionInv, RunFailConnect
<1>2. CtlInv' /\ Stays /\ Job'.kind = "none" /\ deferredAction' \in {"none", deferredAction}
  BY <1>1, ReturnsHere DEF SessionInv, RunFailConnect, Return
<1>3. /\ OpsInv' /\ Flying(Endings)' /\ (~Flying(Endings) => Single(Endings)')
      /\ KindsKept(Attempts) /\ KindsKept(Updates) /\ KindsKept(Retries) /\ KindsKept({"connect"})
      /\ KindsKept({"reconnect"})
  <2> DEFINE o == Op("disconnectAndRetry", RunningStatus)
  <2>1. o \in OpSet /\ o.kind = "disconnectAndRetry"
    BY RunFacts DEF SessionInv, OpSet, Op, OpKinds, RunFailConnect, Works, Work, Statuses,
       RunningStatus
  <2>2. ops' = Started(o)  BY DEF RunFailConnect
  <2> HIDE DEF o
  <2> QED  BY <2>1, <2>2, StartedOps DEF SessionInv, Attempts, Updates, Endings, Retries
<1>4. UNCHANGED <<paused, listening, toResume, lastNotified, armed, orphans>>
  BY DEF RunFailConnect, gateVars, Gate!Disable
<1>5. OpsInv'  BY <1>3
<1>6. PlaceInv'  BY <1>4 DEF SessionInv, PlaceInv
<1>7. OwnerInv'  BY <1>1, <1>2, <1>3 DEF Stays, OwnerInv
<1>8. PausedInv'  BY <1>1, <1>2 DEF Stays, PausedInv
<1>9. ConsistentInv'  BY <1>1, <1>2, <1>4 DEF SessionInv, Stays, ConsistentInv
<1>10. ResumeInv'  BY <1>2 DEF ResumeInv
<1>11. QuietInv'  BY <1>1, <1>2 DEF Stays, QuietInv
<1>12. ASSUME InTurn'
      PROVE  AttemptInv' /\ UpdateInv' /\ EndInv' /\ RetryInv' /\ BackoffInv' /\ NoteInv'
  <2>0. InTurn /\ AttemptInv /\ UpdateInv /\ EndInv /\ RetryInv /\ BackoffInv /\ NoteInv
    BY <1>12 DEF InTurn, SessionInv, TurnInv
  <2>1. AttemptInv'  BY <2>0, <1>1, <1>3 DEF KindsKept, AttemptInv, SingleIn
  <2>2. EndInv'  BY <2>0, <1>1, <1>2, <1>3 DEF Stays, EndInv, SingleIn
  <2>3. RetryInv'  BY <2>0, <1>1, <1>3 DEF KindsKept, RetryInv
  <2>4. BackoffInv'  BY <2>0, <1>1, <1>2, <1>4 DEF BackoffInv
  <2>5. NoteInv'
    <3>1. NoteNotConnected'
      BY <2>0, <1>1, <1>4 DEF NoteInv, Before, NoteNotConnected, NoteDisconnecting
    <3>2. NoteConnecting'  BY <1>1, <1>2 DEF Stays, NoteConnecting
    <3>3. NoteConnected'  BY <1>1, <1>2 DEF Stays, NoteConnected
    <3>4. NoteDisconnecting'  BY <2>0, <1>1, <1>4 DEF NoteInv, NoteDisconnecting
    <3> QED  BY <3>1, <3>2, <3>3, <3>4 DEF NoteInv
  <2>up. UpdateInv'
    BY <2>0, <1>1, <1>2, <1>3, <1>4 DEF Stays, KindsKept, AllKept, UpdateInv, SingleIn
  <2> QED  BY <2>1, <2>2, <2>3, <2>4, <2>5, <2>up
<1> QED  BY <1>2, <1>5, <1>6, <1>7, <1>8, <1>9, <1>10, <1>11, <1>12 DEF SessionInv, TurnInv

(* restartLocalVideo updates the session, or stops the local tile first. *)
LEMMA RunRestartStep ==
  ASSUME SessionInv, hard' = hard, RunRestart
  PROVE  SessionInv'
<1>1. Pending /\ Job.kind = "restart" /\ currentState = "Updating" /\ SubKinds
  <2>1. "restart" \in JobKinds[currentState] /\ currentState \in Controller!States
    BY RunFacts DEF SessionInv, CtlInv, RunRestart
  <2> QED  BY <2>1, RunFacts, KindsWithin DEF JobKinds, Controller!States, SessionInv, RunRestart
<1>2. CtlInv' /\ Stays /\ Job'.kind = "none"
      /\ deferredAction' \in {"none", "Update", deferredAction}
  <2>1. CASE Return  BY <1>1, <2>1, ReturnsHere DEF SessionInv, Return
  <2>2. CASE Controller!Perform("Update", Work("update", "none"))
    BY <1>1, <2>2, UpdatesOrDefers, NoWorkFacts DEF SessionInv, Stays, Keeps
  <2> QED  BY <2>1, <2>2 DEF RunRestart
<1>3. /\ OpsInv' /\ Flying(Updates)' /\ (~Flying(Updates) => Single(Updates)')
      /\ KindsKept(Attempts) /\ KindsKept(Endings) /\ KindsKept(Retries) /\ NotedKinds
  <2>1. CASE ops' = Started(Op("update", "none"))
    <3> DEFINE o == Op("update", "none")
    <3>1. o \in OpSet /\ o.kind = "update"  BY DEF OpSet, Op, OpKinds
    <3>2. ops' = Started(o)  BY <2>1
    <3> HIDE DEF o
    <3> QED
      BY <3>1, <3>2, StartedOps DEF SessionInv, Attempts, Updates, Endings, Retries, NotedKinds
  <2>2. CASE ops' = Started(Op("restartStopped", "none"))
    <3> DEFINE o == Op("restartStopped", "none")
    <3>1. o \in OpSet /\ o.kind = "restartStopped"  BY DEF OpSet, Op, OpKinds
    <3>2. ops' = Started(o)  BY <2>2
    <3> HIDE DEF o
    <3> QED
      BY <3>1, <3>2, StartedOps DEF SessionInv, Attempts, Updates, Endings, Retries, NotedKinds
  <2> QED  BY <2>1, <2>2 DEF RunRestart
<1>4. paused' = Tasks /\ UNCHANGED <<listening, toResume, lastNotified, armed, orphans>>
  BY DEF RunRestart, gateVars
<1>5. OpsInv'  BY <1>3
<1>6. PlaceInv'  BY <1>4 DEF SessionInv, PlaceInv
<1>7. OwnerInv'  BY <1>1, <1>2, <1>3 DEF Stays, OwnerInv
<1>8. PausedInv'  BY <1>1, <1>2 DEF Stays, PausedInv
<1>9. ConsistentInv'  BY <1>1, <1>4 DEF SessionInv, ConsistentInv
<1>10. ResumeInv'  BY <1>2 DEF ResumeInv
<1>11. QuietInv'  BY <1>1, <1>2 DEF Stays, QuietInv
<1>12. ASSUME InTurn'
      PROVE  AttemptInv' /\ UpdateInv' /\ EndInv' /\ RetryInv' /\ BackoffInv' /\ NoteInv'
  <2>0. InTurn /\ AttemptInv /\ UpdateInv /\ EndInv /\ RetryInv /\ BackoffInv /\ NoteInv
    BY <1>12 DEF InTurn, SessionInv, TurnInv
  <2>1. AttemptInv'  BY <2>0, <1>1, <1>3 DEF KindsKept, AttemptInv, SingleIn
  <2>2. EndInv'  BY <2>0, <1>1, <1>3 DEF KindsKept, EndInv, SingleIn
  <2>3. RetryInv'  BY <2>0, <1>1, <1>3 DEF KindsKept, RetryInv
  <2>4. BackoffInv'  BY <2>0, <1>2, <1>4 DEF Stays, BackoffInv
  <2>5. NoteInv'
    <3>1. NoteNotConnected'  BY <1>1, <1>2 DEF Stays, NoteNotConnected
    <3>2. NoteConnecting'  BY <1>1, <1>2 DEF Stays, NoteConnecting
    <3>3. NoteConnected'  BY <2>0, <1>1, <1>4 DEF NoteInv, NoteConnected
    <3>4. NoteDisconnecting'  BY <1>1, <1>2 DEF Stays, NoteDisconnecting
    <3> QED  BY <3>1, <3>2, <3>3, <3>4 DEF NoteInv
  <2>6. UpdateInv'
    BY <2>0, <1>1, <1>2, <1>3 DEF Stays, UpdateInv, SingleIn
  <2> QED  BY <2>1, <2>2, <2>3, <2>4, <2>5, <2>6
<1> QED  BY <1>2, <1>5, <1>6, <1>7, <1>8, <1>9, <1>10, <1>11, <1>12 DEF SessionInv, TurnInv

(* actionFinishConnecting tells the observers and resumes the tasks. *)
LEMMA RunFinishConnectingStep ==
  ASSUME SessionInv, hard' = hard, RunFinishConnecting
  PROVE  SessionInv'
<1>1. Pending /\ Job.kind = "finishConnecting" /\ currentState = "Connected" /\ stack # <<>>
      /\ Head(stack).work.kind = "finishConnecting"
  <2>1. "finishConnecting" \in JobKinds[currentState] /\ currentState \in Controller!States
    BY RunFacts DEF SessionInv, CtlInv, RunFinishConnecting
  <2> QED  BY <2>1, RunFacts DEF JobKinds, Controller!States, SessionInv, RunFinishConnecting
<1>2. /\ CtlInv' /\ paused' = paused \ {"index"} /\ toResume' = "monitor"
         /\ deferredAction' \in {deferredAction, "Update"}
      /\ \/ Stays
         \/ currentState = "Connected" /\ currentState' = "Updating" /\ Pending'
              /\ Job'.kind \in {"update", "restart"} /\ "late" \in hard
      /\ Stays => "late" \in hard \/ stack' = Controller!CallerMarked("further")
  BY Resumes DEF SessionInv, RunFinishConnecting, FinishUpdating
<1>3. stack' = Controller!CallerMarked("further") /\ stack' # <<>>
      => Head(stack').work.kind = "finishConnecting"
  <2> DEFINE base == Controller!CallerMarked("further")
  <2>1. base # <<>> => Head(base).work = Head(stack).work  BY Marked DEF SessionInv, CtlInv
  <2> HIDE DEF base
  <2>2. ASSUME stack' = base, stack' # <<>> PROVE Head(stack').work.kind = "finishConnecting"
    BY <1>1, <2>1, <2>2
  <2> QED  BY <2>2 DEF base
<1>4. Stays => Job'.kind = "none"
  BY NoWorkFacts DEF Stays
<1>5. OpsInv' /\ AllKept /\ SubKinds /\ UNCHANGED <<ops, listening>>
  BY OpsStay, KindsWithin DEF SessionInv, RunFinishConnecting
<1>6. lastNotified' = "started" /\ armed' = FALSE /\ orphans' = orphans
  BY DEF RunFinishConnecting, gateVars, Gate!Reset
<1>7. OpsInv'  BY <1>5
<1>8. PlaceInv'
  BY <1>2 DEF SessionInv, PlaceInv, Tasks
<1>9. OwnerInv'  BY <1>1, <1>2 DEF Stays, OwnerInv
<1>10. PausedInv'
  <2>1. paused \ {"index"} \subseteq {"monitor"}  BY DEF SessionInv, PlaceInv, Tasks
  <2> QED  BY <2>1, <1>2 DEF PausedInv
<1>11. ConsistentInv'
  <2> SUFFICES ASSUME "late" \notin hard
               PROVE  /\ currentState' = "Connected" /\ ~Pending'
                      /\ stack' # <<>>
                         => Head(stack').work.kind \in {"finishConnecting", "finishUpdating"}
    BY DEF ConsistentInv
  <2> QED  BY <1>1, <1>2, <1>3 DEF Stays
<1>12. ResumeInv'  BY <1>2, <1>4 DEF ResumeInv
<1>13. QuietInv'  BY <1>1, <1>2 DEF Stays, QuietInv
<1>14. ASSUME InTurn'
      PROVE  AttemptInv' /\ UpdateInv' /\ EndInv' /\ RetryInv' /\ BackoffInv' /\ NoteInv'
  <2>0. InTurn /\ AttemptInv /\ UpdateInv /\ EndInv /\ RetryInv /\ BackoffInv /\ NoteInv
    BY <1>14 DEF InTurn, SessionInv, TurnInv
  <2>1. AttemptInv'  BY <2>0, <1>1, <1>5 DEF KindsKept, AllKept, AttemptInv, SingleIn
  <2>2. EndInv'  BY <2>0, <1>1, <1>5 DEF KindsKept, AllKept, EndInv, SingleIn
  <2>3. RetryInv'  BY <2>0, <1>1, <1>5 DEF KindsKept, AllKept, RetryInv
  <2>4. BackoffInv'  BY <2>0, <1>2, <1>6 DEF BackoffInv
  <2>5. NoteInv'
    <3>1. NoteNotConnected'  BY <1>1, <1>2 DEF Stays, NoteNotConnected
    <3>2. NoteConnecting'  BY <1>1, <1>2 DEF Stays, NoteConnecting
    <3>3. NoteConnected'  BY <1>6 DEF During, NoteConnected
    <3>4. NoteDisconnecting'  BY <1>1, <1>2 DEF Stays, NoteDisconnecting
    <3> QED  BY <3>1, <3>2, <3>3, <3>4 DEF NoteInv
  <2>up. UpdateInv'
    BY <2>0, <1>1, <1>2, <1>5, <1>6 DEF Stays, KindsKept, AllKept, UpdateInv, SingleIn
  <2> QED  BY <2>1, <2>2, <2>3, <2>4, <2>5, <2>up
<1> QED  BY <1>2, <1>7, <1>8, <1>9, <1>10, <1>11, <1>12, <1>13, <1>14 DEF SessionInv, TurnInv

(* actionFinishUpdating resumes the tasks. *)
LEMMA RunFinishUpdatingStep ==
  ASSUME SessionInv, hard' = hard, RunFinishUpdating
  PROVE  SessionInv'
<1>1. Pending /\ Job.kind = "finishUpdating" /\ currentState = "Connected" /\ stack # <<>>
      /\ Head(stack).work.kind = "finishUpdating"
  <2>1. "finishUpdating" \in JobKinds[currentState] /\ currentState \in Controller!States
    BY RunFacts DEF SessionInv, CtlInv, RunFinishUpdating
  <2> QED  BY <2>1, RunFacts DEF JobKinds, Controller!States, SessionInv, RunFinishUpdating
<1>2. /\ CtlInv' /\ paused' = paused \ {"monitor"} /\ toResume' = "index"
         /\ deferredAction' \in {deferredAction, "Update"}
      /\ \/ Stays
         \/ currentState = "Connected" /\ currentState' = "Updating" /\ Pending'
              /\ Job'.kind \in {"update", "restart"} /\ "late" \in hard
      /\ Stays => "late" \in hard \/ stack' = Controller!CallerMarked("further")
  BY Resumes DEF SessionInv, RunFinishUpdating, FinishUpdating
<1>3. stack' = Controller!CallerMarked("further") /\ stack' # <<>> => Head(stack').work.kind = "finishUpdating"
  <2> DEFINE base == Controller!CallerMarked("further")
  <2>1. base # <<>> => Head(base).work = Head(stack).work  BY Marked DEF SessionInv, CtlInv
  <2> HIDE DEF base
  <2>2. ASSUME stack' = base, stack' # <<>> PROVE Head(stack').work.kind = "finishUpdating"
    BY <1>1, <2>1, <2>2
  <2> QED  BY <2>2 DEF base
<1>4. Stays => Job'.kind = "none"
  BY NoWorkFacts DEF Stays
<1>5. OpsInv' /\ AllKept /\ SubKinds /\ UNCHANGED <<ops, listening>>
  BY OpsStay, KindsWithin DEF SessionInv, RunFinishUpdating
<1>6. UNCHANGED <<lastNotified, armed, orphans>>
  BY DEF RunFinishUpdating, gateVars, Gate!Reset
<1>7. OpsInv'  BY <1>5
<1>8. PlaceInv'
  BY <1>2 DEF SessionInv, PlaceInv, Tasks
<1>9. OwnerInv'  BY <1>1, <1>2 DEF Stays, OwnerInv
<1>10. PausedInv'
  <2>1. paused \ {"monitor"} \subseteq {"index"}  BY DEF SessionInv, PlaceInv, Tasks
  <2> QED  BY <2>1, <1>2 DEF PausedInv
<1>11. ConsistentInv'
  <2> SUFFICES ASSUME "late" \notin hard
               PROVE  /\ currentState' = "Connected" /\ ~Pending'
                      /\ stack' # <<>>
                         => Head(stack').work.kind \in {"finishConnecting", "finishUpdating"}
    BY DEF ConsistentInv
  <2> QED  BY <1>1, <1>2, <1>3 DEF Stays
<1>12. ResumeInv'  BY <1>2, <1>4 DEF ResumeInv
<1>13. QuietInv'  BY <1>1, <1>2 DEF Stays, QuietInv
<1>14. ASSUME InTurn'
      PROVE  AttemptInv' /\ UpdateInv' /\ EndInv' /\ RetryInv' /\ BackoffInv' /\ NoteInv'
  <2>0. InTurn /\ AttemptInv /\ UpdateInv /\ EndInv /\ RetryInv /\ BackoffInv /\ NoteInv
    BY <1>14 DEF InTurn, SessionInv, TurnInv
  <2>1. AttemptInv'  BY <2>0, <1>1, <1>5 DEF KindsKept, AllKept, AttemptInv, SingleIn
  <2>2. EndInv'  BY <2>0, <1>1, <1>5 DEF KindsKept, AllKept, EndInv, SingleIn
  <2>3. RetryInv'  BY <2>0, <1>1, <1>5 DEF KindsKept, AllKept, RetryInv
  <2>4. BackoffInv'  BY <2>0, <1>2, <1>4, <1>6 DEF Stays, BackoffInv
  <2>5. NoteInv'
    <3>1. NoteNotConnected'  BY <1>1, <1>2 DEF Stays, NoteNotConnected
    <3>2. NoteConnecting'  BY <1>1, <1>2 DEF Stays, NoteConnecting
    <3>3. NoteConnected'  BY <2>0, <1>1, <1>6 DEF NoteInv, NoteConnected
    <3>4. NoteDisconnecting'  BY <1>1, <1>2 DEF Stays, NoteDisconnecting
    <3> QED  BY <3>1, <3>2, <3>3, <3>4 DEF NoteInv
  <2>up. UpdateInv'
    BY <2>0, <1>1, <1>2, <1>4, <1>5, <1>6 DEF Stays, KindsKept, AllKept, UpdateInv, SingleIn
  <2> QED  BY <2>1, <2>2, <2>3, <2>4, <2>5, <2>up
<1> QED  BY <1>2, <1>7, <1>8, <1>9, <1>10, <1>11, <1>12, <1>13, <1>14 DEF SessionInv, TurnInv

(* update that needs no renegotiation resumes the tasks. *)
LEMMA UpdateInPlaceStep ==
  ASSUME SessionInv, hard' = hard, UpdateInPlace
  PROVE  SessionInv'
<1>1. ~Pending /\ Job.kind = "none" /\ stack = <<>>
  BY IdleFacts DEF UpdateInPlace
<1>2. /\ CtlInv' /\ paused' = paused \ {"monitor"} /\ toResume' = "index"
         /\ deferredAction' \in {deferredAction, "Update"}
      /\ \/ Stays
         \/ currentState = "Connected" /\ currentState' = "Updating" /\ Pending'
              /\ Job'.kind \in {"update", "restart"} /\ "late" \in hard
      /\ Stays => "late" \in hard \/ stack' = Controller!CallerMarked("further")
  BY Resumes DEF SessionInv, UpdateInPlace, FinishUpdating
<1>3. stack' = Controller!CallerMarked("further") => stack' = <<>>
  BY <1>1 DEF Controller!CallerMarked
<1>4. Stays => Job'.kind = "none"
  BY NoWorkFacts DEF Stays
<1>5. OpsInv' /\ AllKept /\ SubKinds /\ UNCHANGED <<ops, listening>>
  BY OpsStay, KindsWithin DEF SessionInv, UpdateInPlace
<1>6. UNCHANGED <<lastNotified, armed, orphans>> /\ paused # Tasks
  BY DEF UpdateInPlace, gateVars
<1>7. OpsInv'  BY <1>5
<1>8. PlaceInv'
  BY <1>2 DEF SessionInv, PlaceInv, Tasks
<1>9. OwnerInv'  BY <1>1, <1>2, <1>5 DEF SessionInv, Stays, KindsKept, AllKept, OwnerInv
<1>10. PausedInv'
  <2>1. paused \ {"monitor"} \subseteq {"index"}  BY DEF SessionInv, PlaceInv, Tasks
  <2> QED  BY <2>1, <1>2 DEF PausedInv
<1>11. ConsistentInv'
  <2> SUFFICES ASSUME "late" \notin hard
               PROVE  currentState' # "Updating" /\ ~Pending' /\ stack' = <<>>
    BY DEF ConsistentInv
  <2>1. currentState # "Updating"  BY <1>1, <1>6 DEF SessionInv, ConsistentInv
  <2> QED  BY <1>2, <1>3, <2>1 DEF Stays
<1>12. ResumeInv'  BY <1>2, <1>4 DEF ResumeInv
<1>13. QuietInv'  BY <1>2, <1>5 DEF SessionInv, Stays, QuietInv
<1>14. ASSUME InTurn'
      PROVE  AttemptInv' /\ UpdateInv' /\ EndInv' /\ RetryInv' /\ BackoffInv' /\ NoteInv'
  <2>0. InTurn /\ AttemptInv /\ UpdateInv /\ EndInv /\ RetryInv /\ BackoffInv /\ NoteInv
    BY <1>14 DEF InTurn, SessionInv, TurnInv
  <2>1. AttemptInv'  BY <2>0, <1>2, <1>5 DEF Stays, KindsKept, AllKept, AttemptInv, SingleIn
  <2>2. EndInv'  BY <2>0, <1>2, <1>5 DEF Stays, KindsKept, AllKept, EndInv, SingleIn
  <2>3. RetryInv'  BY <2>0, <1>2, <1>4, <1>5, <1>6 DEF Stays, KindsKept, AllKept, RetryInv
  <2>4. BackoffInv'  BY <2>0, <1>2, <1>4, <1>6 DEF Stays, BackoffInv
  <2>5. NoteInv'
    <3>1. NoteNotConnected'  BY <2>0, <1>1, <1>2, <1>4, <1>6 DEF NoteInv, Stays, NoteNotConnected
    <3>2. NoteConnecting'
      BY <2>0, <1>2, <1>4, <1>5, <1>6 DEF NoteInv, Stays, KindsKept, AllKept, NotedKinds,
         NoteConnecting
    <3>3. NoteConnected'  BY <2>0, <1>1, <1>2, <1>6 DEF NoteInv, Stays, NoteConnected
    <3>4. NoteDisconnecting'
      BY <2>0, <1>2, <1>4, <1>5, <1>6 DEF NoteInv, Stays, KindsKept, AllKept, NotedKinds,
         NoteDisconnecting
    <3> QED  BY <3>1, <3>2, <3>3, <3>4 DEF NoteInv
  <2>up. UpdateInv'
    BY <2>0, <1>1, <1>2, <1>4, <1>5, <1>6 DEF Stays, KindsKept, AllKept, UpdateInv, SingleIn
  <2> QED  BY <2>1, <2>2, <2>3, <2>4, <2>5, <2>up
<1> QED  BY <1>2, <1>7, <1>8, <1>9, <1>10, <1>11, <1>12, <1>13, <1>14 DEF SessionInv, TurnInv

(* The second task is resumed. *)
LEMMA ResumeSecondStep ==
  ASSUME SessionInv, hard' = hard, ResumeSecond
  PROVE  SessionInv'
<1>1. ~Pending /\ Job = NoWork /\ Job.kind = "none" /\ toResume # "none"
  <2>1. ~Pending
    <3>1. Pending => Job.kind \in {"finishConnecting", "finishUpdating"}
      BY DEF ResumeSecond, Pending, Job
    <3> QED  BY <3>1 DEF ResumeSecond, SessionInv, ResumeInv
  <2> QED  BY <2>1, NoWorkFacts DEF ResumeSecond
<1>2. /\ CtlInv' /\ deferredAction' \in {deferredAction, "Update"}
      /\ \/ (Pending' <=> Pending) /\ Job' = Job /\ currentState' = currentState
         \/ /\ "late" \in hard
            /\ \/ currentState = "Connected" /\ currentState' = "Updating" /\ Pending'
                  /\ Job'.kind \in {"update", "restart"}
               \/ currentState # "Connected" /\ Stays /\ Job'.kind = "none"
  <2>1. CASE UNCHANGED controllerVars
    <3>1. UNCHANGED <<currentState, deferredAction, deferredWork, stack>>
      BY <2>1 DEF controllerVars
    <3>2. (Pending' <=> Pending) /\ Job' = Job  BY <3>1 DEF Pending, Job
    <3>3. StackInv' /\ JobInv' /\ SlotInv'
      BY <3>1, <3>2 DEF SessionInv, CtlInv, StackInv, JobInv, SlotInv
    <3> QED  BY <3>1, <3>2, <3>3 DEF SessionInv, CtlInv
  <2>2. CASE LateUpdate(toResume)
    BY <2>2, UpdatesOrDefers, NoWorkFacts DEF SessionInv, LateUpdate, Stays, Keeps
  <2> QED  BY <2>1, <2>2 DEF ResumeSecond
<1>3. paused' = paused \ {toResume} /\ toResume' = "none"
      /\ UNCHANGED <<lastNotified, armed, orphans>>
  BY DEF ResumeSecond, gateVars
<1>4. OpsInv' /\ AllKept /\ SubKinds /\ UNCHANGED <<ops, listening>>
  BY OpsStay, KindsWithin DEF SessionInv, ResumeSecond
<1>5. OpsInv'  BY <1>4
<1>6. PlaceInv'
  BY <1>3 DEF SessionInv, PlaceInv
<1>7. OwnerInv'  BY <1>1, <1>2, <1>4 DEF SessionInv, Stays, KindsKept, AllKept, OwnerInv
<1>8. PausedInv'  BY <1>2, <1>3 DEF SessionInv, Stays, PausedInv
<1>9. ConsistentInv'  BY <1>1, <1>2, <1>3 DEF SessionInv, ConsistentInv
<1>10. ResumeInv'  BY <1>3 DEF ResumeInv
<1>11. QuietInv'  BY <1>2, <1>4 DEF SessionInv, Stays, QuietInv
<1>12. ASSUME InTurn'
      PROVE  AttemptInv' /\ UpdateInv' /\ EndInv' /\ RetryInv' /\ BackoffInv' /\ NoteInv'
  <2>0. InTurn /\ AttemptInv /\ UpdateInv /\ EndInv /\ RetryInv /\ BackoffInv /\ NoteInv
    BY <1>12 DEF InTurn, SessionInv, TurnInv
  <2>1. AttemptInv'  BY <2>0, <1>2, <1>4 DEF Stays, KindsKept, AllKept, AttemptInv, SingleIn
  <2>2. EndInv'  BY <2>0, <1>2, <1>4 DEF Stays, KindsKept, AllKept, EndInv, SingleIn
  <2>3. RetryInv'  BY <2>0, <1>2, <1>3, <1>4 DEF Stays, KindsKept, AllKept, RetryInv
  <2>4. BackoffInv'  BY <2>0, <1>2, <1>3 DEF Stays, BackoffInv
  <2>5. NoteInv'
    <3>1. NoteNotConnected'  BY <2>0, <1>1, <1>2, <1>3 DEF NoteInv, Stays, NoteNotConnected
    <3>2. NoteConnecting'
      BY <2>0, <1>2, <1>3, <1>4 DEF NoteInv, Stays, KindsKept, AllKept, NotedKinds, NoteConnecting
    <3>3. NoteConnected'  BY <2>0, <1>1, <1>2, <1>3 DEF NoteInv, Stays, NoteConnected
    <3>4. NoteDisconnecting'
      BY <2>0, <1>2, <1>3, <1>4 DEF NoteInv, Stays, KindsKept, AllKept, NotedKinds,
         NoteDisconnecting
    <3> QED  BY <3>1, <3>2, <3>3, <3>4 DEF NoteInv
  <2>up. UpdateInv'
    BY <2>0, <1>1, <1>2, <1>3, <1>4 DEF Stays, KindsKept, AllKept, UpdateInv, SingleIn
  <2> QED  BY <2>1, <2>2, <2>3, <2>4, <2>5, <2>up
<1> QED  BY <1>2, <1>5, <1>6, <1>7, <1>8, <1>9, <1>10, <1>11, <1>12 DEF SessionInv, TurnInv

(* The catch block of a failed reconnect or update. *)
LEMMA RunOperationFailedStep ==
  ASSUME SessionInv, hard' = hard, RunOperationFailed
  PROVE  SessionInv'
<1>1. Pending /\ Job.kind = "operationFailed" /\ currentState = "Connected"
  <2>1. "operationFailed" \in JobKinds[currentState] /\ currentState \in Controller!States
    BY RunFacts DEF SessionInv, CtlInv, RunOperationFailed
  <2> QED  BY <2>1, RunFacts DEF JobKinds, Controller!States, SessionInv, RunOperationFailed
<1>2. /\ CtlInv' /\ deferredAction' \in {deferredAction, "Update"}
      /\ \/ /\ armed' = TRUE /\ Stays
            /\ orphans' = orphans + (IF armed THEN 1 ELSE 0)
         \/ /\ armed' = armed /\ orphans' = orphans
            /\ \/ currentState' = "Disconnecting" /\ Pending' /\ Job'.kind = "failSession"
               \/ currentState' = "Updating" /\ Pending' /\ Job'.kind \in {"update", "restart"}
  <2> DEFINE s == RunningStatus
  <2>1. s \in Statuses
    BY RunFacts DEF SessionInv, RunOperationFailed, RunningStatus, Works, Work, Statuses
  <2>2. HandleStatus(s)  BY DEF RunOperationFailed
  <2> HIDE DEF s
  <2> QED  BY <1>1, <2>1, <2>2, Handles DEF SessionInv, Gate!Retry
<1>3. Stays => Job'.kind = "none"
  BY NoWorkFacts DEF Stays
<1>4. OpsInv' /\ AllKept /\ SubKinds /\ UNCHANGED <<ops, listening, paused, toResume, lastNotified>>
  BY OpsStay, KindsWithin DEF SessionInv, RunOperationFailed
<1>5. OpsInv'  BY <1>4
<1>6. PlaceInv'  BY <1>4 DEF SessionInv, PlaceInv
<1>7. OwnerInv'  BY <1>1, <1>2 DEF Stays, OwnerInv
<1>8. PausedInv'  BY <1>2 DEF PausedInv
<1>9. ConsistentInv'  BY <1>1, <1>2, <1>4 DEF SessionInv, Stays, ConsistentInv
<1>10. ResumeInv'  BY <1>2, <1>3 DEF ResumeInv
<1>11. QuietInv'  BY <1>1, <1>2 DEF Stays, QuietInv
<1>12. ASSUME InTurn'
      PROVE  AttemptInv' /\ UpdateInv' /\ EndInv' /\ RetryInv' /\ BackoffInv' /\ NoteInv'
  <2>0. InTurn /\ AttemptInv /\ UpdateInv /\ EndInv /\ RetryInv /\ BackoffInv /\ NoteInv
    BY <1>12 DEF InTurn, SessionInv, TurnInv
  <2>1. AttemptInv'  BY <2>0, <1>1, <1>4 DEF KindsKept, AllKept, AttemptInv, SingleIn
  <2>2. EndInv'  BY <2>0, <1>1, <1>4 DEF KindsKept, AllKept, EndInv, SingleIn
  <2>3. RetryInv'  BY <2>0, <1>1, <1>4 DEF KindsKept, AllKept, RetryInv
  <2>4. BackoffInv'  BY <2>0, <1>1, <1>2, <1>3 DEF Stays, BackoffInv
  <2>5. NoteInv'
    <3>1. NoteNotConnected'  BY <1>1, <1>2 DEF Stays, NoteNotConnected
    <3>2. NoteConnecting'  BY <1>1, <1>2 DEF Stays, NoteConnecting
    <3>3. NoteConnected'  BY <2>0, <1>1, <1>4 DEF NoteInv, NoteConnected
    <3>4. NoteDisconnecting'
      BY <2>0, <1>1, <1>2, <1>3, <1>4 DEF NoteInv, KindsKept, AllKept, NotedKinds, SubKinds,
         NoteDisconnecting, NoteConnected, EndInv, SingleIn
    <3> QED  BY <3>1, <3>2, <3>3, <3>4 DEF NoteInv
  <2>up. UpdateInv'
    BY <2>0, <1>1, <1>2, <1>3, <1>4 DEF Stays, KindsKept, AllKept, UpdateInv, SingleIn
  <2> QED  BY <2>1, <2>2, <2>3, <2>4, <2>5, <2>up
<1> QED  BY <1>2, <1>5, <1>6, <1>7, <1>8, <1>9, <1>10, <1>11, <1>12 DEF SessionInv, TurnInv

(* notifyStop tells the observers. *)
LEMMA RunNotifyStopStep ==
  ASSUME SessionInv, hard' = hard, RunNotifyStop
  PROVE  SessionInv'
<1>1. Pending /\ Job.kind = "notifyStop" /\ currentState = "NotConnected"
  <2>1. "notifyStop" \in JobKinds[currentState] /\ currentState \in Controller!States
    BY RunFacts DEF SessionInv, CtlInv, RunNotifyStop
  <2> QED  BY <2>1, RunFacts DEF JobKinds, Controller!States, SessionInv, RunNotifyStop
<1>2. CtlInv' /\ Stays /\ Job'.kind = "none" /\ deferredAction' \in {"none", deferredAction}
  BY <1>1, ReturnsHere DEF SessionInv, RunNotifyStop, Return
<1>3. OpsInv' /\ AllKept /\ SubKinds /\ UNCHANGED <<ops, listening, paused, toResume>>
  BY OpsStay, KindsWithin DEF SessionInv, RunNotifyStop
<1>4. lastNotified' \in {"left", "stopped"} /\ armed' = armed /\ orphans' = orphans
  BY DEF RunNotifyStop, gateVars
<1>5. OpsInv'  BY <1>3
<1>6. PlaceInv'  BY <1>3 DEF SessionInv, PlaceInv
<1>7. OwnerInv'  BY <1>1, <1>2 DEF Stays, OwnerInv
<1>8. PausedInv'  BY <1>1, <1>2 DEF Stays, PausedInv
<1>9. ConsistentInv'  BY <1>1, <1>2, <1>3 DEF SessionInv, Stays, ConsistentInv
<1>10. ResumeInv'  BY <1>2 DEF ResumeInv
<1>11. QuietInv'  BY <1>1, <1>3 DEF SessionInv, QuietInv
<1>12. ASSUME InTurn'
      PROVE  AttemptInv' /\ UpdateInv' /\ EndInv' /\ RetryInv' /\ BackoffInv' /\ NoteInv'
  <2>0. InTurn /\ AttemptInv /\ UpdateInv /\ EndInv /\ RetryInv /\ BackoffInv /\ NoteInv
    BY <1>12 DEF InTurn, SessionInv, TurnInv
  <2>1. ~armed
    BY <1>1, <2>0 DEF BackoffInv
  <2>2. AttemptInv'  BY <2>0, <1>1, <1>3 DEF KindsKept, AllKept, AttemptInv, SingleIn
  <2>3. EndInv'  BY <2>0, <1>1, <1>3 DEF KindsKept, AllKept, EndInv, SingleIn
  <2>4. RetryInv'  BY <2>0, <1>1, <1>3 DEF KindsKept, AllKept, RetryInv
  <2>5. BackoffInv'  BY <2>0, <2>1, <1>2, <1>4 DEF BackoffInv
  <2>6. NoteInv'
    <3>1. NoteNotConnected'  BY <2>1, <1>2, <1>4 DEF Before, NoteNotConnected
    <3>2. NoteConnecting'  BY <1>1, <1>2 DEF Stays, NoteConnecting
    <3>3. NoteConnected'  BY <1>1, <1>2 DEF Stays, NoteConnected
    <3>4. NoteDisconnecting'  BY <1>1, <1>2 DEF Stays, NoteDisconnecting
    <3> QED  BY <3>1, <3>2, <3>3, <3>4 DEF NoteInv
  <2>up. UpdateInv'
    BY <2>0, <2>1, <1>1, <1>2, <1>3, <1>4 DEF Stays, KindsKept, AllKept, UpdateInv, SingleIn
  <2> QED  BY <2>2, <2>3, <2>4, <2>5, <2>6, <2>up
<1> QED  BY <1>2, <1>5, <1>6, <1>7, <1>8, <1>9, <1>10, <1>11, <1>12 DEF SessionInv, TurnInv

(* The disconnect before a retry has ended. *)
LEMMA RunCleanedStep ==
  ASSUME SessionInv, hard' = hard, RunCleaned
  PROVE  SessionInv'
<1>1. Pending /\ Job.kind = "cleaned" /\ currentState = "NotConnected"
  <2>1. "cleaned" \in JobKinds[currentState] /\ currentState \in Controller!States
    BY RunFacts DEF SessionInv, CtlInv, RunCleaned
  <2> QED  BY <2>1, RunFacts DEF JobKinds, Controller!States, SessionInv, RunCleaned
<1>2. CtlInv' /\ Stays /\ Job'.kind = "none" /\ deferredAction' \in {"none", deferredAction}
  BY <1>1, ReturnsHere DEF SessionInv, RunCleaned, Return
<1>3. OpsInv' /\ AllKept /\ SubKinds /\ UNCHANGED <<ops, listening, paused, toResume>>
  BY OpsStay, KindsWithin DEF SessionInv, RunCleaned
<1>4. UNCHANGED <<lastNotified, armed, orphans>>
  BY DEF RunCleaned, gateVars
<1>5. OpsInv'  BY <1>3
<1>6. PlaceInv'  BY <1>3 DEF SessionInv, PlaceInv
<1>7. OwnerInv'  BY <1>1, <1>2 DEF Stays, OwnerInv
<1>8. PausedInv'  BY <1>1, <1>2 DEF Stays, PausedInv
<1>9. ConsistentInv'  BY <1>1, <1>2, <1>3 DEF SessionInv, Stays, ConsistentInv
<1>10. ResumeInv'  BY <1>2 DEF ResumeInv
<1>11. QuietInv'  BY <1>1, <1>3 DEF SessionInv, QuietInv
<1>12. ASSUME InTurn'
      PROVE  AttemptInv' /\ UpdateInv' /\ EndInv' /\ RetryInv' /\ BackoffInv' /\ NoteInv'
  <2>0. InTurn /\ AttemptInv /\ UpdateInv /\ EndInv /\ RetryInv /\ BackoffInv /\ NoteInv
    BY <1>12 DEF InTurn, SessionInv, TurnInv
  <2>1. AttemptInv'  BY <2>0, <1>1, <1>3 DEF KindsKept, AllKept, AttemptInv, SingleIn
  <2>2. EndInv'  BY <2>0, <1>1, <1>3 DEF KindsKept, AllKept, EndInv, SingleIn
  <2>3. RetryInv'  BY <2>0, <1>2, <1>3, <1>4 DEF Stays, KindsKept, AllKept, RetryInv
  <2>4. BackoffInv'  BY <2>0, <1>2, <1>4 DEF Stays, BackoffInv
  <2>5. NoteInv'
    <3>1. NoteNotConnected'  BY <2>0, <1>1, <1>4 DEF NoteInv, NoteNotConnected
    <3>2. NoteConnecting'  BY <1>1, <1>2 DEF Stays, NoteConnecting
    <3>3. NoteConnected'  BY <1>1, <1>2 DEF Stays, NoteConnected
    <3>4. NoteDisconnecting'  BY <1>1, <1>2 DEF Stays, NoteDisconnecting
    <3> QED  BY <3>1, <3>2, <3>3, <3>4 DEF NoteInv
  <2>up. UpdateInv'
    BY <2>0, <1>1, <1>2, <1>3, <1>4 DEF Stays, KindsKept, AllKept, UpdateInv, SingleIn
  <2> QED  BY <2>1, <2>2, <2>3, <2>4, <2>5, <2>up
<1> QED  BY <1>2, <1>5, <1>6, <1>7, <1>8, <1>9, <1>10, <1>11, <1>12 DEF SessionInv, TurnInv

(* A perform returns that had called perform last. *)
LEMMA NestedReturnStep ==
  ASSUME SessionInv, hard' = hard, NestedReturn
  PROVE  SessionInv'
<1>1. ~Pending /\ Job.kind = "none" /\ stack # <<>>
      /\ (Head(stack).work.kind \in {"finishConnecting", "finishUpdating"} => toResume = "none")
  BY NoWorkFacts DEF NestedReturn, Pending
<1>2. /\ CtlInv' /\ deferredAction' \in {"none", deferredAction}
      /\ \/ Stays
         \/ /\ currentState = "Connected" /\ Pending'
            /\ \/ deferredAction = "Disconnect" /\ currentState' = "Disconnecting"
                  /\ Job'.kind = "stop"
               \/ currentState' = "Connecting" /\ Job'.kind = "reconnect"
               \/ currentState' = "Updating" /\ Job'.kind \in {"update", "restart"}
  BY WorkReturned DEF SessionInv, NestedReturn, Return
<1>3. Stays => Job'.kind = "none"
  BY NoWorkFacts DEF Stays
<1>4. OpsInv' /\ AllKept /\ SubKinds
      /\ UNCHANGED <<ops, listening, paused, toResume, lastNotified, armed, orphans>>
  BY OpsStay, KindsWithin DEF SessionInv, NestedReturn, gateVars
<1>5. OpsInv'  BY <1>4
<1>6. PlaceInv'  BY <1>4 DEF SessionInv, PlaceInv
<1>7. OwnerInv'  BY <1>1, <1>2, <1>4 DEF SessionInv, Stays, KindsKept, AllKept, OwnerInv
<1>8. PausedInv'  BY <1>1, <1>2, <1>4 DEF SessionInv, Stays, PausedInv
<1>9. ConsistentInv'  BY <1>1, <1>2, <1>4 DEF SessionInv, Stays, ConsistentInv
<1>10. ResumeInv'  BY <1>2, <1>3 DEF ResumeInv
<1>11. QuietInv'  BY <1>2, <1>4 DEF SessionInv, Stays, QuietInv
<1>12. ASSUME InTurn'
      PROVE  AttemptInv' /\ UpdateInv' /\ EndInv' /\ RetryInv' /\ BackoffInv' /\ NoteInv'
  <2>0. InTurn /\ AttemptInv /\ UpdateInv /\ EndInv /\ RetryInv /\ BackoffInv /\ NoteInv
    BY <1>12 DEF InTurn, SessionInv, TurnInv
  <2>1. AttemptInv'  BY <2>0, <1>2, <1>4 DEF Stays, KindsKept, AllKept, AttemptInv, SingleIn
  <2>2. EndInv'  BY <2>0, <1>2, <1>4 DEF Stays, KindsKept, AllKept, EndInv, SingleIn
  <2>3. RetryInv'  BY <2>0, <1>2, <1>3, <1>4 DEF Stays, KindsKept, AllKept, RetryInv
  <2>4. BackoffInv'  BY <2>0, <1>2, <1>3, <1>4 DEF Stays, BackoffInv
  <2>5. NoteInv'
    <3>1. NoteNotConnected'  BY <2>0, <1>1, <1>2, <1>3, <1>4 DEF NoteInv, Stays, NoteNotConnected
    <3>2. NoteConnecting'
      BY <2>0, <1>1, <1>2, <1>3, <1>4 DEF NoteInv, KindsKept, AllKept, NotedKinds, SubKinds,
         NoteConnecting, NoteConnected, AttemptInv, SingleIn
    <3>3. NoteConnected'  BY <2>0, <1>1, <1>2, <1>4 DEF NoteInv, Stays, NoteConnected
    <3>4. NoteDisconnecting'
      BY <2>0, <1>2, <1>3, <1>4 DEF NoteInv, Stays, KindsKept, AllKept, NotedKinds, SubKinds,
         NoteDisconnecting, NoteConnected, EndInv, SingleIn
    <3> QED  BY <3>1, <3>2, <3>3, <3>4 DEF NoteInv
  <2>up. UpdateInv'
    BY <2>0, <1>1, <1>2, <1>3, <1>4 DEF Stays, KindsKept, AllKept, UpdateInv, SingleIn
  <2> QED  BY <2>1, <2>2, <2>3, <2>4, <2>5, <2>up
<1> QED  BY <1>2, <1>5, <1>6, <1>7, <1>8, <1>9, <1>10, <1>11, <1>12 DEF SessionInv, TurnInv

(* The ends of the operations.  The tasks of actionConnect or actionReconnect have ended. *)
LEMMA ConnectedStep ==
  ASSUME SessionInv, hard' = hard, NEW k \in {"connect", "reconnect"}, Connected(k)
  PROVE  SessionInv'
<1>1. ~Pending /\ Job = NoWork /\ Job.kind = "none" /\ toResume = "none" /\ ~Flying(Retries)
  BY IdleFacts DEF Connected, Ends
<1>2. /\ CtlInv' /\ Keeps
      /\ \/ currentState = "Connecting" /\ currentState' = "Connected" /\ Pending'
            /\ Job'.kind = "finishConnecting"
         \/ currentState # "Connecting" /\ Stays
  <2> DEFINE w == Work("finishConnecting", "none")
  <2>1. w \in Works /\ w.kind = "finishConnecting"  BY DEF Works, Work, Statuses, UpdateFailures
  <2>2. Controller!Perform("FinishConnecting", w)  BY DEF Connected
  <2> HIDE DEF w
  <2> QED  BY <2>1, <2>2, FinishesConnecting DEF SessionInv
<1>3. Stays => Job'.kind = "none"
  BY NoWorkFacts DEF Stays
<1>4. /\ OpsInv' /\ Flying(Attempts) /\ SubKinds
         /\ (Single(Attempts) => Single(Attempts)' /\ ~Flying(Attempts)')
      /\ KindsKept(Updates) /\ KindsKept(Endings) /\ KindsKept(Retries)
      /\ KindsKept({"disconnectAndRetry"})
      /\ Flying({"connect"}) \/ Flying({"reconnect"})
  <2> DEFINE o == Op(k, "none")
  <2>1. o.kind = k  BY DEF Op
  <2>2. InFlight(o) /\ ops' = Ended(o)  BY DEF Connected, Connected, Ends
  <2>3. /\ k \in Attempts /\ k \notin Updates /\ k \notin Endings /\ k \notin Retries
       /\ k \notin {"disconnectAndRetry"}
    BY DEF Attempts, Updates, Endings, Retries
  <2>4. Flying({"connect"}) \/ Flying({"reconnect"})
    <3>1. o \in DOMAIN ops  BY <2>2 DEF InFlight, BagIn, BagToSet
    <3> QED  BY <2>1, <3>1 DEF Flying
  <2> HIDE DEF o
  <2> QED  BY <2>1, <2>2, <2>3, <2>4, EndedOps, KindsWithin DEF SessionInv
<1>5. UNCHANGED <<paused, listening, toResume, lastNotified, armed, orphans>>
  BY DEF Connected, gateVars
<1>6. OpsInv'  BY <1>4
<1>7. PlaceInv'  BY <1>5 DEF SessionInv, PlaceInv
<1>8. OwnerInv'  BY <1>1, <1>2, <1>4 DEF SessionInv, Stays, KindsKept, OwnerInv
<1>9. PausedInv'  BY <1>1, <1>2, <1>5 DEF SessionInv, Stays, PausedInv
<1>10. ConsistentInv'  BY <1>1, <1>2, <1>5 DEF SessionInv, Stays, ConsistentInv
<1>11. ResumeInv'  BY <1>1, <1>5 DEF ResumeInv
<1>12. QuietInv'  BY <1>2, <1>5 DEF SessionInv, Stays, QuietInv
<1>13. ASSUME InTurn'
      PROVE  AttemptInv' /\ UpdateInv' /\ EndInv' /\ RetryInv' /\ BackoffInv' /\ NoteInv'
  <2>0. InTurn /\ AttemptInv /\ UpdateInv /\ EndInv /\ RetryInv /\ BackoffInv /\ NoteInv
    BY <1>13 DEF InTurn, SessionInv, TurnInv
  <2>1. AttemptInv'  BY <2>0, <1>4 DEF AttemptInv, SingleIn
  <2>2. EndInv'  BY <2>0, <1>2, <1>4 DEF Stays, KindsKept, EndInv, SingleIn
  <2>3. RetryInv'  BY <2>0, <1>1, <1>4 DEF KindsKept, RetryInv
  <2>4. BackoffInv'  BY <2>0, <1>2, <1>3, <1>5 DEF Stays, Keeps, BackoffInv
  <2>5. NoteInv'
    <3>1. NoteNotConnected'  BY <2>0, <1>1, <1>2, <1>5 DEF NoteInv, Stays, NoteNotConnected
    <3>2. NoteConnecting'  BY <2>0, <1>2, <1>4 DEF NoteConnecting, AttemptInv, SingleIn
    <3>3. NoteConnected'
      BY <2>0, <1>2, <1>4, <1>5 DEF NoteInv, NoteConnected, NoteConnecting, AttemptInv, SingleIn
    <3>4. NoteDisconnecting'
      BY <2>0, <1>2, <1>3, <1>4, <1>5 DEF NoteInv, Stays, KindsKept, NoteDisconnecting
    <3> QED  BY <3>1, <3>2, <3>3, <3>4 DEF NoteInv
  <2>up. UpdateInv'
    BY <2>0, <1>1, <1>2, <1>3, <1>4, <1>5 DEF Stays, KindsKept, AllKept, UpdateInv, SingleIn
  <2> QED  BY <2>1, <2>2, <2>3, <2>4, <2>5, <2>up
<1> QED  BY <1>2, <1>6, <1>7, <1>8, <1>9, <1>10, <1>11, <1>12, <1>13 DEF SessionInv, TurnInv

(* A task of actionReconnect has failed. *)
LEMMA ReconnectFailsStep ==
  ASSUME SessionInv, hard' = hard, NEW s \in {"fail", "terminal"}, ReconnectFails(s)
  PROVE  SessionInv'
<1>1. ~Pending /\ Job = NoWork /\ Job.kind = "none" /\ toResume = "none" /\ ~Flying(Retries)
  BY IdleFacts DEF ReconnectFails, Fails
<1>2. /\ CtlInv' /\ Keeps
      /\ \/ currentState = "Connecting" /\ currentState' = "Connected" /\ Pending'
            /\ Job'.kind = "operationFailed"
         \/ currentState # "Connecting" /\ Stays
  <2> DEFINE w == Work("operationFailed", s)
  <2>1. w \in Works /\ w.kind = "operationFailed"  BY DEF Works, Work, Statuses, UpdateFailures
  <2>2. Controller!Perform("FinishConnecting", w)  BY DEF ReconnectFails
  <2> HIDE DEF w
  <2> QED  BY <2>1, <2>2, FinishesConnecting DEF SessionInv
<1>3. Stays => Job'.kind = "none"
  BY NoWorkFacts DEF Stays
<1>4. /\ OpsInv' /\ Flying(Attempts) /\ SubKinds
         /\ (Single(Attempts) => Single(Attempts)' /\ ~Flying(Attempts)')
      /\ KindsKept(Updates) /\ KindsKept(Endings) /\ KindsKept(Retries)
      /\ KindsKept({"disconnectAndRetry"})
      /\ Flying({"reconnect"})
  <2> DEFINE o == Op("reconnect", "none")
  <2>1. o.kind = "reconnect"  BY DEF Op
  <2>2. InFlight(o) /\ ops' = Ended(o)  BY DEF ReconnectFails, ReconnectFails, Fails
  <2>3. /\ "reconnect" \in Attempts /\ "reconnect" \notin Updates /\ "reconnect" \notin Endings
           /\ "reconnect" \notin Retries
       /\ "reconnect" \in {"reconnect"} /\ "reconnect" \notin {"disconnectAndRetry"}
    BY DEF Attempts, Updates, Endings, Retries
  <2> HIDE DEF o
  <2> QED  BY <2>1, <2>2, <2>3, EndedOps, KindsWithin DEF SessionInv
<1>5. UNCHANGED <<paused, listening, toResume, lastNotified, armed, orphans>>
  BY DEF ReconnectFails, gateVars
<1>6. InTurn => ~armed
  BY DEF ReconnectFails, Fails, MayFail, NoBackoff, InTurn
<1>7. OpsInv'  BY <1>4
<1>8. PlaceInv'  BY <1>5 DEF SessionInv, PlaceInv
<1>9. OwnerInv'  BY <1>1, <1>2, <1>4 DEF SessionInv, Stays, KindsKept, OwnerInv
<1>10. PausedInv'  BY <1>1, <1>2, <1>5 DEF SessionInv, Stays, PausedInv
<1>11. ConsistentInv'  BY <1>1, <1>2, <1>5 DEF SessionInv, Stays, ConsistentInv
<1>12. ResumeInv'  BY <1>2, <1>3 DEF ResumeInv
<1>13. QuietInv'  BY <1>2, <1>5 DEF SessionInv, Stays, QuietInv
<1>14. ASSUME InTurn'
      PROVE  AttemptInv' /\ UpdateInv' /\ EndInv' /\ RetryInv' /\ BackoffInv' /\ NoteInv'
  <2>0. InTurn /\ AttemptInv /\ UpdateInv /\ EndInv /\ RetryInv /\ BackoffInv /\ NoteInv
    BY <1>14 DEF InTurn, SessionInv, TurnInv
  <2>1. AttemptInv'  BY <2>0, <1>4 DEF AttemptInv, SingleIn
  <2>2. EndInv'  BY <2>0, <1>2, <1>4 DEF Stays, KindsKept, EndInv, SingleIn
  <2>3. RetryInv'  BY <2>0, <1>1, <1>4 DEF KindsKept, RetryInv
  <2>4. BackoffInv'  BY <2>0, <1>2, <1>5, <1>6 DEF Keeps, BackoffInv
  <2>5. NoteInv'
    <3>1. NoteNotConnected'  BY <2>0, <1>1, <1>2, <1>5 DEF NoteInv, Stays, NoteNotConnected
    <3>2. NoteConnecting'  BY <2>0, <1>2, <1>4 DEF NoteConnecting, AttemptInv, SingleIn
    <3>3. NoteConnected'
      BY <2>0, <1>4, <1>5 DEF NoteInv, NoteConnected, NoteConnecting, AttemptInv, SingleIn
    <3>4. NoteDisconnecting'
      BY <2>0, <1>2, <1>3, <1>4, <1>5 DEF NoteInv, Stays, KindsKept, NoteDisconnecting
    <3> QED  BY <3>1, <3>2, <3>3, <3>4 DEF NoteInv
  <2>up. UpdateInv'
    BY <2>0, <1>1, <1>2, <1>3, <1>4, <1>5, <1>6 DEF Stays, KindsKept, AllKept, UpdateInv, SingleIn
  <2> QED  BY <2>1, <2>2, <2>3, <2>4, <2>5, <2>up
<1> QED  BY <1>2, <1>7, <1>8, <1>9, <1>10, <1>11, <1>12, <1>13, <1>14 DEF SessionInv, TurnInv

(* The tasks of actionUpdate have ended. *)
LEMMA UpdatedStep ==
  ASSUME SessionInv, hard' = hard, Updated
  PROVE  SessionInv'
<1>1. ~Pending /\ Job = NoWork /\ Job.kind = "none" /\ toResume = "none" /\ ~Flying(Retries)
  BY IdleFacts DEF Updated, Ends
<1>2. /\ CtlInv' /\ Keeps
      /\ \/ currentState = "Updating" /\ currentState' = "Connected" /\ Pending'
            /\ Job'.kind = "finishUpdating"
         \/ currentState # "Updating" /\ Stays
  <2> DEFINE w == Work("finishUpdating", "none")
  <2>1. w \in Works /\ w.kind = "finishUpdating"  BY DEF Works, Work, Statuses, UpdateFailures
  <2>2. Controller!Perform("FinishUpdating", w)  BY DEF Updated
  <2> HIDE DEF w
  <2> QED  BY <2>1, <2>2, FinishesUpdating DEF SessionInv
<1>3. Stays => Job'.kind = "none"
  BY NoWorkFacts DEF Stays
<1>4. /\ OpsInv' /\ Flying(Updates) /\ SubKinds
         /\ (Single(Updates) => Single(Updates)' /\ ~Flying(Updates)')
      /\ KindsKept(Attempts) /\ KindsKept(Endings) /\ KindsKept(Retries)
      /\ KindsKept({"connect"}) /\ KindsKept({"reconnect"}) /\ KindsKept({"disconnectAndRetry"})
  <2> DEFINE o == Op("update", "none")
  <2>1. o.kind = "update"  BY DEF Op
  <2>2. InFlight(o) /\ ops' = Ended(o)  BY DEF Updated, Updated, Ends
  <2>3. /\ "update" \in Updates /\ "update" \notin Attempts /\ "update" \notin Endings
           /\ "update" \notin Retries
       /\ "update" \notin {"connect"} /\ "update" \notin {"reconnect"}
          /\ "update" \notin {"disconnectAndRetry"}
    BY DEF Attempts, Updates, Endings, Retries
  <2> HIDE DEF o
  <2> QED  BY <2>1, <2>2, <2>3, EndedOps, KindsWithin DEF SessionInv
<1>5. UNCHANGED <<paused, listening, toResume, lastNotified, armed, orphans>>
  BY DEF Updated, gateVars
<1>6. OpsInv'  BY <1>4
<1>7. PlaceInv'  BY <1>5 DEF SessionInv, PlaceInv
<1>8. OwnerInv'  BY <1>1, <1>2, <1>4 DEF SessionInv, Stays, KindsKept, OwnerInv
<1>9. PausedInv'  BY <1>1, <1>2, <1>5 DEF SessionInv, Stays, PausedInv
<1>10. ConsistentInv'  BY <1>1, <1>2, <1>5 DEF Stays, ConsistentInv
<1>11. ResumeInv'  BY <1>1, <1>5 DEF ResumeInv
<1>12. QuietInv'  BY <1>2, <1>5 DEF SessionInv, Stays, QuietInv
<1>13. ASSUME InTurn'
      PROVE  AttemptInv' /\ UpdateInv' /\ EndInv' /\ RetryInv' /\ BackoffInv' /\ NoteInv'
  <2>0. InTurn /\ AttemptInv /\ UpdateInv /\ EndInv /\ RetryInv /\ BackoffInv /\ NoteInv
    BY <1>13 DEF InTurn, SessionInv, TurnInv
  <2>1. AttemptInv'  BY <2>0, <1>2, <1>4 DEF Stays, KindsKept, AttemptInv, SingleIn
  <2>2. EndInv'  BY <2>0, <1>2, <1>4 DEF Stays, KindsKept, EndInv, SingleIn
  <2>3. RetryInv'  BY <2>0, <1>1, <1>4 DEF KindsKept, RetryInv
  <2>4. BackoffInv'  BY <2>0, <1>2, <1>3, <1>5 DEF Stays, Keeps, BackoffInv
  <2>5. NoteInv'
    <3>1. NoteNotConnected'  BY <2>0, <1>1, <1>2, <1>5 DEF NoteInv, Stays, NoteNotConnected
    <3>2. NoteConnecting'
      BY <2>0, <1>2, <1>3, <1>4, <1>5 DEF NoteInv, Stays, KindsKept, NoteConnecting
    <3>3. NoteConnected'  BY <2>0, <1>1, <1>2, <1>5 DEF NoteInv, Stays, NoteConnected
    <3>4. NoteDisconnecting'
      BY <2>0, <1>2, <1>3, <1>4, <1>5 DEF NoteInv, Stays, KindsKept, NoteDisconnecting
    <3> QED  BY <3>1, <3>2, <3>3, <3>4 DEF NoteInv
  <2>up. UpdateInv'
    BY <2>0, <1>1, <1>2, <1>3, <1>4, <1>5 DEF Stays, KindsKept, AllKept, UpdateInv, SingleIn
  <2> QED  BY <2>1, <2>2, <2>3, <2>4, <2>5, <2>up
<1> QED  BY <1>2, <1>6, <1>7, <1>8, <1>9, <1>10, <1>11, <1>12, <1>13 DEF SessionInv, TurnInv

(* A task of actionUpdate has failed. *)
LEMMA UpdateFailsStep ==
  ASSUME SessionInv, hard' = hard, NEW s \in UpdateFailures, UpdateFails(s)
  PROVE  SessionInv'
<1>1. ~Pending /\ Job = NoWork /\ Job.kind = "none" /\ toResume = "none" /\ ~Flying(Retries)
  BY IdleFacts DEF UpdateFails, Fails
<1>2. /\ CtlInv' /\ Keeps
      /\ \/ currentState = "Updating" /\ currentState' = "Connected" /\ Pending'
            /\ Job'.kind = "operationFailed"
         \/ currentState # "Updating" /\ Stays
  <2> DEFINE w == Work("operationFailed", s)
  <2>1. w \in Works /\ w.kind = "operationFailed"  BY DEF Works, Work, Statuses, UpdateFailures
  <2>2. Controller!Perform("FinishUpdating", w)  BY DEF UpdateFails
  <2> HIDE DEF w
  <2> QED  BY <2>1, <2>2, FinishesUpdating DEF SessionInv
<1>3. Stays => Job'.kind = "none"
  BY NoWorkFacts DEF Stays
<1>4. /\ OpsInv' /\ Flying(Updates) /\ SubKinds
         /\ (Single(Updates) => Single(Updates)' /\ ~Flying(Updates)')
      /\ KindsKept(Attempts) /\ KindsKept(Endings) /\ KindsKept(Retries)
      /\ KindsKept({"connect"}) /\ KindsKept({"reconnect"}) /\ KindsKept({"disconnectAndRetry"})
  <2> DEFINE o == Op("update", "none")
  <2>1. o.kind = "update"  BY DEF Op
  <2>2. InFlight(o) /\ ops' = Ended(o)  BY DEF UpdateFails, UpdateFails, Fails
  <2>3. /\ "update" \in Updates /\ "update" \notin Attempts /\ "update" \notin Endings
           /\ "update" \notin Retries
       /\ "update" \notin {"connect"} /\ "update" \notin {"reconnect"}
          /\ "update" \notin {"disconnectAndRetry"}
    BY DEF Attempts, Updates, Endings, Retries
  <2> HIDE DEF o
  <2> QED  BY <2>1, <2>2, <2>3, EndedOps, KindsWithin DEF SessionInv
<1>5. UNCHANGED <<paused, listening, toResume, lastNotified, armed, orphans>>
  BY DEF UpdateFails, gateVars
<1>6. InTurn => ~armed
  BY DEF UpdateFails, Fails, MayFail, NoBackoff, InTurn
<1>7. OpsInv'  BY <1>4
<1>8. PlaceInv'  BY <1>5 DEF SessionInv, PlaceInv
<1>9. OwnerInv'  BY <1>1, <1>2, <1>4 DEF SessionInv, Stays, KindsKept, OwnerInv
<1>10. PausedInv'  BY <1>1, <1>2, <1>5 DEF SessionInv, Stays, PausedInv
<1>11. ConsistentInv'  BY <1>1, <1>2, <1>5 DEF Stays, ConsistentInv
<1>12. ResumeInv'  BY <1>2, <1>3 DEF ResumeInv
<1>13. QuietInv'  BY <1>2, <1>5 DEF SessionInv, Stays, QuietInv
<1>14. ASSUME InTurn'
      PROVE  AttemptInv' /\ UpdateInv' /\ EndInv' /\ RetryInv' /\ BackoffInv' /\ NoteInv'
  <2>0. InTurn /\ AttemptInv /\ UpdateInv /\ EndInv /\ RetryInv /\ BackoffInv /\ NoteInv
    BY <1>14 DEF InTurn, SessionInv, TurnInv
  <2>1. AttemptInv'  BY <2>0, <1>2, <1>4 DEF Stays, KindsKept, AttemptInv, SingleIn
  <2>2. EndInv'  BY <2>0, <1>2, <1>4 DEF Stays, KindsKept, EndInv, SingleIn
  <2>3. RetryInv'  BY <2>0, <1>1, <1>4 DEF KindsKept, RetryInv
  <2>4. BackoffInv'  BY <2>0, <1>2, <1>5, <1>6 DEF Keeps, BackoffInv
  <2>5. NoteInv'
    <3>1. NoteNotConnected'  BY <2>0, <1>1, <1>2, <1>5 DEF NoteInv, Stays, NoteNotConnected
    <3>2. NoteConnecting'
      BY <2>0, <1>2, <1>3, <1>4, <1>5 DEF NoteInv, Stays, KindsKept, NoteConnecting
    <3>3. NoteConnected'  BY <2>0, <1>1, <1>2, <1>5 DEF NoteInv, Stays, NoteConnected
    <3>4. NoteDisconnecting'
      BY <2>0, <1>2, <1>3, <1>4, <1>5 DEF NoteInv, Stays, KindsKept, NoteDisconnecting
    <3> QED  BY <3>1, <3>2, <3>3, <3>4 DEF NoteInv
  <2>up. UpdateInv'
    BY <2>0, <1>1, <1>2, <1>3, <1>4, <1>5, <1>6 DEF Stays, KindsKept, AllKept, UpdateInv, SingleIn
  <2> QED  BY <2>1, <2>2, <2>3, <2>4, <2>5, <2>up
<1> QED  BY <1>2, <1>7, <1>8, <1>9, <1>10, <1>11, <1>12, <1>13, <1>14 DEF SessionInv, TurnInv

(* The tasks of actionDisconnect have ended. *)
LEMMA DisconnectedStep ==
  ASSUME SessionInv, hard' = hard, NEW s \in Statuses, Disconnected(s)
  PROVE  SessionInv'
<1>1. ~Pending /\ Job = NoWork /\ Job.kind = "none" /\ toResume = "none" /\ ~Flying(Retries)
  BY IdleFacts DEF Disconnected, Ends
<1>2. /\ CtlInv' /\ Keeps
      /\ \/ currentState = "Disconnecting" /\ currentState' = "NotConnected" /\ Pending'
            /\ Job'.kind = "notifyStop"
         \/ currentState # "Disconnecting" /\ Stays
  <2> DEFINE w == Work("notifyStop", s)
  <2>1. w \in Works /\ w.kind = "notifyStop"  BY DEF Works, Work, Statuses, UpdateFailures
  <2>2. Controller!Perform("FinishDisconnecting", w)  BY DEF Disconnected
  <2> HIDE DEF w
  <2> QED  BY <2>1, <2>2, FinishesDisconnecting DEF SessionInv
<1>3. Stays => Job'.kind = "none"
  BY NoWorkFacts DEF Stays
<1>4. /\ OpsInv' /\ Flying(Endings) /\ SubKinds
         /\ (Single(Endings) => Single(Endings)' /\ ~Flying(Endings)')
      /\ KindsKept(Attempts) /\ KindsKept(Updates) /\ KindsKept(Retries)
      /\ KindsKept({"connect"}) /\ KindsKept({"reconnect"})
  <2> DEFINE o == Op("disconnect", s)
  <2>1. o.kind = "disconnect"  BY DEF Op
  <2>2. InFlight(o) /\ ops' = Ended(o)  BY DEF Disconnected, Disconnected, Ends
  <2>3. /\ "disconnect" \in Endings /\ "disconnect" \notin Attempts /\ "disconnect" \notin Updates
           /\ "disconnect" \notin Retries
       /\ "disconnect" \notin {"connect"} /\ "disconnect" \notin {"reconnect"}
    BY DEF Attempts, Updates, Endings, Retries
  <2> HIDE DEF o
  <2> QED  BY <2>1, <2>2, <2>3, EndedOps, KindsWithin DEF SessionInv
<1>5. listening' = FALSE /\ UNCHANGED <<paused, toResume, lastNotified, armed, orphans>>
  BY DEF Disconnected, gateVars
<1>6. OpsInv'  BY <1>4
<1>7. PlaceInv'  BY <1>5 DEF SessionInv, PlaceInv
<1>8. OwnerInv'  BY <1>1, <1>2, <1>4 DEF SessionInv, Stays, KindsKept, OwnerInv
<1>9. PausedInv'  BY <1>1, <1>2, <1>5 DEF SessionInv, Stays, PausedInv
<1>10. ConsistentInv'  BY <1>1, <1>2, <1>5 DEF SessionInv, Stays, ConsistentInv
<1>11. ResumeInv'  BY <1>2, <1>3 DEF ResumeInv
<1>12. QuietInv'  BY <1>5 DEF QuietInv
<1>13. ASSUME InTurn'
      PROVE  AttemptInv' /\ UpdateInv' /\ EndInv' /\ RetryInv' /\ BackoffInv' /\ NoteInv'
  <2>0. InTurn /\ AttemptInv /\ UpdateInv /\ EndInv /\ RetryInv /\ BackoffInv /\ NoteInv
    BY <1>13 DEF InTurn, SessionInv, TurnInv
  <2>1. AttemptInv'  BY <2>0, <1>2, <1>4 DEF Stays, KindsKept, AttemptInv, SingleIn
  <2>2. EndInv'  BY <2>0, <1>4 DEF EndInv, SingleIn
  <2>3. RetryInv'  BY <2>0, <1>1, <1>4 DEF KindsKept, RetryInv
  <2>4. BackoffInv'  BY <2>0, <1>2, <1>3, <1>5 DEF Stays, Keeps, BackoffInv
  <2>5. NoteInv'
    <3>1. NoteNotConnected'
      BY <2>0, <1>2, <1>4, <1>5 DEF NoteInv, NoteNotConnected, NoteDisconnecting, EndInv, SingleIn
    <3>2. NoteConnecting'
      BY <2>0, <1>2, <1>3, <1>4, <1>5 DEF NoteInv, Stays, KindsKept, NoteConnecting
    <3>3. NoteConnected'  BY <2>0, <1>1, <1>2, <1>5 DEF NoteInv, Stays, NoteConnected
    <3>4. NoteDisconnecting'  BY <2>0, <1>2, <1>4 DEF NoteDisconnecting, EndInv, SingleIn
    <3> QED  BY <3>1, <3>2, <3>3, <3>4 DEF NoteInv
  <2>up. UpdateInv'
    BY <2>0, <1>1, <1>2, <1>3, <1>4, <1>5 DEF Stays, KindsKept, AllKept, UpdateInv, SingleIn
  <2> QED  BY <2>1, <2>2, <2>3, <2>4, <2>5, <2>up
<1> QED  BY <1>2, <1>6, <1>7, <1>8, <1>9, <1>10, <1>11, <1>12, <1>13 DEF SessionInv, TurnInv

(* A task of actionConnect has failed. *)
LEMMA ConnectFailsStep ==
  ASSUME SessionInv, hard' = hard, NEW s \in {"fail", "terminal"}, ConnectFails(s)
  PROVE  SessionInv'
<1>1. ~Pending /\ Job = NoWork /\ Job.kind = "none" /\ toResume = "none" /\ ~Flying(Retries)
  BY IdleFacts DEF ConnectFails, Fails
<1>2. /\ CtlInv' /\ Keeps
      /\ \/ /\ currentState \in {"Connecting", "Connected", "Updating"}
               /\ currentState' = "Disconnecting"
            /\ Pending' /\ Job'.kind = "failConnect"
         \/ /\ currentState \in {"NotConnected", "Disconnecting"} /\ currentState' = currentState
            /\ ~Pending' /\ Job'.kind = "none"
  <2>1. CASE currentState = "NotConnected" /\ UNCHANGED controllerVars
    <3>1. UNCHANGED <<currentState, deferredAction, deferredWork, stack>>
      BY <2>1 DEF controllerVars
    <3>2. (Pending' <=> Pending) /\ Job' = Job  BY <3>1 DEF Pending, Job
    <3>3. StackInv' /\ JobInv' /\ SlotInv'
      BY <3>1, <3>2 DEF SessionInv, CtlInv, StackInv, JobInv, SlotInv
    <3> QED  BY <1>1, <2>1, <3>1, <3>2, <3>3 DEF SessionInv, CtlInv, Keeps
  <2>2. CASE Controller!Perform("Fail", Work("failConnect", s))
    <3> DEFINE w == Work("failConnect", s)
    <3>1. w \in Works /\ w.kind = "failConnect"  BY DEF Works, Work, Statuses
    <3>2. Controller!Perform("Fail", w)  BY <2>2
    <3> HIDE DEF w
    <3> QED  BY <3>1, <3>2, FailsOrDrops, NoWorkFacts DEF SessionInv, Stays
  <2> QED  BY <2>1, <2>2 DEF ConnectFails
<1>3. /\ OpsInv' /\ Flying(Attempts) /\ SubKinds
         /\ (Single(Attempts) => Single(Attempts)' /\ ~Flying(Attempts)')
      /\ KindsKept(Updates) /\ KindsKept(Endings) /\ KindsKept(Retries)
      /\ KindsKept({"disconnectAndRetry"})
      /\ Flying({"connect"})
  <2> DEFINE o == Op("connect", "none")
  <2>1. o.kind = "connect"  BY DEF Op
  <2>2. InFlight(o) /\ ops' = Ended(o)  BY DEF ConnectFails, Fails
  <2>3. /\ "connect" \in Attempts /\ "connect" \notin Updates /\ "connect" \notin Endings
           /\ "connect" \notin Retries
       /\ "connect" \in {"connect"} /\ "connect" \notin {"disconnectAndRetry"}
    BY DEF Attempts, Updates, Endings, Retries
  <2> HIDE DEF o
  <2> QED  BY <2>1, <2>2, <2>3, EndedOps, KindsWithin DEF SessionInv
<1>4. UNCHANGED <<paused, listening, toResume, lastNotified, armed, orphans>>
  BY DEF ConnectFails, gateVars
<1>5. InTurn => ~armed
  BY DEF ConnectFails, Fails, MayFail, NoBackoff, InTurn
<1>6. OpsInv'  BY <1>3
<1>7. PlaceInv'  BY <1>4 DEF SessionInv, PlaceInv
<1>8. OwnerInv'  BY <1>1, <1>2, <1>3 DEF SessionInv, KindsKept, OwnerInv
<1>9. PausedInv'  BY <1>2 DEF PausedInv
<1>10. ConsistentInv'  BY <1>1, <1>2, <1>4 DEF ConsistentInv
<1>11. ResumeInv'  BY <1>2 DEF ResumeInv
<1>12. QuietInv'  BY <1>2, <1>4 DEF SessionInv, QuietInv
<1>13. ASSUME InTurn'
      PROVE  AttemptInv' /\ UpdateInv' /\ EndInv' /\ RetryInv' /\ BackoffInv' /\ NoteInv'
  <2>0. InTurn /\ AttemptInv /\ UpdateInv /\ EndInv /\ RetryInv /\ BackoffInv /\ NoteInv
    BY <1>13 DEF InTurn, SessionInv, TurnInv
  <2>1. currentState = "Connecting" /\ lastNotified = "connecting"
    BY <1>3, <2>0 DEF AttemptInv, SingleIn, NoteInv, NoteConnecting
  <2>2. AttemptInv'  BY <2>0, <1>3 DEF AttemptInv, SingleIn
  <2>3. EndInv'  BY <2>0, <2>1, <1>3 DEF KindsKept, EndInv, SingleIn
  <2>4. RetryInv'  BY <2>0, <2>1, <1>3 DEF KindsKept, RetryInv
  <2>5. BackoffInv'  BY <2>0, <1>2, <1>4, <1>5 DEF Keeps, BackoffInv
  <2>6. NoteInv'
    <3>1. NoteNotConnected'  BY <2>1, <1>2 DEF NoteNotConnected
    <3>2. NoteConnecting'  BY <1>2 DEF NoteConnecting
    <3>3. NoteConnected'  BY <1>2 DEF NoteConnected
    <3>4. NoteDisconnecting'  BY <2>1, <1>4 DEF NoteDisconnecting
    <3> QED  BY <3>1, <3>2, <3>3, <3>4 DEF NoteInv
  <2>up. UpdateInv'
    BY <2>0, <2>1, <1>2, <1>3, <1>4, <1>5 DEF Stays, KindsKept, AllKept, UpdateInv, SingleIn
  <2> QED  BY <2>2, <2>3, <2>4, <2>5, <2>6, <2>up
<1> QED  BY <1>2, <1>6, <1>7, <1>8, <1>9, <1>10, <1>11, <1>12, <1>13 DEF SessionInv, TurnInv

(* The local tile has been stopped, or that has failed. *)
LEMMA RestartStoppedStep ==
  ASSUME SessionInv, hard' = hard, RestartStopped
  PROVE  SessionInv'
<1>1. ~Pending /\ Job = NoWork /\ Job.kind = "none" /\ toResume = "none" /\ ~Flying(Retries)
  BY IdleFacts DEF RestartStopped
<1>2. /\ CtlInv' /\ Keeps
      /\ \/ currentState = "Updating" /\ currentState' = "Connected" /\ Pending'
            /\ Job'.kind = "operationFailed" /\ (InTurn => ~armed) /\ "half" \in hard
         \/ currentState' = currentState /\ ~Pending' /\ Job'.kind = "none"
  <2>1. CASE UNCHANGED <<controllerVars, inputs>>
    <3>1. UNCHANGED <<currentState, deferredAction, deferredWork, stack>>
      BY <2>1 DEF controllerVars
    <3>2. (Pending' <=> Pending) /\ Job' = Job  BY <3>1 DEF Pending, Job
    <3>3. StackInv' /\ JobInv' /\ SlotInv'
      BY <3>1, <3>2 DEF SessionInv, CtlInv, StackInv, JobInv, SlotInv
    <3> QED  BY <1>1, <3>1, <3>2, <3>3 DEF SessionInv, CtlInv, Keeps
  <2>2. ASSUME "half" \in hard, MayFail, NEW s \in UpdateFailures, Controller!Perform("FinishUpdating", Work("operationFailed", s))
        PROVE  /\ CtlInv' /\ Keeps /\ (InTurn => ~armed)
               /\ \/ currentState = "Updating" /\ currentState' = "Connected" /\ Pending'
                     /\ Job'.kind = "operationFailed"
                  \/ currentState # "Updating" /\ Stays
    <3> DEFINE w == Work("operationFailed", s)
    <3>1. w \in Works /\ w.kind = "operationFailed"  BY DEF Works, Work, Statuses, UpdateFailures
    <3>2. Controller!Perform("FinishUpdating", w)  BY <2>2
    <3>3. InTurn => ~armed  BY <2>2 DEF MayFail, NoBackoff, InTurn
    <3> HIDE DEF w
    <3> QED  BY <3>1, <3>2, <3>3, FinishesUpdating DEF SessionInv
  <2> QED  BY <2>1, <2>2, NoWorkFacts DEF RestartStopped, Stays
<1>3. /\ OpsInv' /\ Flying(Updates)' /\ Flying(Updates) /\ (Single(Updates) => Single(Updates)')
      /\ SubKinds
      /\ KindsKept(Attempts) /\ KindsKept(Endings) /\ KindsKept(Retries) /\ NotedKinds
  <2> DEFINE o == Op("restartStopped", "none")
            q == Op("restartAgain", "none")
  <2>1. q \in OpSet /\ o.kind = "restartStopped" /\ q.kind = "restartAgain"
    BY DEF OpSet, Op, OpKinds, Statuses
  <2>2. InFlight(o) /\ ops' = Ended(o) (+) SetToBag({q})  BY DEF RestartStopped
  <2>3. /\ "restartStopped" \notin Attempts /\ "restartStopped" \in Updates
           /\ "restartStopped" \notin Endings /\ "restartStopped" \notin Retries
       /\ "restartStopped" \notin {"connect"} /\ "restartStopped" \notin {"reconnect"}
          /\ "restartStopped" \notin {"disconnectAndRetry"} /\ "restartAgain" \notin Attempts
       /\ "restartAgain" \in Updates /\ "restartAgain" \notin Endings
          /\ "restartAgain" \notin Retries /\ "restartAgain" \notin {"connect"}
       /\ "restartAgain" \notin {"reconnect"} /\ "restartAgain" \notin {"disconnectAndRetry"}
    BY DEF Attempts, Updates, Endings, Retries
  <2> HIDE DEF o, q
  <2> QED  BY <2>1, <2>2, <2>3, ReplacedOps, KindsWithin DEF SessionInv, NotedKinds
<1>4. UNCHANGED <<paused, listening, toResume, lastNotified, armed, orphans>>
  BY DEF RestartStopped, gateVars
<1>5. OpsInv'  BY <1>3
<1>6. PlaceInv'  BY <1>4 DEF SessionInv, PlaceInv
<1>7. OwnerInv'  BY <1>1, <1>2, <1>3 DEF SessionInv, KindsKept, OwnerInv
<1>8. PausedInv'  BY <1>1, <1>2, <1>4 DEF SessionInv, PausedInv
<1>9. ConsistentInv'  BY <1>1, <1>2, <1>4 DEF SessionInv, ConsistentInv
<1>10. ResumeInv'  BY <1>2 DEF ResumeInv
<1>11. QuietInv'  BY <1>2, <1>4 DEF SessionInv, QuietInv
<1>12. ASSUME InTurn'
      PROVE  AttemptInv' /\ UpdateInv' /\ EndInv' /\ RetryInv' /\ BackoffInv' /\ NoteInv'
  <2>0. InTurn /\ AttemptInv /\ UpdateInv /\ EndInv /\ RetryInv /\ BackoffInv /\ NoteInv
    BY <1>12 DEF InTurn, SessionInv, TurnInv
  <2>1. AttemptInv'  BY <2>0, <1>2, <1>3 DEF KindsKept, AttemptInv, SingleIn
  <2>2. EndInv'  BY <2>0, <1>2, <1>3 DEF KindsKept, EndInv, SingleIn
  <2>3. RetryInv'  BY <2>0, <1>2, <1>3, <1>4 DEF KindsKept, RetryInv
  <2>4. BackoffInv'  BY <2>0, <1>2, <1>4 DEF Keeps, BackoffInv
  <2>5. NoteInv'
    <3>1. NoteNotConnected'  BY <2>0, <1>1, <1>2, <1>4 DEF NoteInv, NoteNotConnected
    <3>2. NoteConnecting'
      BY <2>0, <1>2, <1>3, <1>4 DEF NoteInv, KindsKept, NotedKinds, NoteConnecting
    <3>3. NoteConnected'  BY <2>0, <1>1, <1>2, <1>4 DEF NoteInv, NoteConnected
    <3>4. NoteDisconnecting'
      BY <2>0, <1>2, <1>3, <1>4 DEF NoteInv, KindsKept, NotedKinds, NoteDisconnecting
    <3> QED  BY <3>1, <3>2, <3>3, <3>4 DEF NoteInv
  <2>6. UpdateInv'
    BY <2>0, <1>1, <1>2, <1>3 DEF UpdateInv, SingleIn
  <2> QED  BY <2>1, <2>2, <2>3, <2>4, <2>5, <2>6
<1> QED  BY <1>2, <1>5, <1>6, <1>7, <1>8, <1>9, <1>10, <1>11, <1>12 DEF SessionInv, TurnInv

(* The local tile is started again, and the session updated. *)
LEMMA RestartAgainStep ==
  ASSUME SessionInv, hard' = hard, RestartAgain
  PROVE  SessionInv'
<1>1. ~Pending /\ Job = NoWork /\ Job.kind = "none" /\ toResume = "none"
  BY ReturnedFacts DEF RestartAgain
<1>2. /\ CtlInv'
      /\ \/ currentState = "Connected" /\ currentState' = "Updating" /\ Pending' /\ Keeps
            /\ Job'.kind \in {"update", "restart"}
         \/ currentState # "Connected" /\ Stays /\ (Keeps \/ deferredAction' = "Update")
  BY UpdatesOrDefers DEF SessionInv, RestartAgain
<1>3. Stays => Job'.kind = "none"
  BY NoWorkFacts DEF Stays
<1>4. /\ OpsInv' /\ Flying(Updates)' /\ Flying(Updates) /\ (Single(Updates) => Single(Updates)')
      /\ SubKinds
      /\ KindsKept(Attempts) /\ KindsKept(Endings) /\ KindsKept(Retries) /\ NotedKinds
  <2> DEFINE o == Op("restartAgain", "none")
            q == Op("update", "none")
  <2>1. q \in OpSet /\ o.kind = "restartAgain" /\ q.kind = "update"
    BY DEF OpSet, Op, OpKinds, Statuses
  <2>2. InFlight(o) /\ ops' = Ended(o) (+) SetToBag({q})  BY DEF RestartAgain
  <2>3. /\ "restartAgain" \notin Attempts /\ "restartAgain" \in Updates
           /\ "restartAgain" \notin Endings /\ "restartAgain" \notin Retries
       /\ "restartAgain" \notin {"connect"} /\ "restartAgain" \notin {"reconnect"}
          /\ "restartAgain" \notin {"disconnectAndRetry"} /\ "update" \notin Attempts
       /\ "update" \in Updates /\ "update" \notin Endings /\ "update" \notin Retries
          /\ "update" \notin {"connect"}
       /\ "update" \notin {"reconnect"} /\ "update" \notin {"disconnectAndRetry"}
    BY DEF Attempts, Updates, Endings, Retries
  <2> HIDE DEF o, q
  <2> QED  BY <2>1, <2>2, <2>3, ReplacedOps, KindsWithin DEF SessionInv, NotedKinds
<1>5. paused' = Tasks /\ UNCHANGED <<listening, toResume, lastNotified, armed, orphans>>
  BY DEF RestartAgain, gateVars
<1>6. OpsInv'  BY <1>4
<1>7. PlaceInv'  BY <1>1, <1>5 DEF PlaceInv
<1>8. OwnerInv'  BY <1>1, <1>2, <1>4 DEF SessionInv, Stays, KindsKept, OwnerInv
<1>9. PausedInv'  BY <1>2 DEF Stays, PausedInv
<1>10. ConsistentInv'  BY <1>1, <1>5 DEF ConsistentInv
<1>11. ResumeInv'  BY <1>2, <1>3 DEF ResumeInv
<1>12. QuietInv'  BY <1>2, <1>5 DEF SessionInv, Stays, QuietInv
<1>13. ASSUME InTurn'
      PROVE  AttemptInv' /\ UpdateInv' /\ EndInv' /\ RetryInv' /\ BackoffInv' /\ NoteInv'
  <2>0. InTurn /\ AttemptInv /\ UpdateInv /\ EndInv /\ RetryInv /\ BackoffInv /\ NoteInv
    BY <1>13 DEF InTurn, SessionInv, TurnInv
  <2>1. AttemptInv'  BY <2>0, <1>2, <1>4 DEF Stays, KindsKept, AttemptInv, SingleIn
  <2>2. EndInv'  BY <2>0, <1>2, <1>4 DEF Stays, KindsKept, EndInv, SingleIn
  <2>3. RetryInv'  BY <2>0, <1>2, <1>3, <1>4, <1>5 DEF Stays, KindsKept, RetryInv
  <2>4. BackoffInv'  BY <2>0, <1>2, <1>3, <1>5 DEF Stays, Keeps, BackoffInv
  <2>5. NoteInv'
    <3>1. NoteNotConnected'  BY <2>0, <1>1, <1>2, <1>5 DEF NoteInv, Stays, NoteNotConnected
    <3>2. NoteConnecting'
      BY <2>0, <1>2, <1>3, <1>4, <1>5 DEF NoteInv, Stays, KindsKept, NotedKinds, NoteConnecting
    <3>3. NoteConnected'  BY <2>0, <1>1, <1>2, <1>5 DEF NoteInv, Stays, NoteConnected
    <3>4. NoteDisconnecting'
      BY <2>0, <1>2, <1>3, <1>4, <1>5 DEF NoteInv, Stays, KindsKept, NotedKinds, NoteDisconnecting
    <3> QED  BY <3>1, <3>2, <3>3, <3>4 DEF NoteInv
  <2>6. UpdateInv'
    BY <2>0, <1>1, <1>2, <1>3, <1>4, <1>5 DEF Stays, KindsKept, AllKept, UpdateInv, SingleIn
  <2> QED  BY <2>1, <2>2, <2>3, <2>4, <2>5, <2>6
<1> QED  BY <1>2, <1>6, <1>7, <1>8, <1>9, <1>10, <1>11, <1>12, <1>13 DEF SessionInv, TurnInv

(* The tasks of a disconnect before a retry have ended. *)
LEMMA DisconnectedToRetryStep ==
  ASSUME SessionInv, hard' = hard, NEW s \in {"fail", "terminal"}, DisconnectedToRetry(s)
  PROVE  SessionInv'
<1>1. ~Pending /\ Job = NoWork /\ Job.kind = "none" /\ toResume = "none" /\ ~Flying(Retries)
  BY IdleFacts DEF DisconnectedToRetry, Ends
<1>2. /\ CtlInv' /\ Keeps
      /\ \/ currentState = "Disconnecting" /\ currentState' = "NotConnected" /\ Pending'
            /\ Job'.kind = "cleaned"
         \/ currentState # "Disconnecting" /\ Stays
  <2> DEFINE w == Work("cleaned", "none")
  <2>1. w \in Works /\ w.kind = "cleaned"  BY DEF Works, Work
  <2>2. Controller!Perform("FinishDisconnecting", w)  BY DEF DisconnectedToRetry
  <2> HIDE DEF w
  <2> QED  BY <2>1, <2>2, FinishesDisconnecting DEF SessionInv
<1>3. Stays => Job'.kind = "none"
  BY NoWorkFacts DEF Stays
<1>4. /\ OpsInv' /\ SubKinds /\ Flying({"disconnectAndRetry"}) /\ KindsKept(Attempts)
         /\ KindsKept(Updates)
      /\ KindsKept({"connect"}) /\ KindsKept({"reconnect"})
      /\ (Single(Endings) => Single(Endings)' /\ ~Flying(Endings)')
      /\ Flying(Retries)' /\ (~Flying(Retries) => Single(Retries)')
  <2> DEFINE o == Op("disconnectAndRetry", s)
            q == Op("retryAfterDisconnect", s)
  <2>1. q \in OpSet /\ o.kind = "disconnectAndRetry" /\ q.kind = "retryAfterDisconnect"
    BY DEF OpSet, Op, OpKinds, Statuses
  <2>2. InFlight(o) /\ ops' = Ended(o) (+) SetToBag({q})  BY DEF DisconnectedToRetry, Ends
  <2>3. /\ o \in DOMAIN ops  BY <2>2 DEF InFlight, BagIn, BagToSet
  <2>4. Flying({"disconnectAndRetry"})  BY <2>1, <2>3 DEF Flying
  <2>5. /\ "disconnectAndRetry" \notin Attempts /\ "disconnectAndRetry" \notin Updates
           /\ "disconnectAndRetry" \in Endings /\ "disconnectAndRetry" \notin Retries
       /\ "disconnectAndRetry" \notin {"connect"} /\ "disconnectAndRetry" \notin {"reconnect"}
          /\ "retryAfterDisconnect" \notin Attempts /\ "retryAfterDisconnect" \notin Updates
       /\ "retryAfterDisconnect" \notin Endings /\ "retryAfterDisconnect" \in Retries
          /\ "retryAfterDisconnect" \notin {"connect"}
             /\ "retryAfterDisconnect" \notin {"reconnect"}
    BY DEF Attempts, Updates, Endings, Retries
  <2> HIDE DEF o, q
  <2> QED  BY <2>1, <2>2, <2>4, <2>5, ReplacedOps, KindsWithin DEF SessionInv
<1>5. listening' = FALSE /\ UNCHANGED <<paused, toResume, lastNotified, armed, orphans>>
  BY DEF DisconnectedToRetry, gateVars
<1>6. OpsInv'  BY <1>4
<1>7. PlaceInv'  BY <1>5 DEF SessionInv, PlaceInv
<1>8. OwnerInv'  BY <1>1, <1>2, <1>4 DEF SessionInv, Stays, KindsKept, OwnerInv
<1>9. PausedInv'  BY <1>1, <1>2, <1>5 DEF SessionInv, Stays, PausedInv
<1>10. ConsistentInv'  BY <1>1, <1>2, <1>5 DEF SessionInv, Stays, ConsistentInv
<1>11. ResumeInv'  BY <1>2, <1>3 DEF ResumeInv
<1>12. QuietInv'  BY <1>5 DEF QuietInv
<1>13. ASSUME InTurn'
      PROVE  AttemptInv' /\ UpdateInv' /\ EndInv' /\ RetryInv' /\ BackoffInv' /\ NoteInv'
  <2>0. InTurn /\ AttemptInv /\ UpdateInv /\ EndInv /\ RetryInv /\ BackoffInv /\ NoteInv
    BY <1>13 DEF InTurn, SessionInv, TurnInv
  <2>1. currentState = "Disconnecting" /\ lastNotified = "connecting" /\ ~armed
    BY <1>4, <2>0 DEF EndInv, SingleIn, NoteInv, NoteDisconnecting, BackoffInv, SubKinds
  <2>2. AttemptInv'  BY <2>0, <2>1, <1>4 DEF KindsKept, AttemptInv, SingleIn
  <2>3. EndInv'  BY <2>0, <1>4 DEF EndInv, SingleIn
  <2>4. RetryInv'  BY <2>0, <2>1, <1>2, <1>4, <1>5 DEF RetryInv
  <2>5. BackoffInv'  BY <2>0, <2>1, <1>2, <1>5 DEF Keeps, BackoffInv
  <2>6. NoteInv'
    <3>1. NoteNotConnected'  BY <2>1, <1>5 DEF Before, NoteNotConnected
    <3>2. NoteConnecting'  BY <2>1, <1>2 DEF NoteConnecting
    <3>3. NoteConnected'  BY <2>1, <1>2 DEF NoteConnected
    <3>4. NoteDisconnecting'  BY <2>1, <1>5 DEF NoteDisconnecting
    <3> QED  BY <3>1, <3>2, <3>3, <3>4 DEF NoteInv
  <2>up. UpdateInv'
    BY <2>0, <2>1, <1>2, <1>4, <1>5 DEF Stays, KindsKept, AllKept, UpdateInv, SingleIn
  <2> QED  BY <2>2, <2>3, <2>4, <2>5, <2>6, <2>up
<1> QED  BY <1>2, <1>6, <1>7, <1>8, <1>9, <1>10, <1>11, <1>12, <1>13 DEF SessionInv, TurnInv

(* A failed start is retried, or given up. *)
LEMMA RetryAfterDisconnectStep ==
  ASSUME SessionInv, hard' = hard, NEW s \in {"fail", "terminal"}, RetryAfterDisconnect(s)
  PROVE  SessionInv'
<1>1. ~Pending /\ Job = NoWork /\ Job.kind = "none" /\ toResume = "none"
  BY ReturnedFacts DEF RetryAfterDisconnect
<1>2. /\ CtlInv' /\ deferredAction' \in {deferredAction, "Update"}
      /\ \/ /\ armed' = TRUE /\ Stays /\ lastNotified' = lastNotified
            /\ orphans' = orphans + (IF armed THEN 1 ELSE 0)
         \/ /\ armed' = armed /\ orphans' = orphans /\ lastNotified' = "stopped"
            /\ \/ /\ currentState \in {"Connecting", "Connected", "Updating"}
                     /\ currentState' = "Disconnecting"
                  /\ Pending' /\ Job'.kind = "failSession"
               \/ currentState # "Connected" /\ Stays
  <2>1. s \in Statuses /\ HandleStatus(s)  BY DEF Statuses, RetryAfterDisconnect
  <2>2. lastNotified' = IF s = "fail" /\ Gate!WillRetry THEN lastNotified ELSE "stopped"
    BY DEF RetryAfterDisconnect
  <2> QED  BY <2>1, <2>2, Handles DEF SessionInv, Gate!Retry
<1>3. Stays => Job'.kind = "none"
  BY NoWorkFacts DEF Stays
<1>4. /\ OpsInv' /\ Flying(Retries) /\ SubKinds
         /\ (Single(Retries) => Single(Retries)' /\ ~Flying(Retries)')
      /\ KindsKept(Attempts) /\ KindsKept(Updates) /\ KindsKept(Endings)
      /\ KindsKept({"connect"}) /\ KindsKept({"reconnect"}) /\ KindsKept({"disconnectAndRetry"})
  <2> DEFINE o == Op("retryAfterDisconnect", s)
  <2>1. o.kind = "retryAfterDisconnect"  BY DEF Op
  <2>2. InFlight(o) /\ ops' = Ended(o)  BY DEF RetryAfterDisconnect
  <2>3. /\ "retryAfterDisconnect" \in Retries /\ "retryAfterDisconnect" \notin Attempts
           /\ "retryAfterDisconnect" \notin Updates /\ "retryAfterDisconnect" \notin Endings
       /\ "retryAfterDisconnect" \notin {"connect"} /\ "retryAfterDisconnect" \notin {"reconnect"}
          /\ "retryAfterDisconnect" \notin {"disconnectAndRetry"}
    BY DEF Attempts, Updates, Endings, Retries
  <2> HIDE DEF o
  <2> QED  BY <2>1, <2>2, <2>3, EndedOps, KindsWithin DEF SessionInv
<1>5. UNCHANGED <<listening, paused, toResume>>
  BY DEF RetryAfterDisconnect
<1>6. OpsInv'  BY <1>4
<1>7. PlaceInv'  BY <1>5 DEF SessionInv, PlaceInv
<1>8. OwnerInv'  BY <1>1, <1>2, <1>4 DEF SessionInv, Stays, KindsKept, OwnerInv
<1>9. PausedInv'  BY <1>2 DEF Stays, PausedInv
<1>10. ConsistentInv'  BY <1>1, <1>2, <1>5 DEF SessionInv, Stays, ConsistentInv
<1>11. ResumeInv'  BY <1>2, <1>3 DEF ResumeInv
<1>12. QuietInv'  BY <1>2, <1>5 DEF SessionInv, Stays, QuietInv
<1>13. ASSUME InTurn'
      PROVE  AttemptInv' /\ UpdateInv' /\ EndInv' /\ RetryInv' /\ BackoffInv' /\ NoteInv'
  <2>0. InTurn /\ AttemptInv /\ UpdateInv /\ EndInv /\ RetryInv /\ BackoffInv /\ NoteInv
    BY <1>13 DEF InTurn, SessionInv, TurnInv
  <2>1. currentState = "NotConnected" /\ ~armed /\ lastNotified = "connecting"
    BY <1>4, <2>0 DEF RetryInv
  <2>2. AttemptInv'  BY <2>0, <2>1, <1>4 DEF KindsKept, AttemptInv, SingleIn
  <2>3. EndInv'  BY <2>0, <2>1, <1>4 DEF KindsKept, EndInv, SingleIn
  <2>4. RetryInv'  BY <2>0, <1>4 DEF RetryInv
  <2>5. BackoffInv'  BY <2>0, <2>1, <1>2, <1>3 DEF Stays, BackoffInv
  <2>6. NoteInv'
    <3>1. NoteNotConnected'  BY <2>1, <1>2, <1>3 DEF Before, NoteNotConnected
    <3>2. NoteConnecting'  BY <2>1, <1>2 DEF Stays, NoteConnecting
    <3>3. NoteConnected'  BY <2>1, <1>2 DEF Stays, NoteConnected
    <3>4. NoteDisconnecting'  BY <2>1, <1>2 DEF Stays, NoteDisconnecting
    <3> QED  BY <3>1, <3>2, <3>3, <3>4 DEF NoteInv
  <2>up. UpdateInv'
    BY <2>0, <2>1, <1>2, <1>3, <1>4 DEF Stays, KindsKept, AllKept, UpdateInv, SingleIn
  <2> QED  BY <2>2, <2>3, <2>4, <2>5, <2>6, <2>up
<1> QED  BY <1>2, <1>6, <1>7, <1>8, <1>9, <1>10, <1>11, <1>12, <1>13 DEF SessionInv, TurnInv

-----------------------------------------------------------------------------
(* A session starts with nothing pending and nothing in flight. *)
LEMMA InitInvariant == ASSUME Init PROVE SessionInv
<1>1. /\ currentState = "NotConnected" /\ deferredAction = "none" /\ deferredWork = NoWork
         /\ stack = <<>>
      /\ ops = EmptyBag /\ listening = FALSE /\ paused = {} /\ toResume = "none"
         /\ lastNotified = "none"
      /\ armed = FALSE /\ orphans = 0
  BY DEF Init, Controller!Init, Controller!NoAction, Gate!GateInit
<1>2. ~Pending /\ Job.kind = "none"  BY <1>1, NoWorkFacts DEF Pending
<1>3. DOMAIN ops = {}  BY <1>1 DEF EmptyBag, SetToBag
<1>4. OpsInv  BY <1>1, <1>3 DEF OpsInv, Positive, EmptyBag, SetToBag
<1>5. \A K : ~Flying(K) /\ Single(K)  BY <1>3 DEF Flying, Single
<1>6. CtlInv  BY <1>1, <1>2 DEF CtlInv, StackInv, JobInv, SlotInv, Controller!States
<1>7. PlaceInv /\ OwnerInv /\ PausedInv  BY <1>1 DEF PlaceInv, OwnerInv, PausedInv
<1>8. ConsistentInv /\ ResumeInv /\ QuietInv  BY <1>1 DEF ConsistentInv, ResumeInv, QuietInv
<1>9. AttemptInv /\ UpdateInv /\ EndInv /\ RetryInv
  BY <1>5 DEF AttemptInv, UpdateInv, EndInv, RetryInv, SingleIn
<1>10. BackoffInv /\ NoteInv
  BY <1>1, <1>2 DEF BackoffInv, NoteInv, NoteNotConnected, NoteConnecting, NoteConnected,
     NoteDisconnecting, Before
<1> QED  BY <1>4, <1>6, <1>7, <1>8, <1>9, <1>10 DEF SessionInv, TurnInv

(* The works keep the invariant. *)
LEMMA WorkKeeps == ASSUME SessionInv, hard' = hard, RunWork PROVE SessionInv'
<1>1. CASE RunStart \/ RunRetryConnect \/ RunReconnect \/ RunUpdate \/ RunRestart
  BY <1>1, RunStartStep, RunRetryConnectStep, RunReconnectStep, RunUpdateStep, RunRestartStep
<1>2. CASE RunStop \/ RunFailConnect \/ RunFailSession
  BY <1>2, RunStopStep, RunFailConnectStep, RunFailSessionStep
<1>3. CASE RunFinishConnecting \/ RunFinishUpdating \/ ResumeSecond \/ RunOperationFailed
  BY <1>3, RunFinishConnectingStep, RunFinishUpdatingStep, ResumeSecondStep, RunOperationFailedStep
<1>4. CASE RunNotifyStop \/ RunCleaned \/ NestedReturn
  BY <1>4, RunNotifyStopStep, RunCleanedStep, NestedReturnStep
<1> QED  BY <1>1, <1>2, <1>3, <1>4 DEF RunWork

(* The ends of the operations keep the invariant. *)
LEMMA EndKeeps == ASSUME SessionInv, hard' = hard, OperationEnds PROVE SessionInv'
<1>1. ASSUME NEW k \in {"connect", "reconnect"}, Connected(k) PROVE SessionInv'
  BY <1>1, ConnectedStep
<1>2. ASSUME NEW s \in {"fail", "terminal"},
             ConnectFails(s) \/ ReconnectFails(s) \/ DisconnectedToRetry(s)
             \/ RetryAfterDisconnect(s)
      PROVE  SessionInv'
  BY <1>2, ConnectFailsStep, ReconnectFailsStep, DisconnectedToRetryStep, RetryAfterDisconnectStep
<1>3. ASSUME NEW s \in UpdateFailures, UpdateFails(s) PROVE SessionInv'  BY <1>3, UpdateFailsStep
<1>4. CASE Updated \/ RestartStopped \/ RestartAgain
  BY <1>4, UpdatedStep, RestartStoppedStep, RestartAgainStep
<1>5. ASSUME NEW s \in Statuses, Disconnected(s) PROVE SessionInv'  BY <1>5, DisconnectedStep
<1> QED  BY <1>1, <1>2, <1>3, <1>4, <1>5 DEF OperationEnds

(* Every step of a session keeps the invariant. *)
LEMMA StepInvariant == ASSUME SessionInv, [Next /\ UNCHANGED hard]_<<vars, hard>> PROVE SessionInv'
<1>1. hard' = hard  OBVIOUS
<1>2. CASE Start \/ Stop \/ Update \/ UpdateInPlace
  BY <1>1, <1>2, StartStep, StopStep, UpdateStep, UpdateInPlaceStep
<1>3. ASSUME NEW s \in {"fail", "terminal"}, ReportStatus(s) PROVE SessionInv'
  BY <1>1, <1>3, ReportStep
<1>4. CASE RunWork \/ OperationEnds \/ BackoffFires
  BY <1>1, <1>4, WorkKeeps, EndKeeps, BackoffStep
<1>5. CASE DeadlinePasses
  BY <1>1, <1>5, NothingMoves DEF DeadlinePasses, Gate!DeadlinePasses
<1>6. CASE Pong
  BY <1>1, <1>6, NothingMoves DEF Pong, Gate!DeadlineLifts
<1>7. CASE UNCHANGED vars
  BY <1>1, <1>7, NothingMoves DEF vars, gateVars
<1> QED  BY <1>2, <1>3, <1>4, <1>5, <1>6, <1>7 DEF Next

(* Whatever the circumstances and however many, a session in transit has an   *)
(* operation whose end takes it out, and paused tasks will be resumed.        *)
THEOREM NothingIsForgotten == Spec => []NothingHangs
<1>1. SessionInv => NothingHangs
  <2> SUFFICES ASSUME SessionInv, Idle PROVE NothingHangs
    BY DEF NothingHangs, TransitHasOwner, PausedIsTemporary
  <2>1. ~Pending /\ toResume = "none"  BY IdleFacts
  <2>2. /\ currentState = "Connecting" => Flying(Attempts)
        /\ currentState = "Updating" => Flying(Updates)
        /\ currentState = "Disconnecting" => Flying(Endings)
    BY <2>1 DEF SessionInv, OwnerInv
  <2>3. TransitHasOwner
    BY <2>2 DEF TransitHasOwner, Flying, Attempts, Updates, Endings, BagToSet
  <2>4. PausedIsTemporary  BY <2>1 DEF SessionInv, PausedInv, PausedIsTemporary
  <2> QED  BY <2>3, <2>4 DEF NothingHangs
<1> QED  BY <1>1, InitInvariant, StepInvariant, PTL DEF Spec

(* While failures come one at a time connection attempts do not overlap, nor  *)
(* do updates unless a restart is cut in half, and an update is in flight only *)
(* while the session is Updating; and then both tasks are paused, unless late  *)
(* reports ask for updates of their own.                                      *)
THEOREM AttemptsAlone == Spec => []OneAtATime
<1>1. SessionInv => OneAtATime
  <2> SUFFICES ASSUME SessionInv PROVE OneAtATime  OBVIOUS
  <2> DEFINE o == Op("connect", "none")
             p == Op("reconnect", "none")
  <2>1. o.kind = "connect" /\ p.kind = "reconnect"  BY DEF Op
  <2>2. Copies(o) = (IF o \in DOMAIN ops THEN ops[o] ELSE 0)
    BY DEF Copies, InFlight, BagIn, BagToSet
  <2>3. Copies(p) = (IF p \in DOMAIN ops THEN ops[p] ELSE 0)
    BY DEF Copies, InFlight, BagIn, BagToSet
  <2>4. OneConnectionAttempt
    <3> HIDE DEF o, p
    <3> SUFFICES ASSUME InTurn PROVE Copies(o) + Copies(p) <= 1
      BY DEF OneConnectionAttempt, InTurn, o, p
    <3>1. Single(Attempts)  BY DEF SessionInv, TurnInv, AttemptInv, SingleIn
    <3>2. o \in DOMAIN ops => ops[o] = 1 /\ p \notin DOMAIN ops
      BY <2>1, <3>1 DEF Single, Attempts
    <3>3. p \in DOMAIN ops => ops[p] = 1
      BY <2>1, <3>1 DEF Single, Attempts
    <3> QED  BY <2>2, <2>3, <3>2, <3>3
  <2>5. ConsistentUpdate
    <3>1. Idle => ~Pending  BY IdleFacts
    <3> QED  BY <3>1 DEF SessionInv, ConsistentInv, ConsistentUpdate
  <2>6. UpdatesAlone
    <3> SUFFICES ASSUME Idle, InTurn, "half" \notin hard
                 PROVE  /\ \A u, v \in UpdateOps : InFlight(u) /\ InFlight(v) => u = v /\ Copies(u) = 1
                        /\ (\E u \in UpdateOps : InFlight(u)) => currentState = "Updating"
      BY DEF UpdatesAlone, InTurn
    <3>1. SingleIn(Updates, "Updating")  BY DEF SessionInv, TurnInv, UpdateInv
    <3>2. \A u \in UpdateOps : u.kind \in Updates  BY DEF UpdateOps, Op, Updates
    <3>3. \A u : InFlight(u) <=> u \in DOMAIN ops  BY DEF InFlight, BagIn, BagToSet
    <3>4. \A u : InFlight(u) => Copies(u) = ops[u]  BY DEF Copies
    <3>5. ASSUME NEW u \in UpdateOps, NEW v \in UpdateOps, InFlight(u), InFlight(v)
          PROVE  u = v /\ Copies(u) = 1
      BY <3>1, <3>2, <3>3, <3>4, <3>5 DEF SingleIn, Single
    <3>6. ASSUME NEW u \in UpdateOps, InFlight(u) PROVE currentState = "Updating"
      BY <3>1, <3>2, <3>3, <3>6 DEF SingleIn, Flying
    <3> QED  BY <3>5, <3>6
  <2> QED  BY <2>4, <2>5, <2>6 DEF OneAtATime
<1> QED  BY <1>1, InitInvariant, StepInvariant, PTL DEF Spec

(* Only five of the steps tell the observers anything. *)
LEMMA WhoNotifies ==
  ASSUME [Next /\ UNCHANGED hard]_<<vars, hard>>, lastNotified' # lastNotified
  PROVE  \/ RunStart \/ RunReconnect \/ RunFinishConnecting \/ RunNotifyStop
         \/ \E s \in {"fail", "terminal"} : RetryAfterDisconnect(s)
<1>1. Next  BY DEF vars
<1>2. ~Start /\ ~Stop /\ ~Update /\ ~UpdateInPlace
      /\ ~(\E s \in {"fail", "terminal"} : ReportStatus(s))
  BY DEF Start, Stop, Update, UpdateInPlace, ReportStatus
<1>3. ~RunRetryConnect /\ ~RunUpdate /\ ~RunRestart /\ ~RunStop /\ ~RunFailConnect
      /\ ~RunFailSession
  BY DEF RunRetryConnect, RunUpdate, RunRestart, RunStop, RunFailConnect, RunFailSession
<1>4. ~RunFinishUpdating /\ ~ResumeSecond /\ ~RunOperationFailed /\ ~RunCleaned /\ ~NestedReturn
  BY DEF RunFinishUpdating, ResumeSecond, RunOperationFailed, RunCleaned, NestedReturn
<1>5. ~BackoffFires /\ ~DeadlinePasses /\ ~Pong
  BY DEF BackoffFires, DeadlinePasses, Pong
<1>6. ~Updated /\ ~RestartStopped /\ ~RestartAgain
      /\ ~(\E k \in {"connect", "reconnect"} : Connected(k))
  BY DEF Updated, RestartStopped, RestartAgain, Connected
<1>7. ~(\E s \in Statuses : Disconnected(s)) /\ ~(\E s \in UpdateFailures : UpdateFails(s))
  BY DEF Disconnected, UpdateFails
<1>8. \A s : ~ConnectFails(s) /\ ~ReconnectFails(s) /\ ~DisconnectedToRetry(s)
  BY DEF ConnectFails, ReconnectFails, DisconnectedToRetry
<1>9. RunWork \/ OperationEnds  BY <1>1, <1>2, <1>5 DEF Next
<1> QED  BY <1>3, <1>4, <1>6, <1>7, <1>8, <1>9 DEF RunWork, OperationEnds

(* While failures come one at a time the observers hear of a session in order. *)
THEOREM HeardInOrder == Spec => NotificationOrder
<1> DEFINE Told ==
      lastNotified' # lastNotified /\ "overlap" \notin hard =>
       <<lastNotified, lastNotified'>> \in
         ({"none", "stopped", "left"} \X {"connecting"})
         \cup ({"connecting", "reconnecting"} \X {"started"})
         \cup ({"started"} \X {"reconnecting"})
         \cup ({"connecting", "reconnecting", "started"} \X {"stopped", "left"})
<1>1. ASSUME SessionInv, [Next /\ UNCHANGED hard]_<<vars, hard>> PROVE Told
  <2> SUFFICES ASSUME lastNotified' # lastNotified, InTurn
               PROVE  \/ lastNotified \in {"none", "stopped", "left"}
                         /\ lastNotified' = "connecting"
                      \/ lastNotified \in {"connecting", "reconnecting"}
                         /\ lastNotified' = "started"
                      \/ lastNotified = "started" /\ lastNotified' = "reconnecting"
                      \/ lastNotified \in {"connecting", "reconnecting", "started"}
                           /\ lastNotified' \in {"stopped", "left"}
    BY DEF InTurn
  <2>1. CtlInv /\ RetryInv /\ NoteInv  BY <1>1 DEF SessionInv, TurnInv
  <2>2. CASE RunStart
    <3>1. Job.kind = "start" /\ currentState = "Connecting"
      BY <2>1, <2>2, RunFacts DEF RunStart, JobKinds, CtlInv, Controller!States
    <3> QED  BY <2>1, <2>2, <3>1 DEF RunStart, NoteInv, NoteConnecting, Before
  <2>3. CASE RunReconnect
    <3>1. Job.kind = "reconnect" /\ currentState = "Connecting"
      BY <2>1, <2>3, RunFacts DEF RunReconnect, JobKinds, CtlInv, Controller!States
    <3> QED  BY <2>1, <2>3, <3>1 DEF RunReconnect, NoteInv, NoteConnecting, During
  <2>4. CASE RunFinishConnecting
    <3>1. Job.kind = "finishConnecting" /\ currentState = "Connected"
      BY <2>1, <2>4, RunFacts DEF RunFinishConnecting, JobKinds, CtlInv, Controller!States
    <3> QED  BY <2>1, <2>4, <3>1 DEF RunFinishConnecting, NoteInv, NoteConnected, During
  <2>5. CASE RunNotifyStop
    <3>1. Job.kind = "notifyStop" /\ currentState = "NotConnected"
      BY <2>1, <2>5, RunFacts DEF RunNotifyStop, JobKinds, CtlInv, Controller!States
    <3> QED  BY <2>1, <2>5, <3>1 DEF RunNotifyStop, NoteInv, NoteNotConnected, During
  <2>6. ASSUME NEW s \in {"fail", "terminal"}, RetryAfterDisconnect(s)
        PROVE  lastNotified = "connecting" /\ lastNotified' = "stopped"
    <3>1. Flying(Retries)
      BY <2>6 DEF RetryAfterDisconnect, InFlight, BagIn, BagToSet, Flying, Retries, Op
    <3>2. lastNotified' \in {lastNotified, "stopped"}  BY <2>6 DEF RetryAfterDisconnect
    <3> QED  BY <2>1, <3>1, <3>2 DEF RetryInv
  <2> QED  BY <1>1, <2>2, <2>3, <2>4, <2>5, <2>6, WhoNotifies
<1>2. SessionInv /\ [Next /\ UNCHANGED hard]_<<vars, hard>> => [Told]_vars  BY <1>1
<1> QED  BY <1>2, InitInvariant, StepInvariant, PTL DEF Spec, NotificationOrder

-----------------------------------------------------------------------------
(* What the rest of the types needs: a step moves the gate, the inputs and    *)
(* what was last notified in these ways only.                                 *)
GateTypes ==
  shouldReconnect \in BOOLEAN /\ attempted \in BOOLEAN /\ pastDeadline \in BOOLEAN
  /\ armed \in BOOLEAN
CountTypes == orphans \in 0..MaxOrphans /\ inputs \in 0..MaxInputs
Notes == {"none", "connecting", "reconnecting", "started", "stopped", "left"}
TypeInv ==
  GateTypes /\ CountTypes /\ listening \in BOOLEAN /\ lastNotified \in Notes /\ hard \in Cases

GateMoves ==
  \/ UNCHANGED gateVars
  \/ Gate!Reset \/ Gate!ResetAndAttempt \/ Gate!Attempt \/ Gate!Disable \/ Gate!Retry
  \/ Gate!TimerFires \/ Gate!DeadlinePasses \/ Gate!DeadlineLifts

DataMoves ==
  /\ GateMoves
  /\ inputs' = inputs \/ Spend
  /\ listening' \in {listening, TRUE, FALSE}
  /\ lastNotified' \in {lastNotified} \cup Notes

(* Such moves keep the types. *)
LEMMA TypesKept == ASSUME TypeInv, DataMoves, hard' = hard PROVE TypeInv'
<1>1. GateTypes'
  BY DEF TypeInv, DataMoves, GateTypes, GateMoves, gateVars, Gate!Reset, Gate!ResetAndAttempt,
     Gate!Attempt, Gate!Disable, Gate!Retry, Gate!TimerFires, Gate!DeadlinePasses,
     Gate!DeadlineLifts
<1>2. orphans' \in 0..MaxOrphans
  <2>1. orphans \in Nat /\ orphans <= MaxOrphans /\ MaxOrphans \in Nat
    BY BoundsAssumption DEF TypeInv, CountTypes
  <2>2. CASE Gate!Retry
    <3>1. orphans' = orphans + (IF armed THEN 1 ELSE 0) /\ orphans' <= MaxOrphans
      BY <2>2 DEF Gate!Retry
    <3>2. (IF armed THEN 1 ELSE 0) \in Nat  OBVIOUS
    <3> QED  BY <2>1, <3>1, <3>2
  <2>3. CASE Gate!TimerFires  BY <2>1, <2>3 DEF Gate!TimerFires
  <2>4. CASE ~Gate!Retry /\ ~Gate!TimerFires
    <3>1. orphans' = orphans
      BY <2>4 DEF DataMoves, GateMoves, gateVars, Gate!Reset, Gate!ResetAndAttempt, Gate!Attempt,
         Gate!Disable, Gate!DeadlinePasses, Gate!DeadlineLifts
    <3> QED  BY <2>1, <3>1
  <2> QED  BY <2>2, <2>3, <2>4
<1>3. inputs' \in 0..MaxInputs
  BY BoundsAssumption DEF TypeInv, CountTypes, DataMoves, Spend
<1>4. listening' \in BOOLEAN  BY DEF TypeInv, DataMoves
<1>5. lastNotified' \in Notes /\ hard' \in Cases  BY DEF TypeInv, DataMoves
<1> QED  BY <1>1, <1>2, <1>3, <1>4, <1>5 DEF TypeInv, CountTypes

(* A status that is handled moves the gate alone. *)
LEMMA HandleMoves == ASSUME NEW s, HandleStatus(s) PROVE GateMoves
BY DEF HandleStatus, GateMoves

(* Resuming a task spends an input at most. *)
LEMMA ResumeMoves == ASSUME NEW t, NEW r, ResumeFirst(t, r) PROVE inputs' = inputs \/ Spend
BY DEF ResumeFirst, LateUpdate

(* Every step moves them so. *)
LEMMA NextMoves == ASSUME Next PROVE DataMoves
<1> USE DEF DataMoves, GateMoves
<1>1. CASE Start \/ Stop \/ Update
  BY <1>1 DEF Start, Stop, Update, Input
<1>2. CASE UpdateInPlace
  BY <1>2, ResumeMoves DEF UpdateInPlace, FinishUpdating
<1>3. ASSUME NEW s \in {"fail", "terminal"}, ReportStatus(s) PROVE DataMoves
  BY <1>3, HandleMoves DEF ReportStatus, Input
<1>4. CASE RunStart \/ RunRetryConnect \/ RunReconnect
  BY <1>4 DEF RunStart, RunRetryConnect, RunReconnect, Notes
<1>5. CASE RunUpdate \/ RunRestart \/ RunStop \/ RunFailConnect \/ RunFailSession
  BY <1>5 DEF RunUpdate, RunRestart, RunStop, RunFailConnect, RunFailSession
<1>6. CASE RunFinishConnecting \/ RunFinishUpdating
  BY <1>6, ResumeMoves DEF RunFinishConnecting, RunFinishUpdating, FinishUpdating, Notes
<1>7. CASE ResumeSecond
  BY <1>7 DEF ResumeSecond, LateUpdate
<1>8. CASE RunOperationFailed
  BY <1>8, HandleMoves DEF RunOperationFailed
<1>9. CASE RunNotifyStop \/ RunCleaned \/ NestedReturn
  BY <1>9 DEF RunNotifyStop, RunCleaned, NestedReturn, Notes
<1>10. CASE \E k \in {"connect", "reconnect"} : Connected(k)
  BY <1>10 DEF Connected, Ends
<1>11. ASSUME NEW s, ConnectFails(s) \/ ReconnectFails(s) \/ UpdateFails(s) PROVE DataMoves
  BY <1>11 DEF ConnectFails, ReconnectFails, UpdateFails, Fails, MayFail
<1>12. ASSUME NEW s, Disconnected(s) \/ DisconnectedToRetry(s) PROVE DataMoves
  BY <1>12 DEF Disconnected, DisconnectedToRetry, Ends
<1>13. ASSUME NEW s, RetryAfterDisconnect(s) PROVE DataMoves
  BY <1>13, HandleMoves DEF RetryAfterDisconnect, Notes
<1>14. CASE Updated \/ RestartStopped \/ RestartAgain
  BY <1>14 DEF Updated, RestartStopped, RestartAgain, Ends, MayFail
<1>15. CASE BackoffFires \/ DeadlinePasses \/ Pong
  BY <1>15 DEF BackoffFires, DeadlinePasses, Pong
<1> HIDE DEF DataMoves, GateMoves
<1>16. RunWork => DataMoves  BY <1>4, <1>5, <1>6, <1>7, <1>8, <1>9 DEF RunWork
<1>17. OperationEnds => DataMoves  BY <1>10, <1>11, <1>12, <1>13, <1>14 DEF OperationEnds
<1> QED  BY <1>1, <1>2, <1>3, <1>15, <1>16, <1>17 DEF Next

(* The session keeps its types: the controller holds a deferrable action and  *)
(* its work together, perform nests four deep at most, and no more backoff    *)
(* timers are forgotten than the bound.                                       *)
THEOREM TypeCorrect == Spec => []TypeOK
<1>1. Init => SessionInv /\ TypeInv
  <2> SUFFICES ASSUME Init PROVE TypeInv  BY InitInvariant
  <2>1. CountTypes  BY BoundsAssumption DEF Init, Gate!GateInit, CountTypes
  <2> QED  BY <2>1 DEF Init, Gate!GateInit, TypeInv, GateTypes, Notes
<1>2. SessionInv /\ TypeInv /\ [Next /\ UNCHANGED hard]_<<vars, hard>> => SessionInv' /\ TypeInv'
  <2> SUFFICES ASSUME SessionInv, TypeInv, [Next /\ UNCHANGED hard]_<<vars, hard>> PROVE TypeInv'
    BY StepInvariant
  <2>1. hard' = hard  OBVIOUS
  <2>2. CASE Next  BY <2>1, <2>2, NextMoves, TypesKept
  <2>3. CASE UNCHANGED vars
    <3>1. DataMoves  BY <2>3 DEF vars, DataMoves, GateMoves
    <3> QED  BY <2>1, <3>1, TypesKept
  <2> QED  BY <2>2, <2>3
<1>3. SessionInv /\ TypeInv => TypeOK
  <2> SUFFICES ASSUME SessionInv, TypeInv PROVE TypeOK  OBVIOUS
  <2>1. Controller!TypeOK
    <3>1. CtlInv  BY DEF SessionInv
    <3>2. deferredAction \in {a \in Controller!Actions : Controller!DeferPriority[a] > 0} \cup {"none"}
      BY <3>1 DEF CtlInv, SlotInv, Controller!Actions, Controller!DeferPriority
    <3>3. deferredWork \in Works \cup {NoWork}
          /\ ((deferredAction = "none") <=> (deferredWork = NoWork))
      BY <3>1 DEF CtlInv, SlotInv, Works, NoWork, Work
    <3> QED  BY <3>1, <3>2, <3>3 DEF CtlInv, StackInv, Controller!TypeOK, Controller!NoAction
  <2>2. {shouldReconnect, attempted, pastDeadline, armed, listening} \subseteq BOOLEAN
    <3>1. /\ shouldReconnect \in BOOLEAN /\ attempted \in BOOLEAN /\ pastDeadline \in BOOLEAN
          /\ armed \in BOOLEAN /\ listening \in BOOLEAN
      BY DEF TypeInv, GateTypes
    <3> QED  BY <3>1
  <2>3. paused \subseteq Tasks /\ toResume \in Tasks \cup {"none"}  BY DEF SessionInv, PlaceInv
  <2>4. \A o \in BagToSet(ops) : o.kind \in OpKinds /\ o.status \in Statuses \cup {"none"}
    <3>1. DOMAIN ops \subseteq OpSet  BY DEF SessionInv, OpsInv
    <3> QED  BY <3>1 DEF OpSet, BagToSet
  <2>5. /\ orphans \in 0..MaxOrphans /\ inputs \in 0..MaxInputs /\ hard \in Cases
        /\ lastNotified \in {"none", "connecting", "reconnecting", "started", "stopped", "left"}
    BY DEF TypeInv, CountTypes, Notes
  <2> QED  BY <2>1, <2>2, <2>3, <2>4, <2>5 DEF TypeOK
<1> QED  BY <1>1, <1>2, <1>3, PTL DEF Spec
=============================================================================
