--------------------------- MODULE ControllersProofs ---------------------------
(***************************************************************************)
(* The two controllers a session consults, and the events it reports.       *)
(*                                                                         *)
(* SessionState, for every set of works and every bound on nesting: no      *)
(* rollback undoes more than an update, no action is stranded in the slot,  *)
(* and a stop is kept.  The invariant (ThrowInv) says where a work that may *)
(* still throw came from and where the session is now; that it is Updating  *)
(* while an update nested in that work returns leaves what is deferred in   *)
(* the slot, for no failure is ever deferred (NoFailDeferred).              *)
(*                                                                         *)
(* ReconnectController, for any timeouts, any number of retries and any     *)
(* interleaving of timers with calls: a canceled retry never runs, cancel   *)
(* is complete as long as one retry is asked for at a time, and the         *)
(* controller implements the gate the session relies on.                    *)
(*                                                                         *)
(* EventBuffer, for any configuration and any number of events: no event    *)
(* disappears or is sent twice but in Firefox, and events leave in the      *)
(* order they came.  The model counts places.  The invariant says instead   *)
(* that an event is in one place at most (PlaceInv), so that each count is  *)
(* 0 or 1, and relates that place to what the service was given (CountInv,  *)
(* CancelableInv).  The order needs that one batch at a time is under way   *)
(* (LockInv, OrderInv).                                                     *)
(***************************************************************************)
EXTENDS SessionState, ReconnectController, EventBuffer, FiniteSetTheorems, SequenceTheorems, TLAPS

-----------------------------------------------------------------------------
(* SessionState *)
(* A work that may throw came from a state in transit, and the session is now *)
(* where that work left it or being updated: while an update that the work    *)
(* performed still runs, it is being updated.                                *)
ThrowInv ==
  \A i \in 1..Len(stack) : MayThrow(stack[i]) =>
    /\ stack[i].from \in {"Connecting", "Updating"}
    /\ \A j \in 1..(i - 1) : stack[j].action = "Update"
    /\ currentState = "Updating" \/ (i = 1 /\ currentState = "Connected")

(* A failure never waits: each state that defers it has a transition for it.  *)
NoFailDeferred == deferredAction # "Fail"

IInv == TypeOK /\ ThrowInv /\ NoFailDeferred /\ DeferredOnlyInTransit

-----------------------------------------------------------------------------
(* The facts about the transition table that the proofs use. *)
LEMMA EdgeFacts ==
  ASSUME NEW s, NEW a, NEW t, <<s, a, t>> \in Edges
  PROVE  /\ s \in States /\ a \in Actions /\ t \in States
         /\ a \in FragileActions => s \in {"Connecting", "Updating"}
         /\ a \in FragileActions => t = "Connected"
         /\ s = "Disconnecting" => t = "NotConnected"
         /\ a = "Disconnect" => t = "Disconnecting"
         /\ a = "Update" => s = "Connected" /\ t = "Updating"
         /\ s = "Updating" => a \in {"Fail", "FinishUpdating"}
  BY DEF Edges, StartEdges, FailEdges, FinishEdges, States, Actions, FragileActions

(* A failure that has no transition is not deferred either. *)
LEMMA FailEverywhere == ASSUME CanDefer("Fail") PROVE HasTransition("Fail")
<1>1. "Disconnecting" \in States /\ currentState \in {"Connecting", "Updating"}
  BY DEF States, CanDefer
<1>2. <<currentState, "Fail", "Disconnecting">> \in FailEdges
  BY <1>1 DEF FailEdges
<1> QED BY <1>1, <1>2 DEF HasTransition, Edges

(* Only a state in transit, or one that is ending, has no place for a stop. *)
LEMMA StopEverywhere ==
  ASSUME currentState \in States, ~HasTransition("Disconnect"),
         ~CanDefer("Disconnect")
  PROVE  currentState \in {"Disconnecting", "NotConnected"}
<1>1. "Disconnect" \in Actions /\ DeferPriority["Disconnect"] = 4
  BY DEF Actions, DeferPriority
<1>2. currentState \notin {"Connecting", "Updating"}
  BY <1>1 DEF CanDefer
<1>3. <<"Connected", "Disconnect", "Disconnecting">> \in Edges /\ "Disconnecting" \in States
  BY DEF Edges, StartEdges, States
<1>4. currentState # "Connected"
  BY <1>3 DEF HasTransition
<1> QED BY <1>2, <1>4 DEF States

(* An action's priority is a small number.                                   *)
LEMMA PriorityRange ==
  ASSUME NEW a \in Actions
  PROVE  /\ DeferPriority[a] \in 0..4
         /\ DeferPriority[a] >= 4 => a = "Disconnect"
         /\ a = "Disconnect" => DeferPriority[a] = 4
         /\ DeferPriority[a] > 0 => a \notin FragileActions
  BY DEF DeferPriority, Actions, FragileActions

(* Popping a frame of a typed stack leaves a typed, shorter stack of the     *)
(* outer frames; pushing one puts it in front of the others.                *)
LEMMA PopFrame ==
  ASSUME stack \in Seq(Frames), stack # <<>>
  PROVE  /\ Tail(stack) \in Seq(Frames)
         /\ Len(stack) \in Nat \ {0}
         /\ Len(Tail(stack)) = Len(stack) - 1
         /\ \A i \in 1..Len(Tail(stack)) : Tail(stack)[i] = stack[i + 1]
         /\ Head(stack) = stack[1]
         /\ Head(stack) \in Frames
  OBVIOUS

(* A frame more on the stack.                                                *)
LEMMA PushFrame ==
  ASSUME NEW base \in Seq(Frames), NEW f \in Frames
  PROVE  /\ <<f>> \o base \in Seq(Frames)
         /\ <<f>> \o base # <<>>
         /\ Len(base) \in Nat
         /\ Len(<<f>> \o base) = Len(base) + 1
         /\ (<<f>> \o base)[1] = f
         /\ \A i \in 1..Len(base) : (<<f>> \o base)[i + 1] = base[i]
  OBVIOUS

-----------------------------------------------------------------------------
(* What one transition does, from a typed base with the works that may throw  *)
(* below updates only; if there is one, what is performed is an update.       *)
LEMMA TransitionStep ==
  ASSUME TypeOK, NEW a \in Actions, NEW w \in Works,
         NEW base \in Seq(Frames), Len(base) < MaxDepth,
         \A i \in 1..Len(base) : MayThrow(base[i]) =>
           /\ a = "Update"
           /\ base[i].from \in {"Connecting", "Updating"}
           /\ \A j \in 1..(i - 1) : base[j].action = "Update",
         Transition(a, w, base)
  PROVE  /\ currentState' \in States
         /\ <<currentState, a, currentState'>> \in Edges
         /\ stack' \in Seq(Frames)
         /\ Len(stack') <= MaxDepth
         /\ stack' # <<>>
         /\ ThrowInv'
<1> DEFINE f == Frame(a, w)
<1>1. PICK t \in States : /\ <<currentState, a, t>> \in Edges
                          /\ currentState' = t
                          /\ stack' = <<f>> \o base
  BY DEF Transition
<1>2. f \in Frames /\ f.action = a /\ f.from = currentState
  BY DEF Frames, Frame, Progress, TypeOK
<1> HIDE DEF f
<1>3. /\ stack' \in Seq(Frames) /\ stack' # <<>> /\ Len(base) \in Nat
      /\ Len(stack') = Len(base) + 1 /\ stack'[1] = f
      /\ \A i \in 1..Len(base) : stack'[i + 1] = base[i]
  BY <1>1, <1>2, PushFrame
<1>4. Len(stack') <= MaxDepth
  BY <1>3, WorksAssumption
<1>5. ASSUME NEW i \in 1..Len(stack'), MayThrow(stack'[i])
      PROVE  /\ stack'[i].from \in {"Connecting", "Updating"}
             /\ \A j \in 1..(i - 1) : stack'[j].action = "Update"
             /\ currentState' = "Updating" \/ (i = 1 /\ currentState' = "Connected")
  <2>1. CASE i = 1
    <3>1. a \in FragileActions
      BY <1>2, <1>3, <1>5, <2>1 DEF MayThrow
    <3>2. currentState \in {"Connecting", "Updating"} /\ currentState' = "Connected"
      BY <1>1, <3>1, EdgeFacts
    <3> QED BY <1>2, <1>3, <2>1, <3>2
  <2>2. CASE i # 1
    <3>1. i - 1 \in 1..Len(base) /\ stack'[i] = base[i - 1]
      BY <1>3, <2>2
    <3>2. /\ a = "Update" /\ base[i - 1].from \in {"Connecting", "Updating"}
          /\ \A j \in 1..((i - 1) - 1) : base[j].action = "Update"
      BY <1>5, <3>1
    <3>3. currentState' = "Updating"
      BY <1>1, <3>2, EdgeFacts
    <3>4. ASSUME NEW j \in 1..(i - 1) PROVE stack'[j].action = "Update"
      <4>1. CASE j = 1
        BY <1>2, <1>3, <3>2, <4>1
      <4>2. CASE j # 1
        <5>1. j - 1 \in 1..((i - 1) - 1) /\ j - 1 \in 1..Len(base)
          BY <3>1, <4>2
        <5>2. stack'[j] = base[j - 1]
          BY <1>3, <5>1
        <5> QED BY <3>2, <5>1, <5>2
      <4> QED BY <4>1, <4>2
    <3> QED BY <3>1, <3>2, <3>3, <3>4
  <2> QED BY <2>1, <2>2
<1>6. ThrowInv'
  BY <1>5 DEF ThrowInv
<1> QED BY <1>1, <1>3, <1>4, <1>6

(* A call leaves the stack typed; after the last one no frame throws, and      *)
(* after an update those that may throw are frames of the stack as it was.    *)
LEMMA CallerMarkedStep ==
  ASSUME TypeOK, NEW a
  PROVE  /\ AfterCall(a) \in Seq(Frames)
         /\ Len(AfterCall(a)) = Len(stack)
         /\ \A i \in 1..Len(stack) :
              /\ AfterCall(a)[i].from = stack[i].from
              /\ AfterCall(a)[i].action = stack[i].action
              /\ MayThrow(AfterCall(a)[i]) => a = "Update" /\ MayThrow(stack[i])
<1> DEFINE p == IF a = "Update" THEN "further" ELSE "last"
           base == AfterCall(a)
<1>1. /\ Len(stack) \in Nat /\ DOMAIN stack = 1..Len(stack)
      /\ \A i \in 1..Len(stack) : stack[i] \in Frames
  BY DEF TypeOK
<1>2. base = [i \in 1..Len(stack) |->
                IF p = "last" \/ (i = 1 /\ stack[1].progress = "begun")
                THEN [stack[i] EXCEPT !.progress = p]
                ELSE stack[i]]
  BY <1>1 DEF AfterCall, CallerMarked
<1>3. p \in Progress /\ (p = "further" <=> a = "Update") /\ (p = "last" <=> a # "Update")
  BY DEF Progress
<1> HIDE DEF base, p
<1>4. ASSUME NEW i \in 1..Len(stack)
      PROVE  /\ base[i] \in Frames
             /\ base[i].from = stack[i].from /\ base[i].action = stack[i].action
             /\ MayThrow(base[i]) => a = "Update" /\ MayThrow(stack[i])
  <2> DEFINE g == [stack[i] EXCEPT !.progress = p]
  <2>0. stack[i] \in Frames
    BY <1>1
  <2>1. g \in Frames /\ g.from = stack[i].from /\ g.action = stack[i].action /\ g.progress = p
    BY <2>0, <1>3 DEF Frames
  <2>2. base[i] = IF p = "last" \/ (i = 1 /\ stack[1].progress = "begun") THEN g ELSE stack[i]
    BY <1>2
  <2> HIDE DEF g
  <2>3. CASE p = "last"
    BY <2>1, <2>2, <2>3 DEF MayThrow
  <2>4. CASE p # "last" /\ i = 1 /\ stack[1].progress = "begun"
    BY <2>1, <2>2, <2>4, <1>3 DEF MayThrow
  <2>5. CASE p # "last" /\ ~(i = 1 /\ stack[1].progress = "begun")
    BY <2>0, <2>2, <2>5, <1>3 DEF MayThrow
  <2> QED BY <2>3, <2>4, <2>5
<1>5. base \in [1..Len(stack) -> Frames]
  BY <1>2, <1>4
<1>6. base \in Seq(Frames) /\ Len(base) = Len(stack)
  BY <1>1, <1>5
<1> QED BY <1>4, <1>6 DEF base

(* Popping leaves no frame that may throw, unless the session is being       *)
(* updated by a frame of an update.                                         *)
LEMMA ThrowBelow ==
  ASSUME ThrowInv, stack \in Seq(Frames), stack # <<>>,
         NEW i \in 1..Len(Tail(stack)), MayThrow(Tail(stack)[i])
  PROVE  /\ Tail(stack)[i].from \in {"Connecting", "Updating"}
         /\ Head(stack).action = "Update" /\ currentState = "Updating"
         /\ \A j \in 1..(i - 1) : Tail(stack)[j].action = "Update"
<1>1. /\ i + 1 \in 1..Len(stack) /\ Tail(stack)[i] = stack[i + 1] /\ i + 1 # 1
      /\ Head(stack) = stack[1] /\ 1 \in 1..((i + 1) - 1)
      /\ \A j \in 1..(i - 1) : Tail(stack)[j] = stack[j + 1] /\ j + 1 \in 1..((i + 1) - 1)
  BY PopFrame
<1>2. /\ stack[i + 1].from \in {"Connecting", "Updating"}
      /\ \A j \in 1..((i + 1) - 1) : stack[j].action = "Update"
      /\ currentState = "Updating"
  BY <1>1 DEF ThrowInv
<1> QED BY <1>1, <1>2

(* A stack whose frame was popped keeps the invariant in an unchanged state. *)
LEMMA PoppedThrows ==
  ASSUME ThrowInv, stack \in Seq(Frames), stack # <<>>,
         stack' = Tail(stack), currentState' = currentState
  PROVE  ThrowInv'
<1> SUFFICES ASSUME NEW i \in 1..Len(Tail(stack)), MayThrow(Tail(stack)[i])
             PROVE  /\ Tail(stack)[i].from \in {"Connecting", "Updating"}
                    /\ \A j \in 1..(i - 1) : Tail(stack)[j].action = "Update"
                    /\ currentState = "Updating" \/ (i = 1 /\ currentState = "Connected")
  BY DEF ThrowInv
<1> QED BY ThrowBelow

(* At first nothing is performed and nothing deferred.                       *)
LEMMA InitInv == Init => IInv
<1> SUFFICES ASSUME Init PROVE IInv
  OBVIOUS
<1>1. TypeOK
  BY WorksAssumption DEF Init, TypeOK, States, NoAction, Actions
<1>2. ThrowInv /\ NoFailDeferred /\ DeferredOnlyInTransit
  BY DEF Init, ThrowInv, NoFailDeferred, DeferredOnlyInTransit, NoAction
<1> QED BY <1>1, <1>2 DEF IInv

(* A call of perform keeps the invariant.                                    *)
LEMMA PerformInv ==
  ASSUME IInv, NEW a \in Actions, NEW w \in Works, Perform(a, w)
  PROVE  IInv'
<1> DEFINE base == AfterCall(a)
<1>1. /\ TypeOK /\ ThrowInv /\ NoFailDeferred /\ DeferredOnlyInTransit
      /\ base \in Seq(Frames) /\ Len(base) = Len(stack)
      /\ \A i \in 1..Len(stack) : /\ base[i].from = stack[i].from
                                  /\ base[i].action = stack[i].action
                                  /\ MayThrow(base[i]) => a = "Update" /\ MayThrow(stack[i])
  BY CallerMarkedStep DEF IInv
<1>0. \/ Transition(a, w, base) /\ UNCHANGED slot
      \/ /\ ~HasTransition(a) /\ stack' = base /\ UNCHANGED currentState
         /\ (CanDefer(a) /\ DeferAction(a, w)) \/ UNCHANGED slot
  BY DEF Perform
<1> HIDE DEF base
<1>2. ASSUME NEW i \in 1..Len(stack), MayThrow(base[i])
      PROVE  /\ a = "Update" /\ base[i].from \in {"Connecting", "Updating"}
             /\ \A j \in 1..(i - 1) : base[j].action = "Update"
             /\ currentState = "Updating" \/ (i = 1 /\ currentState = "Connected")
  <2>1. a = "Update" /\ MayThrow(stack[i])
    BY <1>1, <1>2
  <2>2. \A j \in 1..(i - 1) : j \in 1..Len(stack) /\ base[j].action = stack[j].action
    BY <1>1
  <2> QED BY <1>1, <2>1, <2>2 DEF ThrowInv
<1>3. CASE Transition(a, w, base) /\ UNCHANGED slot
  <2>1. /\ currentState' \in States /\ stack' \in Seq(Frames) /\ Len(stack') <= MaxDepth
        /\ stack' # <<>> /\ ThrowInv'
    BY <1>1, <1>2, <1>3, TransitionStep DEF Perform
  <2>2. TypeOK' /\ NoFailDeferred'
    BY <1>1, <1>3, <2>1 DEF TypeOK, NoFailDeferred, slot
  <2> QED BY <2>1, <2>2 DEF IInv, DeferredOnlyInTransit
<1>4. ASSUME ~HasTransition(a), stack' = base, UNCHANGED currentState,
             (CanDefer(a) /\ DeferAction(a, w)) \/ UNCHANGED slot
      PROVE  IInv'
  <2>1. CanDefer(a) => /\ DeferPriority[a] > 0
                       /\ currentState \in {"Connecting", "Updating"}
    BY DEF CanDefer
  <2>2. w # NoWork /\ a # NoAction
    BY WorksAssumption DEF Actions, NoAction
  <2>3. TypeOK'
    BY <1>1, <1>4, <2>1, <2>2 DEF TypeOK, DeferAction, slot
  <2>4. ThrowInv'
    BY <1>1, <1>2, <1>4 DEF ThrowInv
  <2>5. DeferredOnlyInTransit'
    <3>1. base = <<>> => stack = <<>>
      BY <1>1 DEF TypeOK
    <3> QED BY <1>1, <1>4, <2>1, <3>1 DEF DeferredOnlyInTransit, slot
  <2>6. NoFailDeferred'
    BY <1>1, <1>4, FailEverywhere DEF NoFailDeferred, DeferAction, slot
  <2> QED BY <2>3, <2>4, <2>5, <2>6 DEF IInv
<1> QED BY <1>0, <1>3, <1>4

(* So does the return of a work, with the deferred action it may perform: an  *)
(* update that returns to a work that may throw leaves the slot as it is.     *)
LEMMA WorkReturnsInv ==
  ASSUME IInv, WorkReturns
  PROVE  IInv'
<1>1. TypeOK /\ ThrowInv /\ NoFailDeferred /\ stack \in Seq(Frames) /\ stack # <<>>
  BY DEF IInv, TypeOK, WorkReturns
<1>2. Tail(stack) \in Seq(Frames) /\ Len(Tail(stack)) < MaxDepth
  BY <1>1, PopFrame, WorksAssumption DEF TypeOK
<1>3. CASE /\ deferredAction # NoAction
           /\ Transition(deferredAction, deferredWork, Tail(stack))
           /\ ClearSlot
  <2>1. deferredAction \in Actions /\ deferredWork \in Works /\ DeferPriority[deferredAction] > 0
    BY <1>1, <1>3 DEF TypeOK
  <2>2. currentState # "Updating"
    <3>1. PICK t \in States : <<currentState, deferredAction, t>> \in Edges
      BY <1>3 DEF Transition
    <3>2. deferredAction \notin {"Fail", "FinishUpdating"}
      BY <1>1, <2>1, PriorityRange DEF NoFailDeferred, FragileActions
    <3> QED BY <3>1, <3>2, EdgeFacts
  <2>3. \A i \in 1..Len(Tail(stack)) : ~MayThrow(Tail(stack)[i])
    BY <1>1, <2>2, ThrowBelow
  <2>4. /\ currentState' \in States /\ stack' \in Seq(Frames) /\ Len(stack') <= MaxDepth
        /\ stack' # <<>> /\ ThrowInv'
    BY <1>1, <1>2, <1>3, <2>1, <2>3, TransitionStep
  <2>5. TypeOK' /\ DeferredOnlyInTransit' /\ NoFailDeferred'
    BY <1>3, <2>4, WorksAssumption
    DEF TypeOK, DeferredOnlyInTransit, NoFailDeferred, ClearSlot, NoAction
  <2> QED BY <2>4, <2>5 DEF IInv
<1>4. ASSUME stack' = Tail(stack), currentState' = currentState,
             UNCHANGED slot \/ ClearSlot,
             deferredAction' # NoAction => CanDefer(deferredAction)
      PROVE  IInv'
  <2>1. TypeOK' /\ NoFailDeferred'
    BY <1>1, <1>2, <1>4, WorksAssumption DEF TypeOK, NoFailDeferred, slot, ClearSlot, NoAction
  <2>2. ThrowInv'
    BY <1>1, <1>4, PoppedThrows
  <2>3. DeferredOnlyInTransit'
    BY <1>4 DEF DeferredOnlyInTransit, CanDefer
  <2> QED BY <2>1, <2>2, <2>3 DEF IInv
<1> QED BY <1>3, <1>4 DEF WorkReturns, PerformDeferredAction, slot, ClearSlot

(* So does a rollback.                                                       *)
LEMMA WorkThrowsInv ==
  ASSUME IInv, WorkThrows
  PROVE  IInv'
<1>1. /\ TypeOK /\ ThrowInv /\ NoFailDeferred
      /\ stack \in Seq(Frames) /\ stack # <<>> /\ MayThrow(Head(stack))
  BY DEF IInv, TypeOK, WorkThrows
<1>2. Tail(stack) \in Seq(Frames) /\ Len(Tail(stack)) < MaxDepth
  BY <1>1, PopFrame, WorksAssumption DEF TypeOK
<1>3. 1 \in 1..Len(stack) /\ Head(stack) = stack[1]
  BY <1>1, PopFrame
<1>4. currentState' \in States \cap {"Connecting", "Updating"}
  BY <1>1, <1>3 DEF ThrowInv, WorkThrows, States
<1>5. \A i \in 1..Len(Tail(stack)) : ~MayThrow(Tail(stack)[i])
  <2>1. Head(stack).action # "Update"
    BY <1>1 DEF MayThrow, FragileActions
  <2> QED BY <1>1, <2>1, ThrowBelow
<1>6. TypeOK' /\ NoFailDeferred'
  BY <1>1, <1>2, <1>4, WorksAssumption DEF WorkThrows, TypeOK, NoFailDeferred, slot
<1>7. ThrowInv'
  BY <1>5 DEF ThrowInv, WorkThrows
<1>8. DeferredOnlyInTransit'
  BY <1>4 DEF DeferredOnlyInTransit
<1> QED BY <1>6, <1>7, <1>8 DEF IInv

(* Every step keeps the invariant.                                           *)
LEMMA NextInv == IInv /\ [Next]_vars => IInv'
<1> SUFFICES ASSUME IInv, [Next]_vars PROVE IInv'
  OBVIOUS
<1>1. CASE \E a \in Actions, w \in Works : Perform(a, w)
  BY <1>1, PerformInv
<1>2. CASE WorkReturns
  BY <1>2, WorkReturnsInv
<1>3. CASE WorkThrows
  BY <1>3, WorkThrowsInv
<1>4. CASE UNCHANGED vars
  BY <1>4 DEF IInv, TypeOK, ThrowInv, NoFailDeferred, DeferredOnlyInTransit, vars
<1> QED BY <1>1, <1>2, <1>3, <1>4 DEF Next

(* The inductive invariant holds in every reachable state.                  *)
THEOREM InductiveInvariant == Spec => []IInv
<1> QED BY InitInv, NextInv, PTL DEF Spec

(* The state, the slot and the frames of perform always have their types,   *)
(* and only an action with a defer priority is ever put in the slot.        *)
THEOREM TypeCorrect == Spec => []TypeOK
<1>1. IInv => TypeOK
  BY DEF IInv
<1> QED BY <1>1, InductiveInvariant, PTL

(* No deferred action is stranded: when no perform is running, one is       *)
(* pending only while the session is Connecting or Updating.                *)
THEOREM NothingStranded == Spec => []DeferredOnlyInTransit
<1>1. IInv => DeferredOnlyInTransit
  BY DEF IInv
<1> QED BY <1>1, InductiveInvariant, PTL

(* The rollback after an exception undoes the transition of the perform     *)
(* that threw and at most an update performed by its work: no stop, failure  *)
(* or reconnect is undone, and none that was deferred began meanwhile.       *)
THEOREM RollbackSparesEnd == Spec => []RollbackUndoesUpdateOnly
<1>1. IInv => RollbackUndoesUpdateOnly
  BY DEF IInv, ThrowInv, RollbackUndoesUpdateOnly
<1> QED BY <1>1, InductiveInvariant, PTL

-----------------------------------------------------------------------------
(* No step displaces or undoes a stop.                                       *)
LEMMA StopStep ==
  ASSUME IInv, [Next]_vars, deferredAction = "Disconnect", deferredAction' # "Disconnect"
  PROVE  currentState' \in {"Disconnecting", "NotConnected"}
<1>1. TypeOK /\ "Disconnect" \in Actions /\ "Disconnect" # NoAction
  BY DEF IInv, Actions, NoAction
<1>2. ASSUME NEW a \in Actions, NEW w \in Works, Perform(a, w)
      PROVE  FALSE
  <2>1. DeferAction(a, w)
    BY <1>2 DEF Perform, slot, vars
  <2>2. DeferPriority["Disconnect"] <= DeferPriority[a] /\ deferredAction' = a
    BY <1>1, <2>1, PriorityRange DEF DeferAction, slot
  <2>3. a = "Disconnect"
    BY <1>1, <2>2, PriorityRange
  <2> QED BY <2>2, <2>3
<1>3. ASSUME WorkReturns
      PROVE  currentState' \in {"Disconnecting", "NotConnected"}
  <2>1. CASE Transition(deferredAction, deferredWork, Tail(stack))
    BY <2>1, EdgeFacts DEF Transition
  <2>2. CASE ~HasTransition(deferredAction) /\ ~CanDefer(deferredAction)
             /\ UNCHANGED currentState
    BY <1>1, <2>2, StopEverywhere DEF TypeOK
  <2> QED BY <1>1, <1>3, <2>1, <2>2 DEF WorkReturns, PerformDeferredAction, slot
<1> QED BY <1>2, <1>3 DEF Next, WorkThrows, vars, slot

(* A deferred stop is not displaced: it leaves the slot only for a session   *)
(* that is disconnecting or disconnected.                                   *)
THEOREM StopHonoured == Spec => DeferredStopHonoured
<1>1. IInv /\ [Next]_vars =>
        [deferredAction = "Disconnect" /\ deferredAction' # "Disconnect"
           => currentState' \in {"Disconnecting", "NotConnected"}]_vars
  BY StopStep
<1> QED BY <1>1, InductiveInvariant, PTL DEF Spec, DeferredStopHonoured

(* No step revives a session that disconnects.                               *)
LEMMA FinalStep ==
  ASSUME IInv, [Next]_vars, currentState = "Disconnecting"
  PROVE  currentState' \in {"Disconnecting", "NotConnected"}
<1>1. ASSUME NEW a, NEW w, NEW base, Transition(a, w, base)
      PROVE  currentState' = "NotConnected"
  BY <1>1, EdgeFacts DEF Transition
<1>2. CASE \E a \in Actions, w \in Works : Perform(a, w)
  BY <1>1, <1>2 DEF Perform, vars
<1>3. CASE WorkReturns
  BY <1>1, <1>3 DEF WorkReturns, PerformDeferredAction
<1>4. ASSUME WorkThrows PROVE FALSE
  <2>1. /\ 1 \in 1..Len(stack) /\ Head(stack) = stack[1]
    BY <1>4, PopFrame DEF IInv, TypeOK, WorkThrows
  <2> QED BY <1>4, <2>1 DEF IInv, ThrowInv, WorkThrows
<1> QED BY <1>2, <1>3, <1>4 DEF Next, vars

(* A session that is disconnecting can only become NotConnected.            *)
THEOREM DisconnectingFinal == Spec => DisconnectingIsFinal
<1>1. IInv /\ [Next]_vars =>
        [currentState = "Disconnecting"
           => currentState' \in {"Disconnecting", "NotConnected"}]_vars
  BY FinalStep
<1> QED BY <1>1, InductiveInvariant, PTL DEF Spec, DisconnectingIsFinal

(* A stop is neither displaced while it waits nor undone while it is under   *)
(* way.                                                                     *)
THEOREM StopKept == Spec => StopIsKept
BY StopHonoured, DisconnectingFinal DEF StopIsKept

-----------------------------------------------------------------------------
(* ReconnectController *)
(* The next-state relation with the choice made at the start. *)
Step == [ReconnectNext /\ UNCHANGED overlap]_<<reconnectVars, overlap>>

(* The cancel function at hand belongs to the last timer, which is running,   *)
(* and no timer that was canceled runs.                                      *)
CancelInv ==
  /\ timers \in Seq([state : TimerStates, at : Nat])
  /\ backoffTimer = Len(timers)
  /\ backoffCancel \in {0, backoffTimer}
  /\ backoffCancel # 0 => timers[backoffCancel].state = "pending"
  /\ canceled \subseteq DOMAIN timers
  /\ CanceledNeverRuns

(* With one retry at a time, the running timer is the last and can be canceled. *)
OneRetryInv == ~overlap => Pending \subseteq {backoffCancel}

Inv == CancelInv /\ OneRetryInv

(* The clock, the timestamps taken from it, and the counts. *)
ClockInv ==
  /\ now \in 0..MaxNow
  /\ shouldReconnect \in BOOLEAN /\ onlyRestartPeerConnection \in BOOLEAN
  /\ firstConnectionAttempted \in BOOLEAN /\ isFirstConnection \in BOOLEAN
  /\ firstConnectionAttemptTimestampMs \in 0..now
  /\ lastActiveTimestampMs \in (0..now) \cup {Infinity}
  /\ Len(timers) <= MaxTimers
  /\ currentRetry \in 0..Len(timers)

(* What a timer that is added or changes its state does to the sequence. *)
LEMMA TimerChanges ==
  ASSUME NEW s \in Seq([state : TimerStates, at : Nat]), NEW t \in DOMAIN s,
         NEW st \in TimerStates
  PROVE  LET r == [s EXCEPT ![t].state = st] IN
         /\ r \in Seq([state : TimerStates, at : Nat])
         /\ Len(r) = Len(s) /\ DOMAIN r = DOMAIN s
         /\ \A i \in DOMAIN s : r[i].state = IF i = t THEN st ELSE s[i].state
<1> DEFINE T == [state : TimerStates, at : Nat]
           u == [s[t] EXCEPT !.state = st]
<1>1. s[t] \in T /\ t \in 1..Len(s)
  <2> HIDE DEF T
  <2>1. s \in Seq(T)  BY DEF T
  <2> QED  BY <2>1, ElementOfSeq
<1>2. u \in T /\ u.state = st  BY <1>1
<1> HIDE DEF u
<1> DEFINE r == [s EXCEPT ![t] = u]
<1>3. r \in Seq(T) /\ Len(r) = Len(s) /\ r[t] = u /\ \A i \in 1..Len(s) : i # t => r[i] = s[i]
  BY <1>1, <1>2, ExceptSeq
<1>4. DOMAIN r = DOMAIN s  OBVIOUS
<1>5. [s EXCEPT ![t].state = st] = r  BY DEF u
<1> QED  BY <1>2, <1>3, <1>4, <1>5

(* Arming a timer adds one that is pending.                                  *)
LEMMA TimerAdded ==
  ASSUME NEW s \in Seq([state : TimerStates, at : Nat]), NEW at \in Nat
  PROVE  LET r == Append(s, [state |-> "pending", at |-> at]) IN
         /\ r \in Seq([state : TimerStates, at : Nat])
         /\ Len(r) = Len(s) + 1 /\ DOMAIN r = DOMAIN s \cup {Len(s) + 1}
         /\ r[Len(s) + 1].state = "pending"
         /\ \A i \in DOMAIN s : r[i].state = s[i].state
BY DEF TimerStates

(* stop of the remembered timer keeps the invariant, leaves no retry pending  *)
(* if there was one at a time, and calls its cancel function.                 *)
LEMMA StopTimerKeeps ==
  ASSUME Inv, StopTimer, overlap' = overlap
  PROVE  /\ Inv'
         /\ ~overlap => Pending' = {} /\ Pending \subseteq canceled'
         /\ backoffTimer' = backoffTimer
         /\ Pending' = Pending \ {backoffTimer}
<1> USE DEF Inv, CancelInv, CanceledNeverRuns, OneRetryInv, Pending
<1>1. CASE backoffTimer = 0
  <2>1. UNCHANGED timerVars  BY <1>1 DEF StopTimer
  <2>2. Len(timers) = 0  BY <1>1
  <2>3. Pending = {}  BY <2>2
  <2> QED  BY <1>1, <2>1, <2>3 DEF timerVars
<1>2. CASE backoffTimer # 0 /\ timers[backoffTimer].state = "pending"
  <2>1. /\ timers' = [timers EXCEPT ![backoffTimer].state = "stopped"]
        /\ canceled' = canceled \cup ({backoffCancel} \ {0})
        /\ backoffCancel' = 0 /\ backoffTimer' = backoffTimer
    BY <1>2 DEF StopTimer
  <2>2. backoffTimer \in DOMAIN timers  BY <1>2
  <2>3. /\ timers' \in Seq([state : TimerStates, at : Nat])
        /\ Len(timers') = Len(timers) /\ DOMAIN timers' = DOMAIN timers
        /\ \A i \in DOMAIN timers :
             timers'[i].state = IF i = backoffTimer THEN "stopped" ELSE timers[i].state
    BY <2>1, <2>2, TimerChanges DEF TimerStates
  <2>4. Pending' = Pending \ {backoffTimer}  BY <2>3
  <2>5. CancelInv'  BY <2>1, <2>2, <2>3
  <2>6. ~overlap => Pending' = {} /\ Pending \subseteq canceled'
    BY <2>1, <2>2, <2>4
  <2> QED  BY <2>1, <2>4, <2>5, <2>6
<1>3. CASE backoffTimer # 0 /\ timers[backoffTimer].state # "pending"
  <2>1. /\ timers' = timers
        /\ canceled' = canceled \cup ({backoffCancel} \ {0})
        /\ backoffCancel' = 0 /\ backoffTimer' = backoffTimer
    BY <1>3 DEF StopTimer
  <2>2. backoffCancel = 0  BY <1>3
  <2> QED  BY <1>3, <2>1, <2>2
<1> QED  BY <1>1, <1>2, <1>3

(* A retry arms a timer before the deadline.                                 *)
LEMMA RetryKeeps ==
  ASSUME TimesAssumption, Inv, now \in Nat, RetryWithBackoff, overlap' = overlap
  PROVE  /\ Inv'
         /\ Len(timers') = Len(timers) + 1
         /\ Pending' = Pending \cup {Len(timers) + 1}
         /\ backoffTimer' = Len(timers) + 1
<1> USE DEF Inv, CancelInv, CanceledNeverRuns, OneRetryInv, Pending
<1>1. PICK wait \in fixedWaitMs..LongestBackoff(currentRetry) :
        timers' = Append(timers, [state |-> "pending", at |-> now + wait])
  BY DEF RetryWithBackoff
<1>2. now + wait \in Nat  BY DEF TimesAssumption
<1>3. /\ timers' \in Seq([state : TimerStates, at : Nat])
      /\ Len(timers') = Len(timers) + 1
      /\ DOMAIN timers' = DOMAIN timers \cup {Len(timers) + 1}
      /\ timers'[Len(timers) + 1].state = "pending"
      /\ \A i \in DOMAIN timers : timers'[i].state = timers[i].state
  BY <1>1, <1>2, TimerAdded
<1>4. /\ backoffTimer' = Len(timers') /\ backoffCancel' = Len(timers')
      /\ UNCHANGED canceled
      /\ overlap \/ Pending = {}
  BY DEF RetryWithBackoff
<1>5. CancelInv'  BY <1>3, <1>4
<1>6. Pending' = Pending \cup {Len(timers) + 1}  BY <1>3
<1> QED  BY <1>3, <1>4, <1>5, <1>6

(* A timer that fires forgets its cancel function, or was not the last.      *)
LEMMA FireKeeps ==
  ASSUME Inv, NEW t \in Pending, overlap' = overlap,
         timers' = [timers EXCEPT ![t].state = "fired"], ClearCancel,
         UNCHANGED <<backoffTimer, canceled>>
  PROVE  Inv' /\ Pending' = Pending \ {t} /\ Len(timers') = Len(timers)
<1> USE DEF Inv, CancelInv, CanceledNeverRuns, OneRetryInv, Pending, ClearCancel
<1>1. /\ timers' \in Seq([state : TimerStates, at : Nat])
      /\ Len(timers') = Len(timers) /\ DOMAIN timers' = DOMAIN timers
      /\ \A i \in DOMAIN timers :
           timers'[i].state = IF i = t THEN "fired" ELSE timers[i].state
  BY TimerChanges DEF TimerStates
<1>2. Pending' = Pending \ {t}  BY <1>1
<1>3. CancelInv'  BY <1>1
<1> QED  BY <1>1, <1>2, <1>3

(* The clock begins before any attempt.                                      *)
LEMMA Initially == TimesAssumption /\ ReconnectInit => Inv /\ ClockInv
<1> SUFFICES ASSUME TimesAssumption, ReconnectInit PROVE Inv /\ ClockInv  OBVIOUS
<1>1. timers = <<>> /\ Len(timers) = 0 /\ DOMAIN timers = {} /\ canceled = {}
  BY DEF ReconnectInit
<1>2. timers \in Seq([state : TimerStates, at : Nat])  BY <1>1, EmptySeq
<1>3. CancelInv  BY <1>1, <1>2 DEF ReconnectInit, CancelInv, CanceledNeverRuns
<1>4. OneRetryInv  BY <1>1 DEF OneRetryInv, Pending
<1>5. ClockInv
  <2>1. now \in 0..MaxNow /\ currentRetry \in 0..Len(timers) /\ Len(timers) <= MaxTimers
    BY <1>1 DEF ReconnectInit, TimesAssumption
  <2>2. firstConnectionAttemptTimestampMs \in 0..now  BY DEF ReconnectInit
  <2> QED  BY <2>1, <2>2 DEF ReconnectInit, ClockInv
<1> QED  BY <1>3, <1>4, <1>5 DEF Inv

(* Every step keeps the invariants. *)
LEMMA StepKeeps ==
  ASSUME TimesAssumption, Inv, ClockInv, Step
  PROVE  Inv' /\ ClockInv'
<1> USE DEF controllerVars, TimesAssumption
<1>0. now \in Nat /\ Len(timers) \in Nat  BY DEF ClockInv, Inv, CancelInv
<1>1. CASE Cancel /\ UNCHANGED overlap
  <2>1. Inv'  BY <1>1, StopTimerKeeps DEF Cancel
  <2>2. Len(timers') = Len(timers)  BY <1>1, <2>1, StopTimerKeeps DEF Cancel, Inv, CancelInv
  <2> QED  BY <1>1, <2>1, <2>2 DEF Cancel, ClockInv
<1>2. CASE Reset /\ UNCHANGED overlap
  <2>1. Inv'  BY <1>2, StopTimerKeeps DEF Reset
  <2>2. Len(timers') = Len(timers)  BY <1>2, <2>1, StopTimerKeeps DEF Reset, Inv, CancelInv
  <2>3. currentRetry' \in 0..Len(timers') /\ firstConnectionAttemptTimestampMs' \in 0..now'
    BY <1>0, <1>2, <2>2 DEF Reset, ClockInv
  <2>4. ClockInv'  BY <1>2, <2>2, <2>3 DEF Reset, ClockInv
  <2> QED  BY <2>1, <2>4
<1>3. CASE RetryWithBackoff /\ UNCHANGED overlap
  <2>1. Inv' /\ Len(timers') = Len(timers) + 1  BY <1>0, <1>3, RetryKeeps
  <2>2. Len(timers') <= MaxTimers /\ currentRetry' \in 0..Len(timers')
    BY <1>0, <1>3, <2>1 DEF RetryWithBackoff, ClockInv
  <2>3. UNCHANGED <<now, controllerVars>>  BY <1>3 DEF RetryWithBackoff
  <2>4. ClockInv'  BY <2>2, <2>3 DEF ClockInv
  <2> QED  BY <2>1, <2>4
<1>4. CASE TimerFires /\ UNCHANGED overlap
  <2>1. PICK t \in Pending : timers' = [timers EXCEPT ![t].state = "fired"]
    BY <1>4 DEF TimerFires
  <2>2. Inv' /\ Len(timers') = Len(timers)  BY <1>4, <2>1, FireKeeps DEF TimerFires
  <2> QED  BY <1>4, <2>2 DEF TimerFires, ClockInv
<1>5. ASSUME UNCHANGED <<timerVars, overlap>> PROVE Inv'
  BY <1>5 DEF timerVars, Inv, CancelInv, OneRetryInv, CanceledNeverRuns, Pending
<1>6. CASE DisableReconnect /\ UNCHANGED overlap
  BY <1>6, <1>5 DEF DisableReconnect, ClockInv, timerVars
<1>7. ASSUME NEW isFirst \in BOOLEAN, StartedConnectionAttempt(isFirst), UNCHANGED overlap
      PROVE  Inv' /\ ClockInv'
  BY <1>7, <1>5 DEF StartedConnectionAttempt, ClockInv, timerVars
<1>8. CASE EnableRestartPeerConnection /\ UNCHANGED overlap
  BY <1>8, <1>5 DEF EnableRestartPeerConnection, ClockInv, timerVars
<1>9. CASE SetLastActiveTimestamp /\ UNCHANGED overlap
  BY <1>9, <1>5 DEF SetLastActiveTimestamp, ClockInv, timerVars
<1>10. CASE Tick /\ UNCHANGED overlap
  BY <1>10, <1>5 DEF Tick, ClockInv, timerVars
<1>11. CASE UNCHANGED <<reconnectVars, overlap>>
  BY <1>11, <1>5 DEF reconnectVars, ClockInv, timerVars
<1> QED
  BY <1>1, <1>2, <1>3, <1>4, <1>6, <1>7, <1>8, <1>9, <1>10, <1>11 DEF Step, ReconnectNext

(* The invariant of every behaviour. *)
LEMMA Invariance == ReconnectSpec => [](Inv /\ ClockInv)
<1>1. ReconnectInit => Inv /\ ClockInv  BY TimesAssumption, Initially
<1>2. (Inv /\ ClockInv) /\ Step => (Inv /\ ClockInv)'  BY TimesAssumption, StepKeeps
<1> QED  BY <1>1, <1>2, PTL DEF ReconnectSpec, Step

(* Every variable keeps its type, for any timeouts and any number of retries. *)
THEOREM ReconnectTypeCorrect == ReconnectSpec => []ReconnectTypeOK
<1>1. Inv /\ ClockInv => ReconnectTypeOK
  BY TimesAssumption DEF TimesAssumption, Inv, CancelInv, ClockInv, ReconnectTypeOK
<1> QED  BY <1>1, Invariance, PTL

(* A retry whose cancel function was called never runs, also when retries     *)
(* overlap.                                                                   *)
THEOREM CanceledStays == ReconnectSpec => []CanceledNeverRuns
<1>1. Inv /\ ClockInv => CanceledNeverRuns  BY DEF Inv, CancelInv
<1> QED  BY <1>1, Invariance, PTL

(* As long as retries do not overlap, cancel leaves none pending and calls    *)
(* the cancel function of the one there was.                                  *)
THEOREM CancelComplete == ReconnectSpec => CancelIsComplete
<1>1. Inv /\ Step =>
        [(Cancel \/ Reset) /\ ~overlap =>
           /\ \A t \in DOMAIN timers' : timers'[t].state # "pending"
           /\ Pending \subseteq canceled']_reconnectVars
  <2> SUFFICES ASSUME Inv, Step, Cancel \/ Reset, ~overlap, ~UNCHANGED reconnectVars
               PROVE  /\ \A t \in DOMAIN timers' : timers'[t].state # "pending"
                      /\ Pending \subseteq canceled'
    OBVIOUS
  <2>1. StopTimer /\ overlap' = overlap  BY DEF Cancel, Reset, Step
  <2>2. Pending' = {} /\ Pending \subseteq canceled'  BY <2>1, StopTimerKeeps
  <2> QED  BY <2>2 DEF Pending
<1> QED  BY <1>1, Invariance, PTL DEF ReconnectSpec, Step, CancelIsComplete

-----------------------------------------------------------------------------
(* The running timers that the controller has forgotten. *)
Orphans == Pending \ {backoffTimer}

(* Finitely many timers are pending.                                         *)
LEMMA PendingFinite ==
  ASSUME Inv, ClockInv, TimesAssumption
  PROVE  /\ IsFiniteSet(Pending) /\ Cardinality(Pending) \in Nat
         /\ Cardinality(Pending) <= Len(timers)
         /\ IsFiniteSet(Orphans) /\ Cardinality(Orphans) \in Nat
<1>1. Len(timers) \in Nat /\ Pending \subseteq 1..Len(timers)
  BY DEF Inv, CancelInv, Pending
<1>2. IsFiniteSet(1..Len(timers)) /\ Cardinality(1..Len(timers)) = Len(timers)
  BY <1>1, FS_Interval
<1>3. IsFiniteSet(Pending) /\ Cardinality(Pending) <= Len(timers)
  BY <1>1, <1>2, FS_Subset
<1>4. IsFiniteSet(Orphans)  BY <1>3, FS_Subset DEF Orphans
<1> QED  BY <1>3, <1>4, FS_CardinalityType

(* The gate's deadline follows from the clock and three fields. *)
LEMMA DeadlineKept ==
  ASSUME UNCHANGED <<now, firstConnectionAttempted, firstConnectionAttemptTimestampMs,
                     lastActiveTimestampMs>>
  PROVE  HasPastReconnectDeadline' = HasPastReconnectDeadline
BY DEF HasPastReconnectDeadline, TimeSpentReconnecting

(* Every step of the controller is a step of the gate or leaves it alone. *)
LEMMA StepImplements ==
  ASSUME TimesAssumption, Inv, ClockInv, Step
  PROVE  [Gate!GateNext]_(Gate!gateVars)
<1> USE TimesAssumption
<1> DEFINE orphaned == Cardinality(Orphans)
           past == HasPastReconnectDeadline
<1>0. /\ now \in Nat /\ Len(timers) \in Nat /\ reconnectTimeoutMs \in Nat \ {0}
      /\ MaxTimers \in Nat /\ Infinity \notin Nat /\ past \in BOOLEAN /\ past' \in BOOLEAN
  BY DEF ClockInv, Inv, CancelInv, TimesAssumption, HasPastReconnectDeadline
<1>1. CASE Cancel /\ UNCHANGED overlap
  <2>1. backoffTimer' = backoffTimer /\ Pending' = Pending \ {backoffTimer}
    BY <1>1, StopTimerKeeps DEF Cancel
  <2>2. Orphans' = Orphans /\ ~(backoffTimer \in Pending)'  BY <2>1 DEF Orphans
  <2>3. past' = past  BY <1>1, DeadlineKept DEF Cancel
  <2>4. Gate!Cancel  BY <1>1, <2>2, <2>3 DEF Cancel, Gate!Cancel, Orphans
  <2> QED  BY <2>4 DEF Gate!GateNext
<1>2. CASE Reset /\ UNCHANGED overlap
  <2>1. backoffTimer' = backoffTimer /\ Pending' = Pending \ {backoffTimer}
    BY <1>2, StopTimerKeeps DEF Reset
  <2>2. Orphans' = Orphans /\ ~(backoffTimer \in Pending)'  BY <2>1 DEF Orphans
  <2>3. ~past'  BY <1>0, <1>2 DEF Reset, HasPastReconnectDeadline, TimeSpentReconnecting
  <2>4. Gate!Reset  BY <1>2, <2>2, <2>3 DEF Reset, Gate!Reset, Orphans
  <2> QED  BY <2>4 DEF Gate!GateNext
<1>3. CASE RetryWithBackoff /\ UNCHANGED overlap
  <2>1. /\ Inv' /\ Len(timers') = Len(timers) + 1
        /\ Pending' = Pending \cup {Len(timers) + 1} /\ backoffTimer' = Len(timers) + 1
    BY <1>0, <1>3, RetryKeeps
  <2>2. backoffTimer' \in Pending' /\ Orphans' = Pending
    BY <1>0, <2>1 DEF Orphans, Pending
  <2>3. Cardinality(Pending) = orphaned + (IF backoffTimer \in Pending THEN 1 ELSE 0)
    <3>1. CASE backoffTimer \in Pending
      BY <3>1, PendingFinite, FS_RemoveElement DEF Orphans
    <3>2. CASE backoffTimer \notin Pending
      <4>1. Orphans = Pending  BY <3>2 DEF Orphans
      <4> QED  BY <3>2, <4>1, PendingFinite
    <3> QED  BY <3>1, <3>2
  <2>4. Cardinality(Pending) <= MaxTimers
    BY <1>0, <1>3, PendingFinite DEF RetryWithBackoff
  <2>5. past' = past /\ shouldReconnect /\ ~past
    BY <1>3, DeadlineKept DEF RetryWithBackoff, controllerVars, WillRetry
  <2>6. Gate!Retry
    BY <1>3, <2>2, <2>3, <2>4, <2>5
    DEF RetryWithBackoff, controllerVars, Gate!Retry, Gate!WillRetry, Orphans
  <2> QED  BY <2>6 DEF Gate!GateNext
<1>4. CASE TimerFires /\ UNCHANGED overlap
  <2>1. PICK t \in Pending : timers' = [timers EXCEPT ![t].state = "fired"]
    BY <1>4 DEF TimerFires
  <2>2. Pending' = Pending \ {t} /\ backoffTimer' = backoffTimer
    BY <1>4, <2>1, FireKeeps DEF TimerFires
  <2>3. past' = past  BY <1>4, DeadlineKept DEF TimerFires, controllerVars
  <2>4. CASE t = backoffTimer
    <3>1. Orphans' = Orphans  BY <2>2, <2>4 DEF Orphans
    <3>2. backoffTimer \in Pending /\ ~(backoffTimer \in Pending)'  BY <2>2, <2>4
    <3> QED  BY <1>4, <2>3, <3>1, <3>2
             DEF TimerFires, controllerVars, Gate!TimerFires, Gate!GateNext, Orphans
  <2>5. CASE t # backoffTimer
    <3>1. Orphans' = Orphans \ {t} /\ t \in Orphans  BY <2>2, <2>5 DEF Orphans
    <3>2. orphaned' = orphaned - 1 /\ orphaned > 0
      <4>1. IsFiniteSet(Orphans) /\ orphaned \in Nat  BY PendingFinite
      <4>2. Cardinality(Orphans \ {t}) = orphaned - 1
        BY <3>1, <4>1, FS_RemoveElement
      <4>3. orphaned # 0  BY <3>1, <4>1, FS_EmptySet
      <4> QED  BY <3>1, <4>1, <4>2, <4>3
    <3>3. (backoffTimer \in Pending)' = (backoffTimer \in Pending)  BY <2>2, <2>5
    <3> QED  BY <1>4, <2>3, <3>2, <3>3
             DEF TimerFires, controllerVars, Gate!TimerFires, Gate!GateNext, Orphans
  <2> QED  BY <2>4, <2>5
<1>5. ASSUME UNCHANGED timerVars
      PROVE  /\ (backoffTimer \in Pending)' = (backoffTimer \in Pending)
             /\ Orphans' = Orphans /\ orphaned' = orphaned
  BY <1>5 DEF timerVars, Pending, Orphans
<1>6. CASE DisableReconnect /\ UNCHANGED overlap
  <2>1. past' = past  BY <1>6, DeadlineKept DEF DisableReconnect
  <2> QED  BY <1>5, <1>6, <2>1 DEF DisableReconnect, Gate!Disable, Gate!GateNext, Orphans
<1>7. ASSUME NEW isFirst \in BOOLEAN, StartedConnectionAttempt(isFirst)
      PROVE  Gate!GateNext
  <2>1. past' = past
    BY <1>0, <1>7 DEF StartedConnectionAttempt, HasPastReconnectDeadline, TimeSpentReconnecting
  <2> QED
    BY <1>5, <1>7, <2>1 DEF StartedConnectionAttempt, Gate!Attempt, Gate!GateNext, Orphans
<1>8. CASE EnableRestartPeerConnection /\ UNCHANGED overlap
  <2>1. past' = past  BY <1>8, DeadlineKept DEF EnableRestartPeerConnection
  <2> QED  BY <1>5, <1>8, <2>1 DEF EnableRestartPeerConnection, Gate!gateVars, Orphans
<1>9. CASE SetLastActiveTimestamp /\ UNCHANGED overlap
  <2>1. past' => past
    BY <1>0, <1>9 DEF SetLastActiveTimestamp, HasPastReconnectDeadline, TimeSpentReconnecting
  <2>2. CASE past /\ ~past'
    BY <1>5, <1>9, <2>2
    DEF SetLastActiveTimestamp, Gate!DeadlineLifts, Gate!GateNext, Orphans
  <2>3. CASE past' = past
    BY <1>5, <1>9, <2>3 DEF SetLastActiveTimestamp, Gate!gateVars, Orphans
  <2> QED  BY <1>0, <2>1, <2>2, <2>3
<1>10. CASE Tick /\ UNCHANGED overlap
  <2>1. past => past'
    BY <1>0, <1>10
    DEF Tick, controllerVars, ClockInv, HasPastReconnectDeadline, TimeSpentReconnecting
  <2>2. CASE ~past /\ past'
    BY <1>5, <1>10, <2>2
    DEF Tick, controllerVars, Gate!DeadlinePasses, Gate!GateNext, Orphans
  <2>3. CASE past' = past
    BY <1>5, <1>10, <2>3 DEF Tick, controllerVars, Gate!gateVars, Orphans
  <2> QED  BY <1>0, <2>1, <2>2, <2>3
<1>11. CASE UNCHANGED <<reconnectVars, overlap>>
  <2>1. past' = past  BY <1>11, DeadlineKept DEF reconnectVars, controllerVars
  <2> QED  BY <1>5, <1>11, <2>1 DEF reconnectVars, controllerVars, Gate!gateVars, Orphans
<1> QED
  BY <1>1, <1>2, <1>3, <1>4, <1>6, <1>7, <1>8, <1>9, <1>10, <1>11 DEF Step, ReconnectNext

(* For any timeouts and any overlap of retries the controller implements the  *)
(* gate that the session is checked against.                                  *)
THEOREM Implements == ReconnectSpec => ImplementsGate
<1>1. ReconnectInit => Gate!GateInit
  <2> SUFFICES ASSUME ReconnectInit PROVE Gate!GateInit  OBVIOUS
  <2>1. Pending = {} /\ Orphans = {}  BY DEF ReconnectInit, Pending, Orphans
  <2>2. Cardinality(Orphans) = 0  BY <2>1, FS_EmptySet
  <2>3. ~HasPastReconnectDeadline
    BY TimesAssumption
    DEF TimesAssumption, ReconnectInit, HasPastReconnectDeadline, TimeSpentReconnecting
  <2> QED  BY <2>1, <2>2, <2>3 DEF ReconnectInit, Gate!GateInit, Orphans
<1>2. Inv /\ ClockInv /\ Step => [Gate!GateNext]_(Gate!gateVars)
  BY TimesAssumption, StepImplements
<1> QED  BY <1>1, <1>2, Invariance, PTL DEF ReconnectSpec, Step, ImplementsGate, Gate!GateSpec

-----------------------------------------------------------------------------
(* A pending retry is due within one longest backoff from now, and, once an   *)
(* attempt was made, within one of the time allowed.                          *)
DueInv ==
  \A t \in Pending :
    /\ timers[t].at <= now + fixedWaitMs + longBackoffMs
    /\ firstConnectionAttempted =>
         timers[t].at < firstConnectionAttemptTimestampMs + reconnectTimeoutMs
                          + fixedWaitMs + longBackoffMs + 1

(* A pending timer was pending before with the same due time, unless it is new. *)
LEMMA PendingKept ==
  ASSUME Inv, overlap' = overlap,
         StopTimer \/ TimerFires \/ UNCHANGED timerVars
  PROVE  \A t \in Pending' : t \in Pending /\ timers'[t].at = timers[t].at
<1> USE DEF Inv, CancelInv, Pending
<1>1. ASSUME NEW t \in DOMAIN timers, NEW st \in TimerStates \ {"pending"},
             timers' = [timers EXCEPT ![t].state = st]
      PROVE  \A i \in Pending' : i \in Pending /\ timers'[i].at = timers[i].at
  <2>1. /\ DOMAIN timers' = DOMAIN timers
        /\ \A i \in DOMAIN timers : timers'[i].state = IF i = t THEN st ELSE timers[i].state
        /\ \A i \in DOMAIN timers : i # t => timers'[i] = timers[i]
    BY <1>1, TimerChanges
  <2> QED  BY <2>1
<1>2. CASE StopTimer
  <2>1. CASE UNCHANGED timers  BY <2>1
  <2>2. CASE backoffTimer # 0 /\ timers' = [timers EXCEPT ![backoffTimer].state = "stopped"]
    BY <1>1, <2>2 DEF TimerStates
  <2> QED  BY <1>2, <2>1, <2>2 DEF StopTimer, timerVars
<1>3. CASE TimerFires
  <2>1. PICK t \in Pending : timers' = [timers EXCEPT ![t].state = "fired"]
    BY <1>3 DEF TimerFires
  <2> QED  BY <1>1, <2>1 DEF TimerStates
<1>4. CASE UNCHANGED timerVars  BY <1>4 DEF timerVars
<1> QED  BY <1>2, <1>3, <1>4

(* No backoff exceeds the longest.                                           *)
LEMMA LongestBackoffBound ==
  ASSUME TimesAssumption, NEW retry \in Nat, NEW wait \in fixedWaitMs..LongestBackoff(retry)
  PROVE  wait \in Nat /\ wait <= fixedWaitMs + longBackoffMs
<1> DEFINE short == shortBackoffMs * 2^retry
<1>1. CASE longBackoffMs <= short
  BY <1>1 DEF LongestBackoff, TimesAssumption
<1>2. CASE ~(longBackoffMs <= short)
  BY <1>2 DEF LongestBackoff, TimesAssumption
<1> QED  BY <1>1, <1>2

(* For any timeouts, the retries of a lost session end in time. *)
THEOREM InTime == ReconnectSpec => []GivesUpInTime
<1> USE TimesAssumption
<1>1. ReconnectInit => DueInv  BY DEF ReconnectInit, DueInv, Pending
<1>2. ASSUME Inv, ClockInv, DueInv, Step PROVE DueInv'
  <2>0. /\ now \in Nat /\ firstConnectionAttemptTimestampMs \in 0..now
        /\ reconnectTimeoutMs \in Nat \ {0} /\ fixedWaitMs \in Nat /\ longBackoffMs \in Nat
        /\ \A t \in Pending : timers[t].at \in Nat
    <3> DEFINE T == [state : TimerStates, at : Nat]
    <3>1. timers \in Seq(T)  BY <1>2 DEF Inv, CancelInv
    <3>2. \A t \in Pending : timers[t] \in T
      <4> HIDE DEF T
      <4>1. \A t \in Pending : t \in 1..Len(timers)  BY <3>1 DEF Pending
      <4> QED  BY <3>1, <4>1, ElementOfSeq
    <3>3. \A t \in Pending : timers[t].at \in Nat  BY <3>2
    <3> QED  BY <1>2, <3>3 DEF ClockInv, TimesAssumption
  <2>1. CASE RetryWithBackoff /\ UNCHANGED overlap
    <3>1. /\ Inv' /\ Len(timers') = Len(timers) + 1
          /\ Pending' = Pending \cup {Len(timers) + 1}
      BY <1>2, <2>0, <2>1, RetryKeeps
    <3>2. PICK wait \in fixedWaitMs..LongestBackoff(currentRetry) :
            timers' = Append(timers, [state |-> "pending", at |-> now + wait])
      BY <2>1 DEF RetryWithBackoff
    <3>3. wait \in Nat /\ wait <= fixedWaitMs + longBackoffMs
      BY <1>2, LongestBackoffBound DEF ClockInv, Inv, CancelInv
    <3>4. /\ timers'[Len(timers) + 1].at = now + wait
          /\ \A t \in Pending : timers'[t] = timers[t]
      BY <1>2, <3>2 DEF Inv, CancelInv, Pending
    <3>5. firstConnectionAttempted =>
            now - firstConnectionAttemptTimestampMs < reconnectTimeoutMs
      BY <2>0, <2>1 DEF RetryWithBackoff, WillRetry, HasPastReconnectDeadline, TimeSpentReconnecting
    <3>6. UNCHANGED <<now, firstConnectionAttempted, firstConnectionAttemptTimestampMs>>
      BY <2>1 DEF RetryWithBackoff, controllerVars
    <3>7. /\ now + wait <= now + fixedWaitMs + longBackoffMs
          /\ firstConnectionAttempted =>
               now + wait < firstConnectionAttemptTimestampMs + reconnectTimeoutMs
                              + fixedWaitMs + longBackoffMs + 1
      BY <2>0, <3>3, <3>5
    <3> QED  BY <1>2, <3>1, <3>4, <3>6, <3>7 DEF DueInv
  <2>2. ASSUME overlap' = overlap, StopTimer \/ TimerFires \/ UNCHANGED timerVars,
               now' \in Nat, now <= now',
               firstConnectionAttempted' =>
                 \/ /\ firstConnectionAttempted
                    /\ UNCHANGED firstConnectionAttemptTimestampMs
                 \/ now' = now /\ firstConnectionAttemptTimestampMs' = now
        PROVE  DueInv'
    <3> SUFFICES ASSUME NEW t \in Pending'
                 PROVE  /\ timers'[t].at <= now' + fixedWaitMs + longBackoffMs
                        /\ firstConnectionAttempted' =>
                             timers'[t].at < firstConnectionAttemptTimestampMs' + reconnectTimeoutMs
                                              + fixedWaitMs + longBackoffMs + 1
      BY DEF DueInv
    <3>1. t \in Pending /\ timers'[t].at = timers[t].at  BY <1>2, <2>2, PendingKept
    <3>2. /\ timers[t].at \in Nat
          /\ timers[t].at <= now + fixedWaitMs + longBackoffMs
          /\ firstConnectionAttempted =>
               timers[t].at < firstConnectionAttemptTimestampMs + reconnectTimeoutMs
                                + fixedWaitMs + longBackoffMs + 1
      BY <1>2, <2>0, <3>1 DEF DueInv
    <3> DEFINE at == timers[t].at
               first == firstConnectionAttemptTimestampMs
    <3>3. at <= now' + fixedWaitMs + longBackoffMs  BY <2>0, <2>2, <3>2
    <3>4. CASE firstConnectionAttempted /\ first' = first  BY <3>1, <3>2, <3>3, <3>4
    <3>5. CASE first' = now  BY <2>0, <3>1, <3>2, <3>3, <3>5
    <3> QED  BY <2>2, <3>1, <3>3, <3>4, <3>5
  <2>3. CASE Cancel /\ UNCHANGED overlap  BY <2>0, <2>2, <2>3 DEF Cancel
  <2>4. CASE Reset /\ UNCHANGED overlap  BY <2>0, <2>2, <2>4 DEF Reset
  <2>5. CASE TimerFires /\ UNCHANGED overlap
    <3>1. UNCHANGED <<now, controllerVars>>  BY <2>5 DEF TimerFires
    <3>2. now' = now /\ UNCHANGED <<firstConnectionAttempted, firstConnectionAttemptTimestampMs>>
      BY <3>1 DEF controllerVars
    <3> QED  BY <2>0, <2>2, <2>5, <3>2
  <2>6. CASE (DisableReconnect \/ EnableRestartPeerConnection \/ SetLastActiveTimestamp)
             /\ UNCHANGED overlap
    BY <2>0, <2>2, <2>6 DEF DisableReconnect, EnableRestartPeerConnection, SetLastActiveTimestamp
  <2>7. ASSUME NEW isFirst \in BOOLEAN, StartedConnectionAttempt(isFirst), UNCHANGED overlap
        PROVE  DueInv'
    <3>1. UNCHANGED timerVars /\ now' = now  BY <2>7 DEF StartedConnectionAttempt
    <3>2. firstConnectionAttemptTimestampMs' =
            IF firstConnectionAttempted THEN firstConnectionAttemptTimestampMs ELSE now
      BY <2>7 DEF StartedConnectionAttempt
    <3>3. \/ firstConnectionAttempted /\ UNCHANGED firstConnectionAttemptTimestampMs
          \/ firstConnectionAttemptTimestampMs' = now
      BY <3>2
    <3> QED  BY <2>0, <2>2, <2>7, <3>1, <3>3
  <2>8. CASE Tick /\ UNCHANGED overlap  BY <2>0, <2>2, <2>8 DEF Tick, controllerVars
  <2>9. CASE UNCHANGED <<reconnectVars, overlap>>
    BY <2>0, <2>2, <2>9 DEF reconnectVars, controllerVars
  <2> QED
    BY <1>2, <2>1, <2>3, <2>4, <2>5, <2>6, <2>7, <2>8, <2>9 DEF Step, ReconnectNext
<1>3. DueInv => GivesUpInTime  BY DEF DueInv, GivesUpInTime
<1>4. Inv /\ ClockInv /\ DueInv /\ Step => DueInv'  BY <1>2
<1> QED  BY <1>1, <1>3, <1>4, Invariance, PTL DEF ReconnectSpec, Step

(* No retry runs that was canceled or that comes too late, whatever the       *)
(* timeouts and however retries overlap.                                     *)
THEOREM NoStray == ReconnectSpec => []NoStrayRetry
<1>1. CanceledNeverRuns /\ GivesUpInTime => NoStrayRetry  BY DEF NoStrayRetry
<1> QED  BY <1>1, CanceledStays, InTime, PTL

-----------------------------------------------------------------------------
(* EventBuffer *)

Items == Seq(Events)
Batches == Seq(Seq(Events))
Requests == [events : Batches, important : BOOLEAN, retryCount : Nat]

(* The types, in groups the steps change apart. *)
FlagTypes == reporting \in BOOLEAN /\ destroyed \in BOOLEAN /\ lock \in BOOLEAN
CountTypes == accepted \in Nat /\ accepted <= MaxEvents
SizeTypes == bufferSize \in Nat /\ ingestionEventSize \in Nat
CurrentTypes == currentIngestionEvent \in Items /\ Len(currentIngestionEvent) < MAX_PAYLOAD_ITEMS
BufferTypes ==
  /\ buffer \in Batches /\ Len(buffer) <= totalBufferItems
  /\ \A i \in DOMAIN buffer : Len(buffer[i]) \in 1..MAX_PAYLOAD_ITEMS
FailedTypes == \A i \in failedIngestionEvents : i \in Items
PostTypes == \A p \in posts : p \in Requests /\ p.retryCount < retryCountLimit
CancelTypes == \A b \in cancellableEvents : b \in Batches
OutTypes == handed \in [Events -> Nat] /\ lost \in SUBSET Events
TypeInv ==
  /\ FlagTypes /\ CountTypes /\ SizeTypes /\ CurrentTypes /\ BufferTypes
  /\ FailedTypes /\ PostTypes /\ CancelTypes /\ OutTypes

-----------------------------------------------------------------------------
(* Sequences of events. *)

(* The elements of an item with one more event. *)
LEMMA AppendRange ==
  ASSUME NEW S, NEW q \in Seq(S), NEW x \in S
  PROVE  /\ Append(q, x) \in Seq(S) /\ Len(Append(q, x)) = Len(q) + 1
         /\ DOMAIN Append(q, x) = DOMAIN q \cup {Len(q) + 1}
         /\ \A i \in DOMAIN q : Append(q, x)[i] = q[i]
         /\ Append(q, x)[Len(q) + 1] = x
         /\ Range(Append(q, x)) = Range(q) \cup {x}
<1> DEFINE r == Append(q, x)
<1>1. /\ r \in Seq(S) /\ Len(q) \in Nat /\ Len(r) = Len(q) + 1 /\ DOMAIN q = 1..Len(q) /\ DOMAIN r = 1..Len(r)
      /\ \A i \in 1..Len(q) : r[i] = q[i]
      /\ r[Len(q) + 1] = x
  OBVIOUS
<1> HIDE DEF r
<1>2. DOMAIN r = DOMAIN q \cup {Len(q) + 1}  BY <1>1
<1>3. Range(r) = Range(q) \cup {x}  BY <1>1, <1>2 DEF Range
<1> QED  BY <1>1, <1>2, <1>3 DEF r

(* An event of batches is one of an ingestion event in them.                 *)
LEMMA InRange ==
  ASSUME NEW items, NEW e
  PROVE  e \in In(items) <=> \E i \in DOMAIN items : e \in Range(items[i])
BY DEF In

(* The events of batches are events. *)
LEMMA InEvents ==
  ASSUME NEW b \in Batches PROVE In(b) \subseteq Events /\ \A i \in DOMAIN b : b[i] \in Items
<1>1. \A i \in DOMAIN b : b[i] \in Items  BY DEF Batches, Items
<1>2. \A i \in DOMAIN b : Range(b[i]) \subseteq Events  BY <1>1 DEF Items, Range
<1> QED  BY <1>1, <1>2 DEF In

(* The elements of an ingestion event are events.                            *)
LEMMA ItemEvents == ASSUME NEW i \in Items PROVE Range(i) \subseteq Events
BY DEF Items, Range

(* A batch is the front of the buffer, and the rest what follows it. *)
LEMMA BatchAndRest ==
  ASSUME BufferTypes, ConfigurationAssumption
  PROVE  \E n \in Nat :
           /\ n <= Len(buffer) /\ Batch \in Batches /\ Rest \in Batches
           /\ Len(Batch) = n /\ Len(Rest) = Len(buffer) - n /\ Len(buffer) \in Nat
           /\ \A i \in 1..n : Batch[i] = buffer[i]
           /\ \A i \in 1..(Len(buffer) - n) : Rest[i] = buffer[i + n]
<1> DEFINE n == IF Len(buffer) < flushSize + 1 THEN Len(buffer) ELSE flushSize + 1
<1>1. buffer \in Batches /\ Len(buffer) \in Nat /\ flushSize \in Nat
  BY DEF BufferTypes, Batches, ConfigurationAssumption
<1>2. n \in Nat /\ n <= Len(buffer)  BY <1>1
<1>3. Batch = SubSeq(buffer, 1, n)  BY DEF Batch
<1> HIDE DEF n
<1>4. Batch \in Batches /\ Len(Batch) = n /\ \A i \in 1..n : Batch[i] = buffer[i]
  BY <1>1, <1>2, <1>3 DEF Batches
<1>5. Rest = SubSeq(buffer, n + 1, Len(buffer))  BY <1>4 DEF Rest
<1>6. /\ Rest \in Batches /\ Len(Rest) = Len(buffer) - n
      /\ \A i \in 1..(Len(buffer) - n) : Rest[i] = buffer[i + n]
  <2> DEFINE S == Seq(Events)
  <2>1. buffer \in Seq(S) /\ Len(buffer) \in Nat  BY <1>1 DEF Batches
  <2> HIDE DEF S
  <2>2. /\ SubSeq(buffer, n + 1, Len(buffer)) \in Seq(S)
        /\ Len(SubSeq(buffer, n + 1, Len(buffer))) = Len(buffer) - n
        /\ \A i \in 1..(Len(buffer) - n) :
             SubSeq(buffer, n + 1, Len(buffer))[i] = buffer[i + n]
    BY ONLY <2>1, <1>2, SMTT(60)
  <2> QED  BY <1>5, <2>2 DEF S, Batches
<1> QED  BY <1>1, <1>2, <1>4, <1>6

-----------------------------------------------------------------------------
(* The types, step by step. *)
LEMMA ConfigFacts ==
  ASSUME ConfigurationAssumption
  PROVE  /\ totalBufferItems \in Nat \ {0} /\ retryCountLimit \in Nat \ {0} /\ MaxEvents \in Nat
         /\ HeadSize \in Nat /\ Sizes \subseteq Nat
BY DEF ConfigurationAssumption

(* The initial values are of the types.                                      *)
LEMMA TypeInit == ASSUME ConfigurationAssumption, BufferInit PROVE TypeInv
<1>1. FlagTypes /\ CountTypes /\ SizeTypes
  <2>1. FlagTypes  BY DEF BufferInit, FlagTypes
  <2>2. CountTypes  BY ConfigFacts DEF BufferInit, CountTypes
  <2>3. SizeTypes  BY ConfigFacts DEF BufferInit, SizeTypes
  <2> QED  BY <2>1, <2>2, <2>3
<1>2. CurrentTypes /\ BufferTypes
  <2>1. currentIngestionEvent = <<>> /\ buffer = <<>>  BY DEF BufferInit
  <2>2. currentIngestionEvent \in Seq(Events) /\ Len(currentIngestionEvent) = 0  BY <2>1
  <2>3. buffer \in Seq(Seq(Events)) /\ Len(buffer) = 0 /\ DOMAIN buffer = {}  BY <2>1
  <2>4. totalBufferItems \in Nat  BY DEF ConfigurationAssumption
  <2> QED  BY <2>2, <2>3, <2>4 DEF CurrentTypes, BufferTypes, Items, Batches, MAX_PAYLOAD_ITEMS
<1>3. FailedTypes /\ PostTypes /\ CancelTypes  BY DEF BufferInit, FailedTypes, PostTypes, CancelTypes
<1>4. OutTypes  BY DEF BufferInit, OutTypes
<1> QED  BY <1>1, <1>2, <1>3, <1>4 DEF TypeInv

(* What is handed over or lost are events. *)
LEMMA HandOverTypes ==
  ASSUME OutTypes, NEW S, S \subseteq Events,
         \/ HandOver(S) /\ UNCHANGED lost
         \/ lost' = lost \cup S /\ UNCHANGED handed
  PROVE  OutTypes'
BY DEF OutTypes, HandOver

(* A beacon takes what is current, buffered, put aside, or may be canceled.   *)
LEMMA BeaconedWhere ==
  ASSUME NEW e
  PROVE  e \in Beaconed <=>
           \/ e \in In(buffer) \/ e \in Range(currentIngestionEvent)
           \/ (\E i \in failedIngestionEvents : e \in Range(i))
           \/ (\E b \in cancellableEvents : e \in In(b))
<1>1. e \in UNION {Range(i) : i \in failedIngestionEvents}
        <=> \E i \in failedIngestionEvents : e \in Range(i)
  OBVIOUS
<1>2. e \in UNION {In(b) : b \in cancellableEvents} <=> \E b \in cancellableEvents : e \in In(b)
  OBVIOUS
<1> QED  BY <1>1, <1>2, Zenon DEF Beaconed

(* A beacon carries events.                                                  *)
LEMMA BeaconedEvents == ASSUME TypeInv PROVE Beaconed \subseteq Events
<1>1. In(buffer) \subseteq Events  BY InEvents DEF TypeInv, BufferTypes
<1>2. Range(currentIngestionEvent) \subseteq Events  BY ItemEvents DEF TypeInv, CurrentTypes
<1>3. \A i \in failedIngestionEvents : Range(i) \subseteq Events
  BY ItemEvents DEF TypeInv, FailedTypes
<1>4. \A b \in cancellableEvents : In(b) \subseteq Events  BY InEvents DEF TypeInv, CancelTypes
<1> QED  BY <1>1, <1>2, <1>3, <1>4, BeaconedWhere

(* A beacon empties what it takes.                                           *)
LEMMA BeaconTypes ==
  ASSUME ConfigurationAssumption, TypeInv, SendBeacon
  PROVE  CurrentTypes' /\ BufferTypes' /\ FailedTypes' /\ CancelTypes' /\ OutTypes'
<1>1. currentIngestionEvent' = <<>> /\ buffer' = <<>>  BY DEF SendBeacon
<1>2. currentIngestionEvent' \in Items /\ Len(currentIngestionEvent') = 0  BY <1>1 DEF Items
<1>3. buffer' \in Batches /\ Len(buffer') = 0 /\ DOMAIN buffer' = {}  BY <1>1 DEF Batches
<1>4. totalBufferItems \in Nat  BY DEF ConfigurationAssumption
<1>5. CurrentTypes' /\ BufferTypes'
  BY <1>2, <1>3, <1>4 DEF CurrentTypes, BufferTypes, MAX_PAYLOAD_ITEMS
<1>6. FailedTypes' /\ CancelTypes'  BY DEF SendBeacon, ClearFailed, FailedTypes, CancelTypes
<1>7. OutTypes'  BY BeaconedEvents, HandOverTypes DEF TypeInv, SendBeacon
<1> QED  BY <1>5, <1>6, <1>7

(* An event goes to the current ingestion event, or that to the buffer.      *)
LEMMA AddItemTypes ==
  ASSUME ConfigurationAssumption, TypeInv, NEW size \in Sizes, accepted < MaxEvents, AddItem(size)
  PROVE  CountTypes' /\ SizeTypes' /\ CurrentTypes' /\ BufferTypes'
<1> DEFINE payloads == Append(currentIngestionEvent, accepted + 1)
           total == ingestionEventSize + size
           full == bufferItemThresholdReached(size, total, payloads)
<1>1. accepted + 1 \in Events /\ accepted' = accepted + 1 /\ MaxEvents \in Nat
  BY DEF TypeInv, CountTypes, AddItem, Events, ConfigurationAssumption
<1>2. CountTypes'  BY <1>1 DEF TypeInv, CountTypes
<1>3. total \in Nat /\ bufferSize \in Nat /\ HeadSize \in Nat
  BY ConfigFacts DEF TypeInv, SizeTypes
<1>4. /\ payloads \in Items /\ Len(payloads) \in Nat /\ Len(payloads) > 0
      /\ Len(payloads) <= MAX_PAYLOAD_ITEMS
  <2>1. currentIngestionEvent \in Seq(Events) /\ Len(currentIngestionEvent) \in Nat
        /\ Len(currentIngestionEvent) < 2
    BY DEF TypeInv, CurrentTypes, Items, MAX_PAYLOAD_ITEMS
  <2>2. payloads \in Seq(Events) /\ Len(payloads) = Len(currentIngestionEvent) + 1
    BY <1>1, <2>1, AppendRange
  <2> QED  BY <2>1, <2>2 DEF Items, MAX_PAYLOAD_ITEMS
<1>5. \/ /\ full /\ buffer' = Append(buffer, payloads) /\ bufferSize' = bufferSize + total
         /\ currentIngestionEvent' = <<>> /\ ingestionEventSize' = HeadSize
      \/ /\ ~full /\ currentIngestionEvent' = payloads /\ ingestionEventSize' = total
         /\ UNCHANGED <<buffer, bufferSize>>
  BY DEF AddItem
<1>6. ~full => Len(payloads) # MAX_PAYLOAD_ITEMS  BY DEF bufferItemThresholdReached
<1>7. Len(buffer) # totalBufferItems  BY DEF AddItem, isFull
<1> HIDE DEF payloads, total, full
<1>8. SizeTypes'  BY <1>3, <1>5 DEF TypeInv, SizeTypes
<1>9. CASE full
  <2>1. currentIngestionEvent' \in Items /\ Len(currentIngestionEvent') = 0  BY <1>5, <1>9 DEF Items
  <2>2. CurrentTypes'  BY <2>1 DEF CurrentTypes, MAX_PAYLOAD_ITEMS
  <2>3. /\ buffer \in Seq(Items) /\ Len(buffer) <= totalBufferItems /\ totalBufferItems \in Nat /\ Len(buffer) \in Nat
        /\ \A i \in DOMAIN buffer : Len(buffer[i]) \in 1..MAX_PAYLOAD_ITEMS
    BY ConfigFacts DEF TypeInv, BufferTypes, Batches, Items
  <2>4. /\ buffer' \in Seq(Items) /\ Len(buffer') = Len(buffer) + 1
        /\ DOMAIN buffer' = DOMAIN buffer \cup {Len(buffer) + 1}
        /\ \A i \in DOMAIN buffer : buffer'[i] = buffer[i]
        /\ buffer'[Len(buffer) + 1] = payloads
    <3>1. buffer' = Append(buffer, payloads)  BY <1>5, <1>9
    <3>2. payloads \in Items /\ buffer \in Seq(Items)  BY <1>4, <2>3
    <3> QED  BY ONLY <3>1, <3>2, AppendRange
  <2>5. Len(buffer') <= totalBufferItems  BY <1>7, <2>3, <2>4
  <2>0. MAX_PAYLOAD_ITEMS \in Nat  BY DEF MAX_PAYLOAD_ITEMS
  <2>6. Len(payloads) \in 1..MAX_PAYLOAD_ITEMS  BY <1>4, <2>0
  <2>7. \A i \in DOMAIN buffer' : Len(buffer'[i]) \in 1..MAX_PAYLOAD_ITEMS  BY <2>3, <2>4, <2>6
  <2> QED  BY <1>2, <1>8, <2>2, <2>4, <2>5, <2>7 DEF BufferTypes, Batches, Items
<1>10. CASE ~full
  <2>0. MAX_PAYLOAD_ITEMS \in Nat  BY DEF MAX_PAYLOAD_ITEMS
  <2>1. currentIngestionEvent' \in Items /\ Len(currentIngestionEvent') < MAX_PAYLOAD_ITEMS
    BY <1>4, <1>5, <1>6, <1>10, <2>0
  <2>2. BufferTypes'  BY <1>5, <1>10 DEF TypeInv, BufferTypes
  <2> QED  BY <1>2, <1>8, <2>1, <2>2 DEF CurrentTypes
<1> QED  BY <1>9, <1>10

(* A request that ends leaves requests and batches of the same types. *)
LEMMA FinishTypes ==
  ASSUME PostTypes, CancelTypes, FlagTypes, NEW p \in posts, NEW ok, Finish(p, ok)
  PROVE  PostTypes' /\ CancelTypes' /\ lock' \in BOOLEAN
<1>1. posts' \subseteq posts /\ cancellableEvents' \subseteq cancellableEvents /\ lock' \in {lock, FALSE}
  BY DEF Finish, Release
<1> QED  BY <1>1 DEF PostTypes, CancelTypes, FlagTypes

(* What is put aside are ingestion events.                                   *)
LEMMA PutAsideTypes ==
  ASSUME FailedTypes, PostTypes, NEW p \in posts, PutAside(p) PROVE FailedTypes'
<1>1. \A i \in Range(p.events) : i \in Items
  <2>1. p.events \in Seq(Items)  BY DEF PostTypes, Requests, Batches, Items
  <2> QED  BY <2>1 DEF Range
<1> QED  BY <1>1 DEF PutAside, FailedTypes

(* An answer ends a request or counts one more try.                          *)
LEMMA AnswerTypes ==
  ASSUME TypeInv, NEW p \in posts, PostSucceeds(p) \/ PostFails(p) \/ PostThrows(p) \/ PostRetried(p)
  PROVE  PostTypes' /\ CancelTypes' /\ FailedTypes' /\ OutTypes' /\ lock' \in BOOLEAN
<1>1. PostTypes /\ CancelTypes /\ FailedTypes /\ OutTypes /\ FlagTypes  BY DEF TypeInv
<1>2. In(p.events) \subseteq Events  BY <1>1, InEvents DEF PostTypes, Requests
<1>3. ASSUME NEW ok, Finish(p, ok),
             \/ HandOver(In(p.events)) /\ UNCHANGED <<failedIngestionEvents, lost>>
             \/ PutAside(p) /\ UNCHANGED outcomeVars
      PROVE  PostTypes' /\ CancelTypes' /\ FailedTypes' /\ OutTypes' /\ lock' \in BOOLEAN
  <2>1. PostTypes' /\ CancelTypes' /\ lock' \in BOOLEAN  BY <1>1, <1>3, FinishTypes
  <2>2. CASE HandOver(In(p.events)) /\ UNCHANGED <<failedIngestionEvents, lost>>
    <3>1. OutTypes'  BY <1>1, <1>2, <2>2, HandOverTypes
    <3> QED  BY <1>1, <2>1, <2>2, <3>1 DEF FailedTypes
  <2>3. CASE PutAside(p) /\ UNCHANGED outcomeVars
    <3>1. FailedTypes'  BY <1>1, <2>3, PutAsideTypes
    <3> QED  BY <1>1, <2>1, <2>3, <3>1 DEF OutTypes, outcomeVars
  <2> QED  BY <1>3, <2>2, <2>3
<1>4. CASE PostSucceeds(p)  BY <1>3, <1>4 DEF PostSucceeds
<1>5. CASE PostFails(p)  BY <1>3, <1>5 DEF PostFails
<1>6. CASE PostThrows(p)  BY <1>3, <1>5, <1>6 DEF PostThrows, PostFails
<1>7. CASE PostRetried(p)
  <2>1. CASE ~(p.retryCount + 1 < retryCountLimit)  BY <1>6, <1>7, <2>1 DEF PostRetried
  <2>2. CASE p.retryCount + 1 < retryCountLimit
    <3> DEFINE r == [p EXCEPT !.retryCount = @ + 1]
    <3>1. posts' = (posts \ {p}) \cup {r}  BY <1>7, <2>2 DEF PostRetried
    <3>2. r \in Requests /\ r.retryCount = p.retryCount + 1  BY <1>1 DEF PostTypes, Requests
    <3> HIDE DEF r
    <3>3. PostTypes'  BY <1>1, <2>2, <3>1, <3>2 DEF PostTypes
    <3>4. UNCHANGED <<lock, cancellableEvents, failedIngestionEvents, outcomeVars>>
      BY <1>7, <2>2 DEF PostRetried
    <3>5. CancelTypes' /\ FailedTypes'  BY <1>1, <3>4 DEF CancelTypes, FailedTypes
    <3>6. OutTypes' /\ lock' \in BOOLEAN  BY <1>1, <3>4 DEF OutTypes, outcomeVars, FlagTypes
    <3> QED  BY <3>3, <3>5, <3>6
  <2> QED  BY <2>1, <2>2
<1> QED  BY <1>4, <1>5, <1>6, <1>7

(* A request that is new is one. *)
LEMMA NewPostTypes ==
  ASSUME ConfigurationAssumption, PostTypes, NEW b \in Batches, NEW i \in BOOLEAN,
         posts' = posts \cup {Post(b, i)}
  PROVE  PostTypes'
<1>1. Post(b, i) \in Requests /\ Post(b, i).retryCount < retryCountLimit
  BY ConfigFacts DEF Post, Requests
<1> QED  BY <1>1 DEF PostTypes

(* The next event has a number within the bound.                             *)
LEMMA ReportTypes == ASSUME ConfigurationAssumption, TypeInv, ReportEvent PROVE TypeInv'
<1>1. /\ UNCHANGED <<reporting, destroyed, failedIngestionEvents, lock, cancellableEvents, handed, lost>>
      /\ accepted < MaxEvents
  BY DEF ReportEvent, reporterVars, outcomeVars
<1>2. FlagTypes' /\ FailedTypes' /\ CancelTypes' /\ OutTypes'
  BY <1>1 DEF TypeInv, FlagTypes, FailedTypes, CancelTypes, OutTypes
<1>3. CASE SendEventImmediately
  <2>1. UNCHANGED <<buffer, bufferSize, currentIngestionEvent, ingestionEventSize>>
    BY <1>3 DEF SendEventImmediately, currentVars
  <2>2. CurrentTypes' /\ BufferTypes' /\ SizeTypes'
    BY <2>1 DEF TypeInv, CurrentTypes, BufferTypes, SizeTypes
  <2>3. CountTypes'  BY <1>1, <1>3, ConfigFacts DEF TypeInv, CountTypes, SendEventImmediately
  <2>4. <<<<accepted + 1>>>> \in Batches
    BY <1>1, ConfigFacts DEF TypeInv, CountTypes, Batches, Events
  <2>5. PostTypes'  BY <1>3, <2>4, NewPostTypes DEF TypeInv, SendEventImmediately
  <2> QED  BY <1>2, <2>2, <2>3, <2>5 DEF TypeInv
<1>4. ASSUME NEW size \in Sizes, AddItem(size) PROVE TypeInv'
  <2>1. CountTypes' /\ SizeTypes' /\ CurrentTypes' /\ BufferTypes'  BY <1>1, <1>4, AddItemTypes
  <2>2. PostTypes'  BY <1>4 DEF TypeInv, PostTypes, AddItem
  <2> QED  BY <1>2, <2>1, <2>2 DEF TypeInv
<1> QED  BY <1>3, <1>4 DEF ReportEvent

(* What is sent and what remains are batches.                                *)
LEMMA SendTypes == ASSUME ConfigurationAssumption, TypeInv, SendEvents PROVE TypeInv'
<1>1. /\ UNCHANGED <<reporting, destroyed, accepted, currentIngestionEvent, ingestionEventSize, bufferSize>>
      /\ UNCHANGED <<failedIngestionEvents, handed, lost>> /\ lock' = TRUE /\ buffer' = Rest
      /\ posts' = posts \cup {Post(Batch, FALSE)} /\ cancellableEvents' \subseteq cancellableEvents \cup {Batch}
  BY DEF SendEvents, reporterVars, currentVars, outcomeVars
<1>2. FlagTypes' /\ CountTypes' /\ SizeTypes' /\ CurrentTypes' /\ FailedTypes' /\ OutTypes'
  BY <1>1 DEF TypeInv, FlagTypes, CountTypes, SizeTypes, CurrentTypes, FailedTypes, OutTypes
<1>3. BufferTypes  BY DEF TypeInv
<1>4. PICK n \in Nat :
        /\ n <= Len(buffer) /\ Batch \in Batches /\ Rest \in Batches
        /\ Len(Rest) = Len(buffer) - n /\ Len(buffer) \in Nat
        /\ \A i \in 1..(Len(buffer) - n) : Rest[i] = buffer[i + n]
  BY <1>3, BatchAndRest
<1>5. BufferTypes'
  <2>1. DOMAIN Rest = 1..(Len(buffer) - n) /\ DOMAIN buffer = 1..Len(buffer)
    BY <1>3, <1>4 DEF Batches, BufferTypes
  <2>2. ASSUME NEW i \in DOMAIN Rest PROVE Len(Rest[i]) \in 1..MAX_PAYLOAD_ITEMS
    <3>1. i + n \in DOMAIN buffer /\ Rest[i] = buffer[i + n]  BY <1>4, <2>1
    <3> QED  BY <1>3, <3>1 DEF BufferTypes
  <2>3. Len(Rest) <= totalBufferItems  BY <1>3, <1>4, ConfigFacts DEF BufferTypes
  <2> QED  BY <1>1, <1>4, <2>2, <2>3 DEF BufferTypes
<1>6. PostTypes'  BY <1>1, <1>4, NewPostTypes DEF TypeInv
<1>7. CancelTypes'  BY <1>1, <1>4 DEF TypeInv, CancelTypes
<1> QED  BY <1>2, <1>5, <1>6, <1>7 DEF TypeInv

(* Every step keeps the types.                                               *)
LEMMA TypeStep == ASSUME ConfigurationAssumption, TypeInv, [BufferNext]_bufferVars PROVE TypeInv'
<1>1. CASE ReportEvent  BY <1>1, ReportTypes
<1>2. CASE SendEvents  BY <1>2, SendTypes
<1>3. CASE PostAnswered
  <2>1. PICK p \in posts : PostSucceeds(p) \/ PostFails(p) \/ PostThrows(p) \/ PostRetried(p)
    BY <1>3 DEF PostAnswered
  <2>2. PostTypes' /\ CancelTypes' /\ FailedTypes' /\ OutTypes' /\ lock' \in BOOLEAN
    BY <2>1, AnswerTypes
  <2>3. UNCHANGED <<reporting, destroyed, accepted, currentIngestionEvent, ingestionEventSize, buffer, bufferSize>>
    BY <1>3 DEF PostAnswered, reporterVars, currentVars
  <2>4. FlagTypes' /\ CountTypes' /\ SizeTypes' /\ CurrentTypes' /\ BufferTypes'
    BY <2>2, <2>3 DEF TypeInv, FlagTypes, CountTypes, SizeTypes, CurrentTypes, BufferTypes
  <2> QED  BY <2>2, <2>4 DEF TypeInv
<1>4. CASE PageHidden \/ Stop \/ Destroy
  <2>1. SendBeacon  BY <1>4 DEF PageHidden, Stop, Destroy
  <2>2. CurrentTypes' /\ BufferTypes' /\ FailedTypes' /\ CancelTypes' /\ OutTypes'
    BY <2>1, BeaconTypes
  <2>3. /\ posts' = posts /\ accepted' = accepted /\ reporting' \in {reporting, FALSE}
        /\ destroyed' \in {destroyed, TRUE} /\ lock' \in {lock, FALSE}
        /\ bufferSize' \in {bufferSize, 0} /\ ingestionEventSize' \in {HeadSize, 0}
    BY <1>4 DEF PageHidden, Stop, Destroy, reporterVars
  <2>4. FlagTypes' /\ CountTypes'  BY <2>3 DEF TypeInv, FlagTypes, CountTypes
  <2>5. SizeTypes' /\ PostTypes'  BY <2>3, ConfigFacts DEF TypeInv, SizeTypes, PostTypes
  <2> QED  BY <2>2, <2>4, <2>5 DEF TypeInv
<1>5. CASE Start \/ UNCHANGED bufferVars
  <2>1. /\ UNCHANGED <<destroyed, accepted, currentIngestionEvent, ingestionEventSize, buffer, bufferSize>>
        /\ UNCHANGED <<failedIngestionEvents, lock, posts, cancellableEvents, handed, lost>>
        /\ reporting' \in {reporting, TRUE}
    BY <1>5 DEF Start, bufferVars, reporterVars, currentVars, outcomeVars
  <2>2. FlagTypes' /\ CountTypes' /\ SizeTypes' /\ CurrentTypes' /\ BufferTypes'
    BY <2>1 DEF TypeInv, FlagTypes, CountTypes, SizeTypes, CurrentTypes, BufferTypes
  <2>3. FailedTypes' /\ PostTypes' /\ CancelTypes' /\ OutTypes'
    BY <2>1 DEF TypeInv, FailedTypes, PostTypes, CancelTypes, OutTypes
  <2> QED  BY <2>2, <2>3 DEF TypeInv
<1> QED  BY <1>1, <1>2, <1>3, <1>4, <1>5 DEF BufferNext

(* The reporter and the buffer keep their types: an ingestion event is sent   *)
(* on when it has two payloads, the buffer never exceeds its capacity, and no *)
(* request is retried more often than allowed.                                *)
THEOREM BufferTypeCorrect == BufferSpec => []BufferTypeOK
<1>1. BufferInit => TypeInv  BY ConfigurationAssumption, TypeInit
<1>2. TypeInv /\ [BufferNext]_bufferVars => TypeInv'  BY ConfigurationAssumption, TypeStep
<1>3. TypeInv => BufferTypeOK
  <2> SUFFICES ASSUME TypeInv PROVE BufferTypeOK  OBVIOUS
  <2>1. {reporting, destroyed, lock} \subseteq BOOLEAN  BY DEF TypeInv, FlagTypes
  <2>2. accepted \in 0..MaxEvents  BY ConfigurationAssumption, ConfigFacts DEF TypeInv, CountTypes
  <2>3. \A p \in posts : p.events \in Seq(Seq(Events)) /\ p.retryCount < retryCountLimit
    BY DEF TypeInv, PostTypes, Requests, Batches
  <2> QED
    BY <2>1, <2>2, <2>3
    DEF TypeInv, SizeTypes, CurrentTypes, BufferTypes, FailedTypes, OutTypes, Items, Batches, BufferTypeOK
<1> QED  BY <1>1, <1>2, <1>3, PTL DEF BufferSpec

-----------------------------------------------------------------------------
(* Where an event is before the client is done with it.                       *)
Current(e) == e \in Range(currentIngestionEvent)
Buffered(e) == \E i \in DOMAIN buffer : e \in Range(buffer[i])
Aside(e) == \E i \in failedIngestionEvents : e \in Range(i)
Posted(e) == \E p \in posts : e \in In(p.events)
Live(e) == Current(e) \/ Buffered(e) \/ Aside(e) \/ Posted(e)
Done(e) == handed[e] + (IF e \in lost THEN 1 ELSE 0)

(* It is there once. *)
Once(items) == \A i, j \in DOMAIN items : \A e \in Range(items[i]) : e \in Range(items[j]) => i = j

CurrentOnce ==
  \A i, j \in DOMAIN currentIngestionEvent :
    currentIngestionEvent[i] = currentIngestionEvent[j] => i = j
AsideOnce == \A i, j \in failedIngestionEvents : \A e \in Range(i) : e \in Range(j) => i = j
PostedOnce ==
  /\ \A p \in posts : Once(p.events)
  /\ \A p, q \in posts : \A e \in In(p.events) : e \in In(q.events) => p = q
OnePlace ==
  \A e \in Events :
    /\ Current(e) => ~Buffered(e) /\ ~Aside(e) /\ ~Posted(e)
    /\ Buffered(e) => ~Aside(e) /\ ~Posted(e)
    /\ Aside(e) => ~Posted(e)
PlaceInv == CurrentOnce /\ Once(buffer) /\ AsideOnce /\ PostedOnce /\ OnePlace

(* Until the client is done with an event it has it; Firefox may be done with *)
(* an event it still has.                                                    *)
CountOf(e) ==
  /\ e > accepted => ~Live(e) /\ Done(e) = 0
  /\ e <= accepted =>
       IF browser = "firefox" THEN IF Live(e) THEN Done(e) <= 1 ELSE Done(e) \in 1..2
       ELSE Done(e) = IF Live(e) THEN 0 ELSE 1
CountInv == \A e \in Events : CountOf(e)

(* What has not left the buffer has not been given to the service. *)
FreshInv == \A e \in Events : Current(e) \/ Buffered(e) => Done(e) = 0

(* A batch Firefox may cancel is being posted, and not done with. *)
CancelableInv ==
  \A b \in cancellableEvents :
    /\ browser = "firefox"
    /\ \E p \in posts : ~p.important /\ p.events = b
    /\ \A e \in In(b) : Done(e) = 0

(* One batch is posted at a time, and events are kept in their order. *)
LockInv ==
  ~destroyed => \A p \in posts : ~p.important => lock /\ \A q \in posts : ~q.important => q = p
Sorted(items) ==
  \A i \in DOMAIN items :
    Increasing(items[i]) /\ \A j \in DOMAIN items : i < j => Before(items[i], items[j])
AllBefore(items, item) == \A i \in DOMAIN items : Before(items[i], item)
StoppedInv == destroyed => ~reporting /\ buffer = <<>> /\ currentIngestionEvent = <<>>
QueueInv ==
  Sorted(buffer) /\ Increasing(currentIngestionEvent) /\ AllBefore(buffer, currentIngestionEvent)
PostsInv ==
  \A p \in posts : ~p.important =>
    /\ Sorted(p.events)
    /\ AllBefore(p.events, currentIngestionEvent)
    /\ \A i \in DOMAIN buffer : AllBefore(p.events, buffer[i])
OrderInv == StoppedInv /\ QueueInv /\ PostsInv

(* An event is done with no less often than the service was given it. *)
LEMMA DoneNat ==
  ASSUME OutTypes, NEW e \in Events
  PROVE  Done(e) \in Nat /\ (e \in lost => Done(e) >= 1) /\ Done(e) = handed[e] + (IF e \in lost THEN 1 ELSE 0)
BY DEF OutTypes, Done

(* Elements that are found at one place of at most are counted once. *)
LEMMA OneOrNone ==
  ASSUME NEW S, \A x, y \in S : x = y
  PROVE  Cardinality(S) = IF S = {} THEN 0 ELSE 1
<1>1. CASE S = {}  BY <1>1, FS_EmptySet
<1>2. CASE S # {}
  <2>1. PICK x : S = {x}  BY <1>2
  <2> QED  BY <2>1, FS_Singleton
<1> QED  BY <1>1, <1>2

(* An event is as often in its places as it is live: once or never. *)
LEMMA PlacesOf ==
  ASSUME PlaceInv, NEW e \in Events
  PROVE  Places(e) = IF Live(e) THEN 1 ELSE 0
<1> DEFINE A == {i \in DOMAIN currentIngestionEvent : currentIngestionEvent[i] = e}
           B == {i \in DOMAIN buffer : e \in Range(buffer[i])}
           C == {i \in failedIngestionEvents : e \in Range(i)}
           D == {p \in posts : e \in In(p.events)}
<1>1. Cardinality(A) = IF Current(e) THEN 1 ELSE 0
  <2>1. \A x, y \in A : x = y  BY DEF PlaceInv, CurrentOnce
  <2>2. (A = {}) <=> ~Current(e)  BY DEF Current, Range
  <2> HIDE DEF A
  <2> QED  BY <2>1, <2>2, OneOrNone
<1>2. Cardinality(B) = IF Buffered(e) THEN 1 ELSE 0
  <2>1. \A x, y \in B : x = y  BY DEF PlaceInv, Once
  <2>2. (B = {}) <=> ~Buffered(e)  BY DEF Buffered
  <2> HIDE DEF B
  <2> QED  BY <2>1, <2>2, OneOrNone
<1>3. Cardinality(C) = IF Aside(e) THEN 1 ELSE 0
  <2>1. \A x, y \in C : x = y  BY DEF PlaceInv, AsideOnce
  <2>2. (C = {}) <=> ~Aside(e)  BY DEF Aside
  <2> HIDE DEF C
  <2> QED  BY <2>1, <2>2, OneOrNone
<1>4. Cardinality(D) = IF Posted(e) THEN 1 ELSE 0
  <2>1. \A x, y \in D : x = y  BY DEF PlaceInv, PostedOnce
  <2>2. (D = {}) <=> ~Posted(e)  BY DEF Posted
  <2> HIDE DEF D
  <2> QED  BY <2>1, <2>2, OneOrNone
<1>5. Places(e) = Cardinality(A) + Cardinality(B) + Cardinality(C) + Cardinality(D)  BY DEF Places
<1> HIDE DEF A, B, C, D
<1>6. /\ Current(e) => ~Buffered(e) /\ ~Aside(e) /\ ~Posted(e)
      /\ Buffered(e) => ~Aside(e) /\ ~Posted(e)
      /\ Aside(e) => ~Posted(e)
  BY DEF PlaceInv, OnePlace
<1>7. Live(e) <=> Current(e) \/ Buffered(e) \/ Aside(e) \/ Posted(e)  BY DEF Live
<1> QED  BY <1>1, <1>2, <1>3, <1>4, <1>5, <1>6, <1>7

(* What the client is done with stays so while it hands nothing over. *)
LEMMA SameDone == ASSUME UNCHANGED <<handed, lost>>, NEW e PROVE Done(e)' = Done(e)
BY DEF Done

(* An event is buffered when it is in the buffer.                            *)
LEMMA BufferedIn == ASSUME NEW e PROVE Buffered(e) <=> e \in In(buffer)
BY InRange DEF Buffered

(* The event that is reported next is nowhere yet. *)
LEMMA NextIsNew ==
  ASSUME ConfigurationAssumption, TypeInv, CountInv, accepted < MaxEvents, NEW a, a = accepted + 1
  PROVE  a \in Events /\ ~Current(a) /\ ~Buffered(a) /\ ~Aside(a) /\ ~Posted(a) /\ Done(a) = 0
<1>1. a \in Events /\ a > accepted  BY ConfigFacts DEF TypeInv, CountTypes, Events
<1> QED  BY <1>1 DEF CountInv, CountOf, Live

(* One more event is somewhere. *)
LEMMA OneMore ==
  ASSUME TypeInv, CountInv, NEW a \in Events, a = accepted + 1, accepted' = a, browser' = browser,
         \A e \in Events : (Live(e)' <=> Live(e) \/ e = a) /\ Done(e)' = Done(e)
  PROVE  CountInv'
<1> SUFFICES ASSUME NEW e \in Events PROVE CountOf(e)'  BY DEF CountInv
<1>1. accepted \in Nat /\ a \in Nat /\ e \in Nat  BY DEF TypeInv, CountTypes, Events
<1>2. CASE e = a
  <2>1. Live(e)' /\ Done(e)' = 0  BY <1>1, <1>2 DEF CountInv, CountOf
  <2> QED  BY <1>1, <1>2, <2>1 DEF CountOf
<1>3. CASE e # a
  <2>1. (Live(e)' <=> Live(e)) /\ Done(e)' = Done(e) /\ (e > a <=> e > accepted) /\ (e <= a <=> e <= accepted)
    BY <1>1, <1>3
  <2> QED  BY <1>1, <2>1 DEF CountInv, CountOf
<1> QED  BY <1>2, <1>3

(* What may be canceled stays so while its request and its counts do. *)
LEMMA CancelKept ==
  ASSUME CancelableInv, cancellableEvents' \subseteq cancellableEvents, browser' = browser,
         \A b \in cancellableEvents' : \E p \in posts' : ~p.important /\ p.events = b,
         \A b \in cancellableEvents' : \A e \in In(b) : Done(e)' = Done(e)
  PROVE  CancelableInv'
BY DEF CancelableInv

(* A reported event gets one place, which no other event had.                *)
LEMMA ReportPlaces ==
  ASSUME ConfigurationAssumption, TypeInv, PlaceInv, CountInv, FreshInv, CancelableInv, ReportEvent
  PROVE  PlaceInv' /\ CountInv' /\ FreshInv' /\ CancelableInv'
<1> DEFINE a == accepted + 1
<1>1. /\ UNCHANGED <<failedIngestionEvents, cancellableEvents, handed, lost, browser>>
      /\ accepted < MaxEvents /\ accepted' = a
  BY DEF ReportEvent, outcomeVars, SendEventImmediately, AddItem
<1>2. a \in Events /\ ~Current(a) /\ ~Buffered(a) /\ ~Aside(a) /\ ~Posted(a) /\ Done(a) = 0
  BY <1>1, NextIsNew
<1>3. \A e : (Aside(e)' <=> Aside(e)) /\ Done(e)' = Done(e)  BY <1>1, SameDone DEF Aside
<1>4. AsideOnce'  BY <1>1 DEF PlaceInv, AsideOnce
<1>5. CancelableInv'
  <2>1. posts \subseteq posts'  BY DEF ReportEvent, SendEventImmediately, AddItem
  <2> QED  BY <1>1, <1>3, <2>1, CancelKept DEF CancelableInv
<1>6. CASE SendEventImmediately
  <2> DEFINE q == Post(<<<<a>>>>, TRUE)
  <2>1. posts' = posts \cup {q} /\ UNCHANGED <<buffer, currentIngestionEvent>>
    BY <1>6 DEF SendEventImmediately, currentVars
  <2>2. Once(q.events) /\ \A e : e \in In(q.events) <=> e = a
    <3>1. q.events = <<<<a>>>>  BY DEF Post
    <3> HIDE DEF q, a
    <3>2. DOMAIN q.events = {1} /\ q.events[1] = <<a>>  BY <3>1
    <3>3. DOMAIN <<a>> = {1} /\ <<a>>[1] = a  OBVIOUS
    <3>4. Range(<<a>>) = {a}  BY <3>3 DEF Range
    <3> QED  BY <3>2, <3>4, InRange DEF Once
  <2> HIDE DEF q, a
  <2>3. \A e : (Posted(e)' <=> Posted(e) \/ e = a) /\ (Current(e)' <=> Current(e)) /\ (Buffered(e)' <=> Buffered(e))
    BY <2>1, <2>2 DEF Posted, Current, Buffered
  <2>4. PostedOnce'
    <3>1. \A p \in posts : \A e \in In(p.events) : e # a  BY <1>2 DEF Posted
    <3> QED  BY <2>1, <2>2, <3>1 DEF PlaceInv, PostedOnce
  <2>5. CurrentOnce' /\ Once(buffer)'  BY <2>1 DEF PlaceInv, CurrentOnce
  <2>6. OnePlace'  BY <1>2, <1>3, <2>3 DEF PlaceInv, OnePlace
  <2>7. CountInv'  BY <1>1, <1>2, <1>3, <2>3, OneMore DEF a, Live
  <2>8. FreshInv'  BY <1>3, <2>3 DEF FreshInv
  <2> QED  BY <1>4, <1>5, <2>4, <2>5, <2>6, <2>7, <2>8 DEF PlaceInv
<1>7. ASSUME NEW size \in Sizes, AddItem(size) PROVE PlaceInv' /\ CountInv' /\ FreshInv' /\ CancelableInv'
  <2> DEFINE payloads == Append(currentIngestionEvent, a)
  <2>1. /\ posts' = posts
        /\ \/ buffer' = Append(buffer, payloads) /\ currentIngestionEvent' = <<>>
           \/ buffer' = buffer /\ currentIngestionEvent' = payloads
    BY <1>7 DEF AddItem
  <2>2. currentIngestionEvent \in Items /\ buffer \in Seq(Items)
    BY DEF TypeInv, CurrentTypes, BufferTypes, Items, Batches
  <2>3. /\ payloads \in Items
        /\ DOMAIN payloads = DOMAIN currentIngestionEvent \cup {Len(currentIngestionEvent) + 1}
        /\ \A i \in DOMAIN currentIngestionEvent : payloads[i] = currentIngestionEvent[i]
        /\ payloads[Len(currentIngestionEvent) + 1] = a
        /\ Range(payloads) = Range(currentIngestionEvent) \cup {a}
    BY <1>2, <2>2, AppendRange DEF Items
  <2>4. PostedOnce' /\ \A e : Posted(e)' <=> Posted(e)  BY <2>1 DEF PlaceInv, PostedOnce, Posted
  <2> HIDE DEF payloads, a
  <2>5. CASE buffer' = buffer /\ currentIngestionEvent' = payloads
    <3>1. \A e : (Current(e)' <=> Current(e) \/ e = a) /\ (Buffered(e)' <=> Buffered(e))
      BY <2>3, <2>5 DEF Current, Buffered
    <3>2. CurrentOnce'
      <4>1. \A i \in DOMAIN currentIngestionEvent : currentIngestionEvent[i] # a
        BY <1>2 DEF Current, Range
      <4>2. \A i, j \in DOMAIN payloads : payloads[i] = payloads[j] => i = j
        BY <2>3, <4>1 DEF PlaceInv, CurrentOnce
      <4> QED  BY <2>5, <4>2 DEF CurrentOnce
    <3>3. Once(buffer)'  BY <2>5 DEF PlaceInv
    <3>4. OnePlace'  BY <1>2, <1>3, <2>4, <3>1 DEF PlaceInv, OnePlace
    <3>5. CountInv'  BY <1>1, <1>2, <1>3, <2>4, <3>1, OneMore DEF a, Live
    <3>6. FreshInv'  BY <1>2, <1>3, <3>1 DEF FreshInv
    <3> QED  BY <1>4, <1>5, <2>4, <3>2, <3>3, <3>4, <3>5, <3>6 DEF PlaceInv
  <2>6. CASE buffer' = Append(buffer, payloads) /\ currentIngestionEvent' = <<>>
    <3>1. /\ DOMAIN buffer' = DOMAIN buffer \cup {Len(buffer) + 1}
          /\ \A i \in DOMAIN buffer : buffer'[i] = buffer[i]
          /\ buffer'[Len(buffer) + 1] = payloads
      BY <2>2, <2>3, <2>6, AppendRange
    <3>2. DOMAIN currentIngestionEvent' = {} /\ \A e : ~Current(e)'  BY <2>6 DEF Current, Range
    <3>3. \A e : Buffered(e)' <=> Buffered(e) \/ Current(e) \/ e = a
      BY <2>3, <3>1 DEF Buffered, Current
    <3>4. Once(buffer)'
      <4>1. \A i \in DOMAIN buffer : \A e \in Range(buffer[i]) : e \notin Range(payloads)
        BY <1>2, <2>2, <2>3, ItemEvents DEF PlaceInv, OnePlace, Buffered, Current, Items
      <4> QED  BY <3>1, <4>1 DEF PlaceInv, Once
    <3>5. CurrentOnce'  BY <3>2 DEF CurrentOnce
    <3>6. OnePlace'  BY <1>2, <1>3, <2>4, <3>2, <3>3 DEF PlaceInv, OnePlace
    <3>7. CountInv'  BY <1>1, <1>2, <1>3, <2>4, <3>2, <3>3, OneMore DEF a, Live
    <3>8. FreshInv'  BY <1>2, <1>3, <3>2, <3>3 DEF FreshInv
    <3> QED  BY <1>4, <1>5, <2>4, <3>4, <3>5, <3>6, <3>7, <3>8 DEF PlaceInv
  <2> QED  BY <2>1, <2>5, <2>6
<1> QED  BY <1>6, <1>7 DEF ReportEvent

(* Every event is where it was, or as live as it was. *)
LEMMA AsLive ==
  ASSUME CountInv, accepted' = accepted, browser' = browser,
         \A e \in Events : (Live(e)' <=> Live(e)) /\ Done(e)' = Done(e)
  PROVE  CountInv'
BY DEF CountInv, CountOf

(* The events sent leave the buffer for a request, the others stay.          *)
LEMMA SendPlaces ==
  ASSUME ConfigurationAssumption, TypeInv, PlaceInv, CountInv, FreshInv, CancelableInv, SendEvents
  PROVE  PlaceInv' /\ CountInv' /\ FreshInv' /\ CancelableInv'
<1> DEFINE q == Post(Batch, FALSE)
<1>1. /\ UNCHANGED <<accepted, currentIngestionEvent, failedIngestionEvents, handed, lost, browser>>
      /\ buffer' = Rest /\ posts' = posts \cup {q}
      /\ cancellableEvents' = IF browser = "firefox" THEN cancellableEvents \cup {Batch} ELSE cancellableEvents
  BY DEF SendEvents, currentVars, outcomeVars
<1>2. q.events = Batch /\ q.important = FALSE  BY DEF Post
<1> HIDE DEF q
<1>3. PICK n \in Nat :
        /\ n <= Len(buffer) /\ Batch \in Batches /\ Rest \in Batches
        /\ Len(Batch) = n /\ Len(Rest) = Len(buffer) - n /\ Len(buffer) \in Nat
        /\ \A i \in 1..n : Batch[i] = buffer[i]
        /\ \A i \in 1..(Len(buffer) - n) : Rest[i] = buffer[i + n]
  BY BatchAndRest DEF TypeInv
<1>4. DOMAIN buffer = 1..Len(buffer) /\ DOMAIN Batch = 1..n /\ DOMAIN Rest = 1..(Len(buffer) - n)
  BY <1>3 DEF Batches, TypeInv, BufferTypes
<1>5. Once(Batch)  BY <1>3, <1>4 DEF PlaceInv, Once
<1>6. Once(Rest)
  <2> SUFFICES ASSUME NEW i \in DOMAIN Rest, NEW j \in DOMAIN Rest,
                      NEW e \in Range(Rest[i]), e \in Range(Rest[j])
               PROVE  i = j
    BY DEF Once
  <2>1. i + n \in DOMAIN buffer /\ j + n \in DOMAIN buffer /\ i \in Nat /\ j \in Nat  BY <1>3, <1>4
  <2>2. e \in Range(buffer[i + n]) /\ e \in Range(buffer[j + n])  BY <1>3, <1>4
  <2>3. i + n = j + n  BY <2>1, <2>2 DEF PlaceInv, Once
  <2> QED  BY <2>1, <2>3
<1>7. \A e : e \in In(Batch) => Buffered(e)
  <2>1. \A i \in DOMAIN Batch : i \in DOMAIN buffer /\ Batch[i] = buffer[i]  BY <1>3, <1>4
  <2> QED  BY <2>1, InRange DEF Buffered
<1>8. \A e : Buffered(e)' => Buffered(e) /\ e \notin In(Batch)
  <2> SUFFICES ASSUME NEW e, NEW i \in DOMAIN Rest, e \in Range(Rest[i])
               PROVE  Buffered(e) /\ e \notin In(Batch)
    BY <1>1 DEF Buffered
  <2>1. i + n \in DOMAIN buffer /\ i + n > n /\ e \in Range(buffer[i + n])  BY <1>3, <1>4
  <2>2. ASSUME NEW j \in DOMAIN Batch, e \in Range(Batch[j]) PROVE FALSE
    <3>1. j \in DOMAIN buffer /\ j <= n /\ j \in Nat /\ e \in Range(buffer[j])  BY <1>3, <1>4, <2>2
    <3>2. j = i + n  BY <2>1, <3>1 DEF PlaceInv, Once
    <3> QED  BY <2>1, <3>1, <3>2
  <2> QED  BY <2>1, <2>2, InRange DEF Buffered
<1>9. \A e : Buffered(e) => Buffered(e)' \/ e \in In(Batch)
  <2> SUFFICES ASSUME NEW e, NEW i \in DOMAIN buffer, e \in Range(buffer[i])
               PROVE  (\E j \in DOMAIN Rest : e \in Range(Rest[j])) \/ e \in In(Batch)
    BY <1>1 DEF Buffered
  <2>1. CASE i <= n
    <3>1. i \in DOMAIN Batch /\ e \in Range(Batch[i])  BY <1>3, <1>4, <2>1
    <3> QED  BY <3>1, InRange
  <2>2. CASE ~(i <= n)
    <3>1. i - n \in DOMAIN Rest /\ (i - n) + n = i /\ i - n \in 1..(Len(buffer) - n)
      BY <1>3, <1>4, <2>2
    <3>2. Rest[i - n] = buffer[i]  BY <1>3, <3>1
    <3> QED  BY <3>1, <3>2
  <2> QED  BY <2>1, <2>2
<1>10. \A e : /\ Posted(e)' <=> Posted(e) \/ e \in In(Batch)
              /\ (Current(e)' <=> Current(e)) /\ (Aside(e)' <=> Aside(e)) /\ Done(e)' = Done(e)
  BY <1>1, <1>2, SameDone DEF Posted, Current, Aside
<1>11. \A p \in posts : \A e \in In(p.events) : e \notin In(Batch)
  <2>1. \A e \in Events : Posted(e) => e \notin In(Batch)  BY <1>7 DEF PlaceInv, OnePlace
  <2>2. \A p \in posts : In(p.events) \subseteq Events  BY InEvents DEF TypeInv, PostTypes, Requests
  <2> QED  BY <2>1, <2>2 DEF Posted
<1>12. PostedOnce'  BY <1>1, <1>2, <1>5, <1>11 DEF PlaceInv, PostedOnce
<1>13. CurrentOnce' /\ AsideOnce' /\ Once(buffer)'
  BY <1>1, <1>6 DEF PlaceInv, CurrentOnce, AsideOnce
<1>14. OnePlace'  BY <1>7, <1>8, <1>10 DEF PlaceInv, OnePlace
<1>15. CountInv'  BY <1>1, <1>7, <1>8, <1>9, <1>10, AsLive DEF Live
<1>16. FreshInv'  BY <1>8, <1>10 DEF FreshInv
<1>17. CancelableInv'
  <2> SUFFICES ASSUME NEW b \in cancellableEvents'
               PROVE  /\ browser = "firefox"
                      /\ \E p \in posts' : ~p.important /\ p.events = b
                      /\ \A e \in In(b) : Done(e)' = 0
    BY <1>1 DEF CancelableInv
  <2>1. CASE b \in cancellableEvents  BY <1>1, <1>10, <2>1 DEF CancelableInv
  <2>2. CASE b \notin cancellableEvents
    <3>1. browser = "firefox" /\ b = Batch  BY <1>1, <2>2
    <3>2. \A e \in In(Batch) : e \in Events  BY <1>3, InEvents
    <3> QED  BY <1>1, <1>2, <1>7, <1>10, <3>1, <3>2 DEF FreshInv
  <2> QED  BY <2>1, <2>2
<1> QED  BY <1>12, <1>13, <1>14, <1>15, <1>16, <1>17 DEF PlaceInv

(* How a request is answered: it is done with, put aside, or tried again.     *)
LEMMA AnswerCases ==
  ASSUME TypeInv, PostAnswered
  PROVE  \E p \in posts :
           \/ Finish(p, TRUE) /\ HandOver(In(p.events)) /\ UNCHANGED <<failedIngestionEvents, lost>>
           \/ Finish(p, TRUE) /\ PutAside(p) /\ UNCHANGED <<handed, lost>>
           \/ /\ UNCHANGED <<lock, cancellableEvents, failedIngestionEvents, handed, lost>>
              /\ \E r : /\ r.events = p.events /\ r.important = p.important
                        /\ posts' = (posts \ {p}) \cup {r}
<1>1. PICK p \in posts : PostSucceeds(p) \/ PostFails(p) \/ PostThrows(p) \/ PostRetried(p)
  BY DEF PostAnswered
<1>2. Finish(p, FALSE) => Finish(p, TRUE)  BY DEF Finish, Release
<1>3. PostSucceeds(p) => Finish(p, TRUE) /\ HandOver(In(p.events)) /\ UNCHANGED <<failedIngestionEvents, lost>>
  BY DEF PostSucceeds
<1>4. PostFails(p) => Finish(p, TRUE) /\ PutAside(p) /\ UNCHANGED <<handed, lost>>
  BY <1>2 DEF PostFails, outcomeVars
<1>5. PostThrows(p) =>
        \/ Finish(p, TRUE) /\ HandOver(In(p.events)) /\ UNCHANGED <<failedIngestionEvents, lost>>
        \/ Finish(p, TRUE) /\ PutAside(p) /\ UNCHANGED <<handed, lost>>
  BY <1>2, <1>4 DEF PostThrows, outcomeVars
<1>6. CASE PostRetried(p)
  <2>1. CASE ~(p.retryCount + 1 < retryCountLimit)  BY <1>5, <1>6, <2>1 DEF PostRetried
  <2>2. CASE p.retryCount + 1 < retryCountLimit
    <3> DEFINE r == [p EXCEPT !.retryCount = @ + 1]
    <3>1. posts' = (posts \ {p}) \cup {r}
          /\ UNCHANGED <<lock, cancellableEvents, failedIngestionEvents, handed, lost>>
      BY <1>6, <2>2 DEF PostRetried, outcomeVars
    <3>2. p \in Requests  BY DEF TypeInv, PostTypes
    <3>3. r.events = p.events /\ r.important = p.important  BY <3>2 DEF Requests
    <3> HIDE DEF r
    <3> QED  BY <3>1, <3>3
  <2> QED  BY <2>1, <2>2
<1> QED  BY <1>1, <1>3, <1>4, <1>5, <1>6

(* A request ends: its events leave it, and nothing else is posted.           *)
LEMMA EndPlaces ==
  ASSUME TypeInv, PlaceInv, CancelableInv, NEW p \in posts, Finish(p, TRUE)
  PROVE  /\ \A e : Posted(e)' <=> Posted(e) /\ e \notin In(p.events)
         /\ PostedOnce'
         /\ cancellableEvents' \subseteq cancellableEvents
         /\ \A b \in cancellableEvents' : \E q \in posts' : ~q.important /\ q.events = b
         /\ \A b \in cancellableEvents' : \A e \in In(b) : e \notin In(p.events)
<1>1. posts' = posts \ {p}  BY DEF Finish
<1>2. cancellableEvents' = IF p.important THEN cancellableEvents ELSE cancellableEvents \ {p.events}
  BY DEF Finish
<1>3. \A e : Posted(e)' <=> Posted(e) /\ e \notin In(p.events)
  BY <1>1 DEF Posted, PlaceInv, PostedOnce
<1>4. PostedOnce'  BY <1>1 DEF PlaceInv, PostedOnce
<1>5. ASSUME NEW b \in cancellableEvents'
      PROVE  \E q \in posts' : ~q.important /\ q.events = b /\ \A e \in In(b) : e \notin In(p.events)
  <2>1. b \in cancellableEvents /\ (p.important \/ b # p.events)  BY <1>2, <1>5
  <2>2. PICK q \in posts : ~q.important /\ q.events = b  BY <2>1 DEF CancelableInv
  <2>3. q # p  BY <2>1, <2>2
  <2> QED  BY <1>1, <2>2, <2>3 DEF PlaceInv, PostedOnce
<1> QED  BY <1>2, <1>3, <1>4, <1>5

(* The events of an answered request are done with, put aside, or stay.      *)
LEMMA AnswerPlaces ==
  ASSUME TypeInv, PlaceInv, CountInv, FreshInv, CancelableInv, PostAnswered
  PROVE  PlaceInv' /\ CountInv' /\ FreshInv' /\ CancelableInv'
<1>1. UNCHANGED <<accepted, currentIngestionEvent, buffer, browser>>
  BY DEF PostAnswered, currentVars
<1>2. \A e : (Current(e)' <=> Current(e)) /\ (Buffered(e)' <=> Buffered(e))
  BY <1>1 DEF Current, Buffered
<1>3. CurrentOnce' /\ Once(buffer)'  BY <1>1 DEF PlaceInv, CurrentOnce
<1>4. OutTypes /\ CountTypes  BY DEF TypeInv
<1>5. ASSUME NEW p \in posts, Finish(p, TRUE), HandOver(In(p.events)),
             UNCHANGED <<failedIngestionEvents, lost>>
      PROVE  PlaceInv' /\ CountInv' /\ FreshInv' /\ CancelableInv'
  <2>1. /\ \A e : Posted(e)' <=> Posted(e) /\ e \notin In(p.events)
        /\ PostedOnce'
        /\ cancellableEvents' \subseteq cancellableEvents
        /\ \A b \in cancellableEvents' : \E q \in posts' : ~q.important /\ q.events = b
        /\ \A b \in cancellableEvents' : \A e \in In(b) : e \notin In(p.events)
    BY <1>5, EndPlaces
  <2>2. \A e : Aside(e)' <=> Aside(e)  BY <1>5 DEF Aside
  <2>3. AsideOnce'  BY <1>5 DEF PlaceInv, AsideOnce
  <2>4. \A e \in Events : Done(e) \in Nat /\ Done(e)' = IF e \in In(p.events) THEN Done(e) + 1 ELSE Done(e)
    BY <1>4, <1>5 DEF HandOver, Done, OutTypes
  <2>5. OnePlace'  BY <1>2, <2>1, <2>2 DEF PlaceInv, OnePlace
  <2>6. \A e \in Events : e \in In(p.events) => Posted(e) /\ ~Current(e) /\ ~Buffered(e) /\ ~Aside(e)
    BY DEF Posted, PlaceInv, OnePlace
  <2>7. CountInv'
    <3> SUFFICES ASSUME NEW e \in Events PROVE CountOf(e)'  BY <1>1 DEF CountInv, CountOf
    <3>1. CASE e \in In(p.events)
      <4>1. Live(e) /\ ~Live(e)'  BY <1>2, <2>1, <2>2, <2>6, <3>1 DEF Live
      <4>2. Done(e) \in Nat /\ Done(e)' = Done(e) + 1  BY <2>4, <3>1
      <4> QED  BY <1>1, <4>1, <4>2 DEF CountInv, CountOf
    <3>2. CASE e \notin In(p.events)
      <4>1. (Live(e)' <=> Live(e)) /\ Done(e)' = Done(e)  BY <1>2, <2>1, <2>2, <2>4, <3>2 DEF Live
      <4> QED  BY <1>1, <4>1 DEF CountInv, CountOf
    <3> QED  BY <3>1, <3>2
  <2>8. FreshInv'  BY <1>2, <2>4, <2>6 DEF FreshInv
  <2>9. CancelableInv'
    <3>1. \A b \in cancellableEvents : In(b) \subseteq Events  BY InEvents DEF TypeInv, CancelTypes
    <3>2. \A b \in cancellableEvents' : \A e \in In(b) : Done(e)' = Done(e)  BY <2>1, <2>4, <3>1
    <3> QED  BY <1>1, <2>1, <3>2, CancelKept
  <2> QED  BY <1>3, <2>1, <2>3, <2>5, <2>7, <2>8, <2>9 DEF PlaceInv
<1>6. ASSUME NEW p \in posts, Finish(p, TRUE), PutAside(p), UNCHANGED <<handed, lost>>
      PROVE  PlaceInv' /\ CountInv' /\ FreshInv' /\ CancelableInv'
  <2>1. /\ \A e : Posted(e)' <=> Posted(e) /\ e \notin In(p.events)
        /\ PostedOnce'
        /\ cancellableEvents' \subseteq cancellableEvents
        /\ \A b \in cancellableEvents' : \E q \in posts' : ~q.important /\ q.events = b
    BY <1>6, EndPlaces
  <2>2. failedIngestionEvents' = failedIngestionEvents \cup Range(p.events)  BY <1>6 DEF PutAside
  <2>3. p.events \in Batches  BY DEF TypeInv, PostTypes, Requests
  <2>4. \A e : e \in In(p.events) <=> \E i \in Range(p.events) : e \in Range(i)
    BY InRange DEF Range
  <2>5. \A e : Aside(e)' <=> Aside(e) \/ e \in In(p.events)  BY <2>2, <2>4 DEF Aside
  <2>6. \A e : Done(e)' = Done(e)  BY <1>6, SameDone
  <2>7. \A e \in Events : e \in In(p.events) => Posted(e) /\ ~Current(e) /\ ~Buffered(e) /\ ~Aside(e)
    BY DEF Posted, PlaceInv, OnePlace
  <2>8. AsideOnce'
    <3>1. \A i, j \in Range(p.events) : \A e \in Range(i) : e \in Range(j) => i = j
      BY DEF PlaceInv, PostedOnce, Once, Range
    <3>2. \A i \in failedIngestionEvents : \A e \in Range(i) : e \notin In(p.events)
      <4>1. \A i \in failedIngestionEvents : Range(i) \subseteq Events
        BY ItemEvents DEF TypeInv, FailedTypes
      <4> QED  BY <2>7, <4>1 DEF Aside
    <3>3. \A i \in Range(p.events) : \A e \in Range(i) : e \in In(p.events)  BY <2>4
    <3> QED  BY <2>2, <3>1, <3>2, <3>3 DEF AsideOnce, PlaceInv
  <2>9. OnePlace'  BY <1>2, <2>1, <2>5, <2>7 DEF PlaceInv, OnePlace
  <2>10. CountInv'
    <3>1. \A e \in Events : Live(e)' <=> Live(e)  BY <1>2, <2>1, <2>5, <2>7 DEF Live
    <3> QED  BY <1>1, <2>6, <3>1, AsLive
  <2>11. FreshInv'  BY <1>2, <2>6 DEF FreshInv
  <2>12. CancelableInv'  BY <1>1, <2>1, <2>6, CancelKept
  <2> QED  BY <1>3, <2>1, <2>8, <2>9, <2>10, <2>11, <2>12 DEF PlaceInv
<1>7. ASSUME NEW p \in posts, NEW r, r.events = p.events, r.important = p.important,
             posts' = (posts \ {p}) \cup {r},
             UNCHANGED <<lock, cancellableEvents, failedIngestionEvents, handed, lost>>
      PROVE  PlaceInv' /\ CountInv' /\ FreshInv' /\ CancelableInv'
  <2>1. \A e : (Posted(e)' <=> Posted(e)) /\ (Aside(e)' <=> Aside(e)) /\ Done(e)' = Done(e)
    <3>1. \A e : Posted(e)' <=> Posted(e)  BY <1>7 DEF Posted
    <3>2. \A e : Aside(e)' <=> Aside(e)  BY <1>7 DEF Aside
    <3> QED  BY <1>7, <3>1, <3>2, SameDone
  <2>2. AsideOnce'  BY <1>7 DEF PlaceInv, AsideOnce
  <2>3. PostedOnce'
    <3>1. \A q \in posts' : Once(q.events)  BY <1>7 DEF PlaceInv, PostedOnce
    <3>2. ASSUME NEW q \in posts', NEW s \in posts', NEW e \in In(q.events), e \in In(s.events)
          PROVE  q = s
      <4>1. \A u \in posts' : u = r \/ (u \in posts /\ u # p)  BY <1>7
      <4> QED  BY <1>7, <3>2, <4>1 DEF PlaceInv, PostedOnce
    <3> QED  BY <3>1, <3>2 DEF PostedOnce
  <2>4. OnePlace'  BY <1>2, <2>1 DEF PlaceInv, OnePlace
  <2>5. CountInv'  BY <1>1, <1>2, <2>1, AsLive DEF Live
  <2>6. FreshInv'  BY <1>2, <2>1 DEF FreshInv
  <2>7. CancelableInv'
    <3>1. \A b \in cancellableEvents' : \E q \in posts' : ~q.important /\ q.events = b
      BY <1>7 DEF CancelableInv
    <3> QED  BY <1>1, <1>7, <2>1, <3>1, CancelKept
  <2> QED  BY <1>3, <2>2, <2>3, <2>4, <2>5, <2>6, <2>7 DEF PlaceInv
<1> QED  BY <1>5, <1>6, <1>7, AnswerCases

(* A beacon takes every event but those being posted, and of those what       *)
(* Firefox may cancel.                                                       *)
LEMMA BeaconPlaces ==
  ASSUME TypeInv, PlaceInv, CountInv, CancelableInv, SendBeacon, UNCHANGED <<accepted, posts, browser>>
  PROVE  PlaceInv' /\ CountInv' /\ FreshInv' /\ CancelableInv'
<1>1. /\ buffer' = <<>> /\ currentIngestionEvent' = <<>>
      /\ failedIngestionEvents' = {} /\ cancellableEvents' = {}
  BY DEF SendBeacon, ClearFailed
<1>2. DOMAIN buffer' = {} /\ DOMAIN currentIngestionEvent' = {}  BY <1>1
<1>3. \A e : /\ ~Current(e)' /\ ~Buffered(e)' /\ ~Aside(e)'
             /\ Posted(e)' <=> Posted(e)
  BY <1>1, <1>2 DEF Current, Buffered, Aside, Posted, Range
<1>4. PlaceInv'
  <2>1. CurrentOnce' /\ Once(buffer)' /\ AsideOnce'  BY <1>1, <1>2 DEF CurrentOnce, Once, AsideOnce
  <2>2. PostedOnce'  BY DEF PlaceInv, PostedOnce
  <2>3. OnePlace'  BY <1>3 DEF OnePlace
  <2> QED  BY <2>1, <2>2, <2>3 DEF PlaceInv
<1>5. FreshInv' /\ CancelableInv'  BY <1>1, <1>3 DEF FreshInv, CancelableInv
<1>6. OutTypes /\ CountTypes  BY DEF TypeInv
<1>7. ASSUME NEW e \in Events
      PROVE  /\ Done(e) \in Nat /\ Done(e)' \in {Done(e), Done(e) + 1}
             /\ e \notin Beaconed => Done(e)' = Done(e)
             /\ e \in Beaconed => Done(e)' >= 1
  <2>1. handed[e] \in Nat  BY <1>6 DEF OutTypes
  <2>2. CASE HandOver(Beaconed) /\ UNCHANGED lost
    <3>1. handed'[e] = IF e \in Beaconed THEN handed[e] + 1 ELSE handed[e]  BY <2>2 DEF HandOver
    <3> QED  BY <2>1, <2>2, <3>1 DEF Done
  <2>3. CASE lost' = lost \cup Beaconed /\ UNCHANGED handed
    <3>1. e \in lost' <=> e \in lost \/ e \in Beaconed  BY <2>3
    <3>2. handed'[e] = handed[e]  BY <2>3
    <3> QED  BY <2>1, <3>1, <3>2 DEF Done
  <2> QED  BY <2>2, <2>3 DEF SendBeacon
<1>8. ASSUME NEW e \in Events
      PROVE  e \in Beaconed <=>
               \/ Current(e) \/ Buffered(e) \/ Aside(e)
               \/ \E b \in cancellableEvents : e \in In(b)
  BY BeaconedWhere, BufferedIn DEF Current, Aside
<1>9. ASSUME NEW e \in Events, NEW b \in cancellableEvents, e \in In(b)
      PROVE  browser = "firefox" /\ Posted(e) /\ Done(e) = 0
  BY <1>9 DEF CancelableInv, Posted
<1>10. CountInv'
  <2> SUFFICES ASSUME NEW e \in Events PROVE CountOf(e)'  BY DEF CountInv
  <2>1. Live(e)' <=> Posted(e)  BY <1>3 DEF Live
  <2>2. e \in Nat /\ accepted \in Nat  BY <1>6 DEF CountTypes, Events
  <2>3. CASE e \notin Beaconed
    <3>1. (Live(e)' <=> Live(e)) /\ Done(e)' = Done(e)  BY <1>7, <1>8, <2>1, <2>3 DEF Live
    <3> QED  BY <3>1 DEF CountInv, CountOf
  <2>4. CASE e \in Beaconed /\ Posted(e)
    <3>1. ~Current(e) /\ ~Buffered(e) /\ ~Aside(e)  BY <2>4 DEF PlaceInv, OnePlace
    <3>2. browser = "firefox" /\ Done(e) = 0  BY <1>8, <1>9, <2>4, <3>1
    <3>3. Done(e)' = 1  BY <1>7, <2>4, <3>2
    <3>4. ~(e > accepted)  BY <2>4 DEF CountInv, CountOf, Live
    <3> QED  BY <2>1, <2>4, <3>2, <3>3, <3>4 DEF CountOf
  <2>5. CASE e \in Beaconed /\ ~Posted(e)
    <3>1. Live(e)  BY <1>8, <1>9, <2>5 DEF Live
    <3>2. ~(e > accepted) /\ e <= accepted  BY <2>2, <3>1 DEF CountInv, CountOf
    <3>3. Done(e) \in Nat /\ Done(e)' \in {Done(e), Done(e) + 1} /\ Done(e)' >= 1  BY <1>7, <2>5
    <3>4. IF browser = "firefox" THEN Done(e) <= 1 ELSE Done(e) = 0  BY <3>1, <3>2 DEF CountInv, CountOf
    <3> QED  BY <2>1, <2>5, <3>2, <3>3, <3>4 DEF CountOf
  <2> QED  BY <2>3, <2>4, <2>5
<1> QED  BY <1>4, <1>5, <1>10

(* At first there are no events.                                             *)
LEMMA PlacesInit ==
  ASSUME ConfigurationAssumption, BufferInit PROVE PlaceInv /\ CountInv /\ FreshInv /\ CancelableInv
<1>1. /\ buffer = <<>> /\ currentIngestionEvent = <<>> /\ failedIngestionEvents = {} /\ posts = {}
      /\ cancellableEvents = {} /\ accepted = 0 /\ handed = [e \in Events |-> 0] /\ lost = {}
  BY DEF BufferInit
<1>2. DOMAIN buffer = {} /\ DOMAIN currentIngestionEvent = {}  BY <1>1
<1>3. \A e : ~Current(e) /\ ~Buffered(e) /\ ~Aside(e) /\ ~Posted(e)
  BY <1>1, <1>2 DEF Current, Buffered, Aside, Posted, Range
<1>4. \A e \in Events : Done(e) = 0  BY <1>1 DEF Done
<1>5. CurrentOnce /\ Once(buffer) /\ AsideOnce /\ PostedOnce
  BY <1>1, <1>2 DEF CurrentOnce, Once, AsideOnce, PostedOnce
<1>6. OnePlace  BY <1>3 DEF OnePlace
<1>7. CountInv
  <2>1. \A e \in Events : ~(e <= accepted)  BY <1>1 DEF Events
  <2> QED  BY <1>3, <1>4, <2>1 DEF CountInv, CountOf, Live
<1> QED  BY <1>1, <1>3, <1>4, <1>5, <1>6, <1>7 DEF PlaceInv, FreshInv, CancelableInv

(* Every step keeps the places and the counts.                               *)
LEMMA PlacesStep ==
  ASSUME ConfigurationAssumption, TypeInv, PlaceInv, CountInv, FreshInv, CancelableInv, [BufferNext]_bufferVars
  PROVE  PlaceInv' /\ CountInv' /\ FreshInv' /\ CancelableInv'
<1>1. CASE ReportEvent  BY <1>1, ReportPlaces
<1>2. CASE SendEvents  BY <1>2, SendPlaces
<1>3. CASE PostAnswered  BY <1>3, AnswerPlaces
<1>4. CASE PageHidden \/ Stop \/ Destroy
  <2>1. SendBeacon /\ UNCHANGED <<accepted, posts, browser>>  BY <1>4 DEF PageHidden, Stop, Destroy
  <2> QED  BY <2>1, BeaconPlaces
<1>5. CASE Start \/ UNCHANGED bufferVars
  <2>1. /\ UNCHANGED <<accepted, currentIngestionEvent, buffer, failedIngestionEvents>>
        /\ UNCHANGED <<posts, cancellableEvents, handed, lost, browser>>
    BY <1>5 DEF Start, bufferVars, currentVars, outcomeVars
  <2>2. \A e : /\ (Current(e)' <=> Current(e)) /\ (Buffered(e)' <=> Buffered(e))
               /\ (Aside(e)' <=> Aside(e)) /\ (Posted(e)' <=> Posted(e)) /\ Done(e)' = Done(e)
    BY <2>1, SameDone DEF Current, Buffered, Aside, Posted
  <2>3. PlaceInv'
    <3>1. CurrentOnce' /\ Once(buffer)' /\ AsideOnce' /\ PostedOnce'
      BY <2>1 DEF PlaceInv, CurrentOnce, AsideOnce, PostedOnce
    <3>2. OnePlace'  BY <2>2 DEF PlaceInv, OnePlace
    <3> QED  BY <3>1, <3>2 DEF PlaceInv
  <2>4. CountInv'  BY <2>1, <2>2, AsLive DEF Live
  <2>5. FreshInv'  BY <2>2 DEF FreshInv
  <2>6. CancelableInv'  BY <2>1, <2>2, CancelKept DEF CancelableInv
  <2> QED  BY <2>3, <2>4, <2>5, <2>6
<1> QED  BY <1>1, <1>2, <1>3, <1>4, <1>5 DEF BufferNext

-----------------------------------------------------------------------------
(* The order of events. *)

(* The requests for a batch are those there were. *)
Kept == \A p \in posts' : ~p.important => \E q \in posts : ~q.important /\ q.events = p.events

(* An empty sequence is in order, and before and after every other.          *)
LEMMA NothingBefore ==
  ASSUME NEW item PROVE Before(item, <<>>) /\ Before(<<>>, item) /\ Increasing(<<>>) /\ Sorted(<<>>)
<1>1. DOMAIN <<>> = {}  OBVIOUS
<1>2. Range(<<>>) = {}  BY <1>1 DEF Range
<1> QED  BY <1>1, <1>2 DEF Before, Increasing, Sorted

(* A new event comes after all the client has.                                *)
LEMMA NewIsLast ==
  ASSUME ConfigurationAssumption, TypeInv, CountInv, OrderInv, accepted < MaxEvents,
         NEW a, a = accepted + 1, NEW payloads, payloads = Append(currentIngestionEvent, a)
  PROVE  /\ Increasing(payloads)
         /\ AllBefore(buffer, payloads)
         /\ \A p \in posts : ~p.important => AllBefore(p.events, payloads)
<1>1. currentIngestionEvent \in Seq(Events)  BY DEF TypeInv, CurrentTypes, Items
<1>2. a \in Events /\ a \in Nat /\ accepted \in Nat  BY NextIsNew DEF TypeInv, CountTypes
<1>3. /\ DOMAIN payloads = DOMAIN currentIngestionEvent \cup {Len(currentIngestionEvent) + 1}
      /\ DOMAIN currentIngestionEvent = 1..Len(currentIngestionEvent) /\ Len(currentIngestionEvent) \in Nat
      /\ \A i \in DOMAIN currentIngestionEvent : payloads[i] = currentIngestionEvent[i]
      /\ payloads[Len(currentIngestionEvent) + 1] = a
      /\ Range(payloads) = Range(currentIngestionEvent) \cup {a}
  BY <1>1, <1>2, AppendRange
<1>4. \A e \in Events : Live(e) => e < a  BY <1>2 DEF CountInv, CountOf, Events
<1>5. \A e \in Range(currentIngestionEvent) : e \in Events /\ e < a
  <2>1. \A e \in Range(currentIngestionEvent) : e \in Events
    BY ItemEvents DEF TypeInv, CurrentTypes
  <2> QED  BY <1>4, <2>1 DEF Live, Current
<1>6. \A i \in DOMAIN buffer : \A e \in Range(buffer[i]) : e < a
  <2>1. \A i \in DOMAIN buffer : buffer[i] \in Items  BY InEvents DEF TypeInv, BufferTypes
  <2>2. \A i \in DOMAIN buffer : \A e \in Range(buffer[i]) : e \in Events  BY <2>1, ItemEvents
  <2> QED  BY <1>4, <2>2 DEF Live, Buffered
<1>7. \A p \in posts : \A i \in DOMAIN p.events : \A e \in Range(p.events[i]) : e < a
  <2>1. \A p \in posts : p.events \in Batches  BY DEF TypeInv, PostTypes, Requests
  <2>2. \A p \in posts : \A i \in DOMAIN p.events : \A e \in Range(p.events[i]) : e \in Events /\ e \in In(p.events)
    <3>1. \A p \in posts : \A i \in DOMAIN p.events : p.events[i] \in Items  BY <2>1, InEvents
    <3> QED  BY <3>1, ItemEvents, InRange
  <2> QED  BY <1>4, <2>2 DEF Live, Posted
<1>8. Increasing(payloads)
  <2> SUFFICES ASSUME NEW i \in DOMAIN payloads, NEW j \in DOMAIN payloads, i < j
               PROVE  payloads[i] < payloads[j]
    BY DEF Increasing
  <2>1. i \in DOMAIN currentIngestionEvent  BY <1>3
  <2>2. CASE j \in DOMAIN currentIngestionEvent
    BY <1>3, <2>1, <2>2 DEF OrderInv, QueueInv, Increasing
  <2>3. CASE j = Len(currentIngestionEvent) + 1
    <3>1. payloads[i] \in Range(currentIngestionEvent)  BY <1>3, <2>1 DEF Range
    <3> QED  BY <1>3, <1>5, <2>3, <3>1
  <2> QED  BY <1>3, <2>2, <2>3
<1>9. AllBefore(buffer, payloads)  BY <1>3, <1>6 DEF OrderInv, QueueInv, AllBefore, Before
<1>10. \A p \in posts : ~p.important => AllBefore(p.events, payloads)
  BY <1>3, <1>7 DEF OrderInv, PostsInv, AllBefore, Before
<1> QED  BY <1>8, <1>9, <1>10

(* A reported event comes last.                                              *)
LEMMA ReportOrder ==
  ASSUME ConfigurationAssumption, TypeInv, CountInv, OrderInv, LockInv, ReportEvent
  PROVE  OrderInv' /\ LockInv'
<1> DEFINE a == accepted + 1
           payloads == Append(currentIngestionEvent, a)
<1>1. ~destroyed /\ destroyed' = destroyed /\ lock' = lock /\ accepted < MaxEvents
  BY DEF ReportEvent, reporterVars
<1>2. Kept /\ \A p, q \in posts' : ~p.important /\ ~q.important => p \in posts /\ q \in posts
  <2>1. CASE SendEventImmediately
    <3> DEFINE q == Post(<<<<accepted + 1>>>>, TRUE)
    <3>1. posts' = posts \cup {q} /\ q.important = TRUE  BY <2>1 DEF SendEventImmediately, Post
    <3> HIDE DEF q
    <3> QED  BY <3>1 DEF Kept
  <2>2. ASSUME NEW size \in Sizes, AddItem(size)
        PROVE  Kept /\ \A p, q \in posts' : ~p.important /\ ~q.important => p \in posts /\ q \in posts
    BY <2>2 DEF AddItem, Kept
  <2> QED  BY <2>1, <2>2 DEF ReportEvent
<1>3. LockInv' /\ StoppedInv'
  <2>1. LockInv'  BY <1>1, <1>2 DEF LockInv
  <2>2. StoppedInv'  BY <1>1 DEF StoppedInv
  <2> QED  BY <2>1, <2>2
<1>4. Increasing(payloads) /\ AllBefore(buffer, payloads)
      /\ \A p \in posts : ~p.important => AllBefore(p.events, payloads)
  BY <1>1, NewIsLast
<1>5. CASE UNCHANGED <<buffer, currentIngestionEvent>>
  <2>1. QueueInv'  BY <1>5 DEF OrderInv, QueueInv
  <2>2. PostsInv'  BY <1>2, <1>5 DEF OrderInv, PostsInv, Kept
  <2> QED  BY <1>3, <2>1, <2>2 DEF OrderInv
<1>6. CASE buffer' = buffer /\ currentIngestionEvent' = payloads
  <2> HIDE DEF payloads
  <2>1. QueueInv'  BY <1>4, <1>6 DEF OrderInv, QueueInv
  <2>2. PostsInv'  BY <1>2, <1>4, <1>6 DEF OrderInv, PostsInv, Kept
  <2> QED  BY <1>3, <2>1, <2>2 DEF OrderInv
<1>7. CASE buffer' = Append(buffer, payloads) /\ currentIngestionEvent' = <<>>
  <2>1. buffer \in Seq(Seq(Events)) /\ currentIngestionEvent \in Seq(Events) /\ a \in Events
    BY <1>1, NextIsNew DEF TypeInv, BufferTypes, CurrentTypes, Batches, Items
  <2>2. payloads \in Seq(Events)  BY <2>1
  <2> HIDE DEF payloads
  <2>3. /\ DOMAIN buffer' = DOMAIN buffer \cup {Len(buffer) + 1}
        /\ DOMAIN buffer = 1..Len(buffer) /\ Len(buffer) \in Nat
        /\ \A i \in DOMAIN buffer : buffer'[i] = buffer[i]
        /\ buffer'[Len(buffer) + 1] = payloads
    BY <1>7, <2>1, <2>2, AppendRange
  <2>4. Sorted(buffer)'
    <3>1. \A i \in DOMAIN buffer : Increasing(buffer[i]) /\ Before(buffer[i], payloads)
      BY <1>4 DEF OrderInv, QueueInv, Sorted, AllBefore
    <3>2. \A i, j \in DOMAIN buffer : i < j => Before(buffer[i], buffer[j])
      BY DEF OrderInv, QueueInv, Sorted
    <3>3. \A j \in DOMAIN buffer : ~(Len(buffer) + 1 < j)  BY <2>3
    <3> QED  BY <1>4, <2>3, <3>1, <3>2, <3>3 DEF Sorted
  <2>5. Increasing(currentIngestionEvent)' /\ AllBefore(buffer, currentIngestionEvent)'
    BY <1>7, NothingBefore DEF AllBefore
  <2>6. PostsInv'
    <3> SUFFICES ASSUME NEW p \in posts, ~p.important
                 PROVE  /\ Sorted(p.events) /\ AllBefore(p.events, currentIngestionEvent')
                        /\ \A i \in DOMAIN buffer' : AllBefore(p.events, buffer'[i])
      BY <1>2 DEF Kept, PostsInv
    <3>1. AllBefore(p.events, currentIngestionEvent')  BY <1>7, NothingBefore DEF AllBefore
    <3> QED  BY <1>4, <2>3, <3>1 DEF OrderInv, PostsInv
  <2> QED  BY <1>3, <2>4, <2>5, <2>6 DEF OrderInv, QueueInv
<1>8. \/ UNCHANGED <<buffer, currentIngestionEvent>>
      \/ buffer' = buffer /\ currentIngestionEvent' = payloads
      \/ buffer' = Append(buffer, payloads) /\ currentIngestionEvent' = <<>>
  BY DEF ReportEvent, SendEventImmediately, AddItem, currentVars
<1> QED  BY <1>3, <1>5, <1>6, <1>7, <1>8

(* The front of the buffer is sent, and no other batch is under way.         *)
LEMMA SendOrder ==
  ASSUME ConfigurationAssumption, TypeInv, OrderInv, LockInv, SendEvents
  PROVE  OrderInv' /\ LockInv'
<1> DEFINE q == Post(Batch, FALSE)
<1>1. /\ reporting /\ reporting' = reporting /\ destroyed' = destroyed /\ ~lock /\ lock' = TRUE
      /\ currentIngestionEvent' = currentIngestionEvent /\ buffer' = Rest /\ posts' = posts \cup {q}
  BY DEF SendEvents, IntervalRuns, MaySend, reporterVars, currentVars
<1>2. q.events = Batch /\ q.important = FALSE  BY DEF Post
<1> HIDE DEF q
<1>3. ~destroyed  BY <1>1 DEF OrderInv, StoppedInv
<1>4. \A p \in posts' : ~p.important => p = q
  <2>1. \A p \in posts : p.important \in BOOLEAN  BY DEF TypeInv, PostTypes, Requests
  <2>2. \A p \in posts : p.important  BY <1>1, <1>3, <2>1 DEF LockInv
  <2> QED  BY <1>1, <2>2
<1>5. LockInv' /\ StoppedInv'
  <2>1. LockInv'  BY <1>1, <1>4 DEF LockInv
  <2>2. StoppedInv'  BY <1>1, <1>3 DEF StoppedInv
  <2> QED  BY <2>1, <2>2
<1>6. PICK n \in Nat :
        /\ n <= Len(buffer) /\ Batch \in Batches /\ Rest \in Batches
        /\ Len(Batch) = n /\ Len(Rest) = Len(buffer) - n /\ Len(buffer) \in Nat
        /\ \A i \in 1..n : Batch[i] = buffer[i]
        /\ \A i \in 1..(Len(buffer) - n) : Rest[i] = buffer[i + n]
  BY BatchAndRest DEF TypeInv
<1>7. DOMAIN buffer = 1..Len(buffer) /\ DOMAIN Batch = 1..n /\ DOMAIN Rest = 1..(Len(buffer) - n)
  BY <1>6 DEF Batches, TypeInv, BufferTypes
<1>8. /\ \A i \in DOMAIN Batch : i \in DOMAIN buffer /\ i <= n /\ i \in Nat /\ Batch[i] = buffer[i]
      /\ \A i \in DOMAIN Rest : i + n \in DOMAIN buffer /\ i + n > n /\ i \in Nat /\ Rest[i] = buffer[i + n]
  BY <1>6, <1>7
<1>9. Sorted(Batch)  BY <1>8 DEF OrderInv, QueueInv, Sorted
<1>10. Sorted(Rest)
  <2> SUFFICES ASSUME NEW i \in DOMAIN Rest
               PROVE  Increasing(Rest[i]) /\ \A j \in DOMAIN Rest : i < j => Before(Rest[i], Rest[j])
    BY DEF Sorted
  <2>1. Increasing(Rest[i])  BY <1>8 DEF OrderInv, QueueInv, Sorted
  <2>2. ASSUME NEW j \in DOMAIN Rest, i < j PROVE Before(Rest[i], Rest[j])
    <3>1. i + n < j + n  BY <1>8, <2>2
    <3> QED  BY <1>8, <3>1 DEF OrderInv, QueueInv, Sorted
  <2> QED  BY <2>1, <2>2
<1>11. \A i \in DOMAIN Batch, j \in DOMAIN Rest : Before(Batch[i], Rest[j])
  <2> SUFFICES ASSUME NEW i \in DOMAIN Batch, NEW j \in DOMAIN Rest PROVE Before(Batch[i], Rest[j])
    OBVIOUS
  <2>1. i < j + n  BY <1>8
  <2> QED  BY <1>8, <2>1 DEF OrderInv, QueueInv, Sorted
<1>12. AllBefore(Batch, currentIngestionEvent) /\ AllBefore(Rest, currentIngestionEvent)
  BY <1>8 DEF OrderInv, QueueInv, AllBefore
<1>13. QueueInv'  BY <1>1, <1>10, <1>12 DEF OrderInv, QueueInv
<1>14. PostsInv'  BY <1>1, <1>2, <1>4, <1>9, <1>11, <1>12 DEF PostsInv, AllBefore
<1> QED  BY <1>5, <1>13, <1>14 DEF OrderInv

(* An answer adds no batch, and releases the lock of the one it ends.        *)
LEMMA AnswerOrder ==
  ASSUME TypeInv, OrderInv, LockInv, PostAnswered PROVE OrderInv' /\ LockInv'
<1>1. UNCHANGED <<reporting, destroyed, currentIngestionEvent, buffer>>
  BY DEF PostAnswered, reporterVars, currentVars
<1>2. StoppedInv' /\ QueueInv'
  <2>1. StoppedInv'  BY <1>1 DEF OrderInv, StoppedInv
  <2>2. QueueInv'  BY <1>1 DEF OrderInv, QueueInv
  <2> QED  BY <2>1, <2>2
<1>3. ASSUME NEW p \in posts, Finish(p, TRUE) PROVE Kept /\ LockInv'
  <2>1. posts' = posts \ {p} /\ (p.important => lock' = lock)  BY <1>3 DEF Finish, Release
  <2>2. Kept  BY <2>1 DEF Kept
  <2>3. CASE p.important
    <3>1. lock' = lock  BY <2>1, <2>3
    <3> QED  BY <1>1, <2>1, <2>2, <3>1 DEF LockInv
  <2>4. CASE ~p.important
    <3>1. ~destroyed => \A q \in posts : ~q.important => q = p  BY <2>4 DEF LockInv
    <3>2. ~destroyed => \A q \in posts' : q.important  BY <2>1, <3>1
    <3> QED  BY <1>1, <2>2, <3>2 DEF LockInv
  <2> QED  BY <2>3, <2>4
<1>4. ASSUME NEW p \in posts, NEW r, r.events = p.events, r.important = p.important,
             posts' = (posts \ {p}) \cup {r}, lock' = lock
      PROVE  Kept /\ LockInv'
  <2>1. Kept  BY <1>4 DEF Kept
  <2>2. \A q \in posts' : q = r \/ (q \in posts /\ q # p)  BY <1>4
  <2>3. LockInv'
    <3> SUFFICES ASSUME ~destroyed, NEW q \in posts', ~q.important
                 PROVE  lock' /\ \A s \in posts' : ~s.important => s = q
      BY <1>1 DEF LockInv
    <3>1. lock'  BY <1>4, <2>2 DEF LockInv
    <3>2. ASSUME NEW s \in posts', ~s.important PROVE s = q
      BY <1>4, <2>2, <3>2 DEF LockInv
    <3> QED  BY <3>1, <3>2
  <2> QED  BY <2>1, <2>3
<1>5. Kept /\ LockInv'  BY <1>3, <1>4, AnswerCases
<1>6. PostsInv'  BY <1>1, <1>5 DEF OrderInv, PostsInv, Kept
<1> QED  BY <1>2, <1>5, <1>6 DEF OrderInv

(* A beacon leaves nothing to be ordered but the batch under way.            *)
LEMMA BeaconOrder ==
  ASSUME OrderInv, LockInv, PageHidden \/ Stop \/ Destroy
  PROVE  OrderInv' /\ LockInv'
<1>1. /\ buffer' = <<>> /\ currentIngestionEvent' = <<>> /\ posts' = posts
      /\ (~destroyed' => lock' = lock /\ ~destroyed)
      /\ (destroyed' => ~reporting')
  <2>1. buffer' = <<>> /\ currentIngestionEvent' = <<>> /\ posts' = posts
    BY DEF PageHidden, Stop, Destroy, SendBeacon
  <2>2. (~destroyed' => lock' = lock /\ ~destroyed)  BY DEF PageHidden, Stop, Destroy, reporterVars
  <2>3. destroyed' => ~reporting'
    BY DEF PageHidden, Stop, Destroy, reporterVars, OrderInv, StoppedInv
  <2> QED  BY <2>1, <2>2, <2>3
<1>2. DOMAIN buffer' = {}  BY <1>1
<1>3. StoppedInv'  BY <1>1 DEF StoppedInv
<1>4. LockInv'  BY <1>1 DEF LockInv
<1>5. QueueInv'  BY <1>1, NothingBefore DEF QueueInv, AllBefore
<1>6. PostsInv'  BY <1>1, <1>2, NothingBefore DEF OrderInv, PostsInv, AllBefore
<1> QED  BY <1>3, <1>4, <1>5, <1>6 DEF OrderInv

(* Every step keeps the order and the lock.                                  *)
LEMMA OrderStep ==
  ASSUME ConfigurationAssumption, TypeInv, CountInv, OrderInv, LockInv, [BufferNext]_bufferVars
  PROVE  OrderInv' /\ LockInv'
<1>1. CASE ReportEvent  BY <1>1, ReportOrder
<1>2. CASE SendEvents  BY <1>2, SendOrder
<1>3. CASE PostAnswered  BY <1>3, AnswerOrder
<1>4. CASE PageHidden \/ Stop \/ Destroy  BY <1>4, BeaconOrder
<1>5. CASE Start \/ UNCHANGED bufferVars
  <2>1. /\ UNCHANGED <<destroyed, currentIngestionEvent, buffer, lock, posts>>
        /\ (destroyed => reporting' = reporting)
    BY <1>5 DEF Start, bufferVars, reporterVars, currentVars
  <2>2. LockInv'  BY <2>1 DEF LockInv
  <2>3. StoppedInv'  BY <2>1 DEF OrderInv, StoppedInv
  <2>4. QueueInv'  BY <2>1 DEF OrderInv, QueueInv
  <2>5. PostsInv'  BY <2>1 DEF OrderInv, PostsInv
  <2> QED  BY <2>2, <2>3, <2>4, <2>5 DEF OrderInv
<1> QED  BY <1>1, <1>2, <1>3, <1>4, <1>5 DEF BufferNext

(* At first there is nothing to be ordered.                                  *)
LEMMA OrderInit == ASSUME BufferInit PROVE OrderInv /\ LockInv
<1>1. buffer = <<>> /\ currentIngestionEvent = <<>> /\ posts = {} /\ ~destroyed  BY DEF BufferInit
<1>2. DOMAIN buffer = {}  BY <1>1
<1>3. QueueInv  BY <1>1, <1>2, NothingBefore DEF QueueInv, AllBefore
<1> QED  BY <1>1, <1>3 DEF OrderInv, StoppedInv, PostsInv, LockInv

-----------------------------------------------------------------------------
(* What is being posted, the buffer and the current ingestion event, one      *)
(* after the other.                                                          *)
LEMMA OneAfterTheOther ==
  ASSUME TypeInv, OrderInv, NEW p \in posts, ~p.important,
         NEW items, items = p.events \o buffer \o <<currentIngestionEvent>>
  PROVE  Sorted(items)
<1> DEFINE n == Len(p.events)
           m == Len(buffer)
<1>1. /\ p.events \in Seq(Seq(Events)) /\ buffer \in Seq(Seq(Events))
      /\ currentIngestionEvent \in Seq(Events)
  BY DEF TypeInv, PostTypes, BufferTypes, CurrentTypes, Requests, Batches, Items
<1>2. n \in Nat /\ m \in Nat /\ DOMAIN p.events = 1..n /\ DOMAIN buffer = 1..m  BY <1>1
<1>3. /\ DOMAIN items = 1..(n + m + 1)
      /\ \A i \in 1..n : items[i] = p.events[i]
      /\ \A i \in (n + 1)..(n + m) : items[i] = buffer[i - n]
      /\ items[n + m + 1] = currentIngestionEvent
  BY <1>1
<1> HIDE DEF n, m
<1>4. \A i \in DOMAIN items : i \in Nat /\ (i \in 1..n \/ (i \in (n + 1)..(n + m) /\ i - n \in 1..m) \/ i = n + m + 1)
  BY <1>2, <1>3
<1>5. ASSUME NEW i \in DOMAIN items PROVE Increasing(items[i])
  <2>1. CASE i \in 1..n  BY <1>2, <1>3, <2>1 DEF OrderInv, PostsInv, Sorted
  <2>2. CASE i \in (n + 1)..(n + m) /\ i - n \in 1..m
    BY <1>2, <1>3, <2>2 DEF OrderInv, QueueInv, Sorted
  <2>3. CASE i = n + m + 1  BY <1>3, <2>3 DEF OrderInv, QueueInv
  <2> QED  BY <1>4, <2>1, <2>2, <2>3
<1>6. ASSUME NEW i \in DOMAIN items, NEW j \in DOMAIN items, i < j PROVE Before(items[i], items[j])
  <2>1. CASE i \in 1..n
    <3>1. i \in DOMAIN p.events /\ items[i] = p.events[i]  BY <1>2, <1>3, <2>1
    <3>2. CASE j \in 1..n
      <4>1. j \in DOMAIN p.events /\ items[j] = p.events[j]  BY <1>2, <1>3, <3>2
      <4> QED  BY <1>6, <3>1, <4>1 DEF OrderInv, PostsInv, Sorted
    <3>3. CASE j \in (n + 1)..(n + m) /\ j - n \in 1..m
      <4>1. j - n \in DOMAIN buffer /\ items[j] = buffer[j - n]  BY <1>2, <1>3, <3>3
      <4> QED  BY <3>1, <4>1 DEF OrderInv, PostsInv, AllBefore
    <3>4. CASE j = n + m + 1  BY <1>3, <3>1, <3>4 DEF OrderInv, PostsInv, AllBefore
    <3> QED  BY <1>4, <3>2, <3>3, <3>4
  <2>2. CASE i \in (n + 1)..(n + m) /\ i - n \in 1..m
    <3>1. i - n \in DOMAIN buffer /\ items[i] = buffer[i - n]  BY <1>2, <1>3, <2>2
    <3>2. CASE j \in (n + 1)..(n + m) /\ j - n \in 1..m
      <4>1. j - n \in DOMAIN buffer /\ items[j] = buffer[j - n] /\ i - n < j - n
        BY <1>2, <1>3, <1>4, <1>6, <3>2
      <4> QED  BY <3>1, <4>1 DEF OrderInv, QueueInv, Sorted
    <3>3. CASE j = n + m + 1  BY <1>3, <3>1, <3>3 DEF OrderInv, QueueInv, AllBefore
    <3>4. j \notin 1..n  BY <1>2, <1>4, <1>6, <2>2
    <3> QED  BY <1>4, <3>2, <3>3, <3>4
  <2>3. i # n + m + 1  BY <1>2, <1>3, <1>4, <1>6
  <2> QED  BY <1>4, <2>1, <2>2, <2>3
<1> QED  BY <1>5, <1>6 DEF Sorted

(* One place, and a count that goes with it: the events are conserved.       *)
LEMMA InvConserved ==
  ASSUME TypeInv, PlaceInv, CountInv PROVE Conserved
<1> SUFFICES ASSUME NEW e \in Events
             PROVE  LET n == Places(e) + handed[e] + (IF e \in lost THEN 1 ELSE 0) IN
                    IF e > accepted THEN n = 0
                    ELSE IF browser = "firefox" THEN n \in 1..2
                    ELSE n = 1
  BY DEF Conserved
<1>1. Places(e) = IF Live(e) THEN 1 ELSE 0  BY PlacesOf
<1>2. Done(e) \in Nat /\ Done(e) = handed[e] + (IF e \in lost THEN 1 ELSE 0) /\ handed[e] \in Nat
  BY DoneNat DEF TypeInv, OutTypes
<1>3. Places(e) + handed[e] + (IF e \in lost THEN 1 ELSE 0) = Places(e) + Done(e)  BY <1>1, <1>2
<1>4. e \in Nat /\ accepted \in Nat  BY DEF TypeInv, CountTypes, Events
<1>5. CASE e > accepted  BY <1>1, <1>3, <1>5 DEF CountInv, CountOf
<1>6. CASE ~(e > accepted)
  <2>1. e <= accepted  BY <1>4, <1>6
  <2>2. CASE browser = "firefox"
    <3>1. Places(e) + Done(e) \in 1..2  BY <1>1, <1>2, <2>1, <2>2, <1>6 DEF CountInv, CountOf, Live
    <3> QED  BY <1>3, <1>6, <2>2, <3>1
  <2>3. CASE browser # "firefox"
    <3>1. Places(e) + Done(e) = 1  BY <1>1, <1>2, <2>1, <2>3 DEF CountInv, CountOf
    <3> QED  BY <1>3, <1>6, <2>3, <3>1
  <2> QED  BY <2>2, <2>3
<1> QED  BY <1>5, <1>6

(* The parts of the order make up the order the run checks.                  *)
LEMMA InvInOrder == ASSUME TypeInv, OrderInv PROVE InOrder
BY OneAfterTheOther DEF InOrder, Sorted

(* No event disappears, none is sent twice but in Firefox, and what is being  *)
(* posted from the buffer is older than what is in it: for every size of the  *)
(* buffer, of its events and of what is sent at once.                        *)
THEOREM EventsArrive == BufferSpec => []ConservedInOrder
<1> DEFINE I == TypeInv /\ PlaceInv /\ CountInv /\ FreshInv /\ CancelableInv /\ OrderInv /\ LockInv
<1>1. BufferInit => I  BY ConfigurationAssumption, TypeInit, PlacesInit, OrderInit
<1>2. I /\ [BufferNext]_bufferVars => I'  BY ConfigurationAssumption, TypeStep, PlacesStep, OrderStep
<1>3. I => ConservedInOrder  BY InvConserved, InvInOrder DEF ConservedInOrder
<1> QED  BY <1>1, <1>2, <1>3, PTL DEF BufferSpec
=============================================================================
