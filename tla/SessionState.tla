---------------------------- MODULE SessionState ----------------------------
(***************************************************************************)
(* DefaultSessionStateController: the state machine of an audio-video       *)
(* session with its single slot for a deferred action.                      *)
(*                                                                         *)
(* perform(action, work) changes the state first, runs work synchronously,  *)
(* and then performs the deferred action.  work may itself call perform, so *)
(* calls nest: `stack` holds one frame per perform whose work is running,   *)
(* the innermost first.  A frame remembers the state to roll back to.        *)
(*                                                                         *)
(* Works stand for the closures handed to perform.  In this code only the   *)
(* closures of FinishConnecting and FinishUpdating do more than start an     *)
(* async function, so only they can throw.  They may call perform before     *)
(* they do: a task that is resumed may call for an update, and the work goes *)
(* on with the other task.  Any other action is performed as the last thing  *)
(* (Fail, by reconnect; AVC:1184): the works on the stack throw no more.     *)
(***************************************************************************)
EXTENDS Naturals, Sequences

CONSTANTS Works,      \* the closures a caller may hand to perform
          NoWork,     \* deferredWork when nothing is deferred
          MaxDepth    \* bound on nested calls of perform

States == {"NotConnected", "Connecting", "Connected", "Updating", "Disconnecting"}

Actions == {"Connect", "Fail", "FinishConnecting", "Disconnect", "Reconnect",
            "Update", "FinishUpdating", "FinishDisconnecting"}

NoAction == "none"

(* The actions whose work can throw. *)
FragileActions == {"FinishConnecting", "FinishUpdating"}

ASSUME WorksAssumption ==
  /\ NoWork \notin Works
  /\ MaxDepth \in Nat \ {0}

VARIABLES currentState, deferredAction, deferredWork, stack

vars == <<currentState, deferredAction, deferredWork, stack>>
slot == <<deferredAction, deferredWork>>

(* How far a work is: it has performed nothing yet, or updates after which it *)
(* goes on, or the last thing it performs.                                   *)
Progress == {"begun", "further", "last"}

Frames == [from : States, action : Actions, work : Works, progress : Progress]

-----------------------------------------------------------------------------
(* Bug: a session that is connecting can be started again.                  *)
StartEdgesAgain ==
  { <<"NotConnected", "Connect",    "Connecting">>,
    <<"Connecting",   "Connect",    "Connecting">>,
    <<"Connected",    "Reconnect",  "Connecting">>,
    <<"Connected",    "Update",     "Updating">>,
    <<"Connected",    "Disconnect", "Disconnecting">> }

StartEdges ==
  { <<"NotConnected", "Connect",    "Connecting">>,
    <<"Connected",    "Reconnect",  "Connecting">>,
    <<"Connected",    "Update",     "Updating">>,
    <<"Connected",    "Disconnect", "Disconnecting">> }

(* Bug: a stop does not wait for the end of an update.                      *)
FailEdgesAndStop ==
  {"Connecting", "Connected", "Updating"} \X {"Fail"} \X {"Disconnecting"}
    \cup {<<"Updating", "Disconnect", "Disconnecting">>}

FailEdges == {"Connecting", "Connected", "Updating"} \X {"Fail"} \X {"Disconnecting"}

(* Bug: a late FinishConnecting is accepted while disconnecting.            *)
FinishEdgesAnyState ==
  { <<"Connecting",    "FinishConnecting",    "Connected">>,
    <<"Disconnecting", "FinishConnecting",    "Connected">>,
    <<"Updating",      "FinishUpdating",      "Connected">>,
    <<"Disconnecting", "FinishDisconnecting", "NotConnected">> }

FinishEdges ==
  { <<"Connecting",    "FinishConnecting",    "Connected">>,
    <<"Updating",      "FinishUpdating",      "Connected">>,
    <<"Disconnecting", "FinishDisconnecting", "NotConnected">> }

Edges == StartEdges \cup FailEdges \cup FinishEdges

HasTransition(a) == \E t \in States : <<currentState, a, t>> \in Edges

DeferPriority ==
  [a \in Actions |-> CASE a = "Disconnect" -> 4
                       [] a = "Fail"       -> 3
                       [] a = "Reconnect"  -> 2
                       [] a = "Update"     -> 1
                       [] OTHER            -> 0]

CanDefer(a) == DeferPriority[a] > 0 /\ currentState \in {"Connecting", "Updating"}

Init ==
  /\ currentState = "NotConnected"
  /\ deferredAction = NoAction
  /\ deferredWork = NoWork
  /\ stack = <<>>

-----------------------------------------------------------------------------
(* The parts of one perform(a, w); `base` is the stack below its frame.     *)

Frame(a, w) == [from |-> currentState, action |-> a, work |-> w, progress |-> "begun"]

Transition(a, w, base) ==
  \E t \in States :
    /\ <<currentState, a, t>> \in Edges
    /\ currentState' = t
    /\ stack' = <<Frame(a, w)>> \o base

(* Bug: the latest action is kept, whatever its priority.                   *)
DeferActionLatest(a, w) == deferredAction' = a /\ deferredWork' = w

DeferAction(a, w) ==
  IF deferredAction # NoAction /\ DeferPriority[deferredAction] > DeferPriority[a]
  THEN UNCHANGED slot
  ELSE deferredAction' = a /\ deferredWork' = w

(* The stack as a call leaves it to its caller, which goes on (p = "further")  *)
(* or, like the works that called it, is past the point where it could throw. *)
CallerMarked(p) ==
  [i \in DOMAIN stack |->
     IF p = "last" \/ (i = 1 /\ stack[1].progress = "begun")
     THEN [stack[i] EXCEPT !.progress = p]
     ELSE stack[i]]

AfterCall(a) == CallerMarked(IF a = "Update" THEN "further" ELSE "last")

(* JavaScript runs to completion: while a work runs, only it calls perform.  *)
Perform(a, w) ==
  /\ Len(stack) < MaxDepth
  /\ \/ Transition(a, w, AfterCall(a)) /\ UNCHANGED slot
     \/ /\ ~HasTransition(a) /\ CanDefer(a)
        /\ DeferAction(a, w)
        /\ stack' = AfterCall(a)
        /\ UNCHANGED currentState
     \/ /\ ~HasTransition(a) /\ ~CanDefer(a)
        /\ stack' = AfterCall(a)
        /\ UNCHANGED <<currentState, slot>>

(* Bug: the slot's work is not reset.                                       *)
ClearActionOnly == deferredAction' = NoAction /\ UNCHANGED deferredWork

ClearSlot == deferredAction' = NoAction /\ deferredWork' = NoWork

(* The slot is emptied and its action performed: it transitions, or the     *)
(* state still defers it and it goes back to the slot, or it is dropped.    *)
PerformDeferredAction(base) ==
  \/ /\ deferredAction = NoAction
     /\ stack' = base
     /\ UNCHANGED <<currentState, slot>>
  \/ /\ deferredAction # NoAction
     /\ Transition(deferredAction, deferredWork, base)
     /\ ClearSlot
  \/ /\ deferredAction # NoAction /\ ~HasTransition(deferredAction)
     /\ CanDefer(deferredAction)
     /\ stack' = base
     /\ UNCHANGED <<currentState, slot>>
  \/ /\ deferredAction # NoAction /\ ~HasTransition(deferredAction)
     /\ ~CanDefer(deferredAction)
     /\ stack' = base
     /\ ClearSlot
     /\ UNCHANGED currentState

WorkReturns ==
  /\ stack # <<>>
  /\ PerformDeferredAction(Tail(stack))

MayThrow(f) == f.action \in FragileActions /\ f.progress # "last"

(* An exception rolls the state back and leaves the slot alone.             *)
WorkThrows ==
  /\ stack # <<>> /\ MayThrow(Head(stack))
  /\ currentState' = Head(stack).from
  /\ stack' = Tail(stack)
  /\ UNCHANGED slot

Next ==
  \/ \E a \in Actions, w \in Works : Perform(a, w)
  \/ WorkReturns
  \/ WorkThrows

Spec == Init /\ [][Next]_vars

-----------------------------------------------------------------------------
(* Every variable stays in its set, the slot holds an action and its work   *)
(* together, and only actions that have a defer priority are ever in it.    *)
TypeOK ==
  /\ currentState \in States
  /\ deferredAction \in {a \in Actions : DeferPriority[a] > 0} \cup {NoAction}
  /\ deferredWork \in Works \cup {NoWork}
  /\ (deferredAction = NoAction) <=> (deferredWork = NoWork)
  /\ stack \in Seq(Frames)
  /\ Len(stack) <= MaxDepth

(* No action is forgotten in the slot by a session that is not in transit:   *)
(* once every perform has returned, one is pending only while Connecting or  *)
(* Updating.                                                                *)
DeferredOnlyInTransit ==
  stack = <<>> /\ deferredAction # NoAction
    => currentState \in {"Connecting", "Updating"}

(* A rollback undoes its own transition and, at most, the update its work     *)
(* asked for: never a stop, a failure or a reconnect.  Until a work that may  *)
(* throw has returned, whatever was deferred stays deferred, although each   *)
(* perform in it ends with performDeferredAction.                           *)
RollbackUndoesUpdateOnly ==
  \A i \in 1..Len(stack) :
    MayThrow(stack[i]) =>
      /\ currentState \in {"Connected", "Updating"}
      /\ \A j \in 1..(i - 1) : stack[j].action = "Update"

(* A deferred stop is never displaced by a later Fail, Reconnect or Update:  *)
(* it leaves the slot only when the session is being, or is, disconnected.  *)
DeferredStopHonoured ==
  [][deferredAction = "Disconnect" /\ deferredAction' # "Disconnect"
       => currentState' \in {"Disconnecting", "NotConnected"}]_vars

(* Once disconnecting, the session can only become NotConnected: no nested   *)
(* call, deferred action or rollback brings it back to life.                *)
DisconnectingIsFinal ==
  [][currentState = "Disconnecting"
       => currentState' \in {"Disconnecting", "NotConnected"}]_vars

(* Once the application has stopped the session, it stays so: a stop is not  *)
(* displaced while it waits, nor undone while it is under way.              *)
StopIsKept == DeferredStopHonoured /\ DisconnectingIsFinal
=============================================================================
