---------------------------- MODULE SignalingClient ----------------------------
(***************************************************************************)
(* DefaultSignalingClient over DefaultWebSocketAdapter: the life of the     *)
(* signaling connection.  The adapter holds one WebSocket at a time; a      *)
(* socket it has let go still exists in the browser and still calls the     *)
(* handlers registered on it.  Handlers of 'close' are numbered: 0 is        *)
(* closeEventHandler, k the handler that the k-th closeConnection made.      *)
(* The frames themselves are left out.                                       *)
(***************************************************************************)
EXTENDS Naturals, SequencesExt, FiniteSets

CONSTANTS
  Cases,       \* the sets of hard circumstances considered
  MaxCalls     \* bound on the calls of openConnection and closeConnection

(* "closeAgain": closeConnection is called while a close is under way.       *)
(* "lateError": a socket given up after two seconds fails after all.         *)
ASSUME CasesAssumption ==
  Cases \subseteq SUBSET {"closeAgain", "lateError"} /\ MaxCalls \in Nat

VARIABLES
  sockets,      \* every WebSocket created: [state, opened, onClose]
  connection,   \* the adapter's socket, 0 for none
  waiting,      \* length of connectionRequestQueue
  wasOpened, isClosing,
  timers,       \* the handlers whose TimeoutScheduler is running
  dispatching,  \* the handlers that the current 'close' event has still to call
  calls, closes,          \* API calls made; closeConnection's handlers made
  unloadHandler, unloads, \* whether one is kept; how many window has
  hard,                   \* the hard circumstances of this behaviour, fixed at its start
  phase, ends             \* what observers have heard, see SignalingLifecycle

clientVars == <<waiting, wasOpened, isClosing, unloadHandler, unloads>>
heard == <<phase, ends>>
vars == <<sockets, connection, timers, dispatching, calls, closes, clientVars, heard>>

Init ==
  /\ sockets = <<>> /\ connection = 0
  /\ waiting = 0 /\ wasOpened = FALSE /\ isClosing = FALSE
  /\ timers = {} /\ dispatching = <<>>
  /\ calls = 0 /\ closes = 0
  /\ unloadHandler = FALSE /\ unloads = 0
  /\ phase = "none" /\ ends = 0
  /\ hard \in Cases

-----------------------------------------------------------------------------
readyState == IF connection = 0 THEN "none" ELSE sockets[connection].state

ready == readyState = "open" /\ ~isClosing /\ wasOpened

(* The browser's list of handlers without one of them, which it holds once.  *)
RemoveListener(handlers, k) ==
  IF \E i \in DOMAIN handlers : handlers[i] = k
  THEN RemoveAt(handlers, CHOOSE i \in DOMAIN handlers : handlers[i] = k)
  ELSE handlers

activatePageUnloadHandler == unloadHandler' = TRUE /\ unloads' = unloads + 1

deactivatePageUnloadHandler ==
  /\ unloadHandler' = FALSE
  /\ unloads' = IF unloadHandler THEN unloads - 1 ELSE unloads

(* Bug: the queue is taken from without looking whether it is empty. *)
ServiceWithoutCheck(pending, event, live) ==
  /\ waiting' = pending - 1
  /\ isClosing' = FALSE
  /\ connection' = Len(live) + 1
  /\ sockets' = Append(live, [state |-> "connecting", opened |-> FALSE, onClose |-> <<0>>])
  /\ phase' = "connecting"

(* serviceConnectionRequestQueue with pending requests, when there is no      *)
(* connection: live are the sockets so far, event what was last heard.        *)
serviceConnectionRequestQueue(pending, event, live) ==
  IF pending = 0
  THEN connection' = 0 /\ sockets' = live /\ phase' = event /\ UNCHANGED <<waiting, isClosing>>
  ELSE /\ waiting' = pending - 1
       /\ isClosing' = FALSE
       /\ connection' = Len(live) + 1
       /\ sockets' = Append(live, [state |-> "connecting", opened |-> FALSE, onClose |-> <<0>>])
       /\ phase' = "connecting"

closeEventHandler(live) ==
  /\ deactivatePageUnloadHandler
  /\ wasOpened' = FALSE
  /\ ends' = ends + 1
  /\ serviceConnectionRequestQueue(waiting, "none", live)

(* removeEventListener reaches the adapter's socket only. *)
WithoutHandler(k) ==
  IF connection = 0 THEN sockets
  ELSE [sockets EXCEPT ![connection].onClose = RemoveListener(@, k)]

(* A handler is called, by a 'close' event or with the fake one. *)
CallHandler(k) ==
  /\ timers' = timers \ {k}
  /\ closeEventHandler(IF k = 0 THEN sockets ELSE WithoutHandler(k))

-----------------------------------------------------------------------------
(* Bug: without a 'close' event the close never ends. *)
CloseWithoutTimeout(requests) ==
  /\ closes' = closes + 1
  /\ isClosing' = TRUE
  /\ phase' = "closing"
  /\ sockets' = [sockets EXCEPT
       ![connection].onClose = Append(RemoveListener(@, 0), closes + 1),
       ![connection].state = "closing"]
  /\ waiting' = waiting + requests
  /\ deactivatePageUnloadHandler
  /\ UNCHANGED <<connection, wasOpened, timers, ends>>

(* Bug: closeEventHandler is left in place next to the new handler. *)
CloseKeepsHandler(requests) ==
  /\ closes' = closes + 1
  /\ isClosing' = TRUE
  /\ phase' = "closing"
  /\ sockets' = [sockets EXCEPT
       ![connection].onClose = Append(@, closes + 1),
       ![connection].state = "closing"]
  /\ timers' = timers \union {closes + 1}
  /\ waiting' = waiting + requests
  /\ deactivatePageUnloadHandler
  /\ UNCHANGED <<connection, wasOpened, ends>>

(* closeConnection with a connection; the calling openConnection has pushed   *)
(* its request.                                                               *)
CloseExisting(requests) ==
  /\ closes' = closes + 1
  /\ isClosing' = TRUE
  /\ phase' = "closing"
  /\ sockets' = [sockets EXCEPT
       ![connection].onClose = Append(RemoveListener(@, 0), closes + 1),
       ![connection].state = "closing"]
  /\ timers' = timers \union {closes + 1}
  /\ waiting' = waiting + requests
  /\ deactivatePageUnloadHandler
  /\ UNCHANGED <<connection, wasOpened, ends>>

NothingToClose == readyState \in {"none", "closed"}

closeConnection(requests) ==
  /\ dispatching = <<>>
  /\ calls < MaxCalls /\ calls' = calls + 1
  /\ UNCHANGED dispatching
  /\ \/ /\ NothingToClose
        /\ serviceConnectionRequestQueue(waiting + requests, phase, sockets)
        /\ UNCHANGED <<wasOpened, timers, closes, ends, unloadHandler, unloads>>
     \/ /\ ~NothingToClose
        /\ "closeAgain" \in hard \/ timers = {}
        /\ CloseExisting(requests)

OpenConnection == closeConnection(1)

(* Without a connection and without requests closeConnection does nothing.    *)
CloseConnection == (~NothingToClose \/ waiting > 0) /\ closeConnection(0)

(* No 'close' event within two seconds: the handler is called all the same.   *)
TimerFires(k) ==
  /\ dispatching = <<>>
  /\ k \in timers
  /\ CallHandler(k)
  /\ UNCHANGED <<dispatching, calls, closes>>

-----------------------------------------------------------------------------
(* The browser calls back. *)
SocketOpens(s) ==
  /\ dispatching = <<>>
  /\ sockets[s].state = "connecting"
  /\ sockets' = [sockets EXCEPT ![s].state = "open", ![s].opened = TRUE]
  /\ activatePageUnloadHandler
  /\ wasOpened' = TRUE
  /\ phase' = "open"
  /\ UNCHANGED <<connection, waiting, isClosing, timers, dispatching, calls, closes, ends>>

(* The server starts the closing handshake: no event, but the state changes.  *)
ServerCloses(s) ==
  /\ dispatching = <<>>
  /\ sockets[s].state = "open"
  /\ sockets' = [sockets EXCEPT ![s].state = "closing"]
  /\ UNCHANGED <<connection, timers, dispatching, calls, closes, clientVars, heard>>

(* Bug: an error after closeConnection was called is reported as any other.   *)
ErrorAlwaysReported == IF wasOpened THEN phase ELSE "failed"

(* The handler of 'error': what observers have heard afterwards.              *)
AfterError ==
  IF wasOpened \/ isClosing THEN phase ELSE "failed"

(* A socket closes: 'error' if it failed, then 'close', in one task.  A       *)
(* socket that never opened cannot close without failing.                     *)
SocketCloses(s, failed) ==
  /\ dispatching = <<>>
  /\ sockets[s].state # "closed"
  /\ sockets[s].opened \/ failed
  /\ failed /\ s # connection => "lateError" \in hard
  /\ phase' = IF failed THEN AfterError ELSE phase
  /\ dispatching' = sockets[s].onClose
  /\ sockets' = [sockets EXCEPT ![s].state = "closed"]
  /\ UNCHANGED <<connection, timers, calls, closes, clientVars, ends>>

DispatchClose ==
  /\ dispatching # <<>>
  /\ CallHandler(Head(dispatching))
  /\ dispatching' = Tail(dispatching)
  /\ UNCHANGED <<calls, closes>>

Next ==
  \/ OpenConnection \/ CloseConnection \/ DispatchClose
  \/ \E k \in timers : TimerFires(k)
  \/ \E s \in DOMAIN sockets : SocketOpens(s) \/ ServerCloses(s)
  \/ \E s \in DOMAIN sockets, failed \in BOOLEAN : SocketCloses(s, failed)

Fairness ==
  /\ WF_vars(DispatchClose)
  /\ WF_vars(\E k \in timers : TimerFires(k))

Spec == Init /\ [][Next /\ UNCHANGED hard]_<<vars, hard>> /\ Fairness

-----------------------------------------------------------------------------
TypeOK ==
  /\ sockets \in Seq([state : {"connecting", "open", "closing", "closed"},
                      opened : BOOLEAN, onClose : Seq(0..closes)])
  /\ connection \in 0..Len(sockets)
  /\ waiting \in 0..MaxCalls
  /\ wasOpened \in BOOLEAN /\ isClosing \in BOOLEAN /\ unloadHandler \in BOOLEAN
  /\ timers \subseteq 1..closes
  /\ dispatching \in Seq(0..closes)
  /\ calls \in 0..MaxCalls /\ closes \in 0..calls
  /\ unloads \in Nat /\ ends \in Nat
  /\ phase \in {"none", "connecting", "open", "failed", "closing"}

InTurn == hard = {}

Live(s) == sockets[s].state \in {"connecting", "open"}

(* The client never keeps two connections: before it creates a WebSocket it   *)
(* has closed every earlier one (openConnection, closeConnection).            *)
OneConnection ==
  \A s \in DOMAIN sockets : Live(s) => s = connection

(* ... which holds when closes come one at a time, and so do the next three.  *)
OneConnectionInTurn == InTurn => OneConnection

(* wasOpened, by which the client tells a lost connection from one that       *)
(* could not be made, is about the current socket and no earlier one.         *)
OpenedIsCurrent ==
  InTurn => (wasOpened <=> connection # 0 /\ sockets[connection].opened)

(* A page that is left sends at most one leave, and only on a connection      *)
(* that has opened (the 'unload' handler on window).                          *)
UnloadFollowsConnection ==
  InTurn =>
    /\ unloads = IF unloadHandler THEN 1 ELSE 0
    /\ unloadHandler => wasOpened /\ ~isClosing

(* With closes one at a time the client is about one connection: there is no  *)
(* other, and what it keeps of one goes with it (closeEventHandler,           *)
(* openConnection).                                                           *)
StateIsOfConnection == OneConnectionInTurn /\ OpenedIsCurrent /\ UnloadFollowsConnection

(* Each waiting request has a closing of its own under way, with a running    *)
(* timeout: closing and serving stay in step even when calls overlap.         *)
RequestsHaveClosings == waiting <= Cardinality(timers)

(* With closes one at a time the events come in the order SignalingClient.ts  *)
(* promises; the other behaviours are mapped to one that stays as it began.   *)
Lifecycle == INSTANCE SignalingLifecycle WITH
  phase    <- IF InTurn THEN phase ELSE "none",
  attempts <- IF InTurn THEN Len(sockets) ELSE 0,
  ends     <- IF InTurn THEN ends ELSE 0,
  waiting  <- IF InTurn THEN waiting ELSE 0
ImplementsLifecycle == Lifecycle!Spec

(* Every request for a connection is tried, whether or not the browser ever   *)
(* reports the old connection closed.                                         *)
EveryRequestServed == waiting > 0 ~> waiting = 0
=============================================================================
