--------------------------- MODULE ConnectionProofs ---------------------------
(***************************************************************************)
(* The signaling connection.  Of the client, for any number of calls,       *)
(* however they overlap: the types, and every request that waits in the     *)
(* queue has a running timeout that will serve it, because openConnection   *)
(* pushes its request and closes in one go and each handler stops one timer *)
(* and takes one request.  When closes come one at a time: the client is    *)
(* about one connection, and implements SignalingLifecycle.  Those rest on  *)
(* what the adapter's socket has as its one handler, which says whether a   *)
(* close is under way, and on the sockets let go having none.               *)
(*                                                                         *)
(* Of the monitoring of its health, for any thresholds: every variable      *)
(* keeps its type and every counter its bound, pings are sent on an open    *)
(* connection of a running session only, missed pongs are forgotten once    *)
(* one is answered, and the failures reported of a controller's first       *)
(* session are real.                                                       *)
(***************************************************************************)
EXTENDS SignalingClient, ConnectionHealth, FiniteSetTheorems, TLAPS

(***************************************************************************)
(* SignalingClient: the requests, the types, the one connection.            *)
(***************************************************************************)

Counted ==
  /\ waiting \in Nat /\ closes \in Nat
  /\ timers \in SUBSET (1..closes)
  /\ RequestsHaveClosings

(* The timers are finitely many. *)
LEMMA TimersFinite ==
  ASSUME Counted PROVE IsFiniteSet(timers) /\ Cardinality(timers) \in Nat
<1>1. IsFiniteSet(1..closes)  BY FS_Interval DEF Counted
<1>2. IsFiniteSet(timers)  BY <1>1, FS_Subset DEF Counted
<1> QED  BY <1>2, FS_CardinalityType

(* A handler stops its timer and takes a request. *)
LEMMA HandlerCounts ==
  ASSUME Counted, NEW STATE k, CallHandler(k), closes' = closes
  PROVE  Counted'
<1>1. timers' = timers \ {k}  BY DEF CallHandler
<1>2. waiting' = IF waiting = 0 THEN 0 ELSE waiting - 1
  BY DEF CallHandler, closeEventHandler, serviceConnectionRequestQueue
<1>3. waiting' \in Nat  BY <1>2 DEF Counted
<1>4. Cardinality(timers') >= Cardinality(timers) - 1 /\ Cardinality(timers') \in Nat
  <2>1. CASE k \in timers
    <3>1. Cardinality(timers \ {k}) = Cardinality(timers) - 1
      BY <2>1, TimersFinite, FS_RemoveElement
    <3>2. Cardinality(timers \ {k}) \in Nat
      BY TimersFinite, FS_Subset, FS_CardinalityType
    <3> QED  BY <1>1, <3>1, <3>2, TimersFinite
  <2>2. CASE k \notin timers
    <3>1. timers' = timers  BY <1>1, <2>2
    <3> QED  BY <3>1, TimersFinite
  <2> QED  BY <2>1, <2>2
<1>5. RequestsHaveClosings'  BY <1>2, <1>3, <1>4, TimersFinite DEF Counted, RequestsHaveClosings
<1> QED  BY <1>1, <1>3, <1>5 DEF Counted

(* openConnection and closeConnection leave as many timers as requests. *)
LEMMA CallCounts ==
  ASSUME Counted, NEW requests \in {0, 1}, closeConnection(requests)
  PROVE  Counted'
<1>1. CASE NothingToClose
  <2>1. timers' = timers /\ closes' = closes
    BY <1>1 DEF closeConnection
  <2> DEFINE pending == waiting + requests
  <2>2. pending \in Nat /\ pending - 1 <= waiting  BY DEF Counted
  <2>3. serviceConnectionRequestQueue(pending, phase, sockets)
    BY <1>1 DEF closeConnection
  <2>4. CASE pending = 0
    <3>1. waiting' = waiting  BY <2>3, <2>4 DEF serviceConnectionRequestQueue
    <3> QED  BY <2>1, <3>1 DEF Counted, RequestsHaveClosings
  <2>5. CASE pending # 0
    <3>1. waiting' = pending - 1
      <4> HIDE DEF pending
      <4> QED  BY <2>3, <2>5, Zenon DEF serviceConnectionRequestQueue
    <3>2. waiting' \in Nat /\ waiting' <= waiting  BY <2>2, <2>5, <3>1 DEF Counted
    <3> QED  BY <2>1, <3>2, TimersFinite DEF Counted, RequestsHaveClosings
  <2> QED  BY <2>4, <2>5
<1>2. CASE ~NothingToClose
  <2>1. /\ closes' = closes + 1
        /\ timers' = timers \union {closes + 1}
        /\ waiting' = waiting + requests
    BY <1>2 DEF closeConnection, CloseExisting
  <2>2. closes + 1 \notin timers  BY DEF Counted
  <2>3. Cardinality(timers') = Cardinality(timers) + 1
    BY <2>1, <2>2, TimersFinite, FS_AddElement
  <2>4. timers' \in SUBSET (1..closes')  BY <2>1 DEF Counted
  <2>5. RequestsHaveClosings'
    BY <2>1, <2>3, TimersFinite DEF Counted, RequestsHaveClosings
  <2> QED  BY <2>1, <2>4, <2>5 DEF Counted
<1> QED  BY <1>1, <1>2

(* Every request that waits has a running timeout of its own, for any number  *)
(* of overlapping calls of openConnection and closeConnection.                *)
THEOREM RequestsServed == Spec => []RequestsHaveClosings
<1>1. Init => Counted
  <2> SUFFICES ASSUME Init PROVE Counted  OBVIOUS
  <2>1. Cardinality(timers) = 0  BY FS_EmptySet DEF Init
  <2> QED  BY <2>1 DEF Init, Counted, RequestsHaveClosings
<1>2. Counted /\ [Next /\ UNCHANGED hard]_<<vars, hard>> => Counted'
  <2> SUFFICES ASSUME Counted, [Next /\ UNCHANGED hard]_<<vars, hard>> PROVE Counted'  OBVIOUS
  <2> USE DEF clientVars, heard
  <2>1. CASE OpenConnection  BY <2>1, CallCounts DEF OpenConnection
  <2>2. CASE CloseConnection  BY <2>2, CallCounts DEF CloseConnection
  <2>3. CASE DispatchClose  BY <2>3, HandlerCounts DEF DispatchClose
  <2>4. CASE \E k \in timers : TimerFires(k)  BY <2>4, HandlerCounts DEF TimerFires
  <2>5. ASSUME NEW s, SocketOpens(s) PROVE Counted'
    BY <2>5 DEF SocketOpens, Counted, RequestsHaveClosings
  <2>6. ASSUME NEW s, ServerCloses(s) PROVE Counted'
    BY <2>6 DEF ServerCloses, Counted, RequestsHaveClosings
  <2>7. ASSUME NEW s, NEW failed, SocketCloses(s, failed) PROVE Counted'
    BY <2>7 DEF SocketCloses, Counted, RequestsHaveClosings
  <2>8. CASE UNCHANGED vars  BY <2>8 DEF vars, Counted, RequestsHaveClosings
  <2> QED  BY <2>1, <2>2, <2>3, <2>4, <2>5, <2>6, <2>7, <2>8 DEF Next
<1>3. Counted => RequestsHaveClosings  BY DEF Counted
<1> QED  BY <1>1, <1>2, <1>3, PTL DEF Spec

-----------------------------------------------------------------------------
(* Types, for any number of calls, whatever overlaps. *)
States == {"connecting", "open", "closing", "closed"}
Socket(n) == [state : States, opened : BOOLEAN, onClose : Seq(0..n)]

CountTypes == calls \in 0..MaxCalls /\ closes \in 0..calls /\ waiting \in 0..calls
SocketTypes == sockets \in Seq(Socket(closes)) /\ connection \in 0..Len(sockets)
HandlerTypes == timers \in SUBSET (1..closes) /\ dispatching \in Seq(0..closes)
OpenedType == wasOpened \in BOOLEAN
ClosingType == isClosing \in BOOLEAN
UnloadTypes == unloadHandler \in BOOLEAN /\ unloads \in Nat /\ (unloadHandler => unloads # 0)
HeardTypes == phase \in {"none", "connecting", "open", "failed", "closing"} /\ ends \in Nat

TypeInv ==
  CountTypes /\ SocketTypes /\ HandlerTypes /\ OpenedType /\ ClosingType /\ UnloadTypes /\ HeardTypes

(* Removing a listener leaves a sequence of listeners. *)
LEMMA RemoveType ==
  ASSUME NEW S, NEW handlers \in Seq(S), NEW k
  PROVE  RemoveListener(handlers, k) \in Seq(S)
<1>1. CASE \E i \in DOMAIN handlers : handlers[i] = k
  <2> DEFINE i == CHOOSE j \in DOMAIN handlers : handlers[j] = k
  <2>1. i \in DOMAIN handlers  BY <1>1
  <2>2. i \in 1..Len(handlers)  BY <2>1
  <2>3. RemoveListener(handlers, k) = RemoveAt(handlers, i)  BY <1>1 DEF RemoveListener
  <2> HIDE DEF i
  <2> QED  BY <2>2, <2>3 DEF RemoveAt
<1>2. CASE ~ \E i \in DOMAIN handlers : handlers[i] = k  BY <1>2 DEF RemoveListener
<1> QED  BY <1>1, <1>2

(* The only listener is removed if it is the one named. *)
LEMMA RemoveOnly ==
  ASSUME NEW h, NEW k
  PROVE  RemoveListener(<<h>>, k) = IF h = k THEN <<>> ELSE <<h>>
<1>1. CASE h = k
  <2> DEFINE i == CHOOSE j \in DOMAIN <<h>> : <<h>>[j] = k
  <2>1. i = 1  BY <1>1
  <2>2. RemoveListener(<<h>>, k) = RemoveAt(<<h>>, i)  BY <1>1 DEF RemoveListener
  <2> HIDE DEF i
  <2>3. RemoveAt(<<h>>, 1) = <<>>  BY DEF RemoveAt
  <2> QED  BY <1>1, <2>1, <2>2, <2>3
<1>2. CASE h # k  BY <1>2 DEF RemoveListener
<1> QED  BY <1>1, <1>2

(* A socket keeps its type when one more handler exists. *)
LEMMA MoreHandlers ==
  ASSUME NEW n \in Nat
  PROVE  /\ Seq(0..n) \subseteq Seq(0..(n + 1))
         /\ Seq(Socket(n)) \subseteq Seq(Socket(n + 1))
<1>1. 0..n \subseteq 0..(n + 1)  OBVIOUS
<1>2. Seq(0..n) \subseteq Seq(0..(n + 1))  BY <1>1
<1>3. Socket(n) \subseteq Socket(n + 1)  BY <1>2 DEF Socket
<1> QED  BY <1>2, <1>3

(* WithoutHandler leaves as many sockets, of the same type. *)
LEMMA WithoutHandlerType ==
  ASSUME SocketTypes, NEW k
  PROVE  WithoutHandler(k) \in Seq(Socket(closes)) /\ Len(WithoutHandler(k)) = Len(sockets)
<1>1. CASE connection = 0  BY <1>1 DEF WithoutHandler, SocketTypes
<1>2. CASE connection # 0
  <2>1. connection \in 1..Len(sockets)  BY <1>2 DEF SocketTypes
  <2>2. sockets[connection] \in Socket(closes)  BY <2>1 DEF SocketTypes
  <2> DEFINE left == RemoveListener(sockets[connection].onClose, k)
             new == [sockets[connection] EXCEPT !.onClose = left]
  <2>3. left \in Seq(0..closes)  BY <2>2, RemoveType DEF Socket
  <2>4. WithoutHandler(k) = [sockets EXCEPT ![connection] = new]
    BY <1>2 DEF WithoutHandler
  <2> HIDE DEF left
  <2>5. new \in Socket(closes)  BY <2>2, <2>3 DEF Socket
  <2> HIDE DEF new
  <2> QED  BY <2>1, <2>4, <2>5 DEF SocketTypes
<1> QED  BY <1>1, <1>2

(* A new socket has the type of one. *)
LEMMA NewSocket ==
  ASSUME NEW n \in Nat
  PROVE  [state |-> "connecting", opened |-> FALSE, onClose |-> <<0>>] \in Socket(n)
<1>1. <<0>> \in Seq(0..n)  OBVIOUS
<1> QED  BY <1>1 DEF Socket, States

(* The queue is served with a socket for the new connection, or with none. *)
LEMMA ServiceTypes ==
  ASSUME NEW pending \in Nat, NEW event, NEW live \in Seq(Socket(closes)), CountTypes, ClosingType,
         event \in {"none", "connecting", "open", "failed", "closing"},
         serviceConnectionRequestQueue(pending, event, live), closes' = closes
  PROVE  /\ SocketTypes' /\ ClosingType'
         /\ waiting' = (IF pending = 0 THEN waiting ELSE pending - 1)
         /\ phase' \in {"none", "connecting", "open", "failed", "closing"}
<1> DEFINE new == [state |-> "connecting", opened |-> FALSE, onClose |-> <<0>>]
<1>0. closes \in Nat  BY DEF CountTypes
<1>1. new \in Socket(closes)  BY <1>0, NewSocket
<1>2. CASE pending = 0
  <2>1. connection' = 0 /\ sockets' = live /\ phase' = event /\ waiting' = waiting /\ isClosing' = isClosing
    BY <1>2 DEF serviceConnectionRequestQueue
  <2>2. SocketTypes'  BY <2>1 DEF SocketTypes
  <2>3. ClosingType'  BY <2>1 DEF ClosingType
  <2> QED  BY <1>2, <2>1, <2>2, <2>3
<1>3. CASE pending # 0
  <2>1. /\ connection' = Len(live) + 1 /\ sockets' = Append(live, new) /\ phase' = "connecting"
        /\ waiting' = pending - 1 /\ isClosing' = FALSE
    BY <1>3, Zenon DEF serviceConnectionRequestQueue
  <2> HIDE DEF new
  <2>2. SocketTypes'  BY <1>1, <2>1 DEF SocketTypes
  <2>3. ClosingType'  BY <2>1 DEF ClosingType
  <2> QED  BY <1>3, <2>1, <2>2, <2>3
<1> QED  BY <1>2, <1>3

(* deactivatePageUnloadHandler takes back no more than was given. *)
LEMMA DeactivateTypes ==
  ASSUME UnloadTypes, deactivatePageUnloadHandler PROVE UnloadTypes'
<1>1. unloadHandler' = FALSE  BY DEF deactivatePageUnloadHandler
<1>2. CASE unloadHandler
  <2>1. unloads' = unloads - 1 /\ unloads \in Nat /\ unloads # 0
    BY <1>2 DEF deactivatePageUnloadHandler, UnloadTypes
  <2>2. unloads' \in Nat  BY <2>1
  <2> QED  BY <1>1, <2>2 DEF UnloadTypes
<1>3. CASE ~unloadHandler
  <2>1. unloads' = unloads  BY <1>3 DEF deactivatePageUnloadHandler
  <2> QED  BY <1>1, <2>1 DEF UnloadTypes
<1> QED  BY <1>2, <1>3

(* The end of a connection keeps the types. *)
LEMMA HandlerKeepsTypes ==
  ASSUME TypeInv, NEW k, CallHandler(k), UNCHANGED <<calls, closes>>
  PROVE  /\ CountTypes' /\ SocketTypes' /\ OpenedType' /\ ClosingType' /\ UnloadTypes' /\ HeardTypes'
         /\ timers' \in SUBSET (1..closes')
<1> USE DEF TypeInv
<1> DEFINE live == IF k = 0 THEN sockets ELSE WithoutHandler(k)
<1>1. live \in Seq(Socket(closes))  BY WithoutHandlerType DEF SocketTypes
<1>2. /\ timers' = timers \ {k} /\ deactivatePageUnloadHandler /\ wasOpened' = FALSE
      /\ ends' = ends + 1 /\ serviceConnectionRequestQueue(waiting, "none", live)
  BY DEF CallHandler, closeEventHandler
<1> HIDE DEF live
<1>3. waiting \in Nat  BY DEF CountTypes
<1>4. SocketTypes' /\ ClosingType' /\ waiting' = (IF waiting = 0 THEN waiting ELSE waiting - 1)
      /\ phase' \in {"none", "connecting", "open", "failed", "closing"}
  BY <1>1, <1>2, <1>3, ServiceTypes
<1>5. CountTypes'  BY <1>4 DEF CountTypes
<1>6. OpenedType'  BY <1>2 DEF OpenedType
<1>7. UnloadTypes'  BY <1>2, DeactivateTypes
<1>8. HeardTypes'  BY <1>2, <1>4 DEF HeardTypes
<1>9. timers' \in SUBSET (1..closes')  BY <1>2 DEF HandlerTypes
<1> QED  BY <1>4, <1>5, <1>6, <1>7, <1>8, <1>9

(* closeConnection keeps the types, with a request pushed or without. *)
LEMMA CallKeepsTypes ==
  ASSUME TypeInv, NEW requests \in {0, 1}, closeConnection(requests), MaxCalls \in Nat
  PROVE  TypeInv'
<1> USE DEF TypeInv
<1>1. calls' = calls + 1 /\ calls < MaxCalls /\ dispatching' = dispatching
  BY DEF closeConnection
<1>2. CASE NothingToClose
  <2>1. /\ serviceConnectionRequestQueue(waiting + requests, phase, sockets)
        /\ wasOpened' = wasOpened /\ timers' = timers /\ closes' = closes /\ ends' = ends
        /\ unloadHandler' = unloadHandler /\ unloads' = unloads
    BY <1>2 DEF closeConnection
  <2> DEFINE pending == waiting + requests
  <2>2. pending \in Nat  BY DEF CountTypes
  <2>3. sockets \in Seq(Socket(closes))  BY DEF SocketTypes
  <2>4. phase \in {"none", "connecting", "open", "failed", "closing"}  BY DEF HeardTypes
  <2>5. SocketTypes' /\ ClosingType' /\ waiting' = (IF pending = 0 THEN waiting ELSE pending - 1)
        /\ phase' \in {"none", "connecting", "open", "failed", "closing"}
    BY <2>1, <2>2, <2>3, <2>4, ServiceTypes
  <2>6. CountTypes'  BY <1>1, <2>1, <2>5 DEF CountTypes
  <2>7. HandlerTypes'  BY <1>1, <2>1 DEF HandlerTypes
  <2>8. OpenedType'  BY <2>1 DEF OpenedType
  <2>9. UnloadTypes'  BY <2>1 DEF UnloadTypes
  <2>10. HeardTypes'  BY <2>1, <2>5 DEF HeardTypes
  <2> QED  BY <2>5, <2>6, <2>7, <2>8, <2>9, <2>10
<1>3. CASE ~NothingToClose
  <2>0. CloseExisting(requests)  BY <1>3 DEF closeConnection
  <2> DEFINE new == [sockets[connection] EXCEPT
               !.onClose = Append(RemoveListener(@, 0), closes + 1), !.state = "closing"]
  <2>1. /\ closes' = closes + 1 /\ isClosing' = TRUE /\ phase' = "closing"
        /\ timers' = timers \union {closes + 1} /\ waiting' = waiting + requests
        /\ deactivatePageUnloadHandler
        /\ connection' = connection /\ wasOpened' = wasOpened /\ ends' = ends
    BY <2>0 DEF CloseExisting
  <2>2. connection \in 1..Len(sockets)
    BY <1>3 DEF NothingToClose, readyState, SocketTypes
  <2>3. sockets[connection] \in Socket(closes) /\ closes \in Nat
    BY <2>2 DEF SocketTypes, CountTypes
  <2>4. sockets' = [sockets EXCEPT ![connection] = new]
    BY <2>0, Zenon DEF CloseExisting
  <2>5. new \in Socket(closes + 1)
    <3>1. RemoveListener(sockets[connection].onClose, 0) \in Seq(0..closes)
      BY <2>3, RemoveType DEF Socket
    <3>2. RemoveListener(sockets[connection].onClose, 0) \in Seq(0..(closes + 1))
      BY <2>3, <3>1, MoreHandlers
    <3>3. Append(RemoveListener(sockets[connection].onClose, 0), closes + 1) \in Seq(0..(closes + 1))
      BY <2>3, <3>2
    <3> QED  BY <2>3, <3>3 DEF Socket, States
  <2> HIDE DEF new
  <2>6. sockets \in Seq(Socket(closes + 1))  BY <2>3, MoreHandlers DEF SocketTypes
  <2>7. SocketTypes'  BY <2>1, <2>2, <2>4, <2>5, <2>6 DEF SocketTypes
  <2>8. CountTypes'  BY <1>1, <2>1 DEF CountTypes
  <2>9. dispatching' \in Seq(0..closes')
    BY <1>1, <2>1, <2>3, MoreHandlers DEF HandlerTypes
  <2>10. timers' \in SUBSET (1..closes')  BY <2>1, <2>3 DEF HandlerTypes
  <2>11. OpenedType'  BY <2>1 DEF OpenedType
  <2>12. ClosingType'  BY <2>1 DEF ClosingType
  <2>13. UnloadTypes'  BY <2>1, DeactivateTypes
  <2>14. HeardTypes'  BY <2>1 DEF HeardTypes
  <2> QED  BY <2>7, <2>8, <2>9, <2>10, <2>11, <2>12, <2>13, <2>14 DEF HandlerTypes
<1> QED  BY <1>2, <1>3

(* What the browser does to one socket keeps its type. *)
LEMMA SocketKeepsTypes ==
  ASSUME SocketTypes, NEW s \in DOMAIN sockets, NEW new \in Socket(closes),
         sockets' = [sockets EXCEPT ![s] = new], UNCHANGED <<connection, closes>>
  PROVE  SocketTypes'
BY DEF SocketTypes

(* Every step keeps the types. *)
LEMMA TypeStep ==
  ASSUME TypeInv, MaxCalls \in Nat, [Next /\ UNCHANGED hard]_<<vars, hard>>
  PROVE  TypeInv'
<1> USE DEF TypeInv
<1>1. CASE OpenConnection  BY <1>1, CallKeepsTypes DEF OpenConnection
<1>2. CASE CloseConnection  BY <1>2, CallKeepsTypes DEF CloseConnection
<1>3. CASE DispatchClose
  <2>1. /\ CallHandler(Head(dispatching)) /\ dispatching # <<>> /\ dispatching' = Tail(dispatching)
        /\ calls' = calls /\ closes' = closes
    BY <1>3 DEF DispatchClose
  <2>2. dispatching' \in Seq(0..closes')  BY <2>1 DEF HandlerTypes
  <2>3. HandlerTypes'  BY <2>1, <2>2, HandlerKeepsTypes DEF HandlerTypes
  <2> QED  BY <2>1, <2>3, HandlerKeepsTypes
<1>4. ASSUME NEW k \in timers, TimerFires(k) PROVE TypeInv'
  <2>1. CallHandler(k) /\ dispatching' = dispatching /\ calls' = calls /\ closes' = closes
    BY <1>4 DEF TimerFires
  <2>2. HandlerTypes'  BY <2>1, HandlerKeepsTypes DEF HandlerTypes
  <2> QED  BY <2>1, <2>2, HandlerKeepsTypes
<1>5. ASSUME NEW s \in DOMAIN sockets, SocketOpens(s) PROVE TypeInv'
  <2> DEFINE new == [sockets[s] EXCEPT !.state = "open", !.opened = TRUE]
  <2>1. /\ sockets' = [sockets EXCEPT ![s] = new] /\ activatePageUnloadHandler
        /\ wasOpened' = TRUE /\ phase' = "open"
        /\ UNCHANGED <<connection, waiting, isClosing, timers, dispatching, calls, closes, ends>>
    BY <1>5, Zenon DEF SocketOpens
  <2>2. new \in Socket(closes)
    <3>1. sockets[s] \in Socket(closes)  BY DEF SocketTypes
    <3> QED  BY <3>1 DEF Socket, States
  <2> HIDE DEF new
  <2>3. SocketTypes'  BY <2>1, <2>2, SocketKeepsTypes
  <2>4. CountTypes' /\ HandlerTypes'  BY <2>1 DEF CountTypes, HandlerTypes
  <2>5. OpenedType'  BY <2>1 DEF OpenedType
  <2>6. ClosingType'  BY <2>1 DEF ClosingType
  <2>7. UnloadTypes'  BY <2>1 DEF UnloadTypes, activatePageUnloadHandler
  <2>8. HeardTypes'  BY <2>1 DEF HeardTypes
  <2> QED  BY <2>3, <2>4, <2>5, <2>6, <2>7, <2>8
<1>6. ASSUME NEW s \in DOMAIN sockets, ServerCloses(s) PROVE TypeInv'
  <2> DEFINE new == [sockets[s] EXCEPT !.state = "closing"]
  <2>1. /\ sockets' = [sockets EXCEPT ![s] = new]
        /\ UNCHANGED <<connection, timers, dispatching, calls, closes>>
        /\ UNCHANGED <<waiting, wasOpened, isClosing, unloadHandler, unloads, phase, ends>>
    BY <1>6 DEF ServerCloses, clientVars, heard
  <2>2. new \in Socket(closes)
    <3>1. sockets[s] \in Socket(closes)  BY DEF SocketTypes
    <3> QED  BY <3>1 DEF Socket, States
  <2> HIDE DEF new
  <2>3. SocketTypes'  BY <2>1, <2>2, SocketKeepsTypes
  <2>4. CountTypes' /\ HandlerTypes'  BY <2>1 DEF CountTypes, HandlerTypes
  <2>5. OpenedType'  BY <2>1 DEF OpenedType
  <2>6. ClosingType'  BY <2>1 DEF ClosingType
  <2>7. UnloadTypes'  BY <2>1 DEF UnloadTypes
  <2>8. HeardTypes'  BY <2>1 DEF HeardTypes
  <2> QED  BY <2>3, <2>4, <2>5, <2>6, <2>7, <2>8
<1>7. ASSUME NEW s \in DOMAIN sockets, NEW failed \in BOOLEAN, SocketCloses(s, failed) PROVE TypeInv'
  <2> DEFINE new == [sockets[s] EXCEPT !.state = "closed"]
  <2>1. /\ sockets' = [sockets EXCEPT ![s] = new]
        /\ phase' = (IF failed THEN AfterError ELSE phase)
        /\ dispatching' = sockets[s].onClose
        /\ UNCHANGED <<connection, timers, calls, closes>>
        /\ UNCHANGED <<waiting, wasOpened, isClosing, unloadHandler, unloads, ends>>
    BY <1>7 DEF SocketCloses, clientVars
  <2>2. sockets[s] \in Socket(closes)  BY DEF SocketTypes
  <2>3. new \in Socket(closes)  BY <2>2 DEF Socket, States
  <2> HIDE DEF new
  <2>4. SocketTypes'  BY <2>1, <2>3, SocketKeepsTypes
  <2>5. CountTypes'  BY <2>1 DEF CountTypes
  <2>6. HandlerTypes'
    <3>1. sockets[s].onClose \in Seq(0..closes)  BY <2>2 DEF Socket
    <3> QED  BY <2>1, <3>1 DEF HandlerTypes
  <2>7. OpenedType'  BY <2>1 DEF OpenedType
  <2>8. ClosingType'  BY <2>1 DEF ClosingType
  <2>9. UnloadTypes'  BY <2>1 DEF UnloadTypes
  <2>10. HeardTypes'  BY <2>1 DEF HeardTypes, AfterError
  <2> QED  BY <2>4, <2>5, <2>6, <2>7, <2>8, <2>9, <2>10
<1>8. CASE UNCHANGED vars
  <2>1. UNCHANGED <<sockets, connection, timers, dispatching, calls, closes>>
        /\ UNCHANGED <<waiting, wasOpened, isClosing, unloadHandler, unloads, phase, ends>>
    BY <1>8 DEF vars, clientVars, heard
  <2>2. CountTypes' /\ HandlerTypes'  BY <2>1 DEF CountTypes, HandlerTypes
  <2>3. SocketTypes'  BY <2>1 DEF SocketTypes
  <2>5. OpenedType'  BY <2>1 DEF OpenedType
  <2>6. ClosingType'  BY <2>1 DEF ClosingType
  <2>7. UnloadTypes'  BY <2>1 DEF UnloadTypes
  <2>8. HeardTypes'  BY <2>1 DEF HeardTypes
  <2> QED  BY <2>2, <2>3, <2>5, <2>6, <2>7, <2>8
<1> QED  BY <1>1, <1>2, <1>3, <1>4, <1>5, <1>6, <1>7, <1>8 DEF Next

(* The client starts with no socket. *)
LEMMA TypeInit == ASSUME Init, MaxCalls \in Nat PROVE TypeInv
<1>1. CountTypes  BY DEF Init, CountTypes
<1>2. SocketTypes  BY DEF Init, SocketTypes
<1>3. HandlerTypes  BY DEF Init, HandlerTypes
<1>4. OpenedType  BY DEF Init, OpenedType
<1>5. ClosingType  BY DEF Init, ClosingType
<1>6. UnloadTypes  BY DEF Init, UnloadTypes
<1>7. HeardTypes  BY DEF Init, HeardTypes
<1> QED  BY <1>1, <1>2, <1>3, <1>4, <1>5, <1>6, <1>7 DEF TypeInv

(* Every variable has its type, for any number of calls: the queue is never   *)
(* longer than the calls made, nothing is taken from an empty one, and the     *)
(* adapter's socket is one that was created.                                  *)
THEOREM TypeCorrect == Spec => []TypeOK
<1>1. MaxCalls \in Nat  BY CasesAssumption
<1>2. Init => TypeInv  BY <1>1, TypeInit
<1>3. TypeInv /\ [Next /\ UNCHANGED hard]_<<vars, hard>> => TypeInv'  BY <1>1, TypeStep
<1>4. TypeInv => TypeOK
  <2> SUFFICES ASSUME TypeInv PROVE TypeOK  OBVIOUS
  <2> USE DEF TypeInv
  <2>1. sockets \in Seq([state : {"connecting", "open", "closing", "closed"},
                         opened : BOOLEAN, onClose : Seq(0..closes)])
    BY DEF SocketTypes, Socket, States
  <2>2. waiting \in 0..MaxCalls  BY <1>1 DEF CountTypes
  <2> QED
    BY <2>1, <2>2 DEF TypeOK, CountTypes, SocketTypes, HandlerTypes, OpenedType, ClosingType,
       UnloadTypes, HeardTypes
<1> QED  BY <1>2, <1>3, <1>4, PTL DEF Spec

-----------------------------------------------------------------------------
(* With closes one at a time there is one connection to speak of.  The        *)
(* adapter has its socket and the sockets it let go, which are closed or have *)
(* no handler left; the one handler of the adapter's socket is 0 until the    *)
(* client closes it and the handler of that close afterwards.                 *)
Old(s) ==
  \/ sockets[s].state = "closed"
  \/ sockets[s].state = "closing" /\ sockets[s].onClose = <<>>

OthersGone == \A s \in DOMAIN sockets : s # connection => Old(s)

(* Nothing is left of a connection that is gone. *)
NoneLeft ==
  connection = 0 => dispatching = <<>> /\ timers = {} /\ waiting = 0 /\ phase = "none"

(* The 'close' event of the adapter's socket is the one being dispatched. *)
Dispatched ==
  connection # 0 =>
    \/ sockets[connection].state # "closed" /\ dispatching = <<>>
    \/ sockets[connection].state = "closed" /\ dispatching = sockets[connection].onClose

(* In use: no timer runs, and what was heard tells the socket's state. *)
InUse ==
  /\ sockets[connection].onClose = <<0>> /\ timers = {} /\ waiting = 0
  /\ \/ sockets[connection].state = "connecting" /\ phase = "connecting"
     \/ sockets[connection].state \in {"open", "closing", "closed"} /\ phase = "open"
     \/ sockets[connection].state = "closed" /\ phase = "failed"

(* Being closed: the close's handler has its timer and at most one request. *)
BeingClosed ==
  /\ \E k \in 1..closes : sockets[connection].onClose = <<k>> /\ timers = {k}
  /\ sockets[connection].state \in {"closing", "closed"}
  /\ waiting \in {0, 1} /\ phase = "closing"

OneUse ==
  connection # 0 => (~isClosing /\ InUse) \/ (isClosing /\ BeingClosed)

OpenedAgrees == wasOpened <=> connection # 0 /\ sockets[connection].opened
OpenedHeard == connection # 0 /\ ~isClosing => (sockets[connection].opened <=> phase = "open")

UnloadAgrees ==
  /\ unloads = IF unloadHandler THEN 1 ELSE 0
  /\ unloadHandler => wasOpened /\ ~isClosing

TurnInv ==
  /\ OthersGone /\ NoneLeft /\ Dispatched /\ OneUse
  /\ OpenedAgrees /\ OpenedHeard /\ UnloadAgrees

TurnIInv == InTurn => TurnInv

(* The socket that serves the queue is new, and those before it are old.      *)
LEMMA Served ==
  ASSUME NEW live \in Seq(Socket(closes)), NEW pending \in {0, 1}, pending = 0 => waiting = 0,
         \A s \in DOMAIN live :
           live[s].state = "closed" \/ (live[s].state = "closing" /\ live[s].onClose = <<>>),
         serviceConnectionRequestQueue(pending, "none", live),
         timers' = {}, dispatching' = <<>>, wasOpened' = FALSE, unloadHandler' = FALSE, unloads' = 0
  PROVE  TurnInv'
<1> DEFINE new == [state |-> "connecting", opened |-> FALSE, onClose |-> <<0>>]
<1>u. UnloadAgrees'  BY DEF UnloadAgrees
<1>1. CASE pending = 0
  <2>1. connection' = 0 /\ sockets' = live /\ phase' = "none" /\ waiting' = 0
    BY <1>1 DEF serviceConnectionRequestQueue
  <2>2. OthersGone'  BY <2>1 DEF OthersGone, Old
  <2>3. NoneLeft' /\ Dispatched'  BY <2>1 DEF NoneLeft, Dispatched
  <2>4. OneUse'  BY <2>1 DEF OneUse
  <2>5. OpenedAgrees'  BY <2>1 DEF OpenedAgrees
  <2>6. OpenedHeard'  BY <2>1 DEF OpenedHeard
  <2> QED  BY <1>u, <2>2, <2>3, <2>4, <2>5, <2>6 DEF TurnInv
<1>2. CASE pending = 1
  <2>1. /\ connection' = Len(live) + 1 /\ sockets' = Append(live, new) /\ phase' = "connecting"
        /\ waiting' = 0 /\ isClosing' = FALSE
    BY <1>2 DEF serviceConnectionRequestQueue
  <2>2. new.state = "connecting" /\ new.onClose = <<0>> /\ new.opened = FALSE  OBVIOUS
  <2> HIDE DEF new
  <2>3. connection' # 0 /\ sockets'[connection'] = new  BY <2>1
  <2>4. OthersGone'
    <3>1. \A s \in DOMAIN sockets' : s # connection' => s \in DOMAIN live /\ sockets'[s] = live[s]
      BY <2>1
    <3> QED  BY <3>1 DEF OthersGone, Old
  <2>5. NoneLeft'  BY <2>3 DEF NoneLeft
  <2>6. Dispatched'  BY <2>2, <2>3 DEF Dispatched
  <2>7. OneUse'
    <3>1. InUse'  BY <2>1, <2>2, <2>3 DEF InUse
    <3> QED  BY <2>1, <3>1, Zenon DEF OneUse
  <2>8. OpenedAgrees'  BY <2>2, <2>3, Zenon DEF OpenedAgrees
  <2>9. OpenedHeard'  BY <2>1, <2>2, <2>3 DEF OpenedHeard
  <2> QED  BY <1>u, <2>4, <2>5, <2>6, <2>7, <2>8, <2>9 DEF TurnInv
<1> QED  BY <1>1, <1>2

(* The handler of a 'close' event, or of a timeout, ends the one connection.  *)
LEMMA HandlerEnds ==
  ASSUME TypeInv, TurnInv, NEW k, CallHandler(k), dispatching' = <<>>,
         connection # 0, sockets[connection].state \in {"closing", "closed"},
         sockets[connection].onClose = <<k>>,
         k = 0 => sockets[connection].state = "closed",
         timers \ {k} = {}
  PROVE  TurnInv'
<1> DEFINE live == IF k = 0 THEN sockets ELSE WithoutHandler(k)
<1>1. connection \in 1..Len(sockets) /\ sockets \in Seq(Socket(closes))
  BY DEF TypeInv, SocketTypes
<1>2. live \in Seq(Socket(closes))  BY WithoutHandlerType DEF TypeInv, SocketTypes
<1>3. /\ timers' = {} /\ deactivatePageUnloadHandler /\ wasOpened' = FALSE
      /\ serviceConnectionRequestQueue(waiting, "none", live)
  BY DEF CallHandler, closeEventHandler
<1>4. \A s \in DOMAIN live :
        live[s].state = "closed" \/ (live[s].state = "closing" /\ live[s].onClose = <<>>)
  <2>1. CASE k = 0  BY <2>1 DEF TurnInv, OthersGone, Old
  <2>2. CASE k # 0
    <3> DEFINE new == [sockets[connection] EXCEPT !.onClose = <<>>]
    <3>1. RemoveListener(sockets[connection].onClose, k) = <<>>  BY RemoveOnly
    <3>2. live = [sockets EXCEPT ![connection] = new]
      BY <2>2, <3>1 DEF WithoutHandler
    <3>3. sockets[connection] \in Socket(closes)  BY <1>1
    <3>4. new.state = sockets[connection].state /\ new.onClose = <<>>
      BY <3>3 DEF Socket
    <3> HIDE DEF new, live
    <3>5. live[connection] = new /\ \A s \in DOMAIN live : s # connection => live[s] = sockets[s] /\ s \in DOMAIN sockets
      BY <1>1, <3>2
    <3> QED  BY <3>4, <3>5 DEF TurnInv, OthersGone, Old
  <2> QED  BY <2>1, <2>2
<1> HIDE DEF live
<1>5. waiting \in {0, 1}  BY DEF TurnInv, OneUse, InUse, BeingClosed
<1>6. unloadHandler' = FALSE /\ unloads' = 0
  <2>1. unloadHandler' = FALSE /\ unloads' = (IF unloadHandler THEN unloads - 1 ELSE unloads)
    BY <1>3 DEF deactivatePageUnloadHandler
  <2>2. unloads = IF unloadHandler THEN 1 ELSE 0  BY DEF TurnInv, UnloadAgrees
  <2> QED  BY <2>1, <2>2
<1> QED  BY <1>2, <1>3, <1>4, <1>5, <1>6, Served

(* What happens to the adapter's socket leaves the others as they are.        *)
LEMMA OthersStay ==
  ASSUME SocketTypes, OthersGone, NEW s, NEW new, sockets' = [sockets EXCEPT ![s] = new],
         connection' = connection, s = connection
  PROVE  OthersGone'
BY DEF SocketTypes, OthersGone, Old

(* closeConnection: there is something to close exactly if there is a         *)
(* connection, because its close event is handled at once.                    *)
LEMMA SomethingToClose ==
  ASSUME TurnInv, dispatching = <<>> PROVE NothingToClose <=> connection = 0
<1>1. CASE connection = 0  BY <1>1 DEF NothingToClose, readyState
<1>2. CASE connection # 0
  <2>1. sockets[connection].state # "closed"
    BY <1>2 DEF TurnInv, Dispatched, OneUse, InUse, BeingClosed
  <2>2. sockets[connection].state # "none"
    BY <1>2 DEF TurnInv, OneUse, InUse, BeingClosed
  <2> QED  BY <1>2, <2>1, <2>2 DEF NothingToClose, readyState
<1> QED  BY <1>1, <1>2

(* A call without a connection makes one, and a call with one closes it.      *)
LEMMA CallInTurn ==
  ASSUME TypeInv, TurnInv, InTurn, NEW requests \in {0, 1}, closeConnection(requests)
  PROVE  /\ TurnInv'
         /\ connection = 0 =>
              /\ serviceConnectionRequestQueue(requests, "none", sockets)
              /\ ends' = ends /\ waiting = 0
         /\ connection # 0 =>
              /\ phase' = "closing" /\ waiting' = waiting + requests /\ ends' = ends
              /\ Len(sockets') = Len(sockets)
<1>0. dispatching = <<>> /\ dispatching' = <<>>  BY DEF closeConnection
<1>1. CASE connection = 0
  <2>1. NothingToClose  BY <1>0, <1>1, SomethingToClose
  <2>2. /\ serviceConnectionRequestQueue(waiting + requests, phase, sockets)
        /\ wasOpened' = wasOpened /\ timers' = timers /\ ends' = ends
        /\ unloadHandler' = unloadHandler /\ unloads' = unloads
    BY <2>1 DEF closeConnection
  <2>3. timers = {} /\ waiting = 0 /\ phase = "none"  BY <1>1 DEF TurnInv, NoneLeft
  <2>4. waiting + requests = requests  BY <2>3
  <2>5. serviceConnectionRequestQueue(requests, "none", sockets)
    BY <2>2, <2>3, <2>4
  <2>6. wasOpened = FALSE  BY <1>1 DEF TurnInv, OpenedAgrees, TypeInv, OpenedType
  <2>7. unloadHandler = FALSE
    BY <2>6 DEF TurnInv, UnloadAgrees, TypeInv, UnloadTypes
  <2>8. unloads = 0  BY <2>7 DEF TurnInv, UnloadAgrees
  <2>9. \A s \in DOMAIN sockets :
          sockets[s].state = "closed" \/ (sockets[s].state = "closing" /\ sockets[s].onClose = <<>>)
    BY <1>1 DEF TurnInv, OthersGone, Old, TypeInv, SocketTypes
  <2>10. sockets \in Seq(Socket(closes))  BY DEF TypeInv, SocketTypes
  <2>11. TurnInv'
    BY <1>0, <2>2, <2>3, <2>5, <2>6, <2>7, <2>8, <2>9, <2>10, Served
  <2> QED  BY <1>1, <2>2, <2>3, <2>5, <2>11
<1>2. CASE connection # 0
  <2>1. CloseExisting(requests) /\ timers = {}
    BY <1>0, <1>2, SomethingToClose DEF closeConnection, InTurn
  <2> DEFINE new == [sockets[connection] EXCEPT
               !.onClose = Append(RemoveListener(@, 0), closes + 1), !.state = "closing"]
  <2>2. /\ closes' = closes + 1 /\ isClosing' = TRUE /\ phase' = "closing"
        /\ timers' = {closes + 1} /\ waiting' = waiting + requests
        /\ deactivatePageUnloadHandler
        /\ connection' = connection /\ wasOpened' = wasOpened /\ ends' = ends
    BY <2>1 DEF CloseExisting
  <2>3. sockets' = [sockets EXCEPT ![connection] = new]
    BY <2>1, Zenon DEF CloseExisting
  <2>4. connection \in 1..Len(sockets)  BY <1>2 DEF TypeInv, SocketTypes
  <2>5. sockets[connection] \in Socket(closes) /\ closes \in Nat
    BY <2>4 DEF TypeInv, SocketTypes, CountTypes
  <2>6. sockets[connection].onClose = <<0>> /\ waiting = 0
    BY <1>2, <2>1 DEF TurnInv, OneUse, InUse, BeingClosed
  <2>7. new.state = "closing" /\ new.onClose = <<closes + 1>> /\ new.opened = sockets[connection].opened
    <3>0. RemoveListener(<<0>>, 0) = <<>>  BY RemoveOnly
    <3>1. Append(<<>>, closes + 1) = <<closes + 1>>  BY <2>5
    <3> QED  BY <2>5, <2>6, <3>0, <3>1 DEF Socket
  <2> HIDE DEF new
  <2>8. sockets'[connection'] = new /\ Len(sockets') = Len(sockets)
    BY <2>2, <2>3, <2>4 DEF TypeInv, SocketTypes
  <2>9. OthersGone'  BY <2>2, <2>3, OthersStay DEF TurnInv, TypeInv
  <2>10. NoneLeft'  BY <1>2, <2>2 DEF NoneLeft
  <2>11. Dispatched'  BY <1>0, <2>7, <2>8 DEF Dispatched
  <2>12. OneUse'
    <3>1. closes + 1 \in 1..closes'  BY <2>2, <2>5
    <3>2. waiting' \in {0, 1}  BY <2>2, <2>6
    <3>3. BeingClosed'  BY <2>2, <2>7, <2>8, <3>1, <3>2 DEF BeingClosed
    <3> QED  BY <2>2, <3>3, Zenon DEF OneUse
  <2>13. OpenedAgrees'
    BY <1>2, <2>2, <2>7, <2>8 DEF TurnInv, OpenedAgrees
  <2>14. OpenedHeard'  BY <2>2, Zenon DEF OpenedHeard
  <2>15. unloadHandler' = FALSE /\ unloads' = 0
    <3>1. unloadHandler' = FALSE /\ unloads' = (IF unloadHandler THEN unloads - 1 ELSE unloads)
      BY <2>2 DEF deactivatePageUnloadHandler
    <3>2. unloads = IF unloadHandler THEN 1 ELSE 0  BY DEF TurnInv, UnloadAgrees
    <3> QED  BY <3>1, <3>2
  <2>16. UnloadAgrees'  BY <2>15 DEF UnloadAgrees
  <2> QED  BY <1>2, <2>2, <2>8, <2>9, <2>10, <2>11, <2>12, <2>13, <2>14, <2>16 DEF TurnInv
<1> QED  BY <1>1, <1>2

(* The end of a connection is the end of the lifecycle's phase. *)
LEMMA HandlerCloses ==
  ASSUME TypeInv, InTurn, InTurn', NEW k, CallHandler(k), phase \in {"open", "failed", "closing"}
  PROVE  Lifecycle!Closed
<1> DEFINE live == IF k = 0 THEN sockets ELSE WithoutHandler(k)
           new == [state |-> "connecting", opened |-> FALSE, onClose |-> <<0>>]
<1>1. ends' = ends + 1 /\ serviceConnectionRequestQueue(waiting, "none", live)
  BY DEF CallHandler, closeEventHandler
<1>2. live \in Seq(Socket(closes)) /\ Len(live) = Len(sockets) /\ waiting \in Nat
  BY WithoutHandlerType DEF TypeInv, SocketTypes, CountTypes
<1> HIDE DEF live
<1>3. CASE waiting = 0
  <2>1. sockets' = live /\ phase' = "none" /\ waiting' = waiting
    BY <1>1, <1>3 DEF serviceConnectionRequestQueue
  <2> QED  BY <1>1, <1>2, <1>3, <2>1 DEF Lifecycle!Closed
<1>4. CASE waiting # 0
  <2>1. sockets' = Append(live, new) /\ phase' = "connecting" /\ waiting' = waiting - 1
    BY <1>1, <1>4, Zenon DEF serviceConnectionRequestQueue
  <2> HIDE DEF new
  <2>2. Len(sockets') = Len(sockets) + 1  BY <1>2, <2>1
  <2> QED  BY <1>1, <1>2, <1>4, <2>1, <2>2 DEF Lifecycle!Closed
<1> QED  BY <1>3, <1>4

(* In turn, a step keeps the invariant and is one of the lifecycle's.         *)
LifecycleStep == Lifecycle!Next \/ UNCHANGED Lifecycle!vars

(* A call that finds a connection to close.                                  *)
LEMMA CallStep ==
  ASSUME TypeInv, TurnInv, InTurn, InTurn', NEW requests \in {0, 1}, closeConnection(requests),
         requests = 0 => ~NothingToClose \/ waiting > 0
  PROVE  TurnInv' /\ LifecycleStep
<1>1. TurnInv'  BY CallInTurn
<1>2. CASE connection = 0
  <2>1. serviceConnectionRequestQueue(requests, "none", sockets) /\ ends' = ends /\ waiting = 0
    BY <1>2, CallInTurn
  <2>2. dispatching = <<>>  BY DEF closeConnection
  <2>3. requests = 1  BY <1>2, <2>1, <2>2, SomethingToClose
  <2> DEFINE new == [state |-> "connecting", opened |-> FALSE, onClose |-> <<0>>]
  <2>4. sockets' = Append(sockets, new) /\ phase' = "connecting" /\ waiting' = 0
    BY <2>1, <2>3 DEF serviceConnectionRequestQueue
  <2> HIDE DEF new
  <2>5. Len(sockets') = Len(sockets) + 1  BY <2>4 DEF TypeInv, SocketTypes
  <2>6. phase = "none"  BY <1>2 DEF TurnInv, NoneLeft
  <2>7. Lifecycle!RequestTried  BY <2>1, <2>4, <2>5, <2>6 DEF Lifecycle!RequestTried
  <2> QED  BY <1>1, <2>7 DEF LifecycleStep, Lifecycle!Next
<1>3. CASE connection # 0
  <2>1. /\ phase' = "closing" /\ waiting' = waiting + requests /\ ends' = ends
        /\ Len(sockets') = Len(sockets)
    BY <1>3, CallInTurn
  <2>2. phase # "none"  BY <1>3 DEF TurnInv, OneUse, InUse, BeingClosed
  <2>3. Lifecycle!Closing(requests)  BY <2>1, <2>2 DEF Lifecycle!Closing
  <2>4. Lifecycle!Closing(0) \/ Lifecycle!Closing(1)  BY <2>3
  <2> QED  BY <1>1, <2>4 DEF LifecycleStep, Lifecycle!Next
<1> QED  BY <1>2, <1>3

(* The next handler of a close event runs.                                   *)
LEMMA DispatchStep ==
  ASSUME TypeInv, TurnInv, InTurn, InTurn', DispatchClose
  PROVE  TurnInv' /\ LifecycleStep
<1> DEFINE k == Head(dispatching)
<1>1. CallHandler(k) /\ dispatching # <<>> /\ dispatching' = Tail(dispatching)
  BY DEF DispatchClose
<1>2. connection # 0  BY <1>1 DEF TurnInv, NoneLeft
<1>3. sockets[connection].state = "closed" /\ dispatching = sockets[connection].onClose
  BY <1>1, <1>2 DEF TurnInv, Dispatched
<1>4. \/ dispatching = <<0>> /\ timers = {} /\ phase \in {"open", "failed"}
      \/ \E j \in 1..closes : dispatching = <<j>> /\ timers = {j} /\ phase = "closing"
  BY <1>2, <1>3 DEF TurnInv, OneUse, InUse, BeingClosed
<1>5. dispatching = <<k>> /\ dispatching' = <<>> /\ timers \ {k} = {}
      /\ phase \in {"open", "failed", "closing"}
  BY <1>1, <1>4
<1> HIDE DEF k
<1>6. TurnInv'  BY <1>1, <1>2, <1>3, <1>5, HandlerEnds
<1>7. Lifecycle!Closed  BY <1>1, <1>5, HandlerCloses
<1> QED  BY <1>6, <1>7 DEF LifecycleStep, Lifecycle!Next

(* A timeout calls its handler.                                              *)
LEMMA TimerStep ==
  ASSUME TypeInv, TurnInv, InTurn, InTurn', NEW k \in timers, TimerFires(k)
  PROVE  TurnInv' /\ LifecycleStep
<1>1. CallHandler(k) /\ dispatching = <<>> /\ dispatching' = <<>>
  BY DEF TimerFires
<1>2. connection # 0  BY DEF TurnInv, NoneLeft
<1>3. BeingClosed  BY <1>2 DEF TurnInv, OneUse, InUse
<1>4. /\ sockets[connection].onClose = <<k>> /\ timers \ {k} = {} /\ k # 0
      /\ sockets[connection].state \in {"closing", "closed"} /\ phase = "closing"
  BY <1>3 DEF BeingClosed
<1>5. TurnInv'  BY <1>1, <1>2, <1>4, HandlerEnds
<1>6. Lifecycle!Closed  BY <1>1, <1>4, HandlerCloses
<1> QED  BY <1>5, <1>6 DEF LifecycleStep, Lifecycle!Next

(* The browser's callbacks that matter are those of the adapter's socket.     *)
LEMMA OpensStep ==
  ASSUME TypeInv, TurnInv, InTurn, InTurn', NEW s \in DOMAIN sockets, SocketOpens(s)
  PROVE  TurnInv' /\ LifecycleStep
<1> DEFINE new == [sockets[s] EXCEPT !.state = "open", !.opened = TRUE]
<1>1. /\ sockets' = [sockets EXCEPT ![s] = new] /\ sockets[s].state = "connecting"
      /\ wasOpened' = TRUE /\ phase' = "open" /\ dispatching = <<>> /\ dispatching' = <<>>
      /\ activatePageUnloadHandler
      /\ UNCHANGED <<connection, waiting, isClosing, timers, closes, ends>>
  BY Zenon DEF SocketOpens
<1>2. s = connection  BY <1>1 DEF TurnInv, OthersGone, Old
<1>3. connection # 0 /\ sockets[s] \in Socket(closes)  BY <1>2 DEF TypeInv, SocketTypes
<1>4. new.state = "open" /\ new.opened = TRUE /\ new.onClose = sockets[s].onClose
  BY <1>3 DEF Socket
<1> HIDE DEF new
<1>5. sockets'[connection'] = new /\ Len(sockets') = Len(sockets)
  BY <1>1, <1>2 DEF TypeInv, SocketTypes
<1>6. /\ phase = "connecting" /\ sockets[s].onClose = <<0>> /\ timers = {} /\ waiting = 0
      /\ isClosing = FALSE
  BY <1>1, <1>2, <1>3 DEF TurnInv, OneUse, InUse, BeingClosed, TypeInv, ClosingType
<1>7. OthersGone'  BY <1>1, <1>2, OthersStay DEF TurnInv, TypeInv
<1>8. NoneLeft'  BY <1>1, <1>3 DEF NoneLeft
<1>9. Dispatched'  BY <1>1, <1>4, <1>5 DEF Dispatched
<1>10. OneUse'
  <2>1. InUse'  BY <1>1, <1>4, <1>5, <1>6 DEF InUse
  <2> QED  BY <1>1, <1>6, <2>1, Zenon DEF OneUse
<1>11. OpenedAgrees'  BY <1>1, <1>3, <1>4, <1>5, Zenon DEF OpenedAgrees
<1>12. OpenedHeard'  BY <1>1, <1>4, <1>5, Zenon DEF OpenedHeard
<1>13. UnloadAgrees'
  <2>1. sockets[s].opened = FALSE
    BY <1>2, <1>3, <1>6 DEF TurnInv, OpenedHeard, Socket
  <2>2. ~wasOpened  BY <1>2, <2>1 DEF TurnInv, OpenedAgrees
  <2>3. ~unloadHandler  BY <2>2 DEF TurnInv, UnloadAgrees
  <2>4. unloads = 0  BY <2>3 DEF TurnInv, UnloadAgrees
  <2>5. unloadHandler' = TRUE /\ unloads' = 1  BY <1>1, <2>4 DEF activatePageUnloadHandler
  <2>6. isClosing' = FALSE  BY <1>1, <1>6, Zenon
  <2> QED  BY <1>1, <2>5, <2>6 DEF UnloadAgrees
<1>14. Lifecycle!Opened  BY <1>1, <1>5, <1>6 DEF Lifecycle!Opened
<1> QED
  BY <1>7, <1>8, <1>9, <1>10, <1>11, <1>12, <1>13, <1>14 DEF TurnInv, LifecycleStep, Lifecycle!Next

(* The server begins to close the socket.                                    *)
LEMMA ServerClosesStep ==
  ASSUME TypeInv, TurnInv, InTurn, InTurn', NEW s \in DOMAIN sockets, ServerCloses(s)
  PROVE  TurnInv' /\ LifecycleStep
<1> DEFINE new == [sockets[s] EXCEPT !.state = "closing"]
<1>1. /\ sockets' = [sockets EXCEPT ![s] = new] /\ sockets[s].state = "open"
      /\ dispatching = <<>> /\ dispatching' = <<>>
      /\ UNCHANGED <<connection, waiting, timers, closes, ends, phase>>
      /\ UNCHANGED <<isClosing, wasOpened, unloadHandler, unloads>>
  BY DEF ServerCloses, clientVars, heard
<1>2. s = connection  BY <1>1 DEF TurnInv, OthersGone, Old
<1>3. connection # 0 /\ sockets[s] \in Socket(closes)  BY <1>2 DEF TypeInv, SocketTypes
<1>4. new.state = "closing" /\ new.opened = sockets[s].opened /\ new.onClose = sockets[s].onClose
  BY <1>3 DEF Socket
<1> HIDE DEF new
<1>5. sockets'[connection'] = new /\ Len(sockets') = Len(sockets)
  BY <1>1, <1>2 DEF TypeInv, SocketTypes
<1>6. ~isClosing /\ InUse
  BY <1>1, <1>2, <1>3 DEF TurnInv, OneUse, BeingClosed
<1>7. OthersGone'  BY <1>1, <1>2, OthersStay DEF TurnInv, TypeInv
<1>8. NoneLeft'  BY <1>1, <1>3 DEF NoneLeft
<1>9. Dispatched'  BY <1>1, <1>4, <1>5 DEF Dispatched
<1>10. OneUse'
  <2>1. InUse'  BY <1>1, <1>2, <1>4, <1>5, <1>6 DEF InUse
  <2> QED  BY <1>1, <1>6, <2>1, Zenon DEF OneUse
<1>11. OpenedAgrees'  BY <1>1, <1>2, <1>3, <1>4, <1>5, Zenon DEF OpenedAgrees, TurnInv
<1>12. OpenedHeard'  BY <1>1, <1>2, <1>4, <1>5, Zenon DEF OpenedHeard, TurnInv
<1>13. UnloadAgrees'  BY <1>1 DEF UnloadAgrees, TurnInv
<1>14. UNCHANGED Lifecycle!vars  BY <1>1, <1>5 DEF Lifecycle!vars
<1> QED
  BY <1>7, <1>8, <1>9, <1>10, <1>11, <1>12, <1>13, <1>14 DEF TurnInv, LifecycleStep

(* A socket closes, with an error or without.                                *)
LEMMA ClosesStep ==
  ASSUME TypeInv, TurnInv, InTurn, InTurn', NEW s \in DOMAIN sockets, NEW failed \in BOOLEAN,
         SocketCloses(s, failed)
  PROVE  TurnInv' /\ LifecycleStep
<1> DEFINE new == [sockets[s] EXCEPT !.state = "closed"]
<1>1. /\ sockets' = [sockets EXCEPT ![s] = new] /\ sockets[s].state # "closed"
      /\ dispatching = <<>> /\ dispatching' = sockets[s].onClose
      /\ UNCHANGED <<connection, waiting, timers, closes, ends>>
      /\ UNCHANGED <<isClosing, wasOpened, unloadHandler, unloads>>
      /\ (sockets[s].opened \/ failed)
      /\ phase' = (IF failed THEN AfterError ELSE phase)
  BY DEF SocketCloses, clientVars
<1>2. failed => s = connection  BY DEF SocketCloses, InTurn
<1>3. sockets[s] \in Socket(closes)  BY DEF TypeInv, SocketTypes
<1>4. new.state = "closed" /\ new.opened = sockets[s].opened /\ new.onClose = sockets[s].onClose
  BY <1>3 DEF Socket
<1> HIDE DEF new
<1>5. sockets'[s] = new /\ Len(sockets') = Len(sockets)
      /\ \A t \in DOMAIN sockets : t # s => sockets'[t] = sockets[t]
  BY <1>1 DEF TypeInv, SocketTypes
<1>6. DOMAIN sockets' = DOMAIN sockets  BY <1>1
<1>7. OthersGone'  BY <1>1, <1>4, <1>5, <1>6 DEF TurnInv, OthersGone, Old
<1>8. UnloadAgrees'  BY <1>1 DEF UnloadAgrees, TurnInv
<1>9. CASE s # connection
  <2>1. phase' = phase  BY <1>1, <1>2, <1>9
  <2>2. dispatching' = <<>>
    BY <1>1, <1>9 DEF TurnInv, OthersGone, Old
  <2>3. NoneLeft'  BY <1>1, <2>1, <2>2 DEF NoneLeft, TurnInv
  <2>4. connection # 0 => sockets'[connection] = sockets[connection]
    BY <1>5, <1>9 DEF TypeInv, SocketTypes
  <2>5. Dispatched'
    BY <1>1, <2>2, <2>4 DEF Dispatched, TurnInv
  <2>6. OneUse'
    <3>1. connection # 0 /\ InUse => InUse'  BY <1>1, <2>1, <2>4 DEF InUse
    <3>2. connection # 0 /\ BeingClosed => BeingClosed'  BY <1>1, <2>1, <2>4 DEF BeingClosed
    <3> QED  BY <1>1, <3>1, <3>2, Zenon DEF OneUse, TurnInv
  <2>7. OpenedAgrees'  BY <1>1, <2>4, Zenon DEF OpenedAgrees, TurnInv
  <2>8. OpenedHeard'  BY <1>1, <2>1, <2>4, Zenon DEF OpenedHeard, TurnInv
  <2>9. UNCHANGED Lifecycle!vars  BY <1>1, <1>5, <2>1 DEF Lifecycle!vars
  <2> QED
    BY <1>7, <1>8, <2>3, <2>5, <2>6, <2>7, <2>8, <2>9 DEF TurnInv, LifecycleStep
<1>10. CASE s = connection
  <2>1. connection # 0  BY <1>10 DEF TypeInv, SocketTypes
  <2>2. sockets'[connection'] = new  BY <1>1, <1>5, <1>10
  <2>3. NoneLeft'  BY <1>1, <2>1 DEF NoneLeft
  <2>4. Dispatched'  BY <1>1, <1>4, <1>10, <2>2 DEF Dispatched
  <2>5. OpenedAgrees'  BY <1>1, <1>4, <1>10, <2>1, <2>2, Zenon DEF OpenedAgrees, TurnInv
  <2>6. CASE isClosing
    <3>1. phase' = phase  BY <1>1, <2>6 DEF AfterError
    <3>2. BeingClosed  BY <2>1, <2>6 DEF OneUse, TurnInv
    <3>3. BeingClosed'  BY <1>1, <1>4, <1>10, <2>2, <3>1, <3>2 DEF BeingClosed
    <3>4. OneUse'  BY <1>1, <2>6, <3>3, Zenon DEF OneUse
    <3>5. OpenedHeard'  BY <1>1, <2>6, Zenon DEF OpenedHeard
    <3>6. UNCHANGED Lifecycle!vars  BY <1>1, <1>5, <3>1 DEF Lifecycle!vars
    <3> QED
      BY <1>7, <1>8, <2>3, <2>4, <2>5, <3>4, <3>5, <3>6 DEF TurnInv, LifecycleStep
  <2>7. CASE ~isClosing
    <3>1. InUse  BY <2>1, <2>7 DEF OneUse, TurnInv
    <3>2. wasOpened <=> phase = "open"
      BY <1>10, <2>1, <2>7 DEF TurnInv, OpenedAgrees, OpenedHeard
    <3>3. sockets[s].opened <=> phase = "open"
      BY <1>10, <2>1, <2>7 DEF TurnInv, OpenedHeard
    <3>4. phase \in {"connecting", "open"}  BY <1>1, <1>10, <3>1 DEF InUse
    <3>5. phase' = IF phase = "open" THEN "open" ELSE "failed"
      <4>1. CASE phase = "open"  BY <1>1, <3>2, <4>1 DEF AfterError
      <4>2. CASE phase # "open"
        <5>1. failed  BY <1>1, <3>3, <4>2
        <5> QED  BY <1>1, <2>7, <3>2, <4>2, <5>1 DEF AfterError
      <4> QED  BY <4>1, <4>2
    <3>6. InUse'  BY <1>1, <1>4, <1>10, <2>2, <3>1, <3>5 DEF InUse
    <3>7. OneUse'  BY <1>1, <2>7, <3>6, Zenon DEF OneUse
    <3>8. phase' = "open" <=> phase = "open"  BY <3>5
    <3>9. OpenedHeard'  BY <1>1, <1>4, <2>2, <3>3, <3>8, Zenon DEF OpenedHeard
    <3>10. LifecycleStep
      <4>1. CASE phase = "open"
        <5>1. phase' = phase  BY <3>5, <4>1
        <5>2. UNCHANGED Lifecycle!vars  BY <1>1, <1>5, <5>1 DEF Lifecycle!vars
        <5> QED  BY <5>2 DEF LifecycleStep
      <4>2. CASE phase = "connecting"
        <5>1. Lifecycle!Failed  BY <1>1, <1>5, <3>5, <4>2 DEF Lifecycle!Failed
        <5> QED  BY <5>1 DEF LifecycleStep, Lifecycle!Next
      <4> QED  BY <3>4, <4>1, <4>2
    <3> QED  BY <1>7, <1>8, <2>3, <2>4, <2>5, <3>7, <3>9, <3>10 DEF TurnInv
  <2> QED  BY <2>6, <2>7
<1> QED  BY <1>9, <1>10

(* Every step in turn. *)
LEMMA TurnStep ==
  ASSUME TypeInv, TurnInv, InTurn, [Next /\ UNCHANGED hard]_<<vars, hard>>
  PROVE  TurnInv' /\ LifecycleStep
<1>0. InTurn'  BY DEF InTurn
<1>1. CASE OpenConnection
  <2>1. closeConnection(1)  BY <1>1 DEF OpenConnection
  <2> QED  BY <1>0, <2>1, CallStep
<1>2. CASE CloseConnection
  <2>1. closeConnection(0) /\ (~NothingToClose \/ waiting > 0)  BY <1>2 DEF CloseConnection
  <2> QED  BY <1>0, <2>1, CallStep
<1>3. CASE DispatchClose  BY <1>0, <1>3, DispatchStep
<1>4. CASE \E k \in timers : TimerFires(k)  BY <1>0, <1>4, TimerStep
<1>5. CASE \E s \in DOMAIN sockets : SocketOpens(s) \/ ServerCloses(s)
  BY <1>0, <1>5, OpensStep, ServerClosesStep
<1>6. CASE \E s \in DOMAIN sockets, failed \in BOOLEAN : SocketCloses(s, failed)
  BY <1>0, <1>6, ClosesStep
<1>7. CASE UNCHANGED vars
  <2>1. UNCHANGED <<sockets, connection, timers, dispatching, calls, closes>>
        /\ UNCHANGED <<waiting, wasOpened, isClosing, unloadHandler, unloads, phase, ends>>
    BY <1>7 DEF vars, clientVars, heard
  <2>2. OthersGone'  BY <2>1 DEF OthersGone, Old, TurnInv
  <2>3. NoneLeft' /\ Dispatched'  BY <2>1 DEF NoneLeft, Dispatched, TurnInv
  <2>4. InUse => InUse'  BY <2>1 DEF InUse
  <2>5. BeingClosed => BeingClosed'  BY <2>1 DEF BeingClosed
  <2>6. OneUse'  BY <2>1, <2>4, <2>5, Zenon DEF OneUse, TurnInv
  <2>7. OpenedAgrees'  BY <2>1, Zenon DEF OpenedAgrees, TurnInv
  <2>8. OpenedHeard'  BY <2>1, Zenon DEF OpenedHeard, TurnInv
  <2>9. UnloadAgrees'  BY <2>1 DEF UnloadAgrees, TurnInv
  <2>10. UNCHANGED Lifecycle!vars  BY <1>0, <2>1 DEF Lifecycle!vars
  <2> QED  BY <2>2, <2>3, <2>6, <2>7, <2>8, <2>9, <2>10 DEF TurnInv, LifecycleStep
<1> QED  BY <1>1, <1>2, <1>3, <1>4, <1>5, <1>6, <1>7 DEF Next

(* The client starts without a connection, and the lifecycle with none.       *)
LEMMA TurnInit == ASSUME Init PROVE TurnInv /\ Lifecycle!Init
<1>1. OthersGone /\ NoneLeft /\ Dispatched
  BY DEF Init, OthersGone, NoneLeft, Dispatched
<1>2. OneUse  BY DEF Init, OneUse
<1>3. OpenedAgrees  BY DEF Init, OpenedAgrees
<1>4. OpenedHeard  BY DEF Init, OpenedHeard
<1>5. UnloadAgrees  BY DEF Init, UnloadAgrees
<1>6. Lifecycle!Init  BY DEF Init, Lifecycle!Init
<1> QED  BY <1>1, <1>2, <1>3, <1>4, <1>5, <1>6 DEF TurnInv

(* The invariant of every behaviour: types, and the rest for those in turn.   *)
ClientInv == TypeInv /\ (InTurn => TurnInv)

(* Every step of the client keeps the invariant.                             *)
LEMMA ClientStep ==
  ASSUME ClientInv, [Next /\ UNCHANGED hard]_<<vars, hard>>
  PROVE  ClientInv' /\ LifecycleStep
<1>1. TypeInv'  BY CasesAssumption, TypeStep DEF ClientInv
<1>2. hard' = hard  BY DEF vars
<1>3. CASE InTurn
  <2>1. TurnInv' /\ LifecycleStep  BY <1>3, TurnStep DEF ClientInv
  <2> QED  BY <1>1, <2>1 DEF ClientInv
<1>4. CASE ~InTurn
  <2>1. ~InTurn'  BY <1>2, <1>4 DEF InTurn
  <2>2. UNCHANGED Lifecycle!vars  BY <1>4, <2>1 DEF Lifecycle!vars
  <2> QED  BY <1>1, <2>1, <2>2 DEF ClientInv, LifecycleStep
<1> QED  BY <1>3, <1>4

(* With closes one at a time the client has one connection at most, what it   *)
(* keeps of a connection is about the current one, and the 'unload' handlers  *)
(* on window are the one of an open connection, or none.                      *)
THEOREM OneConnectionAtATime == Spec => []StateIsOfConnection
<1>1. Init => ClientInv  BY CasesAssumption, TypeInit, TurnInit DEF ClientInv
<1>2. ClientInv /\ [Next /\ UNCHANGED hard]_<<vars, hard>> => ClientInv'  BY ClientStep
<1>3. ClientInv => StateIsOfConnection
  <2> SUFFICES ASSUME ClientInv, InTurn PROVE OneConnection /\ StateIsOfConnection
    BY DEF StateIsOfConnection, OneConnectionInTurn, OpenedIsCurrent, UnloadFollowsConnection
  <2>1. OneConnection
    BY DEF ClientInv, TurnInv, OthersGone, Old, OneConnection, Live
  <2>2. OpenedIsCurrent  BY DEF ClientInv, TurnInv, OpenedAgrees, OpenedIsCurrent
  <2>3. UnloadFollowsConnection  BY DEF ClientInv, TurnInv, UnloadAgrees, UnloadFollowsConnection
  <2> QED  BY <2>1, <2>2, <2>3 DEF StateIsOfConnection, OneConnectionInTurn
<1> QED  BY <1>1, <1>2, <1>3, PTL DEF Spec

(* With closes one at a time the client implements the lifecycle its          *)
(* interface promises: every step is one of the lifecycle's, or is not heard. *)
THEOREM LifecycleImplemented == Spec => ImplementsLifecycle
<1>1. Init => ClientInv /\ Lifecycle!Init
  BY CasesAssumption, TypeInit, TurnInit DEF ClientInv
<1>2. ClientInv /\ [Next /\ UNCHANGED hard]_<<vars, hard>> => ClientInv'  BY ClientStep
<1>3. ClientInv /\ [Next /\ UNCHANGED hard]_<<vars, hard>> => [Lifecycle!Next]_(Lifecycle!vars)
  BY ClientStep DEF LifecycleStep
<1> QED  BY <1>1, <1>2, <1>3, PTL DEF Spec, ImplementsLifecycle, Lifecycle!Spec

(***************************************************************************)
(* ConnectionHealth: the pings, the reports of a first session, the types.  *)
(***************************************************************************)

MonitorStep == [MonitorNext /\ UNCHANGED restarts]_<<monitorVars, restarts>>

(* The connection is open only while the session runs, and it alone is pinged. *)
PingInv ==
  /\ session \in Sessions
  /\ open \in BOOLEAN /\ pinging \in BOOLEAN
  /\ open => Active
  /\ pinging => open
  /\ ~Active => nextTicks = <<>>

(* Until a controller starts again, its health data are those of the          *)
(* connection.                                                              *)
OwnInv ==
  /\ audioDelayed \in BOOLEAN
  /\ audioDelayPointsOverMaximum \in Nat
  /\ ~restarts /\ session # "stopped" =>
       own = [missed |-> consecutiveMissedPongs, noPackets |-> consecutiveStatsWithNoPackets,
              delayed |-> audioDelayed]

HealthInv == PingInv /\ OwnInv

(* At first there is no connection and nothing was gathered.                 *)
LEMMA HealthInit == ASSUME ConfigurationAssumption PROVE MonitorInit => HealthInv
<1> SUFFICES ASSUME MonitorInit PROVE HealthInv
  OBVIOUS
<1>1. PingInv  BY DEF MonitorInit, PingInv, Sessions, Active
<1>2. OwnInv  BY DEF MonitorInit, OwnInv, NoSymptoms
<1> QED  BY <1>1, <1>2 DEF HealthInv

(* No step pings without a connection or parts own from the data looked at.  *)
LEMMA HealthStep ==
  ASSUME ConfigurationAssumption, HealthInv, MonitorStep
  PROVE  HealthInv'
<1> USE DEF HealthInv, PingInv, OwnInv, Sessions, Active
<1>1. CASE IntervalFires /\ UNCHANGED restarts
  BY <1>1 DEF IntervalFires, Ping, dataVars, policyVars
<1>2. CASE PongArrives /\ UNCHANGED restarts
  BY <1>2 DEF PongArrives, dataVars, policyVars
<1>3. CASE MetricsDidReceive /\ UNCHANGED restarts
  <2>1. PICK delayed \in BOOLEAN :
          /\ audioDelayed' = delayed
          /\ InvalidPackets(delayed) \/ NoPackets(delayed) \/ Packets(delayed)
    BY <1>3 DEF MetricsDidReceive
  <2>2. /\ UNCHANGED <<session, open, pingVars, consecutiveMissedPongs, policyVars>>
        /\ Active
    BY <1>3 DEF MetricsDidReceive
  <2>3. PingInv'  BY <2>2 DEF pingVars
  <2>4. ~restarts => own = [missed |-> consecutiveMissedPongs,
                            noPackets |-> consecutiveStatsWithNoPackets,
                            delayed |-> audioDelayed]
    BY <2>2
  <2>5. ~restarts => own' = [missed |-> consecutiveMissedPongs,
                             noPackets |-> consecutiveStatsWithNoPackets',
                             delayed |-> delayed]
    <3>1. CASE InvalidPackets(delayed)
      BY <2>4, <3>1 DEF InvalidPackets
    <3>2. CASE NoPackets(delayed)
      BY <2>4, <3>2 DEF NoPackets
    <3>3. CASE Packets(delayed)
      BY <2>4, <3>3 DEF Packets
    <3> QED  BY ONLY <2>1, <3>1, <3>2, <3>3
  <2>6. OwnInv'  BY <1>3, <2>1, <2>2, <2>5 DEF policyVars
  <2> QED  BY <2>3, <2>6
<1>4. CASE ReceiveSignalStrengthChange /\ UNCHANGED restarts
  BY <1>4 DEF ReceiveSignalStrengthChange, pingVars, dataVars, policyVars
<1>5. CASE NextTick /\ UNCHANGED restarts
  <2>1. /\ UNCHANGED <<session, open, pingVars, consecutiveStatsWithNoPackets, audioDelayed>>
        /\ Active
    BY <1>5 DEF NextTick
  <2>5. PingInv'  BY <1>5, <2>1 DEF pingVars
  <2>2. CASE ConnectionHealthDidChange /\ UNCHANGED <<consecutiveMissedPongs, own>>
    <3>1. audioDelayPointsOverMaximum' \in Nat
      BY <2>2 DEF ConnectionHealthDidChange, PointsAfter
    <3> QED  BY <1>5, <2>1, <2>2, <2>5, <3>1
  <2>3. CASE DidMissPongs /\ UNCHANGED policyVars
    <3>1. OwnInv'  BY <1>5, <2>1, <2>3 DEF DidMissPongs, policyVars
    <3> QED  BY <2>5, <3>1
  <2>4. CASE DidReceivePong /\ UNCHANGED policyVars
    <3>1. OwnInv'  BY <1>5, <2>1, <2>4 DEF DidReceivePong, policyVars
    <3> QED  BY <2>5, <3>1
  <2> QED  BY <1>5, <2>2, <2>3, <2>4 DEF NextTick
<1>6. CASE ActionConnect /\ UNCHANGED restarts
  BY <1>6 DEF ActionConnect, ResetData, NoSymptoms, pingVars, dataVars
<1>7. CASE SignalingOpens /\ UNCHANGED restarts
  BY <1>7 DEF SignalingOpens, dataVars, policyVars
<1>8. CASE SignalingEnds /\ UNCHANGED restarts
  BY <1>8 DEF SignalingEnds, StopPingInterval, dataVars, policyVars
<1>9. CASE FinishConnecting /\ UNCHANGED restarts
  BY <1>9 DEF FinishConnecting, pingVars, dataVars, policyVars
<1>10. CASE ActionReconnect /\ UNCHANGED restarts
  BY <1>10 DEF ActionReconnect, ResetData, StopPingInterval, NoSymptoms, policyVars
<1>11. CASE ReplaceLocalAudio /\ UNCHANGED restarts
  BY <1>11 DEF ReplaceLocalAudio, ResetData, NoSymptoms, pingVars, policyVars
<1>12. CASE CleanStoppedSession /\ UNCHANGED restarts
  BY <1>12 DEF CleanStoppedSession, StopPingInterval, dataVars, policyVars
<1>13. CASE Tick /\ UNCHANGED restarts
  BY <1>13 DEF Tick, pingVars, dataVars, policyVars
<1>14. CASE UNCHANGED <<monitorVars, restarts>>
  BY <1>14 DEF monitorVars, pingVars, dataVars, policyVars
<1> QED
  BY <1>1, <1>2, <1>3, <1>4, <1>5, <1>6, <1>7, <1>8, <1>9, <1>10, <1>11, <1>12, <1>13, <1>14
  DEF MonitorStep, MonitorNext

(* The invariant of the pings and of what is the connection's own.           *)
LEMMA HealthInvariance == MonitorSpec => []HealthInv
<1>1. HealthInv /\ MonitorStep => HealthInv'  BY ConfigurationAssumption, HealthStep
<1> QED  BY <1>1, HealthInit, ConfigurationAssumption, PTL DEF MonitorSpec, MonitorStep

(* Pings are sent on an open connection of a running session only. *)
THEOREM PingsStop == MonitorSpec => []PingsNeedConnection
<1>1. HealthInv => PingsNeedConnection  BY DEF HealthInv, PingInv, PingsNeedConnection
<1> QED  BY <1>1, HealthInvariance, PTL

(* For any thresholds, what is reported of the first session of a controller  *)
(* is a failure of that session's connection.                               *)
THEOREM RealAtFirst == MonitorSpec => ReportsAreRealAtFirst
<1>1. HealthInv /\ MonitorStep => [FailureReported /\ ~restarts => Symptoms]_monitorVars
  <2> SUFFICES ASSUME HealthInv, MonitorStep, FailureReported, ~restarts, ~UNCHANGED monitorVars
               PROVE  Symptoms
    OBVIOUS
  <2>1. NextTick /\ ConnectionHealthDidChange
    <3> USE DEF FailureReported
    <3>1. MonitorNext  BY DEF MonitorStep, monitorVars, policyVars
    <3>2. currentHealth' # currentHealth /\ currentHealth' # 1  OBVIOUS
    <3>3. ~UNCHANGED policyVars  BY <3>2 DEF policyVars
    <3>4. /\ ~IntervalFires /\ ~PongArrives /\ ~MetricsDidReceive
          /\ ~ReceiveSignalStrengthChange /\ ~ActionConnect /\ ~SignalingOpens
      BY <3>2, <3>3 DEF IntervalFires, PongArrives, MetricsDidReceive,
        ReceiveSignalStrengthChange, ActionConnect, SignalingOpens
    <3>5. /\ ~SignalingEnds /\ ~FinishConnecting /\ ~ActionReconnect
          /\ ~ReplaceLocalAudio /\ ~CleanStoppedSession /\ ~Tick
      BY <3>3 DEF SignalingEnds, FinishConnecting, ActionReconnect, ReplaceLocalAudio,
        CleanStoppedSession, Tick
    <3>6. NextTick  BY <3>1, <3>4, <3>5 DEF MonitorNext
    <3> QED  BY <3>3, <3>6 DEF NextTick
  <2>2. session # "stopped"
    BY <2>1 DEF NextTick, HealthInv, PingInv, Active
  <2>3. \/ consecutiveStatsWithNoPackets >= connectionUnhealthyThreshold
        \/ consecutiveMissedPongs >= missedPongsUpperThreshold
        \/ audioDelayed
    BY <2>1, ConfigurationAssumption
    DEF FailureReported, ConnectionHealthDidChange, Health
  <2> QED  BY <2>2, <2>3 DEF HealthInv, OwnInv, Symptoms
<1> QED  BY <1>1, HealthInvariance, PTL DEF MonitorSpec, MonitorStep, ReportsAreRealAtFirst

-----------------------------------------------------------------------------
(* The calls that wait, by what is at the head and what is appended. *)
LEMMA Waiting ==
  ASSUME NEW s \in Seq(Calls), NEW c \in Calls
  PROVE  /\ Append(s, c) \in Seq(Calls) /\ Len(Append(s, c)) = Len(s) + 1
         /\ s # <<>> => Tail(s) \in Seq(Calls) /\ Len(Tail(s)) = Len(s) - 1
         /\ Len(s) \in Nat
OBVIOUS

(* A bounded counter stays within its bound.                                 *)
LEMMA UpToBound == ASSUME NEW b \in Nat, NEW n \in Nat PROVE UpTo(b, n) \in 0..b
BY DEF UpTo

(* MonitorTypeOK in parts, by who changes them; without an open connection no pong  *)
(* is unaccounted for.                                                      *)
LinkTypes ==
  /\ session \in Sessions /\ open \in BOOLEAN /\ pinging \in BOOLEAN
  /\ ~open => ~pinging
PingTypes ==
  /\ consecutivePongsUnaccountedFor \in 0..1 /\ unanswered \in SUBSET {"last", "older"}
  /\ ~pinging => consecutivePongsUnaccountedFor = 0
MonitorCountTypes ==
  /\ consecutiveMissedPongs \in 0..missedPongsUpperThreshold
  /\ consecutiveStatsWithNoPackets \in 0..connectionUnhealthyThreshold
  /\ connectionAge \in 0..connectionWaitTime
OwnTypes ==
  own \in [missed : 0..missedPongsUpperThreshold,
           noPackets : 0..connectionUnhealthyThreshold, delayed : BOOLEAN]
FlagTypes ==
  audioDelayed \in BOOLEAN /\ hasSeenValidPacketMetricsBefore \in BOOLEAN /\ reported \in BOOLEAN
HealthTypes ==
  /\ currentHealth \in 0..1
  /\ audioDelayPointsOverMaximum \in 0..maximumAudioDelayDataPoints
ChangeTypes == audioChanges \in 0..MaxAudioChanges
QueueTypes == nextTicks \in Seq(Calls) /\ Len(nextTicks) <= MaxNextTicks

MonitorTypeInv ==
  /\ LinkTypes /\ PingTypes /\ MonitorCountTypes /\ OwnTypes /\ FlagTypes /\ HealthTypes /\ ChangeTypes
  /\ QueueTypes

(* The initial values are of the types.                                      *)
LEMMA MonitorTypeInit == ASSUME ConfigurationAssumption PROVE MonitorInit => MonitorTypeInv
<1> SUFFICES ASSUME MonitorInit PROVE MonitorTypeInv
  OBVIOUS
<1> USE ConfigurationAssumption DEF MonitorInit
<1>1. QueueTypes  BY DEF QueueTypes
<1>2. LinkTypes  BY DEF LinkTypes, Sessions
<1>8. PingTypes  BY DEF PingTypes
<1>3. MonitorCountTypes  BY DEF MonitorCountTypes
<1>4. OwnTypes  BY DEF OwnTypes, NoSymptoms
<1>5. FlagTypes  BY DEF FlagTypes
<1>6. HealthTypes  BY DEF HealthTypes
<1>7. ChangeTypes  BY DEF ChangeTypes
<1> QED  BY <1>1, <1>2, <1>3, <1>4, <1>5, <1>6, <1>7, <1>8 DEF MonitorTypeInv

(* The session and its connection.                                           *)
LEMMA LinkStep == ASSUME LinkTypes, MonitorNext PROVE LinkTypes'
<1> USE DEF LinkTypes, Sessions, pingVars
<1>1. CASE IntervalFires  BY <1>1 DEF IntervalFires, Ping
<1>2. CASE PongArrives  BY <1>2 DEF PongArrives
<1>3. CASE MetricsDidReceive \/ ReceiveSignalStrengthChange \/ NextTick \/ ReplaceLocalAudio
           \/ Tick
  BY <1>3 DEF MetricsDidReceive, ReceiveSignalStrengthChange, NextTick, ReplaceLocalAudio, Tick
<1>6. CASE ActionConnect  BY <1>6 DEF ActionConnect
<1>7. CASE SignalingOpens  BY <1>7 DEF SignalingOpens, Ping
<1>8. CASE SignalingEnds  BY <1>8 DEF SignalingEnds, StopPingInterval
<1>9. CASE FinishConnecting  BY <1>9 DEF FinishConnecting
<1>10. CASE ActionReconnect  BY <1>10 DEF ActionReconnect, StopPingInterval
<1>12. CASE CleanStoppedSession  BY <1>12 DEF CleanStoppedSession, StopPingInterval
<1> QED  BY <1>1, <1>2, <1>3, <1>6, <1>7, <1>8, <1>9, <1>10, <1>12 DEF MonitorNext

(* The interval and the pings it has sent.                                   *)
LEMMA PingStep == ASSUME PingTypes, MonitorNext PROVE PingTypes'
<1> USE DEF PingTypes, pingVars
<1>1. CASE IntervalFires \/ SignalingOpens
  <2>1. Ping /\ pinging' = TRUE  BY <1>1 DEF IntervalFires, SignalingOpens
  <2> QED  BY <2>1 DEF Ping
<1>2. CASE PongArrives  BY <1>2 DEF PongArrives
<1>3. CASE SignalingEnds \/ ActionReconnect \/ CleanStoppedSession
  <2>1. StopPingInterval  BY <1>3 DEF SignalingEnds, ActionReconnect, CleanStoppedSession
  <2> QED  BY <2>1 DEF StopPingInterval
<1>4. CASE MetricsDidReceive \/ ReceiveSignalStrengthChange \/ NextTick \/ ActionConnect
           \/ FinishConnecting \/ ReplaceLocalAudio \/ Tick
  BY <1>4 DEF MetricsDidReceive, ReceiveSignalStrengthChange, NextTick, ActionConnect,
    FinishConnecting, ReplaceLocalAudio, Tick
<1> QED  BY <1>1, <1>2, <1>3, <1>4 DEF MonitorNext

(* The counters of missed pongs and reports without packets.                 *)
LEMMA CountStep == ASSUME ConfigurationAssumption, MonitorCountTypes, MonitorNext PROVE MonitorCountTypes'
<1> USE ConfigurationAssumption DEF MonitorCountTypes, dataVars, ResetData
<1>1. CASE IntervalFires \/ PongArrives \/ ReceiveSignalStrengthChange \/ SignalingOpens
           \/ SignalingEnds \/ CleanStoppedSession
  BY <1>1 DEF IntervalFires, PongArrives, ReceiveSignalStrengthChange, SignalingOpens,
    SignalingEnds, CleanStoppedSession
<1>3. CASE MetricsDidReceive
  <2>1. PICK delayed : InvalidPackets(delayed) \/ NoPackets(delayed) \/ Packets(delayed)
    BY <1>3 DEF MetricsDidReceive
  <2>2. UNCHANGED <<consecutiveMissedPongs, connectionAge>>  BY <1>3 DEF MetricsDidReceive
  <2>3. CASE InvalidPackets(delayed)  BY <2>2, <2>3 DEF InvalidPackets
  <2>4. CASE NoPackets(delayed)  BY <2>2, <2>4, UpToBound DEF NoPackets
  <2>5. CASE Packets(delayed)  BY <2>2, <2>5 DEF Packets
  <2> QED  BY <2>1, <2>3, <2>4, <2>5
<1>5. CASE NextTick
  <2>1. UNCHANGED <<consecutiveStatsWithNoPackets, connectionAge>>  BY <1>5 DEF NextTick
  <2>2. missedPongsUpperThreshold \in Nat  OBVIOUS
  <2>3. CASE DidMissPongs  BY <2>1, <2>2, <2>3, UpToBound DEF DidMissPongs
  <2>4. CASE DidReceivePong  BY <2>1, <2>4 DEF DidReceivePong
  <2>5. CASE UNCHANGED consecutiveMissedPongs  BY <2>1, <2>5
  <2> QED  BY <1>5, <2>3, <2>4, <2>5 DEF NextTick
<1>6. CASE ActionConnect  BY <1>6 DEF ActionConnect
<1>9. CASE FinishConnecting  BY <1>9 DEF FinishConnecting, SetConnectionStartTime
<1>10. CASE ActionReconnect  BY <1>10 DEF ActionReconnect
<1>11. CASE ReplaceLocalAudio  BY <1>11 DEF ReplaceLocalAudio
<1>13. CASE Tick  BY <1>13 DEF Tick
<1> QED  BY <1>1, <1>3, <1>5, <1>6, <1>9, <1>10, <1>11, <1>13 DEF MonitorNext

(* What the connection alone has gathered.                                   *)
LEMMA OwnStep == ASSUME ConfigurationAssumption, OwnTypes, MonitorNext PROVE OwnTypes'
<1> USE ConfigurationAssumption DEF OwnTypes
<1>1. CASE IntervalFires \/ PongArrives \/ ReceiveSignalStrengthChange \/ SignalingOpens
           \/ SignalingEnds \/ CleanStoppedSession \/ FinishConnecting \/ Tick
  BY <1>1 DEF IntervalFires, PongArrives, ReceiveSignalStrengthChange, SignalingOpens,
    SignalingEnds, CleanStoppedSession, FinishConnecting, Tick
<1>3. CASE MetricsDidReceive
  <2>1. PICK delayed \in BOOLEAN :
          InvalidPackets(delayed) \/ NoPackets(delayed) \/ Packets(delayed)
    BY <1>3 DEF MetricsDidReceive
  <2>3. CASE InvalidPackets(delayed)  BY <2>3 DEF InvalidPackets
  <2>4. CASE NoPackets(delayed)
    <3> DEFINE m == IF hasSeenValidPacketMetricsBefore THEN 1 ELSE 0
               n == UpTo(connectionUnhealthyThreshold, own.noPackets + m)
    <3>0. own.noPackets + m \in Nat /\ connectionUnhealthyThreshold \in Nat  OBVIOUS
    <3>1. n \in 0..connectionUnhealthyThreshold  BY <3>0, UpToBound
    <3>2. own' = [missed |-> own.missed, noPackets |-> n, delayed |-> delayed]
      BY <2>4 DEF NoPackets
    <3> HIDE DEF n
    <3> QED  BY <3>1, <3>2
  <2>5. CASE Packets(delayed)  BY <2>5 DEF Packets
  <2> QED  BY <2>1, <2>3, <2>4, <2>5
<1>5. CASE NextTick
  <2>1. CASE DidMissPongs
    <3> DEFINE n == UpTo(missedPongsUpperThreshold, own.missed + 1)
    <3>0. own.missed + 1 \in Nat /\ missedPongsUpperThreshold \in Nat  OBVIOUS
    <3>1. n \in 0..missedPongsUpperThreshold  BY <3>0, UpToBound
    <3>2. own' = [own EXCEPT !.missed = n]  BY <2>1 DEF DidMissPongs
    <3> HIDE DEF n
    <3> QED  BY <3>1, <3>2
  <2>2. CASE DidReceivePong  BY <2>2 DEF DidReceivePong
  <2> QED  BY <1>5, <2>1, <2>2 DEF NextTick
<1>6. CASE ActionConnect \/ ActionReconnect \/ ReplaceLocalAudio
  <2>1. own' = NoSymptoms  BY <1>6 DEF ActionConnect, ActionReconnect, ReplaceLocalAudio
  <2> QED  BY <2>1 DEF NoSymptoms
<1> QED  BY <1>1, <1>3, <1>5, <1>6 DEF MonitorNext

(* The flags of the data and of the report.                                  *)
LEMMA FlagStep == ASSUME FlagTypes, MonitorNext PROVE FlagTypes'
<1> USE DEF FlagTypes, dataVars, ResetData
<1>1. CASE IntervalFires \/ PongArrives \/ ReceiveSignalStrengthChange \/ SignalingOpens
           \/ SignalingEnds \/ CleanStoppedSession \/ FinishConnecting \/ Tick
  BY <1>1 DEF IntervalFires, PongArrives, ReceiveSignalStrengthChange, SignalingOpens,
    SignalingEnds, CleanStoppedSession, FinishConnecting, Tick
<1>3. CASE MetricsDidReceive
  BY <1>3 DEF MetricsDidReceive, InvalidPackets, NoPackets, Packets
<1>5. CASE NextTick  BY <1>5 DEF NextTick, ConnectionHealthDidChange
<1>6. CASE ActionConnect  BY <1>6 DEF ActionConnect
<1>10. CASE ActionReconnect \/ ReplaceLocalAudio  BY <1>10 DEF ActionReconnect, ReplaceLocalAudio
<1> QED  BY <1>1, <1>3, <1>5, <1>6, <1>10 DEF MonitorNext

(* The health computed from the counters is one of the policy's.             *)
LEMMA HealthTypesStep == ASSUME ConfigurationAssumption, HealthTypes, MonitorNext PROVE HealthTypes'
<1> USE ConfigurationAssumption DEF HealthTypes, policyVars
<1>1. CASE IntervalFires \/ PongArrives \/ MetricsDidReceive \/ ReceiveSignalStrengthChange
           \/ SignalingOpens \/ SignalingEnds \/ FinishConnecting \/ ActionReconnect
           \/ ReplaceLocalAudio \/ CleanStoppedSession \/ Tick
  BY <1>1 DEF IntervalFires, PongArrives, MetricsDidReceive, ReceiveSignalStrengthChange,
    SignalingOpens, SignalingEnds, FinishConnecting, ActionReconnect, ReplaceLocalAudio,
    CleanStoppedSession, Tick
<1>5. CASE NextTick
  <2>2. CASE ConnectionHealthDidChange
    <3> DEFINE points == IF audioDelayed THEN audioDelayPointsOverMaximum + 1 ELSE 0
    <3>1. points \in Nat  OBVIOUS
    <3>2. \/ currentHealth' = 1 /\ UNCHANGED audioDelayPointsOverMaximum
          \/ /\ currentHealth' = Health(points > maximumAudioDelayDataPoints)
             /\ audioDelayPointsOverMaximum' = PointsAfter(points)
      BY <2>2 DEF ConnectionHealthDidChange
    <3> HIDE DEF points
    <3>4. currentHealth' \in 0..1  BY <3>2 DEF Health
    <3>5. audioDelayPointsOverMaximum' \in 0..maximumAudioDelayDataPoints
      BY <3>1, <3>2 DEF PointsAfter
    <3> QED  BY <3>4, <3>5
  <2>3. CASE UNCHANGED policyVars  BY <2>3
  <2> QED  BY <1>5, <2>2, <2>3 DEF NextTick
<1>6. CASE ActionConnect  BY <1>6 DEF ActionConnect
<1> QED  BY <1>1, <1>5, <1>6 DEF MonitorNext

(* The bounded changes from outside.                                         *)
LEMMA ChangeStep == ASSUME ConfigurationAssumption, ChangeTypes, MonitorNext PROVE ChangeTypes'
<1> USE DEF ChangeTypes
<1>1. CASE ReplaceLocalAudio  BY <1>1, ConfigurationAssumption DEF ReplaceLocalAudio
<1>2. CASE UNCHANGED audioChanges  BY <1>2
<1>3. MonitorNext => ReplaceLocalAudio \/ UNCHANGED audioChanges
  BY DEF MonitorNext, IntervalFires, PongArrives, MetricsDidReceive, ReceiveSignalStrengthChange,
    NextTick, ActionConnect, SignalingOpens, SignalingEnds, FinishConnecting, ActionReconnect,
    CleanStoppedSession, Tick
<1> QED  BY <1>1, <1>2, <1>3

(* The calls put off to the next tick.                                       *)
LEMMA QueueStep ==
  ASSUME ConfigurationAssumption, QueueTypes, LinkTypes, PingTypes, MonitorNext
  PROVE  QueueTypes'
<1> USE ConfigurationAssumption DEF QueueTypes, Calls
<1>1. CASE IntervalFires  BY <1>1, Waiting DEF IntervalFires, Ping
<1>2. CASE PongArrives  BY <1>2, Waiting DEF PongArrives
<1>3. CASE MetricsDidReceive  BY <1>3, Waiting DEF MetricsDidReceive
<1>4. CASE ReceiveSignalStrengthChange  BY <1>4, Waiting DEF ReceiveSignalStrengthChange
<1>5. CASE NextTick  BY <1>5, Waiting DEF NextTick
<1>6. CASE ActionConnect  BY <1>6 DEF ActionConnect
<1>7. CASE SignalingOpens
  <2>1. Ping /\ ~open  BY <1>7 DEF SignalingOpens
  <2>2. consecutivePongsUnaccountedFor = 0  BY <2>1 DEF LinkTypes, PingTypes
  <2>3. UNCHANGED nextTicks  BY <2>1, <2>2 DEF Ping
  <2> QED  BY <2>3
<1>8. CASE SignalingEnds  BY <1>8 DEF SignalingEnds
<1>9. CASE FinishConnecting  BY <1>9 DEF FinishConnecting
<1>10. CASE ActionReconnect  BY <1>10 DEF ActionReconnect
<1>11. CASE ReplaceLocalAudio  BY <1>11 DEF ReplaceLocalAudio
<1>12. CASE CleanStoppedSession  BY <1>12 DEF CleanStoppedSession
<1>13. CASE Tick  BY <1>13 DEF Tick
<1> QED
  BY <1>1, <1>2, <1>3, <1>4, <1>5, <1>6, <1>7, <1>8, <1>9, <1>10, <1>11, <1>12, <1>13 DEF MonitorNext

(* The types hold always.                                                    *)
LEMMA TypeInvariance == MonitorSpec => []MonitorTypeInv
<1>1. MonitorTypeInv /\ MonitorStep => MonitorTypeInv'
  <2>1. CASE MonitorNext
    BY <2>1, ConfigurationAssumption, LinkStep, PingStep, CountStep, OwnStep, FlagStep,
       HealthTypesStep,
      ChangeStep, QueueStep DEF MonitorTypeInv
  <2>2. CASE UNCHANGED monitorVars
    BY <2>2 DEF monitorVars, pingVars, dataVars, policyVars, MonitorTypeInv, LinkTypes, PingTypes, MonitorCountTypes,
       OwnTypes,
      FlagTypes, HealthTypes, ChangeTypes, QueueTypes
  <2> QED  BY <2>1, <2>2 DEF MonitorStep
<1> QED  BY <1>1, MonitorTypeInit, ConfigurationAssumption, PTL DEF MonitorSpec, MonitorStep

(* Every variable keeps its type, for any thresholds: the queue of setTimeout *)
(* calls and the counters stay within their bounds.                         *)
THEOREM MonitorTypeCorrect == MonitorSpec => []MonitorTypeOK
<1>1. MonitorTypeInv => MonitorTypeOK
  BY DEF MonitorTypeInv, MonitorTypeOK, LinkTypes, PingTypes, MonitorCountTypes, OwnTypes, FlagTypes, HealthTypes,
     ChangeTypes,
    QueueTypes
<1> QED  BY <1>1, TypeInvariance, PTL

-----------------------------------------------------------------------------
(* The last of the calls in s that have to do with pings is a pong's, or     *)
(* there is none and no pong is missed.                                     *)
EndsRow(s, missed) ==
  \/ \E i \in 1..Len(s) : s[i] = "didReceivePong" /\ \A j \in i+1..Len(s) : s[j] # "didMissPongs"
  \/ missed = 0 /\ \A j \in 1..Len(s) : s[j] # "didMissPongs"

(* A pong that counts ends the row of missed ones, now or when its call runs. *)
RowInv == pinging /\ consecutivePongsUnaccountedFor = 0 => EndsRow(nextTicks, consecutiveMissedPongs)

(* The calls put off, with one more.                                         *)
LEMMA RowAppend ==
  ASSUME NEW s \in Seq(Calls), NEW missed
  PROVE  /\ EndsRow(Append(s, "didReceivePong"), missed)
         /\ EndsRow(s, missed) => EndsRow(Append(s, "connectionHealthDidChange"), missed)
<1>1. ASSUME NEW c \in Calls
      PROVE  /\ Len(Append(s, c)) = Len(s) + 1 /\ Len(s) \in Nat
             /\ \A i \in 1..Len(s) : Append(s, c)[i] = s[i]
             /\ Append(s, c)[Len(s) + 1] = c
  OBVIOUS
<1>2. EndsRow(Append(s, "didReceivePong"), missed)
  <2> DEFINE t == Append(s, "didReceivePong")
  <2>1. Len(t) = Len(s) + 1 /\ Len(s) \in Nat /\ t[Len(s) + 1] = "didReceivePong"
    BY <1>1 DEF Calls
  <2> HIDE DEF t
  <2>2. EndsRow(t, missed)  BY <2>1 DEF EndsRow
  <2> QED  BY <2>2 DEF t
<1>3. ASSUME EndsRow(s, missed) PROVE EndsRow(Append(s, "connectionHealthDidChange"), missed)
  <2> DEFINE t == Append(s, "connectionHealthDidChange")
  <2>1. /\ Len(t) = Len(s) + 1 /\ Len(s) \in Nat
        /\ \A i \in 1..Len(s) : t[i] = s[i]
        /\ t[Len(s) + 1] # "didMissPongs"
    BY <1>1 DEF Calls
  <2> HIDE DEF t
  <2>2. EndsRow(t, missed)  BY <1>3, <2>1 DEF EndsRow
  <2> QED  BY <2>2 DEF t
<1> QED  BY <1>2, <1>3

(* The calls put off, without the first, which runs.                         *)
LEMMA RowTail ==
  ASSUME NEW s \in Seq(Calls), s # <<>>, NEW missed, EndsRow(s, missed)
  PROVE  /\ Head(s) = "didReceivePong" => EndsRow(Tail(s), 0)
         /\ Head(s) # "didReceivePong" =>
              \A m : (Head(s) = "didMissPongs" \/ m = missed) => EndsRow(Tail(s), m)
<1> DEFINE t == Tail(s)
<1>1. /\ Len(t) = Len(s) - 1 /\ Len(s) \in Nat \ {0} /\ Head(s) = s[1]
      /\ \A i \in 1..Len(t) : t[i] = s[i + 1]
  OBVIOUS
<1> HIDE DEF t
<1>2. CASE missed = 0 /\ \A j \in 1..Len(s) : s[j] # "didMissPongs"
  <2>1. \A j \in 1..Len(t) : t[j] # "didMissPongs"  BY <1>1, <1>2
  <2>2. Head(s) # "didMissPongs"  BY <1>1, <1>2
  <2> QED  BY <1>2, <2>1, <2>2 DEF EndsRow, t
<1>3. ASSUME NEW i \in 1..Len(s), s[i] = "didReceivePong",
             \A j \in i+1..Len(s) : s[j] # "didMissPongs"
      PROVE  /\ Head(s) = "didReceivePong" => EndsRow(t, 0)
             /\ Head(s) # "didReceivePong" => \A m : EndsRow(t, m)
  <2>1. CASE i = 1
    <3>1. \A j \in 1..Len(t) : t[j] # "didMissPongs"  BY <1>1, <1>3, <2>1
    <3> QED  BY <1>1, <1>3, <2>1, <3>1 DEF EndsRow
  <2>2. CASE i # 1
    <3>1. i - 1 \in 1..Len(t) /\ t[i - 1] = "didReceivePong"  BY <1>1, <1>3, <2>2
    <3>2. \A j \in (i - 1) + 1..Len(t) : t[j] # "didMissPongs"  BY <1>1, <1>3, <2>2
    <3>3. \A m : EndsRow(t, m)  BY <3>1, <3>2 DEF EndsRow
    <3> QED  BY <3>3
  <2> QED  BY <2>1, <2>2
<1> QED  BY <1>2, <1>3 DEF EndsRow, t

(* No step leaves missed pongs of an answered row.                           *)
LEMMA RowStep == ASSUME MonitorTypeInv, RowInv, MonitorNext PROVE RowInv'
<1> USE DEF RowInv, pingVars, dataVars
<1>a. nextTicks \in Seq(Calls) /\ consecutiveMissedPongs \in Nat
  BY ConfigurationAssumption DEF MonitorTypeInv, QueueTypes, MonitorCountTypes
<1>b. EndsRow(nextTicks, consecutiveMissedPongs) => EndsRow(nextTicks, 0)
  BY DEF EndsRow
<1>1. CASE IntervalFires  BY <1>1 DEF IntervalFires, Ping
<1>2. CASE PongArrives
  <2>1. UNCHANGED <<pinging, consecutiveMissedPongs>>  BY <1>2 DEF PongArrives
  <2>2. CASE nextTicks' = Append(nextTicks, "didReceivePong")
    BY <1>a, <2>1, <2>2, RowAppend
  <2>3. CASE UNCHANGED <<consecutivePongsUnaccountedFor, nextTicks>>
    BY <2>1, <2>3
  <2> QED  BY <1>2, <2>2, <2>3 DEF PongArrives
<1>3. CASE MetricsDidReceive
  <2>1. UNCHANGED <<pinging, consecutivePongsUnaccountedFor, consecutiveMissedPongs>>
    BY <1>3 DEF MetricsDidReceive
  <2>2. UNCHANGED nextTicks \/ nextTicks' = Append(nextTicks, "connectionHealthDidChange")
    BY <1>3 DEF MetricsDidReceive
  <2>3. CASE UNCHANGED nextTicks  BY <2>1, <2>3
  <2>4. CASE nextTicks' = Append(nextTicks, "connectionHealthDidChange")
    BY <1>a, <2>1, <2>4, RowAppend
  <2> QED  BY <2>2, <2>3, <2>4
<1>4. CASE ReceiveSignalStrengthChange
  BY <1>4, <1>a, RowAppend DEF ReceiveSignalStrengthChange
<1>5. CASE NextTick
  <2>1. nextTicks # <<>> /\ UNCHANGED <<pinging, consecutivePongsUnaccountedFor>>
    BY <1>5 DEF NextTick
  <2>2. CASE ~EndsRow(nextTicks, consecutiveMissedPongs)  BY <2>1, <2>2
  <2>3. CASE EndsRow(nextTicks, consecutiveMissedPongs)
    <3> DEFINE t == Tail(nextTicks)
    <3>1. t \in Seq(Calls)  BY <1>a, <2>1
    <3>2. /\ Head(nextTicks) = "didReceivePong" => EndsRow(t, 0)
          /\ Head(nextTicks) # "didReceivePong" =>
               \A m : (Head(nextTicks) = "didMissPongs" \/ m = consecutiveMissedPongs)
                        => EndsRow(t, m)
      BY <1>a, <2>1, <2>3, RowTail
    <3> HIDE DEF t
    <3>3. CASE /\ Head(nextTicks) = "connectionHealthDidChange"
               /\ nextTicks' = t /\ UNCHANGED consecutiveMissedPongs
      BY <3>2, <3>3
    <3>4. CASE /\ Head(nextTicks) = "didMissPongs" /\ DidMissPongs
               /\ nextTicks' = Append(t, "connectionHealthDidChange")
      BY <3>1, <3>2, <3>4, RowAppend
    <3>5. CASE /\ Head(nextTicks) = "didReceivePong" /\ DidReceivePong
               /\ nextTicks' = Append(t, "connectionHealthDidChange")
      BY <3>1, <3>2, <3>5, RowAppend DEF DidReceivePong
    <3> QED  BY <1>5, <3>3, <3>4, <3>5 DEF NextTick, t
  <2> QED  BY <2>2, <2>3
<1>6. CASE ActionConnect  BY <1>6, <1>b DEF ActionConnect, ResetData
<1>7. CASE SignalingOpens  BY <1>7 DEF SignalingOpens, Ping
<1>8. CASE SignalingEnds  BY <1>8 DEF SignalingEnds, StopPingInterval
<1>9. CASE FinishConnecting  BY <1>9 DEF FinishConnecting
<1>10. CASE ActionReconnect  BY <1>10 DEF ActionReconnect, StopPingInterval
<1>11. CASE ReplaceLocalAudio  BY <1>11, <1>b DEF ReplaceLocalAudio, ResetData
<1>12. CASE CleanStoppedSession  BY <1>12 DEF CleanStoppedSession, StopPingInterval
<1>13. CASE Tick  BY <1>13 DEF Tick
<1> QED
  BY <1>1, <1>2, <1>3, <1>4, <1>5, <1>6, <1>7, <1>8, <1>9, <1>10, <1>11, <1>12, <1>13 DEF MonitorNext

(* The interval of pings ends with the connection, and while pings are sent   *)
(* one pong ends the row of missed ones, whatever is reset, stopped or        *)
(* started, and however the calls put off by setTimeout are delayed.         *)
THEOREM OwnPings == MonitorSpec => []PingsAreOwn
<1>1. MonitorInit => RowInv  BY DEF MonitorInit, RowInv
<1>2. MonitorTypeInv /\ RowInv /\ MonitorStep => RowInv'
  <2>1. CASE UNCHANGED monitorVars
    BY <2>1 DEF monitorVars, pingVars, dataVars, RowInv
  <2> QED  BY <2>1, RowStep DEF MonitorStep
<1>3. MonitorTypeInv /\ RowInv => MissedIsUnanswered
  <2> SUFFICES ASSUME MonitorTypeInv, RowInv, pinging, consecutiveMissedPongs > 0, nextTicks = <<>>,
                      consecutivePongsUnaccountedFor = 0
               PROVE  FALSE
    BY DEF MissedIsUnanswered, MonitorTypeInv, PingTypes
  <2>1. Len(nextTicks) = 0 /\ consecutiveMissedPongs \in Nat
    BY ConfigurationAssumption DEF MonitorTypeInv, MonitorCountTypes
  <2> QED  BY <2>1 DEF RowInv, EndsRow
<1>4. MonitorSpec => []RowInv  BY <1>1, <1>2, TypeInvariance, PTL DEF MonitorSpec, MonitorStep
<1> QED  BY <1>3, <1>4, TypeInvariance, PingsStop, PTL DEF PingsAreOwn
=============================================================================
