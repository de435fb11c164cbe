------------------------ MODULE VideoSubscriptionProofs ------------------------
(***************************************************************************)
(* For any streams, however frames, reports, calls and failures fall        *)
(* between the steps of a negotiation: every variable keeps its type, no    *)
(* index frame is left behind when nothing is negotiated, what is received  *)
(* is what the policy believes is, and the tiles agree with it.             *)
(*                                                                         *)
(* The invariant is about the state as a record, Now, because operations    *)
(* are functions of it that call each other: what waits in a pause is the   *)
(* last frame, or nothing and then the index is that frame's (Latest).      *)
(* That much (Ok) holds also within an operation; when it is over, a        *)
(* connected session that is not lost has nothing paused or deferred        *)
(* (Rests).  For the second part the resumptions to come are counted: a     *)
(* frame or a report that waits is taken up once, and leaves nothing to     *)
(* wait, so that six are enough for the frames to be taken in (Resuming).   *)
(*                                                                         *)
(* The tiles (Tiled, TilesInv) are followed from the choice of streams to   *)
(* the answer: one stream of each attendee is chosen (Chosen), each has a   *)
(* transceiver of its own, and the one under a tile is for the tile's       *)
(* stream (Placed); the subscriptions line up, so the server sends each on  *)
(* its section (Told); the tracks are then those streams and each has its   *)
(* tile (Answered); and nothing but a switch in place changes that until    *)
(* the next negotiation (Agreed).  Within an operation an update may still  *)
(* be to come (Loose).                                                      *)
(*                                                                         *)
(* A restart whose first negotiation fails goes on beside whatever began    *)
(* meanwhile.  Each of several negotiations under way may end the update,   *)
(* so the first part holds for all of them; that there were several is      *)
(* recorded in raced (Flow), which leaves of the second part the choice of  *)
(* streams and one tile for each attendee (RacedTiled).                     *)
(***************************************************************************)
EXTENDS VideoSubscription, FiniteSetTheorems, TLAPS

-----------------------------------------------------------------------------
(* The state, as a record.                                                   *)
Fields == {"server", "answer", "session", "step", "restarting", "others", "deferred",
           "retrying", "current", "forSubscribe", "track", "receive", "last", "optimal", "subscribed",
           "chosen", "indexPaused", "pendingIndex", "monitorPaused", "pendingReport", "trans",
           "map", "attached", "tiles", "raced", "misaligned"}
IsState(s) == DOMAIN s = Fields /\ s = [f \in Fields |-> s[f]]
(* t differs from s in the fields of F only. *)
Differs(s, t, F) == IsState(t) /\ \A f \in Fields \ F : t[f] = s[f]

(* Sets of streams, and who sends them. *)
SetInv(s) ==
  /\ s.current \subseteq Streams /\ s.forSubscribe \subseteq Streams
  /\ s.receive \subseteq Streams /\ s.optimal \subseteq Streams
  /\ s.subscribed \subseteq Streams /\ s.attached \subseteq Streams
  /\ s.last = NoSet \/ s.last \subseteq Streams
  /\ s.pendingIndex = NoSet \/ s.pendingIndex \subseteq Streams
  /\ s.chosen = NoSet \/ s.chosen \subseteq Attendees

(* Transceivers, the streams they are for, and the tiles of their tracks. *)
Transceivers ==
  [dir : {"recvonly", "inactive", "stopped", "gone"}, mid : BOOLEAN, receiving : BOOLEAN]
MapInv(s) ==
  /\ s.trans \in Seq(Transceivers)
  /\ s.map \in [Streams -> [at : 0..Len(s.trans), mid : Int]]
  /\ \A e \in s.tiles : DOMAIN e = {"at", "attendee", "stream"} /\ e.at \in DOMAIN s.trans

(* Whoever negotiates is not connected; other negotiations may go on beside,   *)
(* and that is recorded.                                                     *)
Negotiations ==
  [step : {"attach", "describe", "subscribe", "ack", "answer"}, restarting : BOOLEAN]
Flow(s) ==
  /\ s.session \in {"starting", "connecting", "connected", "updating"}
  /\ s.step \in {"none", "rejoin", "attach", "describe", "subscribe", "ack", "answer"}
  /\ s.step = "none" <=> s.session = "connected"
  /\ s.step = "rejoin" => s.session = "connecting"
  /\ s.restarting \in BOOLEAN /\ s.others \in Seq(Negotiations)
  /\ s.others # <<>> => s.raced
  /\ s.deferred \in {"none", "update", "reconnect"}

(* Of the frames only the last waits, and nothing waits for nothing. *)
Latest(s, frame) ==
  /\ s.indexPaused =>
       \/ s.pendingIndex = frame
       \/ s.pendingIndex = NoSet /\ s.current = integrateIndexFrame(frame)
  /\ ~s.indexPaused => s.pendingIndex = NoSet /\ s.current = integrateIndexFrame(frame)

(* What is received is what the policy believes is. *)
Received(s) == Noticed(s) => s.receive \in {s.subscribed, truncate(s.subscribed)}

(* What holds also within an operation. *)
Ok(s, frame) ==
  IsState(s) /\ SetInv(s) /\ MapInv(s) /\ Flow(s) /\ Latest(s, frame) /\ Received(s)

(* What is true when an operation is over: nothing is deferred, and nothing    *)
(* paused, in a connected session that is not lost.                           *)
Rests(s) ==
  s.session = "connected" => s.deferred = "none" /\ (~s.retrying => ~s.indexPaused)

Inv(s, frame) == Ok(s, frame) /\ Rests(s)
VideoInv == lastFrame \subseteq Streams /\ Inv(Now, lastFrame)

-----------------------------------------------------------------------------
(* Records.                                                                  *)

(* The variables make a state. *)
LEMMA NowIsState == IsState(Now)
BY DEF IsState, Fields, Now

(* What the state becomes is the next state. *)
LEMMA BecomesIs ==
  ASSUME NEW s, IsState(s), Becomes(s)
  PROVE  Now' = s
BY DEF Becomes, Now, IsState, Fields

(* Two states that agree on what a part of the invariant is about.            *)
SameSets(s, t) ==
  /\ t.current = s.current /\ t.forSubscribe = s.forSubscribe /\ t.receive = s.receive
  /\ t.optimal = s.optimal /\ t.subscribed = s.subscribed /\ t.attached = s.attached
  /\ t.last = s.last /\ t.pendingIndex = s.pendingIndex /\ t.chosen = s.chosen
SameMap(s, t) == t.trans = s.trans /\ t.map = s.map /\ t.tiles = s.tiles
SameBeside(s, t) ==
  t.restarting = s.restarting /\ t.others = s.others /\ (s.raced => t.raced)
SameFlow(s, t) ==
  /\ t.session = s.session /\ t.step = s.step /\ t.deferred = s.deferred
  /\ SameBeside(s, t)
SameIndex(s, t) ==
  /\ t.indexPaused = s.indexPaused /\ t.pendingIndex = s.pendingIndex /\ t.current = s.current
SameReceived(s, t) == t.receive = s.receive /\ t.subscribed = s.subscribed
SamePending(s, t) == t.pendingIndex = s.pendingIndex /\ t.pendingReport = s.pendingReport

(* Each part of the invariant is about its fields.                           *)
LEMMA Frames ==
  ASSUME NEW s, NEW t
  PROVE  /\ SameSets(s, t) /\ SetInv(s) => SetInv(t)
         /\ SameMap(s, t) /\ MapInv(s) => MapInv(t)
         /\ SameFlow(s, t) /\ Flow(s) => Flow(t)
         /\ \A f : SameIndex(s, t) /\ Latest(s, f) => Latest(t, f)
         /\ SameReceived(s, t) /\ Received(s) => Received(t)
<1>1. SameSets(s, t) /\ SetInv(s) => SetInv(t)  BY DEF SameSets, SetInv
<1>2. SameMap(s, t) /\ MapInv(s) => MapInv(t)  BY DEF SameMap, MapInv
<1>3. SameFlow(s, t) /\ Flow(s) => Flow(t)  BY DEF SameFlow, SameBeside, Flow
<1>4. \A f : SameIndex(s, t) /\ Latest(s, f) => Latest(t, f)  BY DEF SameIndex, Latest
<1>5. SameReceived(s, t) /\ Received(s) => Received(t)
  BY DEF SameReceived, Received, Noticed
<1> QED  BY <1>1, <1>2, <1>3, <1>4, <1>5

-----------------------------------------------------------------------------
(* The policy. *)

(* What is chosen is chosen from the index. *)
LEMMA ChosenFrom ==
  ASSUME NEW S \in SUBSET Streams, NEW sources
  PROVE  /\ integrateIndexFrame(S) \subseteq Streams
         /\ calculateOptimalReceiveSet(S, sources) \subseteq Streams
         /\ truncate(S) \subseteq Streams
BY DEF integrateIndexFrame, calculateOptimalReceiveSet, highestQualityStreamFromEachGroup,
       truncate

(* An index is none of the sets of streams that are not there. *)
LEMMA NoSetIs == \A S \in SUBSET Streams : S # NoSet
BY StreamsAssumption

-----------------------------------------------------------------------------
(* Streams that are switched, one after the other: a fold.                   *)

(* A set of sets that has the empty one, and one if it has it without any of   *)
(* its elements, has every finite set.                                       *)
LEMMA SetInduction ==
  ASSUME NEW S, IsFiniteSet(S), NEW P, {} \in P,
         \A T \in SUBSET S : T # {} /\ (\A x \in T : T \ {x} \in P) => T \in P
  PROVE  S \in P
<1> DEFINE R == StrictSubsetOrdering(S)
           Q == (SUBSET S) \ P
<1>1. IsWellFoundedOn(R, SUBSET S)
  BY FS_StrictSubsetOrderingWellFounded, FS_FiniteSubsetsOfFinite
<1>2. SUFFICES ASSUME Q # {} PROVE FALSE  OBVIOUS
<1>3. \A T, U \in SUBSET S : T \subseteq U /\ T # U => <<T, U>> \in R
  BY DEF StrictSubsetOrdering
<1>4. PICK T \in Q : \A U \in Q : ~ (<<U, T>> \in R)
  <2> Q \subseteq SUBSET S  OBVIOUS
  <2> HIDE DEF R, Q
  <2> QED  BY <1>1, <1>2, WFMin
<1>5. T # {}  OBVIOUS
<1>6. ASSUME NEW x \in T PROVE T \ {x} \in P
  <2>1. T \ {x} \in SUBSET S /\ T \ {x} \subseteq T /\ T \ {x} # T  BY <1>6
  <2>2. <<T \ {x}, T>> \in R  BY <1>3, <2>1
  <2> QED  BY <1>4, <2>1, <2>2
<1> QED  BY <1>5, <1>6

(* Some streams have a last one. *)
LEMMA LastStream ==
  ASSUME NEW S \in SUBSET Streams, S # {}
  PROVE  Max(S) \in S /\ \A y \in S : y <= Max(S)
<1> DEFINE P == {T \in SUBSET S : T # {} => \E x \in T : \A y \in T : x >= y}
<1>0. \A x \in S : x \in Nat  BY StreamsAssumption
<1>1. {} \in P  OBVIOUS
<1>2. ASSUME NEW T \in SUBSET S, T # {}, \A x \in T : T \ {x} \in P PROVE T \in P
  <2>0. PICK x \in T : TRUE  BY <1>2
  <2>1. CASE T = {x}  BY <1>0, <2>1
  <2>2. CASE T # {x}
    <3>1. PICK a \in T \ {x} : \A y \in T \ {x} : a >= y  BY <1>2, <2>2
    <3>2. \A y \in T : y \in Nat  BY <1>0
    <3>3. CASE a >= x  BY <3>1, <3>2, <3>3
    <3>4. CASE ~ (a >= x)  BY <3>1, <3>2, <3>4
    <3> QED  BY <3>3, <3>4
  <2> QED  BY <2>1, <2>2
<1>3. IsFiniteSet(S)  BY StreamsAssumption, FS_Subset
<1>4. S \in P
  <2> HIDE DEF P
  <2> QED  BY <1>1, <1>2, <1>3, SetInduction
<1>5. \E x \in S : \A y \in S : x >= y  BY <1>4
<1>6. Max(S) \in S /\ \A y \in S : Max(S) >= y  BY <1>5 DEF Max
<1> QED  BY <1>0, <1>6

(* What the fold takes for its iteration. *)
Iterates(g, s, base, S) ==
  g = [T \in SUBSET S |-> IF T = {} THEN base
                          ELSE SwitchOne(s, g[T \ {Max(T)}], Max(T))]
Fold(s, base, S) ==
  MapThenFoldSet(LAMBDA x, q : SwitchOne(s, q, x), base, LAMBDA x : x, LAMBDA T : Max(T), S)

(* What an iteration is, of the empty set and of any other. *)
LEMMA Iteration ==
  ASSUME NEW g, NEW s, NEW base, NEW S, Iterates(g, s, base, S)
  PROVE  /\ g[{}] = base
         /\ \A T \in SUBSET S : T # {} => g[T] = SwitchOne(s, g[T \ {Max(T)}], Max(T))
BY DEF Iterates

(* The fold has one. *)
LEMMA FoldIterates ==
  ASSUME NEW s, NEW base, NEW S \in SUBSET Streams
  PROVE  \E g : Iterates(g, s, base, S) /\ Fold(s, base, S) = g[S]
<1> DEFINE P == {T \in SUBSET S : \E g : Iterates(g, s, base, T)}
<1>1. {} \in P
  <2> DEFINE g == [T \in SUBSET {} |-> base]
  <2>1. Iterates(g, s, base, {})  BY DEF Iterates
  <2> QED  BY <2>1
<1>2. ASSUME NEW T \in SUBSET S, T # {}, \A x \in T : T \ {x} \in P PROVE T \in P
  <2> DEFINE l == Max(T)
             U == T \ {l}
  <2>1. l \in T /\ \A y \in T : y <= l  BY <1>2, LastStream
  <2>2. PICK g : Iterates(g, s, base, U)  BY <1>2, <2>1
  <2> DEFINE h == [V \in SUBSET T |-> IF l \in V THEN SwitchOne(s, g[V \ {l}], l) ELSE g[V]]
  <2>3. ASSUME NEW V \in SUBSET T
        PROVE  h[V] = IF V = {} THEN base ELSE SwitchOne(s, h[V \ {Max(V)}], Max(V))
    <3>1. CASE l \in V
      <4>1. Max(V) \in V /\ \A y \in V : y <= Max(V)  BY <3>1, LastStream
      <4>2. Max(V) = l
        <5>1. l \in Nat /\ Max(V) \in Nat  BY <2>1, <4>1, StreamsAssumption
        <5>2. l <= Max(V) /\ Max(V) <= l  BY <2>1, <3>1, <4>1
        <5> HIDE DEF l
        <5> QED  BY <5>1, <5>2
      <4>3. V \ {l} \in SUBSET T /\ l \notin V \ {l}  OBVIOUS
      <4>4. h[V \ {l}] = g[V \ {l}]  BY <4>3
      <4>5. h[V] = SwitchOne(s, g[V \ {l}], l)  BY <3>1
      <4> QED  BY <3>1, <4>2, <4>4, <4>5
    <3>2. CASE l \notin V
      <4>1. V \in SUBSET U /\ h[V] = g[V]  BY <3>2
      <4>2. CASE V = {}  BY <2>2, <4>1, <4>2, Iteration
      <4>3. CASE V # {}
        <5>1. g[V] = SwitchOne(s, g[V \ {Max(V)}], Max(V))  BY <2>2, <4>1, <4>3, Iteration
        <5>2. V \ {Max(V)} \in SUBSET T /\ l \notin V \ {Max(V)}  BY <3>2
        <5>3. h[V \ {Max(V)}] = g[V \ {Max(V)}]  BY <5>2
        <5> QED  BY <4>1, <4>3, <5>1, <5>3
      <4> QED  BY <4>2, <4>3
    <3> QED  BY <3>1, <3>2
  <2>4. h = [V \in SUBSET T |-> h[V]]  OBVIOUS
  <2> HIDE DEF h
  <2>5. Iterates(h, s, base, T)  BY <2>3, <2>4 DEF Iterates
  <2> QED  BY <2>5
<1>3. IsFiniteSet(S)  BY StreamsAssumption, FS_Subset
<1>4. S \in P
  <2> HIDE DEF P
  <2> QED  BY <1>1, <1>2, <1>3, SetInduction
<1> DEFINE f == CHOOSE f : f = [T \in SUBSET S |->
                   IF T = {} THEN base ELSE SwitchOne(s, f[T \ {Max(T)}], Max(T))]
<1>5. Iterates(f, s, base, S)
  <2>1. PICK g : Iterates(g, s, base, S)  BY <1>4
  <2> QED  BY <2>1 DEF Iterates
<1>6. Fold(s, base, S) = f[S]  BY DEF Fold, MapThenFoldSet
<1> HIDE DEF f
<1> QED  BY <1>5, <1>6

(* A transceiver takes the entry of a stream it is switched from.             *)
LEMMA SetStreamIs ==
  ASSUME NEW s, IsState(s), MapInv(s), NEW x \in Streams, NEW mid,
         NEW t, t = setStreamIdForMid(s, mid, x)
  PROVE  Differs(s, t, {"map"}) /\ MapInv(t)
<1> DEFINE same == {y \in Streams : getMidForStreamId(s, y) = mid}
           old == {y \in same : s.map[y].at = 0}
           y == CHOOSE y \in Streams : y \in (IF old # {} THEN old ELSE same)
           m == [[s.map EXCEPT ![y] = Absent] EXCEPT ![x] = s.map[y]]
<1>1. CASE same = {}
  <2>1. t = s  BY <1>1 DEF setStreamIdForMid
  <2> QED  BY <2>1 DEF Differs
<1>2. CASE same # {}
  <2>1. y \in Streams
    <3>1. \E z \in Streams : z \in (IF old # {} THEN old ELSE same)  BY <1>2
    <3> HIDE DEF old, same
    <3> QED  BY <3>1
  <2>2. t = [s EXCEPT !.map = m]  BY <1>2 DEF setStreamIdForMid
  <2> HIDE DEF y, old, same
  <2>3. s.map \in [Streams -> [at : 0..Len(s.trans), mid : Int]] /\ Len(s.trans) \in Nat
    BY DEF MapInv
  <2>4. Absent \in [at : 0..Len(s.trans), mid : Int]  BY <2>3 DEF Absent
  <2>5. m \in [Streams -> [at : 0..Len(s.trans), mid : Int]]  BY <2>1, <2>3, <2>4
  <2> HIDE DEF m
  <2>6. Differs(s, t, {"map"}) /\ t.map = m  BY <2>2 DEF Differs, IsState, Fields
  <2>7. t.trans = s.trans /\ t.tiles = s.tiles  BY <2>6 DEF Differs, Fields
  <2> QED  BY <2>5, <2>6, <2>7 DEF MapInv
<1> QED  BY <1>1, <1>2

(* With it go the track and the tile. *)
LEMMA SwitchStreamIs ==
  ASSUME NEW s, IsState(s), MapInv(s), NEW x \in Streams, NEW y, NEW mid,
         NEW t, t = switchStream(s, y, x, mid)
  PROVE  /\ Differs(s, t, {"map", "track", "tiles", "raced"}) /\ MapInv(t)
         /\ s.raced => t.raced
<1> DEFINE u == setStreamIdForMid(s, mid, x)
           k == {i \in DOMAIN s.track : s.track[i] = y}
           track1 == [i \in DOMAIN u.track |->
                       IF i \in k /\ \A j \in k : i <= j THEN x ELSE u.track[i]]
           tile(e) == IF e.attendee = TileAttendee(s, x) THEN [e EXCEPT !.stream = x] ELSE e
           tiles1 == {tile(e) : e \in u.tiles}
           raced1 == u.raced \/ streamIdForTrack(s, mid) # y
<1>1. Differs(s, u, {"map"}) /\ MapInv(u)  BY SetStreamIs
<1>2. t = [u EXCEPT !.track = track1, !.tiles = tiles1, !.raced = raced1]
  BY DEF switchStream
<1>3. \A e \in tiles1 : DOMAIN e = {"at", "attendee", "stream"} /\ e.at \in DOMAIN u.trans
  <2>1. ASSUME NEW e \in u.tiles
        PROVE  DOMAIN tile(e) = {"at", "attendee", "stream"} /\ tile(e).at \in DOMAIN u.trans
    <3> HIDE DEF u
    <3>1. DOMAIN e = {"at", "attendee", "stream"} /\ e.at \in DOMAIN u.trans
      BY <1>1, <2>1 DEF MapInv
    <3> QED  BY <3>1
  <2> HIDE DEF tile, u
  <2> QED  BY <2>1
<1>6. u.raced => raced1  OBVIOUS
<1> HIDE DEF u, tiles1, track1, raced1
<1>4. /\ Differs(u, t, {"track", "tiles", "raced"}) /\ t.tiles = tiles1
      /\ t.trans = u.trans /\ t.map = u.map /\ t.raced = raced1
  BY <1>1, <1>2 DEF Differs, IsState, Fields
<1>5. MapInv(t)  BY <1>1, <1>3, <1>4 DEF MapInv
<1>7. u.raced = s.raced  BY <1>1 DEF Differs, Fields
<1> QED  BY <1>1, <1>4, <1>5, <1>6, <1>7 DEF Differs

(* Switching every stream leaves the rest as it was, and tells the server.    *)
LEMMA SwitchAllIs ==
  ASSUME NEW s, IsState(s), MapInv(s), SetInv(s), NEW t, t = SwitchAll(s).state
  PROVE  /\ Differs(s, t, {"map", "track", "tiles", "raced", "server"}) /\ MapInv(t)
         /\ s.raced => t.raced
<1> DEFINE base == [done |-> TRUE, state |-> s, sent |-> {}]
           S == Switched(s)
           Good(r) == /\ DOMAIN r = {"done", "state", "sent"}
                      /\ Differs(s, r.state, {"map", "track", "tiles", "raced"}) /\ MapInv(r.state)
                      /\ s.raced => r.state.raced
           r == Fold(s, base, S)
           sent(i) == {e \in r.sent : e.mid = i}
           served == [i \in DOMAIN r.state.server |->
                       IF sent(i) = {} THEN r.state.server[i]
                       ELSE (CHOOSE e \in sent(i) : TRUE).stream]
<1>1. Good(base)  BY DEF Differs
<1>2. ASSUME NEW q, Good(q), NEW x \in S PROVE Good(SwitchOne(s, q, x))
  <2> DEFINE y == Replaced(s, x)
             mid == getMidForStreamId(q.state, y)
             u == switchStream(q.state, y, x, mid)
  <2>1. CASE ~q.done \/ mid = -1
    <3>1. SwitchOne(s, q, x) = [q EXCEPT !.done = FALSE]  BY <2>1 DEF SwitchOne
    <3> QED  BY <1>2, <3>1
  <2>2. CASE ~(~q.done \/ mid = -1)
    <3>1. SwitchOne(s, q, x)
            = [done |-> TRUE, state |-> u, sent |-> q.sent \cup {[mid |-> mid, stream |-> x]}]
      BY <2>2 DEF SwitchOne
    <3>2. x \in Streams  BY DEF Switched, SetInv
    <3>3. /\ Differs(q.state, u, {"map", "track", "tiles", "raced"}) /\ MapInv(u)
          /\ q.state.raced => u.raced
      BY <1>2, <3>2, SwitchStreamIs DEF Differs
    <3> HIDE DEF u, mid, y
    <3>4. Differs(s, u, {"map", "track", "tiles", "raced"})  BY <1>2, <3>3 DEF Differs
    <3> QED  BY <1>2, <3>1, <3>3, <3>4
  <2> QED  BY <2>1, <2>2
<1>3. S \in SUBSET Streams  BY DEF SetInv, Switched
<1>4. Good(r)
  <2>1. PICK g : Iterates(g, s, base, S) /\ r = g[S]  BY <1>3, FoldIterates
  <2> DEFINE P == {T \in SUBSET S : Good(g[T])}
  <2> HIDE DEF Good, base, r, S
  <2>2. {} \in P  BY <1>1, <2>1, Iteration
  <2>3. ASSUME NEW T \in SUBSET S, T # {}, \A x \in T : T \ {x} \in P PROVE T \in P
    <3>1. Max(T) \in T  BY <1>3, <2>3, LastStream
    <3>2. Good(g[T \ {Max(T)}])  BY <2>3, <3>1
    <3>3. g[T] = SwitchOne(s, g[T \ {Max(T)}], Max(T))  BY <2>1, <2>3, Iteration
    <3> QED  BY <1>2, <3>1, <3>2, <3>3
  <2>4. IsFiniteSet(S)  BY <1>3, StreamsAssumption, FS_Subset
  <2>5. S \in P
    <3> HIDE DEF P
    <3> QED  BY <2>2, <2>3, <2>4, SetInduction
  <2> QED  BY <2>1, <2>5
<1>5. t = IF ~r.done THEN r.state ELSE [r.state EXCEPT !.server = served]
  BY DEF SwitchAll, Fold
<1> HIDE DEF r, served
<1>6. CASE ~r.done  BY <1>4, <1>5, <1>6 DEF Differs
<1>7. CASE r.done
  <2>1. /\ Differs(r.state, t, {"server"}) /\ t.trans = r.state.trans /\ t.map = r.state.map
        /\ t.tiles = r.state.tiles /\ t.raced = r.state.raced
    BY <1>4, <1>5, <1>7 DEF Differs, IsState, Fields
  <2>2. MapInv(t)  BY <1>4, <2>1 DEF MapInv
  <2> QED  BY <1>4, <2>1, <2>2 DEF Differs
<1> QED  BY <1>6, <1>7

(* Streams in the order of their numbers. *)
LEMMA RankIs ==
  ASSUME NEW S \in SUBSET Streams, NEW x \in S
  PROVE  Cardinality(S) \in Nat /\ Rank(S, x) \in 1..Cardinality(S)
<1> DEFINE R == {y \in S : y <= x}
<1>1. IsFiniteSet(S) /\ IsFiniteSet(R) /\ Cardinality(R) <= Cardinality(S)
  BY StreamsAssumption, FS_Subset
<1>2. Cardinality(S) \in Nat /\ Cardinality(R) \in Nat  BY <1>1, FS_CardinalityType
<1>3. x \in R  BY StreamsAssumption
<1>4. Cardinality(R) # 0  BY <1>1, <1>3, FS_EmptySet
<1> QED  BY <1>1, <1>2, <1>4 DEF Rank

(* New transceivers come after those that are there, and every stream that is  *)
(* received has one.                                                         *)
LEMMA TransceiversAre ==
  ASSUME NEW s, IsState(s), MapInv(s), SetInv(s), NEW t, t = updateVideoTransceivers(s)
  PROVE  /\ Differs(s, t, {"trans", "map", "attached", "raced"}) /\ MapInv(t)
         /\ t.attached = s.receive
<1> DEFINE n == Len(s.trans)
           added == s.receive \ {Gets(s, i) : i \in 1..n}
           At(x) == IF x \in added THEN n + Rank(added, x)
                    ELSE CHOOSE i \in 1..n : Gets(s, i) = x
           Dropped(x) == \E i \in 1..n :
             \/ Takes(s, i) # 0 /\ streamIdForTrack(s, i) = x
             \/ Released(s, i) /\ IF canStop THEN getMidForStreamId(s, x) = i ELSE s.map[x].at = i
           dir(i) == IF Gets(s, i) # 0 THEN "recvonly"
                     ELSE IF Released(s, i) THEN (IF canStop THEN "stopped" ELSE "inactive")
                     ELSE s.trans[i].dir
           turned(i) == [s.trans[i] EXCEPT !.dir = dir(i)]
           old == [i \in 1..n |-> turned(i)]
           new == [k \in 1..Cardinality(added) |-> New]
           trans1 == old \o new
           map1 == [x \in Streams |->
                     IF x \in s.receive THEN [at |-> At(x), mid |-> 0]
                     ELSE IF Dropped(x) THEN Absent ELSE s.map[x]]
           raced1 == s.raced \/ \E i \in 1..n : Takes(s, i) \notin {0, streamIdForTrack(s, i)}
<1>1. t = [s EXCEPT !.trans = trans1, !.map = map1, !.attached = s.receive, !.raced = raced1]
  BY DEF updateVideoTransceivers
<1>2. n \in Nat /\ \A i \in 1..n : s.trans[i] \in Transceivers  BY DEF MapInv
<1>3. added \in SUBSET Streams /\ s.receive \in SUBSET Streams  BY DEF SetInv
<1>4. Cardinality(added) \in Nat  BY <1>3, StreamsAssumption, FS_Subset, FS_CardinalityType
<1>5. trans1 \in Seq(Transceivers) /\ Len(trans1) = n + Cardinality(added)
  <2>1. \A i \in 1..n : turned(i) \in Transceivers
    <3>1. \A i \in 1..n : dir(i) \in {"recvonly", "inactive", "stopped", "gone"}
      BY <1>2 DEF Transceivers
    <3> HIDE DEF dir, n
    <3> QED  BY <1>2, <3>1 DEF Transceivers
  <2> HIDE DEF n, turned, added
  <2>2. old \in Seq(Transceivers) /\ Len(old) = n  BY <1>2, <2>1
  <2>3. New \in Transceivers  BY DEF New, Transceivers
  <2>4. new \in Seq(Transceivers) /\ Len(new) = Cardinality(added)  BY <1>4, <2>3
  <2> HIDE DEF old, new
  <2> QED  BY <2>2, <2>4
<1>6. map1 \in [Streams -> [at : 0..Len(trans1), mid : Int]]
  <2>1. ASSUME NEW x \in s.receive PROVE At(x) \in 0..Len(trans1)
    <3>1. CASE x \in added
      <4>1. Rank(added, x) \in 1..Cardinality(added)  BY <1>3, <3>1, RankIs
      <4> HIDE DEF n, added
      <4> QED  BY <1>2, <1>4, <1>5, <3>1, <4>1
    <3>2. CASE x \notin added
      <4>1. \E i \in 1..n : Gets(s, i) = x  BY <2>1, <3>2
      <4>2. At(x) \in 1..n  BY <3>2, <4>1
      <4> HIDE DEF n, added, At
      <4> QED  BY <1>2, <1>4, <1>5, <4>2
    <3> QED  BY <3>1, <3>2
  <2>2. s.map \in [Streams -> [at : 0..n, mid : Int]]  BY DEF MapInv
  <2>3. n <= Len(trans1)  BY <1>2, <1>4, <1>5
  <2> HIDE DEF n, trans1, added, At, Dropped
  <2>4. Len(trans1) \in Nat  BY <1>5
  <2>5. Absent \in [at : 0..Len(trans1), mid : Int]  BY <2>4 DEF Absent
  <2>6. \A x \in Streams : s.map[x] \in [at : 0..Len(trans1), mid : Int]
    BY <1>2, <2>2, <2>3, <2>4
  <2>7. \A x \in s.receive : [at |-> At(x), mid |-> 0] \in [at : 0..Len(trans1), mid : Int]
    BY <2>1
  <2> QED  BY <2>5, <2>6, <2>7
<1> HIDE DEF trans1, map1, raced1
<1>7. /\ Differs(s, t, {"trans", "map", "attached", "raced"})
      /\ t.trans = trans1 /\ t.map = map1 /\ t.attached = s.receive /\ t.tiles = s.tiles
  BY <1>1 DEF Differs, IsState, Fields
<1>8. \A e \in t.tiles : DOMAIN e = {"at", "attendee", "stream"} /\ e.at \in DOMAIN t.trans
  <2>1. DOMAIN s.trans = 1..n /\ DOMAIN t.trans = 1..Len(trans1)  BY <1>5, <1>7 DEF MapInv
  <2>2. n \in Nat /\ Len(trans1) \in Nat /\ n <= Len(trans1)  BY <1>2, <1>4, <1>5
  <2> HIDE DEF n, added
  <2>3. 1..n \subseteq 1..Len(trans1)  BY <2>2
  <2> QED  BY <1>7, <2>1, <2>3 DEF MapInv
<1> QED  BY <1>5, <1>6, <1>7, <1>8 DEF MapInv

-----------------------------------------------------------------------------
(* Operations of the controller. *)

(* An operation does not connect a session, resumes what it pauses, and leaves  *)
(* a negotiation where it is.                                                *)
Kept(s, t) ==
  /\ t.retrying = s.retrying
  /\ s.session # "connected" => t.session = s.session /\ t.step = s.step
  /\ t.session = "connected" =>
       s.session = "connected" /\ t.deferred = s.deferred /\ (~s.indexPaused => ~t.indexPaused)

(* One operation after another. *)
LEMMA KeptTwice ==
  ASSUME NEW s, NEW t, NEW u, Kept(s, t), Kept(t, u)
  PROVE  Kept(s, u)
BY DEF Kept

(* An update pauses the frames, but forgets none. *)
LEMMA BeginOk ==
  ASSUME NEW s, NEW f, Ok(s, f), NEW t, t = Begin(s)
  PROVE  Ok(t, f) /\ t.session = "updating" /\ t.retrying = s.retrying /\ SamePending(s, t)
<1>1. /\ Differs(s, t, {"session", "step", "indexPaused", "monitorPaused"})
      /\ t.session = "updating" /\ t.step = "attach" /\ t.indexPaused = TRUE
  BY DEF Begin, Ok, Differs, IsState, Fields
<1>2. /\ SameSets(s, t) /\ SameMap(s, t) /\ SameReceived(s, t) /\ t.deferred = s.deferred
      /\ SamePending(s, t) /\ t.current = s.current /\ t.retrying = s.retrying
      /\ SameBeside(s, t)
  BY <1>1 DEF Differs, Fields, SameSets, SameMap, SameReceived, SamePending, SameBeside
<1>3. Flow(t)  BY <1>1, <1>2 DEF Ok, Flow, SameBeside
<1>4. Latest(t, f)  BY <1>1, <1>2 DEF Ok, Latest, SamePending
<1> QED  BY <1>1, <1>2, <1>3, <1>4, Frames DEF Ok, Differs

(* A reconnection takes the tracks of the peer connection before.            *)
LEMMA BeginReconnectOk ==
  ASSUME NEW s, NEW f, Ok(s, f), NEW t, t = BeginReconnect(s)
  PROVE  Ok(t, f) /\ t.session = "connecting" /\ t.retrying = s.retrying /\ SamePending(s, t)
<1> DEFINE m == [x \in Streams |-> [at |-> 0, mid |-> getMidForStreamId(s, x)]]
           raced1 == ~(s.receive \subseteq s.current) \/ s.others # <<>>
<1>1. t = [s EXCEPT !.session = "connecting", !.step = "rejoin", !.map = m,
             !.trans = <<>>, !.tiles = {}, !.server = <<>>, !.answer = <<>>,
             !.optimal = {}, !.subscribed = {}, !.chosen = NoSet, !.raced = raced1]
  BY DEF BeginReconnect
<1>2. \A x \in Streams : getMidForStreamId(s, x) \in Int
  <2> TAKE x \in Streams
  <2>1. s.map[x].at \in 0..Len(s.trans) /\ s.map[x].mid \in Int /\ Len(s.trans) \in Nat
    BY DEF Ok, MapInv
  <2> QED  BY <2>1 DEF getMidForStreamId
<1>3. m \in [Streams -> [at : 0..0, mid : Int]]  BY <1>2
<1>10. s.others # <<>> => raced1  OBVIOUS
<1> HIDE DEF m, raced1
<1>4. /\ Differs(s, t, {"session", "step", "map", "trans", "tiles", "server", "answer",
                       "optimal", "subscribed", "chosen", "raced"})
      /\ t.session = "connecting" /\ t.step = "rejoin" /\ t.map = m /\ t.trans = <<>>
      /\ t.tiles = {} /\ t.optimal = {} /\ t.subscribed = {} /\ t.chosen = NoSet
      /\ t.raced = raced1
  <2>1. IsState(s)  BY DEF Ok
  <2>2. /\ t.session = "connecting" /\ t.step = "rejoin" /\ t.map = m /\ t.trans = <<>>
        /\ t.tiles = {} /\ t.optimal = {} /\ t.subscribed = {} /\ t.chosen = NoSet
        /\ t.raced = raced1
    BY <1>1, <2>1 DEF IsState, Fields
  <2>3. DOMAIN t = Fields /\ t = [field \in Fields |-> t[field]]  BY <1>1, <2>1 DEF IsState
  <2>4. ASSUME NEW g \in Fields, g \notin {"session", "step", "map", "trans", "tiles",
               "server", "answer", "optimal", "subscribed", "chosen", "raced"}
        PROVE  t[g] = s[g]
    BY <1>1, <2>1, <2>4 DEF IsState
  <2> QED  BY <2>2, <2>3, <2>4 DEF Differs, IsState
<1>5. /\ SameIndex(s, t) /\ t.deferred = s.deferred /\ t.receive = s.receive
      /\ t.forSubscribe = s.forSubscribe /\ t.attached = s.attached /\ t.last = s.last
      /\ t.retrying = s.retrying /\ SamePending(s, t)
      /\ t.restarting = s.restarting /\ t.others = s.others
  BY <1>4 DEF Differs, Fields, SameIndex, SamePending
<1>6. SetInv(t)  BY <1>4, <1>5 DEF SetInv, Ok, SameIndex
<1>7. MapInv(t)
  <2>1. t.trans \in Seq(Transceivers) /\ Len(t.trans) = 0  BY <1>4
  <2> QED  BY <1>3, <1>4, <2>1 DEF MapInv
<1>8. Flow(t)  BY <1>4, <1>5, <1>10 DEF Ok, Flow
<1>9. Received(t)  BY <1>4, <1>5 DEF Received, Noticed
<1> QED  BY <1>4, <1>5, <1>6, <1>7, <1>8, <1>9, Frames DEF Ok, Differs

(* An action is begun or put off. *)
LEMMA PerformOk ==
  ASSUME NEW s, NEW f, Ok(s, f), NEW action \in {"update", "reconnect"},
         NEW t, t = perform(s, action)
  PROVE  Ok(t, f) /\ Kept(s, t) /\ t.session # "connected" /\ SamePending(s, t)
<1>1. CASE s.session = "connected" /\ action = "update"
  <2>1. t = Begin(s)  BY <1>1 DEF perform
  <2> QED  BY <1>1, <2>1, BeginOk DEF Kept
<1>2. CASE s.session = "connected" /\ action = "reconnect"
  <2>1. t = BeginReconnect(s)  BY <1>2 DEF perform
  <2> QED  BY <1>2, <2>1, BeginReconnectOk DEF Kept
<1>3. CASE s.session # "connected"
  <2> DEFINE d == IF s.deferred = "reconnect" THEN s.deferred ELSE action
  <2>1. t = [s EXCEPT !.deferred = d]  BY <1>3 DEF perform
  <2>2. d \in {"none", "update", "reconnect"}  BY DEF Ok, Flow
  <2> HIDE DEF d
  <2>3. Differs(s, t, {"deferred"}) /\ t.deferred = d
    BY <2>1 DEF Ok, Differs, IsState, Fields
  <2>4. /\ SameSets(s, t) /\ SameMap(s, t) /\ SameReceived(s, t) /\ SameIndex(s, t)
        /\ t.session = s.session /\ t.step = s.step /\ t.retrying = s.retrying
        /\ SamePending(s, t) /\ SameBeside(s, t)
    BY <2>3 DEF Differs, Fields, SameSets, SameMap, SameReceived, SameIndex, SamePending,
                SameBeside
  <2>5. Flow(t)  BY <2>2, <2>3, <2>4 DEF Ok, Flow, SameBeside
  <2> QED  BY <1>3, <2>3, <2>4, <2>5, Frames DEF Ok, Kept, Differs
<1> QED  BY <1>1, <1>2, <1>3

(* What was put off is done when the session is connected. *)
LEMMA DeferredOk ==
  ASSUME NEW s, NEW f, Ok(s, f), NEW t, t = performDeferredAction(s)
  PROVE  /\ Ok(t, f) /\ t.retrying = s.retrying
         /\ t.session = "connected" =>
              /\ s.session = "connected" /\ t.deferred = "none"
              /\ ~s.indexPaused => ~t.indexPaused
<1>1. CASE s.deferred = "none"  BY <1>1 DEF performDeferredAction
<1>2. CASE s.deferred # "none"
  <2> DEFINE u == [s EXCEPT !.deferred = "none"]
  <2>1. t = perform(u, s.deferred) /\ s.deferred \in {"update", "reconnect"}
    BY <1>2 DEF performDeferredAction, Ok, Flow
  <2>2. Differs(s, u, {"deferred"}) /\ u.deferred = "none"
    BY DEF Ok, Differs, IsState, Fields
  <2> HIDE DEF u
  <2>3. /\ SameSets(s, u) /\ SameMap(s, u) /\ SameReceived(s, u) /\ SameIndex(s, u)
        /\ u.session = s.session /\ u.step = s.step /\ u.retrying = s.retrying
        /\ SameBeside(s, u)
    BY <2>2 DEF Differs, Fields, SameSets, SameMap, SameReceived, SameIndex, SameBeside
  <2>4. Flow(u)  BY <2>2, <2>3 DEF Ok, Flow, SameBeside
  <2>5. Ok(u, f)  BY <2>2, <2>3, <2>4, Frames DEF Ok, Differs
  <2> QED  BY <2>1, <2>3, <2>5, PerformOk DEF Kept
<1> QED  BY <1>1, <1>2

(* A change of local video. *)
LEMMA UpdateOk ==
  ASSUME NEW s, NEW f, Ok(s, f), NEW t, t = update(s)
  PROVE  Ok(t, f) /\ Kept(s, t) /\ t.session # "connected"
<1> DEFINE u == [s EXCEPT !.last = s.receive]
<1>1. t = perform(u, "update")  BY DEF update
<1>2. Differs(s, u, {"last"}) /\ u.last = s.receive
  BY DEF Ok, Differs, IsState, Fields
<1> HIDE DEF u
<1>3. /\ SameMap(s, u) /\ SameReceived(s, u) /\ SameIndex(s, u) /\ SameFlow(s, u)
      /\ u.retrying = s.retrying /\ u.current = s.current /\ u.forSubscribe = s.forSubscribe
      /\ u.optimal = s.optimal /\ u.attached = s.attached /\ u.chosen = s.chosen
  BY <1>2 DEF Differs, Fields, SameMap, SameReceived, SameIndex, SameFlow, SameBeside
<1>4. SetInv(u)  BY <1>2, <1>3 DEF Ok, SetInv, SameReceived, SameIndex
<1>5. Ok(u, f)  BY <1>2, <1>3, <1>4, Frames DEF Ok, Differs
<1> QED  BY <1>1, <1>3, <1>5, PerformOk DEF Kept, SameFlow, SameBeside, SameIndex

-----------------------------------------------------------------------------
(* Frames and reports, and the updates in place they ask for.                *)

(* The state in which an update in place has been tried, and whether it could.  *)
Tried(s) ==
  [updateRemoteVideosFromLastVideosToReceive(s).state EXCEPT !.last = s.receive]
Done(s) == updateRemoteVideosFromLastVideosToReceive(s).done

(* The tracks and the transceivers are others then, and nothing else is. *)
LEMMA TriedOk ==
  ASSUME NEW s, NEW f, Ok(s, f), NEW t, t = Tried(s)
  PROVE  /\ Ok(t, f) /\ SameFlow(s, t) /\ SameIndex(s, t)
         /\ t.retrying = s.retrying /\ SamePending(s, t)
<1> DEFINE q == updateRemoteVideosFromLastVideosToReceive(s)
           u == q.state
<1>1. /\ Differs(s, u, {"map", "track", "tiles", "raced", "server"}) /\ MapInv(u)
      /\ s.raced => u.raced
  <2>1. CASE s.receive = {} \/ s.last \in {{}, NoSet}
    <3>1. q = [done |-> FALSE, state |-> s]
      BY <2>1 DEF updateRemoteVideosFromLastVideosToReceive
    <3>2. u = s  BY <3>1
    <3> QED  BY <3>2 DEF Ok, Differs
  <2>2. CASE ~(s.receive = {} \/ s.last \in {{}, NoSet})
    <3> DEFINE r == SwitchAll(s)
               d == /\ r.done /\ (s.receive \ s.last) \ Switched(s) = {}
                    /\ (s.last \ s.receive) \ {Replaced(s, x) : x \in Switched(s)} = {}
    <3>1. q = [r EXCEPT !.done = d]
      BY <2>2 DEF updateRemoteVideosFromLastVideosToReceive
    <3>2. DOMAIN r = {"done", "state"}  BY DEF SwitchAll
    <3>3. /\ Differs(s, r.state, {"map", "track", "tiles", "raced", "server"})
          /\ MapInv(r.state)
          /\ s.raced => r.state.raced
      BY SwitchAllIs DEF Ok
    <3> HIDE DEF r, d, q
    <3>4. q.state = r.state  BY <3>1, <3>2
    <3> QED  BY <3>3, <3>4
  <2> QED  BY <2>1, <2>2
<1>2. t = [u EXCEPT !.last = s.receive]  BY DEF Tried
<1> HIDE DEF u
<1>3. Differs(u, t, {"last"}) /\ t.last = s.receive
  BY <1>1, <1>2 DEF Differs, IsState, Fields
<1>4. /\ SameMap(u, t) /\ SameReceived(s, t) /\ SameIndex(s, t) /\ SameFlow(s, t)
      /\ t.retrying = s.retrying /\ t.current = s.current /\ t.forSubscribe = s.forSubscribe
      /\ t.optimal = s.optimal /\ t.attached = s.attached /\ t.chosen = s.chosen
      /\ SamePending(s, t)
  BY <1>1, <1>3
     DEF Differs, Fields, SameMap, SameReceived, SameIndex, SameFlow, SameBeside, SamePending
<1>5. SetInv(t)  BY <1>3, <1>4 DEF Ok, SetInv, SameReceived, SameIndex
<1>6. MapInv(t)  BY <1>1, <1>4, Frames
<1> QED  BY <1>3, <1>4, <1>5, <1>6, Frames DEF Ok, Differs

(* What the policy has chosen is received. *)
LEMMA AskOk ==
  ASSUME NEW s, NEW f, Ok(s, f), NEW t, Differs(s, t, {"subscribed", "receive", "raced"}),
         t.subscribed = s.optimal, t.receive \in {s.optimal, truncate(s.optimal)},
         s.raced => t.raced
  PROVE  /\ Ok(t, f) /\ SameFlow(s, t) /\ SameIndex(s, t)
         /\ t.retrying = s.retrying /\ SamePending(s, t)
<1>1. /\ SameMap(s, t) /\ SameIndex(s, t) /\ SameFlow(s, t)
      /\ t.retrying = s.retrying /\ t.current = s.current /\ t.forSubscribe = s.forSubscribe
      /\ t.optimal = s.optimal /\ t.attached = s.attached /\ t.chosen = s.chosen
      /\ t.last = s.last /\ SamePending(s, t)
  BY DEF Differs, Fields, SameMap, SameIndex, SameFlow, SameBeside, SamePending
<1>2. truncate(s.optimal) \subseteq Streams  BY ChosenFrom DEF Ok, SetInv
<1>3. SetInv(t)  BY <1>1, <1>2 DEF Ok, SetInv, SameIndex
<1>4. Received(t)  BY DEF Received
<1> QED  BY <1>1, <1>3, <1>4, Frames DEF Ok, Differs

(* What comes of a frame before the policy is asked.                         *)
Indexed(s, frame) ==
  [s EXCEPT !.indexPaused = FALSE, !.pendingIndex = NoSet,
            !.current = integrateIndexFrame(frame),
            !.optimal = calculateOptimalReceiveSet(integrateIndexFrame(frame), s.chosen),
            !.raced = s.raced \/ Negotiating(s)]
AskedOfFrame(s, frame) ==
  [Indexed(s, frame) EXCEPT !.subscribed = Indexed(s, frame).optimal,
                            !.receive = truncate(Indexed(s, frame).optimal)]
RacedByFrame(s, frame) ==
  [Indexed(s, frame) EXCEPT !.raced = Indexed(s, frame).raced \/ ~Noticed(Indexed(s, frame))]

(* Whatever waited, this frame is the last one then. *)
LEMMA FrameOk ==
  ASSUME NEW s, NEW f, Ok(s, f), NEW frame \in SUBSET Streams,
         NEW t, t \in {Indexed(s, frame), AskedOfFrame(s, frame), RacedByFrame(s, frame)}
  PROVE  /\ Ok(t, frame) /\ SameFlow(s, t) /\ t.retrying = s.retrying
         /\ ~t.indexPaused /\ t.pendingIndex = NoSet /\ t.pendingReport = s.pendingReport
<1> DEFINE u == Indexed(s, frame)
           index == integrateIndexFrame(frame)
           optimal1 == calculateOptimalReceiveSet(index, s.chosen)
<1>1. /\ Differs(s, u, {"indexPaused", "pendingIndex", "current", "optimal", "raced"})
      /\ u.indexPaused = FALSE /\ u.pendingIndex = NoSet /\ u.current = index
      /\ u.optimal = optimal1 /\ u.raced = (s.raced \/ Negotiating(s))
  BY DEF Indexed, Ok, Differs, IsState, Fields
<1>2. index \in SUBSET Streams /\ optimal1 \subseteq Streams
  <2>1. index \in SUBSET Streams  BY ChosenFrom
  <2> HIDE DEF index
  <2> QED  BY <2>1, ChosenFrom
<1>3. Latest(u, frame)  BY <1>1 DEF Latest
<1> DEFINE v == AskedOfFrame(s, frame)
           w == RacedByFrame(s, frame)
<1>4. /\ v = [u EXCEPT !.subscribed = u.optimal, !.receive = truncate(u.optimal)]
      /\ w = [u EXCEPT !.raced = u.raced \/ ~Noticed(u)]
  BY DEF AskedOfFrame, RacedByFrame
<1> HIDE DEF u, v, w, index, optimal1
<1>5. /\ SameMap(s, u) /\ SameReceived(s, u) /\ SameFlow(s, u) /\ u.retrying = s.retrying
      /\ u.forSubscribe = s.forSubscribe /\ u.attached = s.attached /\ u.chosen = s.chosen
      /\ u.last = s.last /\ u.pendingReport = s.pendingReport
  BY <1>1 DEF Differs, Fields, SameMap, SameReceived, SameFlow, SameBeside
<1>6. SetInv(u)  BY <1>1, <1>2, <1>5 DEF Ok, SetInv, SameReceived
<1>7. Ok(u, frame)  BY <1>1, <1>3, <1>5, <1>6, Frames DEF Ok, Differs
<1>8. CASE t = u  BY <1>1, <1>5, <1>7, <1>8
<1>9. CASE t = v
  <2>1. /\ Differs(u, t, {"subscribed", "receive", "raced"}) /\ t.subscribed = u.optimal
        /\ t.receive = truncate(u.optimal) /\ t.raced = u.raced
    BY <1>4, <1>7, <1>9 DEF Ok, Differs, IsState, Fields
  <2>2. /\ Ok(t, frame) /\ SameFlow(u, t) /\ SameIndex(u, t) /\ t.retrying = u.retrying
        /\ SamePending(u, t)
    BY <1>7, <2>1, AskOk
  <2> QED  BY <1>1, <1>5, <2>2 DEF SameFlow, SameBeside, SameIndex, SamePending
<1>10. CASE t = w
  <2>1. Differs(u, t, {"raced"}) /\ t.raced = (u.raced \/ ~Noticed(u))
    BY <1>4, <1>7, <1>10 DEF Ok, Differs, IsState, Fields
  <2>2. /\ SameSets(u, t) /\ SameMap(u, t) /\ SameFlow(u, t) /\ SameIndex(u, t)
        /\ SameReceived(u, t) /\ t.retrying = u.retrying
        /\ t.pendingReport = u.pendingReport
    BY <2>1 DEF Differs, Fields, SameSets, SameMap, SameFlow, SameBeside, SameIndex, SameReceived
  <2>3. Ok(t, frame)  BY <1>7, <2>1, <2>2, Frames DEF Ok, Differs
  <2> QED  BY <1>1, <1>5, <2>2, <2>3 DEF SameFlow, SameBeside, SameIndex
<1> QED  BY <1>8, <1>9, <1>10 DEF u, v, w

(* What comes of a report. *)
Reported(s) == [s EXCEPT !.monitorPaused = FALSE, !.pendingReport = FALSE]
AskedOfReport(s) ==
  [Reported(s) EXCEPT !.subscribed = Reported(s).optimal, !.receive = Reported(s).optimal,
                      !.raced = Reported(s).raced \/ Negotiating(s)]

(* It leaves the frames as they are, and does not wait any more. *)
LEMMA ReportOk ==
  ASSUME NEW s, NEW f, Ok(s, f), NEW t, t \in {Reported(s), AskedOfReport(s)}
  PROVE  /\ Ok(t, f) /\ SameFlow(s, t) /\ SameIndex(s, t) /\ t.retrying = s.retrying
         /\ ~t.pendingReport
<1> DEFINE u == Reported(s)
           v == AskedOfReport(s)
<1>1. Differs(s, u, {"monitorPaused", "pendingReport"}) /\ u.pendingReport = FALSE
  BY DEF Reported, Ok, Differs, IsState, Fields
<1>2. v = [u EXCEPT !.subscribed = u.optimal, !.receive = u.optimal,
                    !.raced = u.raced \/ Negotiating(s)]
  BY DEF AskedOfReport
<1> HIDE DEF u, v
<1>3. /\ SameSets(s, u) /\ SameMap(s, u) /\ SameFlow(s, u) /\ SameIndex(s, u)
      /\ SameReceived(s, u) /\ u.retrying = s.retrying
  BY <1>1 DEF Differs, Fields, SameSets, SameMap, SameFlow, SameBeside, SameIndex, SameReceived
<1>4. Ok(u, f)  BY <1>1, <1>3, Frames DEF Ok, Differs
<1>5. CASE t = u  BY <1>1, <1>3, <1>4, <1>5
<1>6. CASE t = v
  <2>1. /\ Differs(u, t, {"subscribed", "receive", "raced"}) /\ t.subscribed = u.optimal
        /\ t.receive = u.optimal /\ t.raced = (u.raced \/ Negotiating(s))
    BY <1>2, <1>4, <1>6 DEF Ok, Differs, IsState, Fields
  <2>2. /\ Ok(t, f) /\ SameFlow(u, t) /\ SameIndex(u, t) /\ t.retrying = u.retrying
        /\ SamePending(u, t)
    BY <1>4, <2>1, AskOk
  <2> QED  BY <1>1, <1>3, <2>2 DEF SameFlow, SameBeside, SameIndex, SamePending
<1> QED  BY <1>5, <1>6 DEF u, v

(* What does not change the session is kept when it pauses nothing.           *)
LEMMA SameIsKept ==
  ASSUME NEW s, NEW t, SameFlow(s, t), t.retrying = s.retrying,
         SameIndex(s, t) \/ ~t.indexPaused
  PROVE  Kept(s, t)
BY DEF SameFlow, SameBeside, SameIndex, Kept

(* The monitor is resumed, and the report that waited is looked at when there   *)
(* is one.                                                                   *)
LEMMA MonitorOk ==
  ASSUME NEW s, NEW f, Ok(s, f), NEW t, t = [s EXCEPT !.monitorPaused = FALSE]
  PROVE  Ok(t, f) /\ Kept(s, t) /\ SamePending(s, t)
<1>1. Differs(s, t, {"monitorPaused"})  BY DEF Ok, Differs, IsState, Fields
<1>2. /\ SameSets(s, t) /\ SameMap(s, t) /\ SameFlow(s, t) /\ SameReceived(s, t)
      /\ t.retrying = s.retrying /\ SameIndex(s, t) /\ SamePending(s, t)
  BY <1>1
     DEF Differs, Fields, SameSets, SameMap, SameFlow, SameBeside, SameReceived, SameIndex, SamePending
<1> QED  BY <1>1, <1>2, Frames, SameIsKept DEF Ok, Differs

(* Frames are taken in again when none waits. *)
LEMMA ResumeOk ==
  ASSUME NEW s, NEW f \in SUBSET Streams, Ok(s, f),
         ~(s.indexPaused /\ s.pendingIndex # NoSet),
         NEW t, t = [s EXCEPT !.indexPaused = FALSE]
  PROVE  Ok(t, f) /\ Kept(s, t) /\ ~t.indexPaused /\ SamePending(s, t)
<1>1. Differs(s, t, {"indexPaused"}) /\ t.indexPaused = FALSE
  BY DEF Ok, Differs, IsState, Fields
<1>2. /\ SameSets(s, t) /\ SameMap(s, t) /\ SameFlow(s, t) /\ SameReceived(s, t)
      /\ t.retrying = s.retrying /\ SamePending(s, t) /\ t.current = s.current
  BY <1>1 DEF Differs, Fields, SameSets, SameMap, SameFlow, SameBeside, SameReceived, SamePending
<1>3. Latest(t, f)
  <2>1. s.pendingIndex = NoSet /\ s.current = integrateIndexFrame(f)
    BY NoSetIs DEF Ok, Latest
  <2> QED  BY <1>1, <1>2, <2>1 DEF Latest, SamePending
<1>4. Ok(t, f)  BY <1>1, <1>2, <1>3, Frames DEF Ok, Differs
<1> QED  BY <1>1, <1>2, <1>4, SameIsKept

(* The frame that waits is the last one. *)
LEMMA WaitingIs ==
  ASSUME NEW s, NEW f \in SUBSET Streams, Ok(s, f), s.indexPaused, s.pendingIndex # NoSet
  PROVE  s.pendingIndex = f
BY DEF Ok, Latest

-----------------------------------------------------------------------------
(* What is resumed, and what that resumes again.                             *)

(* An update that was wanted: in place, or by a negotiation. *)
LEMMA UpdateInPlaceOk ==
  ASSUME NEW s, NEW f, Ok(s, f), NEW r, r = updateInPlace(s)
  PROVE  /\ Ok(r.state, f) /\ Kept(s, r.state)
         /\ SamePending(s, r.state)
         /\ ~r.done => r.state.session # "connected"
<1> DEFINE u == Tried(s)
           p == perform(u, "update")
<1>1. r = [done |-> Done(s), state |-> IF Done(s) THEN u ELSE p]
  <2> DEFINE tried(q) ==
        [done |-> q.done, state |-> IF q.done THEN [q.state EXCEPT !.last = s.receive]
                                   ELSE perform([q.state EXCEPT !.last = s.receive], "update")]
             q == updateRemoteVideosFromLastVideosToReceive(s)
             U == {tried(v) : v \in {q}}
  <2>1. r = CHOOSE v \in U : TRUE  BY DEF updateInPlace
  <2>2. U = {tried(q)}  OBVIOUS
  <2>3. tried(q) = [done |-> Done(s), state |-> IF Done(s) THEN u ELSE p]
    BY DEF Tried, Done
  <2> HIDE DEF U, tried, q, u, p
  <2> QED  BY <2>1, <2>2, <2>3
<1>2. /\ Ok(u, f) /\ SameFlow(s, u) /\ SameIndex(s, u)
      /\ u.retrying = s.retrying /\ SamePending(s, u)
  BY TriedOk
<1> HIDE DEF u
<1>3. Kept(s, u)  BY <1>2, SameIsKept
<1>4. Ok(p, f) /\ Kept(u, p) /\ p.session # "connected" /\ SamePending(u, p)
  BY <1>2, PerformOk
<1> HIDE DEF p
<1>5. Kept(s, p)  BY <1>3, <1>4, KeptTwice
<1> QED  BY <1>1, <1>2, <1>3, <1>4, <1>5 DEF SamePending

(* A frame that is handled does not wait. *)
LEMMA IngestOk ==
  ASSUME NEW s, NEW f, Ok(s, f), NEW frame \in SUBSET Streams,
         NEW r, r = ingest(s, frame)
  PROVE  /\ Ok(r.state, frame) /\ Kept(s, r.state)
         /\ r.state.pendingIndex = NoSet /\ r.state.pendingReport = s.pendingReport
         /\ ~r.done /\ r.state.session = "connected" => ~r.state.indexPaused
<1> DEFINE t == Indexed(s, frame)
           q == AskedOfFrame(s, frame)
           w == RacedByFrame(s, frame)
<1>1. r = IF wantsResubscribe(t) THEN updateInPlace(q) ELSE [done |-> FALSE, state |-> w]
  BY DEF ingest, NoUpdate, Indexed, AskedOfFrame, RacedByFrame
<1>2. /\ Ok(q, frame) /\ SameFlow(s, q) /\ q.retrying = s.retrying
      /\ ~q.indexPaused /\ q.pendingIndex = NoSet /\ q.pendingReport = s.pendingReport
      /\ Ok(w, frame) /\ SameFlow(s, w) /\ w.retrying = s.retrying
      /\ ~w.indexPaused /\ w.pendingIndex = NoSet /\ w.pendingReport = s.pendingReport
  BY FrameOk
<1> HIDE DEF t, q, w
<1>3. Kept(s, w) /\ Kept(s, q)  BY <1>2, SameIsKept
<1>4. CASE r = updateInPlace(q)
  <2>1. /\ Ok(r.state, frame) /\ Kept(q, r.state) /\ SamePending(q, r.state)
        /\ ~r.done => r.state.session # "connected"
    BY <1>2, <1>4, UpdateInPlaceOk
  <2> QED  BY <1>2, <1>3, <2>1, KeptTwice DEF SamePending
<1>5. CASE r = [done |-> FALSE, state |-> w]  BY <1>2, <1>3, <1>5
<1> QED  BY <1>1, <1>4, <1>5

(* Nor does a report that is looked at. *)
LEMMA ResubscribeOk ==
  ASSUME NEW s, NEW f, Ok(s, f), NEW r, r = resubscribe(s)
  PROVE  /\ Ok(r.state, f) /\ Kept(s, r.state)
         /\ r.state.pendingIndex = s.pendingIndex /\ ~r.state.pendingReport
<1> DEFINE t == Reported(s)
           q == AskedOfReport(s)
<1>1. r = IF wantsResubscribe(t) THEN updateInPlace(q) ELSE [done |-> FALSE, state |-> t]
  BY DEF resubscribe, NoUpdate, Reported, AskedOfReport
<1>2. /\ Ok(t, f) /\ SameFlow(s, t) /\ SameIndex(s, t) /\ t.retrying = s.retrying
      /\ Ok(q, f) /\ SameFlow(s, q) /\ SameIndex(s, q) /\ q.retrying = s.retrying
      /\ ~t.pendingReport /\ ~q.pendingReport
  BY ReportOk
<1> HIDE DEF t, q
<1>3. Kept(s, t) /\ Kept(s, q)  BY <1>2, SameIsKept
<1>4. CASE r = updateInPlace(q)
  <2>1. Ok(r.state, f) /\ Kept(q, r.state) /\ SamePending(q, r.state)
    BY <1>2, <1>4, UpdateInPlaceOk
  <2> QED  BY <1>2, <1>3, <2>1, KeptTwice DEF SameIndex, SamePending
<1>5. CASE r = [done |-> FALSE, state |-> t]  BY <1>2, <1>3, <1>5 DEF SameIndex
<1> QED  BY <1>1, <1>4, <1>5

(* The frame that waited is the last one. *)
LEMMA ResumeIngestionOk ==
  ASSUME NEW s, NEW f \in SUBSET Streams, Ok(s, f), NEW r, r = resumeIngestion(s)
  PROVE  /\ Ok(r.state, f) /\ Kept(s, r.state)
         /\ r.state.pendingIndex \in {s.pendingIndex, NoSet}
         /\ r.state.pendingReport = s.pendingReport
         /\ r.done => s.pendingIndex # NoSet /\ r.state.pendingIndex = NoSet
         /\ ~r.done /\ r.state.session = "connected" => ~r.state.indexPaused
<1>1. CASE s.indexPaused /\ s.pendingIndex # NoSet
  <2>1. r = ingest(s, s.pendingIndex)  BY <1>1 DEF resumeIngestion
  <2>2. s.pendingIndex = f  BY <1>1, WaitingIs
  <2> QED  BY <1>1, <2>1, <2>2, IngestOk
<1>2. CASE ~(s.indexPaused /\ s.pendingIndex # NoSet)
  <2> DEFINE t == [s EXCEPT !.indexPaused = FALSE]
  <2>1. r = [done |-> FALSE, state |-> t]  BY <1>2 DEF resumeIngestion, NoUpdate
  <2>2. Ok(t, f) /\ Kept(s, t) /\ ~t.indexPaused /\ SamePending(s, t)  BY <1>2, ResumeOk
  <2> HIDE DEF t
  <2> QED  BY <2>1, <2>2 DEF SamePending
<1> QED  BY <1>1, <1>2

(* The report that waited, if one did. *)
LEMMA ResumeCheckOk ==
  ASSUME NEW s, NEW f, Ok(s, f), NEW r, r = resumeResubscribeCheck(s)
  PROVE  /\ Ok(r.state, f) /\ Kept(s, r.state)
         /\ r.state.pendingIndex = s.pendingIndex
         /\ r.state.pendingReport => s.pendingReport
         /\ r.done => s.pendingReport /\ ~r.state.pendingReport
<1>1. CASE s.monitorPaused /\ s.pendingReport
  <2>1. r = resubscribe(s)  BY <1>1 DEF resumeResubscribeCheck
  <2> QED  BY <1>1, <2>1, ResubscribeOk
<1>2. CASE ~(s.monitorPaused /\ s.pendingReport)
  <2> DEFINE t == [s EXCEPT !.monitorPaused = FALSE]
  <2>1. r = [done |-> FALSE, state |-> t]  BY <1>2 DEF resumeResubscribeCheck, NoUpdate
  <2>2. Ok(t, f) /\ Kept(s, t) /\ SamePending(s, t)  BY MonitorOk
  <2> HIDE DEF t
  <2> QED  BY <2>1, <2>2 DEF SamePending
<1> QED  BY <1>1, <1>2

(* An operation has ended well, and the frames are taken in unless the session *)
(* was begun anew.                                                           *)
Ends(s, t, f) == Ok(t, f) /\ Kept(s, t) /\ (t.session = "connected" => ~t.indexPaused)

(* The resumptions to come are frames and reports. *)
Calls == {"check", "ingestion"}
Comes(r) == \E i \in DOMAIN r.calls : r.calls[i] = "ingestion"

(* How many there can still be: a frame or a report that waits is taken up once, *)
(* and then two more come.                                                   *)
Left(r) ==
  Len(r.calls) + (IF r.state.pendingIndex = NoSet THEN 0 ELSE 2)
               + (IF r.state.pendingReport THEN 2 ELSE 0)

(* What holds while n of them have been made, since the state s. *)
Resuming(s, f, r, n) ==
  /\ r.calls \in Seq(Calls)
  /\ Ok(r.state, f) /\ Kept(s, r.state)
  /\ r.state.session = "connected" /\ r.state.indexPaused => Comes(r)
  /\ r.calls = <<>> \/ Left(r) <= 6 - n

(* A resumption keeps it, and there is one less to come. *)
LEMMA ResumeNextOk ==
  ASSUME NEW s, NEW f \in SUBSET Streams, NEW n \in 0..5, NEW r, Resuming(s, f, r, n)
  PROVE  Resuming(s, f, resumeNext(r), n + 1)
<1> DEFINE t == resumeNext(r)
<1>1. CASE r.calls = <<>>
  BY <1>1 DEF Resuming, resumeNext
<1>2. CASE r.calls # <<>>
  <2> DEFINE check == Head(r.calls) = "check"
             q == IF check THEN resumeResubscribeCheck(r.state) ELSE resumeIngestion(r.state)
             u == q.state
             old == IF r.state.pendingIndex = NoSet THEN 0 ELSE 2
             old1 == IF r.state.pendingReport THEN 2 ELSE 0
             new == IF u.pendingIndex = NoSet THEN 0 ELSE 2
             new1 == IF u.pendingReport THEN 2 ELSE 0
  <2>1. /\ t.state = u
        /\ t.calls = IF q.done THEN <<"check", "ingestion">> \o Tail(r.calls) ELSE Tail(r.calls)
    BY <1>2 DEF resumeNext
  <2>2. /\ r.calls \in Seq(Calls) /\ Ok(r.state, f) /\ Kept(s, r.state)
        /\ r.state.session = "connected" /\ r.state.indexPaused => Comes(r)
        /\ Len(r.calls) + old + old1 <= 6 - n
    BY <1>2 DEF Resuming, Left
  <2> HIDE DEF t
  <2>3. /\ Ok(u, f) /\ Kept(r.state, u)
        /\ u.pendingIndex # NoSet => r.state.pendingIndex # NoSet
        /\ u.pendingReport => r.state.pendingReport
        /\ q.done => \/ check /\ r.state.pendingReport /\ ~u.pendingReport
                     \/ ~check /\ r.state.pendingIndex # NoSet /\ u.pendingIndex = NoSet
        /\ ~check /\ ~q.done /\ u.session = "connected" => ~u.indexPaused
    <3>1. CASE check  BY <2>2, <3>1, ResumeCheckOk
    <3>2. CASE ~check  BY <2>2, <3>2, ResumeIngestionOk
    <3> QED  BY <3>1, <3>2
  <2>4. /\ Len(r.calls) \in Nat /\ Len(r.calls) > 0 /\ Tail(r.calls) \in Seq(Calls)
        /\ Len(Tail(r.calls)) = Len(r.calls) - 1 /\ r.calls[1] = Head(r.calls)
        /\ \A i \in 1..Len(Tail(r.calls)) : Tail(r.calls)[i] = r.calls[i + 1]
    BY <1>2, <2>2
  <2>5. /\ t.calls \in Seq(Calls)
        /\ Len(t.calls) = Len(r.calls) + (IF q.done THEN 1 ELSE -1)
    <3> DEFINE rest == Tail(r.calls)
    <3> HIDE DEF rest
    <3>1. rest \in Seq(Calls) /\ Len(rest) = Len(r.calls) - 1  BY <2>4 DEF rest
    <3>2. <<"check", "ingestion">> \in Seq(Calls)  BY DEF Calls
    <3>3. /\ <<"check", "ingestion">> \o rest \in Seq(Calls)
          /\ Len(<<"check", "ingestion">> \o rest) = 2 + Len(rest)
      BY <3>1, <3>2
    <3> DEFINE d == q.done
    <3>4. /\ t.calls = IF d THEN <<"check", "ingestion">> \o rest ELSE rest
          /\ Len(r.calls) \in Nat
      BY <2>1, <2>4 DEF rest
    <3> HIDE DEF d, q
    <3>5. CASE d  BY <3>1, <3>3, <3>4, <3>5 DEF d
    <3>6. CASE ~d  BY <3>1, <3>4, <3>6 DEF d
    <3> QED  BY <3>5, <3>6
  <2>6. Kept(s, u)  BY <2>2, <2>3, KeptTwice
  <2>7. ASSUME u.session = "connected", u.indexPaused PROVE Comes(t)
    <3>1. CASE q.done
      <4>1. 2 \in DOMAIN t.calls /\ t.calls[2] = "ingestion"  BY <2>1, <2>4, <3>1
      <4> QED  BY <4>1 DEF Comes
    <3>2. CASE ~q.done
      <4>1. check /\ r.state.session = "connected" /\ r.state.indexPaused
        BY <2>3, <2>7, <3>2 DEF Kept
      <4>2. PICK i \in DOMAIN r.calls : r.calls[i] = "ingestion"
        BY <2>2, <4>1 DEF Comes
      <4>3. i # 1  BY <2>4, <4>1, <4>2
      <4>4. i \in 1..Len(r.calls)  BY <2>2, <4>2
      <4>5. i - 1 \in 1..Len(Tail(r.calls)) /\ (i - 1) + 1 = i  BY <2>4, <4>3, <4>4
      <4>6. Tail(r.calls)[i - 1] = "ingestion"  BY <2>4, <4>2, <4>5
      <4>7. i - 1 \in DOMAIN Tail(r.calls)  BY <2>4, <4>5
      <4> QED  BY <2>1, <3>2, <4>6, <4>7 DEF Comes
    <3> QED  BY <3>1, <3>2
  <2>8. Left(t) <= 6 - (n + 1)
    <3> DEFINE l == Len(r.calls)
    <3>1. Left(t) = Len(t.calls) + new + new1 /\ l \in Nat  BY <2>1, <2>4 DEF Left
    <3>3. l + old + old1 <= 6 - n  BY <2>2
    <3>4. Len(t.calls) = l + (IF q.done THEN 1 ELSE -1)  BY <2>5
    <3>2. /\ old \in {0, 2} /\ old1 \in {0, 2} /\ new \in {0, 2} /\ new1 \in {0, 2}
          /\ new <= old /\ new1 <= old1
          /\ q.done => new + new1 <= old + old1 - 2
      BY <2>3
    <3> HIDE DEF old, old1, new, new1, q, u, l
    <3>5. CASE q.done  BY <3>1, <3>2, <3>3, <3>4, <3>5
    <3>6. CASE ~q.done  BY <3>1, <3>2, <3>3, <3>4, <3>6
    <3> QED  BY <3>5, <3>6
  <2> QED  BY <2>1, <2>3, <2>5, <2>6, <2>7, <2>8 DEF Resuming, t
<1> QED  BY <1>1, <1>2

(* What the first n resumptions come to. *)
After(g, s, calls, n) ==
  g = [k \in 0..n |-> IF k = 0 THEN [state |-> s, calls |-> calls] ELSE resumeNext(g[k - 1])]

(* They can be made one by one. *)
LEMMA AfterNext ==
  ASSUME NEW s, NEW calls, NEW n \in Nat, NEW g, After(g, s, calls, n)
  PROVE  \E h : After(h, s, calls, n + 1)
<1> DEFINE h == [k \in 0..(n + 1) |-> IF k = n + 1 THEN resumeNext(g[n]) ELSE g[k]]
<1>1. ASSUME NEW k \in 0..(n + 1)
      PROVE  h[k] = IF k = 0 THEN [state |-> s, calls |-> calls] ELSE resumeNext(h[k - 1])
  <2>1. CASE k = n + 1
    <3>1. n \in 0..(n + 1) /\ n # n + 1 /\ k - 1 = n /\ k # 0  BY <2>1
    <3> QED  BY <2>1, <3>1
  <2>2. CASE k # n + 1
    <3>1. k \in 0..n  BY <2>2
    <3>2. h[k] = g[k]  BY <2>2
    <3>3. CASE k = 0  BY <3>1, <3>2, <3>3 DEF After
    <3>4. CASE k # 0
      <4>1. k - 1 \in 0..(n + 1) /\ k - 1 # n + 1  BY <3>1, <3>4
      <4>2. h[k - 1] = g[k - 1]  BY <4>1
      <4>3. g[k] = resumeNext(g[k - 1])  BY <3>1, <3>4 DEF After
      <4> QED  BY <3>2, <3>4, <4>2, <4>3
    <3> QED  BY <3>3, <3>4
  <2> QED  BY <2>1, <2>2
<1>2. h = [k \in 0..(n + 1) |-> h[k]]  OBVIOUS
<1> HIDE DEF h
<1> QED  BY <1>1, <1>2 DEF After

(* Resuming both, in either order, is over after six. *)
LEMMA ResumeAll ==
  ASSUME NEW s, NEW f \in SUBSET Streams, Ok(s, f),
         NEW calls, calls \in {<<"check", "ingestion">>, <<"ingestion", "check">>},
         NEW t, t = resume(s, calls)
  PROVE  Ends(s, t, f)
<1>1. \E g : After(g, s, calls, 6)
  <2>0. After([k \in 0..0 |-> [state |-> s, calls |-> calls]], s, calls, 0)  BY DEF After
  <2>1. \E g : After(g, s, calls, 1)  BY <2>0, AfterNext
  <2>2. \E g : After(g, s, calls, 2)  BY <2>1, AfterNext
  <2>3. \E g : After(g, s, calls, 3)  BY <2>2, AfterNext
  <2>4. \E g : After(g, s, calls, 4)  BY <2>3, AfterNext
  <2>5. \E g : After(g, s, calls, 5)  BY <2>4, AfterNext
  <2> QED  BY <2>5, AfterNext
<1> DEFINE g == CHOOSE g : g = [k \in 0..6 |-> IF k = 0 THEN [state |-> s, calls |-> calls]
                                               ELSE resumeNext(g[k - 1])]
<1>2. After(g, s, calls, 6)
  <2>1. PICK h : After(h, s, calls, 6)  BY <1>1
  <2> QED  BY <2>1 DEF After
<1>3. t = g[6].state  BY DEF resume
<1> HIDE DEF g
<1>4. g[0] = [state |-> s, calls |-> calls]  BY <1>2 DEF After
<1>5. \A n \in 0..5 : g[n + 1] = resumeNext(g[n])
  <2> TAKE n \in 0..5
  <2>1. n + 1 \in 0..6 /\ n + 1 # 0 /\ (n + 1) - 1 = n  OBVIOUS
  <2> QED  BY <1>2, <2>1 DEF After
<1>6. Resuming(s, f, g[0], 0)
  <2>1. calls \in Seq(Calls) /\ Len(calls) = 2
    <3>1. CASE calls = <<"check", "ingestion">>  BY <3>1 DEF Calls
    <3>2. CASE calls = <<"ingestion", "check">>  BY <3>2 DEF Calls
    <3> QED  BY <3>1, <3>2
  <2>2. Comes(g[0])
    <3>1. CASE calls = <<"check", "ingestion">>
      <4>1. 2 \in DOMAIN calls /\ calls[2] = "ingestion"  BY <3>1
      <4> QED  BY <1>4, <4>1 DEF Comes
    <3>2. CASE calls = <<"ingestion", "check">>
      <4>1. 1 \in DOMAIN calls /\ calls[1] = "ingestion"  BY <3>2
      <4> QED  BY <1>4, <4>1 DEF Comes
    <3> QED  BY <3>1, <3>2
  <2>3. Left(g[0]) <= 6 - 0
    <3>1. Len(g[0].calls) = 2  BY <1>4, <2>1
    <3> QED  BY <3>1 DEF Left
  <2>4. Kept(s, s)  BY DEF Kept
  <2> QED  BY <1>4, <2>1, <2>2, <2>3, <2>4 DEF Resuming
<1>7. Resuming(s, f, g[1], 1)  BY <1>5, <1>6, ResumeNextOk
<1>8. Resuming(s, f, g[2], 2)  BY <1>5, <1>7, ResumeNextOk
<1>9. Resuming(s, f, g[3], 3)  BY <1>5, <1>8, ResumeNextOk
<1>10. Resuming(s, f, g[4], 4)  BY <1>5, <1>9, ResumeNextOk
<1>11. Resuming(s, f, g[5], 5)  BY <1>5, <1>10, ResumeNextOk
<1>12. Resuming(s, f, g[6], 6)  BY <1>5, <1>11, ResumeNextOk
<1>13. g[6].calls = <<>>
  <2> DEFINE l == Len(g[6].calls)
             a == IF g[6].state.pendingIndex = NoSet THEN 0 ELSE 2
             b == IF g[6].state.pendingReport THEN 2 ELSE 0
  <2>1. g[6].calls \in Seq(Calls) /\ (g[6].calls = <<>> \/ l + a + b <= 6 - 6)
    BY <1>12 DEF Resuming, Left
  <2>2. a >= 0 /\ b >= 0 /\ a \in Int /\ b \in Int  OBVIOUS
  <2> HIDE DEF a, b
  <2> QED  BY <2>1, <2>2
<1>14. ~Comes(g[6])  BY <1>13 DEF Comes
<1> QED  BY <1>3, <1>12, <1>14 DEF Resuming, Ends

(* A negotiation that ends resumes frames and reports. *)
LEMMA FinishUpdatingOk ==
  ASSUME NEW s, NEW f \in SUBSET Streams, Ok(s, f), NEW t, t = actionFinishUpdating(s)
  PROVE  Ends(s, t, f)
BY ResumeAll DEF actionFinishUpdating

(* So does a connection that is made. *)
LEMMA FinishConnectingOk ==
  ASSUME NEW s, NEW f \in SUBSET Streams, Ok(s, f), NEW t, t = actionFinishConnecting(s)
  PROVE  Ends(s, t, f)
BY ResumeAll DEF actionFinishConnecting

(* An update done in place is finished as well, and another is under way. *)
LEMMA FinishedOk ==
  ASSUME NEW r, NEW f \in SUBSET Streams, Ok(r.state, f), NEW t, t = finish(r)
  PROVE  IF r.done THEN Ends(r.state, t, f) ELSE t = r.state
<1>1. CASE r.done  BY <1>1, FinishUpdatingOk DEF finish
<1>2. CASE ~r.done  BY <1>2 DEF finish
<1> QED  BY <1>1, <1>2

(* A frame that comes at any time. *)
LEMMA IngestAll ==
  ASSUME NEW s, NEW f, Ok(s, f), NEW frame \in SUBSET Streams,
         NEW t, t = finish(ingest(s, frame))
  PROVE  Ends(s, t, frame)
<1> DEFINE r == ingest(s, frame)
<1>1. /\ Ok(r.state, frame) /\ Kept(s, r.state)
      /\ ~r.done /\ r.state.session = "connected" => ~r.state.indexPaused
  BY IngestOk
<1> HIDE DEF r
<1>2. IF r.done THEN Ends(r.state, t, frame) ELSE t = r.state
  BY <1>1, FinishedOk DEF r
<1> QED  BY <1>1, <1>2, KeptTwice DEF Ends

(* A report that comes at any time. *)
LEMMA ResubscribeAll ==
  ASSUME NEW s, NEW f \in SUBSET Streams, Ok(s, f), NEW t, t = finish(resubscribe(s))
  PROVE  Ok(t, f) /\ Kept(s, t)
<1> DEFINE r == resubscribe(s)
<1>1. Ok(r.state, f) /\ Kept(s, r.state)  BY ResubscribeOk
<1> HIDE DEF r
<1>2. IF r.done THEN Ends(r.state, t, f) ELSE t = r.state  BY <1>1, FinishedOk DEF r
<1> QED  BY <1>1, <1>2, KeptTwice DEF Ends

-----------------------------------------------------------------------------
(* The steps of a negotiation, and what ends it.                             *)

(* What the state becomes has the invariant. *)
LEMMA BecomesInv ==
  ASSUME NEW t, NEW f, f \subseteq Streams, Inv(t, f), Becomes(t), lastFrame' = f
  PROVE  VideoInv'
<1>1. Now' = t  BY BecomesIs DEF Inv, Ok
<1>2. Inv(Now', lastFrame')  BY <1>1
<1> HIDE DEF Now
<1>3. Inv(Now, lastFrame)' <=> Inv(Now', lastFrame')
  BY DEF Inv, Ok, IsState, Fields, SetInv, Attendees, MapInv, Transceivers, Flow, Negotiations, Latest,
         integrateIndexFrame, Received, Noticed, truncate, Rests
<1>4. (lastFrame \subseteq Streams)'  OBVIOUS
<1> QED  BY <1>2, <1>3, <1>4 DEF VideoInv

(* A step of a negotiation that leaves sets, transceivers and tiles alone.     *)
LEMMA StepOk ==
  ASSUME NEW s, NEW f, Ok(s, f), NEW t,
         Differs(s, t, {"step", "restarting", "others", "retrying", "server", "answer", "track", "raced",
                        "misaligned", "pendingReport", "monitorPaused"}),
         Flow(t)
  PROVE  Ok(t, f)
<1>1. SameSets(s, t) /\ SameMap(s, t) /\ SameIndex(s, t) /\ SameReceived(s, t)
  BY DEF Differs, Fields, SameSets, SameMap, SameIndex, SameReceived
<1> QED  BY <1>1, Frames DEF Ok, Differs

(* What a task of a negotiation may change. *)
ByTask == {"step", "trans", "map", "attached", "raced", "forSubscribe", "server", "answer",
           "misaligned", "track"}
Recorded(s, t) == (s.raced => t.raced) /\ (s.misaligned => t.misaligned)

(* The transceivers are chosen. *)
LEMMA AttachIs ==
  ASSUME NEW s, IsState(s), SetInv(s), MapInv(s), NEW t, t = AttachMediaInput(s)
  PROVE  /\ Differs(s, t, ByTask) /\ SetInv(t) /\ MapInv(t) /\ Recorded(s, t)
         /\ t.step = "describe"
<1> DEFINE u == updateVideoTransceivers(s)
<1>1. t = [u EXCEPT !.step = "describe"]  BY DEF AttachMediaInput
<1>2. s.raced => u.raced  BY DEF updateVideoTransceivers, IsState, Fields
<1>3. /\ Differs(s, u, {"trans", "map", "attached", "raced"}) /\ MapInv(u)
      /\ u.attached = s.receive
  BY TransceiversAre
<1> HIDE DEF u
<1>4. Differs(u, t, {"step"}) /\ t.step = "describe"
  BY <1>1, <1>3 DEF Differs, IsState, Fields
<1>5. Differs(s, t, ByTask)  BY <1>3, <1>4 DEF Differs, Fields, ByTask
<1>6. /\ SameMap(u, t) /\ t.attached = s.receive /\ t.receive = s.receive
      /\ t.current = s.current /\ t.subscribed = s.subscribed /\ t.pendingIndex = s.pendingIndex
      /\ t.forSubscribe = s.forSubscribe /\ t.optimal = s.optimal /\ t.last = s.last
      /\ t.chosen = s.chosen
  BY <1>3, <1>4 DEF Differs, Fields, SameMap
<1>7. SetInv(t)  BY <1>6 DEF SetInv
<1>8. MapInv(t)  BY <1>3, <1>6, Frames
<1>9. t.raced = u.raced /\ t.misaligned = s.misaligned
  BY <1>3, <1>4 DEF Differs, Fields
<1> QED  BY <1>2, <1>4, <1>5, <1>7, <1>8, <1>9 DEF Recorded

(* They have their mids. *)
LEMMA DescribeIs ==
  ASSUME NEW s, IsState(s), SetInv(s), MapInv(s), NEW t, t = SetLocalDescription(s)
  PROVE  /\ Differs(s, t, ByTask) /\ SetInv(t) /\ MapInv(t) /\ Recorded(s, t)
         /\ t.step = "subscribe" /\ Differs(s, t, {"step", "trans"})
         /\ t.trans = [i \in DOMAIN s.trans |->
                         [s.trans[i] EXCEPT !.mid = s.trans[i].dir # "gone"]]
<1> DEFINE given(i) == [s.trans[i] EXCEPT !.mid = s.trans[i].dir # "gone"]
           trans1 == [i \in DOMAIN s.trans |-> given(i)]
<1>1. t = [s EXCEPT !.step = "subscribe", !.trans = trans1]  BY DEF SetLocalDescription
<1>2. s.trans \in Seq(Transceivers)  BY DEF MapInv
<1>3. trans1 \in Seq(Transceivers) /\ Len(trans1) = Len(s.trans)
  <2>1. DOMAIN s.trans = 1..Len(s.trans) /\ Len(s.trans) \in Nat  BY <1>2
  <2>2. ASSUME NEW i \in DOMAIN s.trans PROVE given(i) \in Transceivers
    <3>1. s.trans[i] \in Transceivers  BY <1>2, <2>1
    <3>2. (s.trans[i].dir # "gone") \in BOOLEAN  OBVIOUS
    <3> QED  BY <3>1, <3>2 DEF Transceivers
  <2> HIDE DEF given
  <2> QED  BY <2>1, <2>2
<1>4. trans1 = [i \in DOMAIN s.trans |-> [s.trans[i] EXCEPT !.mid = s.trans[i].dir # "gone"]]
  OBVIOUS
<1> HIDE DEF trans1
<1>5. Differs(s, t, {"step", "trans"}) /\ t.step = "subscribe" /\ t.trans = trans1
  BY <1>1 DEF Differs, IsState, Fields
<1>6. Differs(s, t, ByTask)  BY <1>5 DEF Differs, Fields, ByTask
<1>7. SameSets(s, t) /\ t.map = s.map /\ t.tiles = s.tiles
  BY <1>5 DEF Differs, Fields, SameSets
<1>8. MapInv(t)
  <2>1. DOMAIN trans1 = DOMAIN s.trans  BY <1>2, <1>3
  <2> QED  BY <1>3, <1>5, <1>7, <2>1 DEF MapInv
<1>9. t.raced = s.raced /\ t.misaligned = s.misaligned  BY <1>5 DEF Differs, Fields
<1> QED  BY <1>4, <1>5, <1>6, <1>7, <1>8, <1>9, Frames DEF Recorded

(* The server is told what is wanted on each. *)
LEMMA SubscribeIs ==
  ASSUME NEW s, IsState(s), SetInv(s), MapInv(s), NEW t, t = Subscribe(s)
  PROVE  /\ Differs(s, t, ByTask) /\ SetInv(t) /\ MapInv(t) /\ Recorded(s, t)
         /\ Differs(s, t, {"step", "forSubscribe", "server", "answer", "misaligned"})
         /\ t.step = "ack" /\ t.forSubscribe = s.current /\ t.answer = t.server
         /\ t.server = Sends(s, fixUpSubscriptionOrder(s))
         /\ t.misaligned = (s.misaligned \/ Len(fixUpSubscriptionOrder(s)) # Len(s.trans))
<1> DEFINE m == s.misaligned \/ Len(fixUpSubscriptionOrder(s)) # Len(s.trans)
           sends == Sends(s, fixUpSubscriptionOrder(s))
<1>1. t = [s EXCEPT !.step = "ack", !.forSubscribe = s.current, !.server = sends,
                    !.answer = sends, !.misaligned = m]
  BY DEF Subscribe
<1>2. s.misaligned => m  OBVIOUS
<1> HIDE DEF m, sends
<1>3. /\ Differs(s, t, {"step", "forSubscribe", "server", "answer", "misaligned"})
      /\ t.step = "ack" /\ t.forSubscribe = s.current /\ t.server = sends /\ t.answer = sends
      /\ t.misaligned = m
  <2>1. Differs(s, t, {"step", "forSubscribe", "server", "answer", "misaligned"})
    BY <1>1 DEF Differs, IsState, Fields
  <2>2. DOMAIN s = Fields  BY DEF IsState
  <2>3. t.step = "ack" /\ t.forSubscribe = s.current  BY <1>1, <2>2 DEF Fields
  <2>4. t.server = sends /\ t.answer = sends  BY <1>1, <2>2 DEF Fields
  <2>5. t.misaligned = m  BY <1>1, <2>2 DEF Fields
  <2> QED  BY <2>1, <2>3, <2>4, <2>5
<1>4. Differs(s, t, ByTask)  BY <1>3 DEF Differs, Fields, ByTask
<1>5. /\ SameMap(s, t) /\ t.receive = s.receive /\ t.raced = s.raced
      /\ t.current = s.current /\ t.subscribed = s.subscribed /\ t.pendingIndex = s.pendingIndex
      /\ t.attached = s.attached /\ t.optimal = s.optimal /\ t.last = s.last
      /\ t.chosen = s.chosen
  BY <1>3 DEF Differs, Fields, SameMap
<1>6. SetInv(t)  BY <1>3, <1>5 DEF SetInv
<1>7. MapInv(t)  BY <1>5, Frames
<1>8. Recorded(s, t)  BY <1>2, <1>3, <1>5 DEF Recorded
<1> QED  BY <1>3, <1>4, <1>6, <1>7, <1>8 DEF m, sends

(* The server has told which tracks there will be. *)
LEMMA AckIs ==
  ASSUME NEW s, IsState(s), SetInv(s), MapInv(s), NEW t, t = ReceiveSubscribeAck(s)
  PROVE  /\ Differs(s, t, ByTask) /\ SetInv(t) /\ MapInv(t) /\ Recorded(s, t)
         /\ t.step = "answer" /\ t.track = s.answer /\ Differs(s, t, {"step", "track"})
<1>1. Differs(s, t, {"step", "track"}) /\ t.step = "answer" /\ t.track = s.answer
  BY DEF ReceiveSubscribeAck, Differs, IsState, Fields
<1>2. Differs(s, t, ByTask)  BY <1>1 DEF Differs, Fields, ByTask
<1>3. SameSets(s, t) /\ SameMap(s, t) /\ t.raced = s.raced /\ t.misaligned = s.misaligned
  BY <1>1 DEF Differs, Fields, SameSets, SameMap
<1> QED  BY <1>1, <1>2, <1>3, Frames DEF Recorded

(* A task is one of these. *)
LEMMA ProceedIs ==
  ASSUME NEW s, IsState(s), SetInv(s), MapInv(s), MayProceed(s), NEW t, t = Proceed(s)
  PROVE  /\ Differs(s, t, ByTask) /\ SetInv(t) /\ MapInv(t) /\ Recorded(s, t)
         /\ t.step \in {"describe", "subscribe", "ack", "answer"}
<1>1. CASE s.step = "attach"
  <2>1. t = AttachMediaInput(s)  BY <1>1 DEF Proceed
  <2> QED  BY <2>1, AttachIs
<1>2. CASE s.step = "describe"
  <2>1. t = SetLocalDescription(s)  BY <1>2 DEF Proceed
  <2> QED  BY <2>1, DescribeIs
<1>3. CASE s.step = "subscribe"
  <2>1. t = Subscribe(s)  BY <1>3 DEF Proceed
  <2> QED  BY <2>1, SubscribeIs
<1>4. CASE s.step = "ack"
  <2>1. t = ReceiveSubscribeAck(s)  BY <1>4 DEF Proceed
  <2> QED  BY <2>1, AckIs
<1> QED  BY <1>1, <1>2, <1>3, <1>4 DEF MayProceed

(* What it leaves as it was. *)
LEMMA ByTaskSame ==
  ASSUME NEW s, NEW t, Differs(s, t, ByTask), Recorded(s, t)
  PROVE  /\ SameIndex(s, t) /\ SameReceived(s, t) /\ SameBeside(s, t)
         /\ t.session = s.session /\ t.deferred = s.deferred /\ t.retrying = s.retrying
         /\ t.tiles = s.tiles /\ t.current = s.current /\ t.optimal = s.optimal
         /\ t.receive = s.receive /\ t.last = s.last
BY DEF Differs, Fields, ByTask, SameIndex, SameReceived, SameBeside, Recorded

(* The negotiation goes on. *)
LEMMA ProceedOk ==
  ASSUME NEW s, NEW f, Ok(s, f), MayProceed(s), NEW t, t = Proceed(s)
  PROVE  Inv(t, f)
<1>1. /\ Differs(s, t, ByTask) /\ SetInv(t) /\ MapInv(t) /\ Recorded(s, t)
      /\ t.step \in {"describe", "subscribe", "ack", "answer"}
  BY ProceedIs DEF Ok
<1>2. /\ SameIndex(s, t) /\ SameReceived(s, t) /\ SameBeside(s, t)
      /\ t.session = s.session /\ t.deferred = s.deferred
  BY <1>1, ByTaskSame
<1>3. s.session # "connected"  BY DEF Ok, Flow, MayProceed
<1>4. Flow(t)  BY <1>1, <1>2, <1>3 DEF Ok, Flow, SameBeside
<1> QED  BY <1>1, <1>2, <1>3, <1>4, Frames DEF Inv, Ok, Rests, Differs

(* The tracks that are received no longer are removed with their tiles, and    *)
(* new tiles are for transceivers that are there.                            *)
LEMMA SetRemoteOk ==
  ASSUME NEW s, NEW f, Ok(s, f), NEW t, t = SetRemote(s)
  PROVE  /\ Ok(t, f) /\ SameFlow(s, t) /\ SameIndex(s, t) /\ t.retrying = s.retrying
         /\ t.restarting = s.restarting
<1> DEFINE added == {i \in DOMAIN s.trans : Receives(s, i) /\ ~s.trans[i].receiving}
           tiles1 == addRemoteVideoTracks(s, added)
           turned(i) == IF s.trans[i].dir = "stopped"
                        THEN [dir |-> "gone", mid |-> FALSE, receiving |-> FALSE]
                        ELSE [s.trans[i] EXCEPT !.receiving = Receives(s, i)]
           trans1 == [i \in DOMAIN s.trans |-> turned(i)]
<1>1. t = [s EXCEPT !.tiles = tiles1, !.trans = trans1]  BY DEF SetRemote
<1>2. s.trans \in Seq(Transceivers)  BY DEF Ok, MapInv
<1>3. DOMAIN s.trans = 1..Len(s.trans) /\ Len(s.trans) \in Nat  BY <1>2
<1>4. trans1 \in Seq(Transceivers) /\ Len(trans1) = Len(s.trans)
  <2>1. ASSUME NEW i \in DOMAIN s.trans PROVE turned(i) \in Transceivers
    <3>1. s.trans[i] \in Transceivers  BY <1>2, <1>3
    <3>2. Receives(s, i) \in BOOLEAN  BY DEF Receives
    <3> QED  BY <3>1, <3>2 DEF Transceivers
  <2> HIDE DEF turned
  <2> QED  BY <1>3, <2>1
<1>5. \A e \in tiles1 : DOMAIN e = {"at", "attendee", "stream"} /\ e.at \in DOMAIN s.trans
  <2>1. \A e \in s.tiles : DOMAIN e = {"at", "attendee", "stream"} /\ e.at \in DOMAIN s.trans
    BY DEF Ok, MapInv
  <2> DEFINE tile(i) == [at |-> i, attendee |-> attendeeIdForTrack(s, i),
                         stream |-> streamIdForTrack(s, i)]
  <2>2. ASSUME NEW e \in tiles1
        PROVE  e \in s.tiles \/ \E i \in added : e = tile(i)
    BY <2>2 DEF addRemoteVideoTracks
  <2>3. ASSUME NEW i \in added
        PROVE  DOMAIN tile(i) = {"at", "attendee", "stream"} /\ tile(i).at \in DOMAIN s.trans
    OBVIOUS
  <2> HIDE DEF tiles1, tile, added
  <2> QED  BY <2>1, <2>2, <2>3
<1> HIDE DEF tiles1, trans1
<1>6. Differs(s, t, {"tiles", "trans"}) /\ t.tiles = tiles1 /\ t.trans = trans1
  BY <1>1 DEF Ok, Differs, IsState, Fields
<1>7. /\ SameSets(s, t) /\ SameIndex(s, t) /\ SameReceived(s, t) /\ SameFlow(s, t)
      /\ t.map = s.map /\ t.retrying = s.retrying /\ t.restarting = s.restarting
  BY <1>6 DEF Differs, Fields, SameSets, SameIndex, SameReceived, SameFlow, SameBeside
<1>8. MapInv(t)
  <2>1. DOMAIN trans1 = DOMAIN s.trans  BY <1>3, <1>4
  <2> QED  BY <1>4, <1>5, <1>6, <1>7, <2>1 DEF Ok, MapInv
<1> QED  BY <1>6, <1>7, <1>8, Frames DEF Ok, Differs

(* What waited is done, and the session rests or goes on. *)
LEMMA FinishOk ==
  ASSUME NEW s, NEW f \in SUBSET Streams, Ok(s, f), NEW t, t = Finish(s)
  PROVE  Inv(t, f)
<1> DEFINE a == IF s.others = <<>> THEN <<>> ELSE s.answer
           d == IF s.others = <<>> THEN {} ELSE s.attached
           u == [s EXCEPT !.session = "connected", !.step = "none", !.answer = a, !.attached = d]
           v == IF s.session = "updating" THEN actionFinishUpdating(u)
                ELSE actionFinishConnecting(u)
<1>1. t = performDeferredAction(v)  BY DEF Finish
<1> HIDE DEF a
<1>2. /\ Differs(s, u, {"session", "step", "answer", "attached"})
      /\ u.session = "connected" /\ u.step = "none" /\ u.attached = d
  BY DEF Ok, Differs, IsState, Fields
<1> HIDE DEF u
<1>3. /\ SameMap(s, u) /\ SameIndex(s, u) /\ SameReceived(s, u) /\ u.deferred = s.deferred
      /\ SameBeside(s, u)
      /\ u.forSubscribe = s.forSubscribe /\ u.optimal = s.optimal /\ u.last = s.last
      /\ u.chosen = s.chosen
  BY <1>2 DEF Differs, Fields, SameMap, SameIndex, SameReceived, SameBeside
<1>4. SetInv(u)
  <2>1. d \subseteq Streams  BY DEF Ok, SetInv
  <2> QED  BY <1>2, <1>3, <2>1 DEF Ok, SetInv, SameIndex, SameReceived
<1>5. Flow(u)  BY <1>2, <1>3 DEF Ok, Flow, SameBeside
<1>6. Ok(u, f)  BY <1>2, <1>3, <1>4, <1>5, Frames DEF Ok, Differs
<1>7. Ends(u, v, f)
  <2>1. CASE s.session = "updating"  BY <1>6, <2>1, FinishUpdatingOk
  <2>2. CASE s.session # "updating"  BY <1>6, <2>2, FinishConnectingOk
  <2> QED  BY <2>1, <2>2
<1> HIDE DEF v
<1> QED  BY <1>1, <1>7, DeferredOk DEF Ends, Inv, Rests

(* Frames and reports wait. *)
LEMMA PausedOk ==
  ASSUME NEW s, NEW f, Ok(s, f), NEW t, t = Paused(s)
  PROVE  Ok(t, f) /\ SameFlow(s, t)
<1>1. Differs(s, t, {"indexPaused", "monitorPaused"}) /\ t.indexPaused = TRUE
  BY DEF Paused, Ok, Differs, IsState, Fields
<1>2. /\ SameSets(s, t) /\ SameMap(s, t) /\ SameFlow(s, t) /\ SameReceived(s, t)
      /\ t.pendingIndex = s.pendingIndex /\ t.current = s.current
  BY <1>1 DEF Differs, Fields, SameSets, SameMap, SameFlow, SameBeside, SameReceived
<1>3. Latest(t, f)  BY <1>1, <1>2 DEF Ok, Latest
<1> QED  BY <1>1, <1>2, <1>3, Frames DEF Ok, Differs

(* The second half of a restart ends the update. *)
LEMMA RestartAgainOk ==
  ASSUME NEW s, NEW f, Ok(s, f), s.session # "connected", NEW t, t = RestartAgain(s)
  PROVE  Inv(t, f)
<1> DEFINE u == [s EXCEPT !.step = "attach", !.restarting = FALSE]
           v == update(u)
<1>1. t = Paused(v)  BY DEF RestartAgain
<1>2. Differs(s, u, {"step", "restarting"}) /\ u.step = "attach" /\ u.restarting = FALSE
  BY DEF Ok, Differs, IsState, Fields
<1> HIDE DEF u
<1>3. /\ u.session = s.session /\ u.deferred = s.deferred
      /\ u.others = s.others /\ u.raced = s.raced
  BY <1>2 DEF Differs, Fields
<1>4. Flow(u)  BY <1>2, <1>3 DEF Ok, Flow
<1>5. Ok(u, f)  BY <1>2, <1>4, StepOk DEF Differs
<1>6. Ok(v, f) /\ v.session # "connected"  BY <1>5, UpdateOk
<1> HIDE DEF v
<1>7. Ok(t, f) /\ SameFlow(v, t)  BY <1>1, <1>6, PausedOk
<1> QED  BY <1>6, <1>7 DEF Inv, Rests, SameFlow

(* The answer of the server is set. *)
LEMMA AnswerOk ==
  ASSUME NEW s, NEW f \in SUBSET Streams, Ok(s, f), s.step = "answer",
         NEW t, t = SetRemoteDescription(s)
  PROVE  Inv(t, f)
<1> DEFINE u == SetRemote(s)
<1>1. t = IF s.restarting THEN RestartAgain(u) ELSE Finish(u)  BY DEF SetRemoteDescription
<1>2. Ok(u, f) /\ SameFlow(s, u)  BY SetRemoteOk
<1> HIDE DEF u
<1>3. u.session # "connected"  BY <1>2 DEF Ok, Flow, SameFlow
<1>4. Inv(RestartAgain(u), f)  BY <1>2, <1>3, RestartAgainOk
<1>5. Inv(Finish(u), f)  BY <1>2, FinishOk
<1> QED  BY <1>1, <1>4, <1>5

-----------------------------------------------------------------------------
(* Failures. *)

(* The second half of a restart goes on beside what has begun. *)
LEMMA GoOnOk ==
  ASSUME NEW s, NEW f, Ok(s, f), NEW t, t = GoOn(s)
  PROVE  Inv(t, f)
<1> DEFINE u == update(s)
           v == Paused(u)
           n == [step |-> "attach", restarting |-> FALSE]
<1>1. t = [v EXCEPT !.raced = TRUE, !.others = Append(v.others, n)]  BY DEF GoOn
<1>2. Ok(u, f) /\ u.session # "connected"  BY UpdateOk
<1> HIDE DEF u
<1>3. Ok(v, f) /\ SameFlow(u, v)  BY <1>2, PausedOk
<1> HIDE DEF v
<1>4. n \in Negotiations  BY DEF Negotiations
<1> HIDE DEF n
<1>5. Append(v.others, n) \in Seq(Negotiations)  BY <1>3, <1>4 DEF Ok, Flow
<1>6. Differs(v, t, {"raced", "others"}) /\ t.others = Append(v.others, n) /\ t.raced = TRUE
  BY <1>1, <1>3 DEF Ok, Differs, IsState, Fields
<1>7. t.session = v.session /\ t.step = v.step /\ t.deferred = v.deferred
      /\ t.restarting = v.restarting
  BY <1>6 DEF Differs, Fields
<1>8. Flow(t)  BY <1>3, <1>5, <1>6, <1>7 DEF Ok, Flow
<1>9. Ok(t, f)  BY <1>3, <1>6, <1>8, StepOk DEF Differs
<1> QED  BY <1>2, <1>3, <1>7, <1>9 DEF Inv, Rests, SameFlow

(* Unless it was the first half of one, a negotiation that fails is over. *)
LEMMA FailsOk ==
  ASSUME NEW s, NEW f, NEW t, Inv(t, f), NEW u, u = Fails(s, t)
  PROVE  Inv(u, f)
<1> DEFINE v == [t EXCEPT !.restarting = FALSE]
<1>1. u = IF s.restarting THEN GoOn(v) ELSE t  BY DEF Fails
<1>2. Differs(t, v, {"restarting"}) /\ v.restarting = FALSE
  BY DEF Inv, Ok, Differs, IsState, Fields
<1> HIDE DEF v
<1>3. /\ v.session = t.session /\ v.step = t.step /\ v.deferred = t.deferred
      /\ v.others = t.others /\ v.raced = t.raced
  BY <1>2 DEF Differs, Fields
<1>4. Flow(v)  BY <1>2, <1>3 DEF Inv, Ok, Flow
<1>5. Ok(v, f)  BY <1>2, <1>4, StepOk DEF Inv, Differs
<1>6. Inv(GoOn(v), f)  BY <1>5, GoOnOk
<1> QED  BY <1>1, <1>6

(* The negotiation begins again, once or twice. *)
LEMMA IncompatibleOk ==
  ASSUME NEW s, NEW f, Ok(s, f), NEW tile \in BOOLEAN, NEW t, t = IncompatibleSDP(s, tile)
  PROVE  Inv(t, f)
<1> DEFINE b == Begin(s)
           r == b.raced \/ ~canStop
           u == [b EXCEPT !.raced = r]
           v == performDeferredAction(u)
           w == Fails(s, v)
           x == update(w)
<1>1. t = IF tile THEN [x EXCEPT !.restarting = TRUE] ELSE w  BY DEF IncompatibleSDP
<1>2. Ok(b, f) /\ b.session = "updating"  BY BeginOk
<1>11. b.raced => r  OBVIOUS
<1> HIDE DEF b, r
<1>3. Differs(b, u, {"raced"}) /\ u.raced = r  BY <1>2 DEF Ok, Differs, IsState, Fields
<1> HIDE DEF u
<1>4. SameFlow(b, u)  BY <1>3, <1>11 DEF Differs, Fields, SameFlow, SameBeside
<1>5. Flow(u) /\ u.session = "updating"  BY <1>2, <1>4, Frames DEF Ok, SameFlow
<1>6. Ok(u, f)  BY <1>2, <1>3, <1>5, StepOk DEF Differs
<1>7. Ok(v, f) /\ v.session # "connected"  BY <1>5, <1>6, DeferredOk
<1> HIDE DEF v
<1>8. Inv(w, f)  BY <1>7, FailsOk DEF Inv, Rests
<1> HIDE DEF w
<1>9. Ok(x, f) /\ x.session # "connected"  BY <1>8, UpdateOk DEF Inv
<1> HIDE DEF x
<1>10. CASE tile
  <2>1. t = [x EXCEPT !.restarting = TRUE]  BY <1>1, <1>10
  <2>2. Differs(x, t, {"restarting"}) /\ t.restarting = TRUE
    BY <1>9, <2>1 DEF Ok, Differs, IsState, Fields
  <2>3. /\ t.session = x.session /\ t.step = x.step /\ t.deferred = x.deferred
        /\ t.others = x.others /\ t.raced = x.raced
    BY <2>2 DEF Differs, Fields
  <2>4. Flow(t)  BY <1>9, <2>2, <2>3 DEF Ok, Flow
  <2>5. Ok(t, f)  BY <1>9, <2>2, <2>4, StepOk DEF Differs
  <2> QED  BY <1>9, <2>3, <2>5 DEF Inv, Rests
<1> QED  BY <1>1, <1>8, <1>10

(* Another connection will be tried. *)
LEMMA FailedOk ==
  ASSUME NEW s, NEW f, Ok(s, f), NEW t, t = TaskFailed(s)
  PROVE  Inv(t, f)
<1> DEFINE r == s.raced \/ (~canStop /\ s.step # "attach")
           u == [s EXCEPT !.session = "connected", !.step = "none", !.retrying = TRUE,
                          !.raced = r]
           v == performDeferredAction(u)
<1>1. t = Fails(s, v)  BY DEF TaskFailed
<1>7. s.raced => r  OBVIOUS
<1> HIDE DEF r
<1>2. /\ Differs(s, u, {"session", "step", "retrying", "raced"})
      /\ u.session = "connected" /\ u.step = "none" /\ u.retrying = TRUE /\ u.raced = r
  BY DEF Ok, Differs, IsState, Fields
<1> HIDE DEF u
<1>3. /\ SameSets(s, u) /\ SameMap(s, u) /\ SameIndex(s, u) /\ SameReceived(s, u)
      /\ u.deferred = s.deferred /\ SameBeside(s, u)
  BY <1>2, <1>7 DEF Differs, Fields, SameSets, SameMap, SameIndex, SameReceived, SameBeside
<1>4. Flow(u)  BY <1>2, <1>3 DEF Ok, Flow, SameBeside
<1>5. Ok(u, f)  BY <1>2, <1>3, <1>4, Frames DEF Ok, Differs
<1>6. Inv(v, f)  BY <1>2, <1>5, DeferredOk DEF Inv, Rests
<1> HIDE DEF v
<1> QED  BY <1>1, <1>6, FailsOk

(* What ends the transition. *)
LEMMA NegotiationKeeps ==
  ASSUME VideoInv, Negotiation
  PROVE  VideoInv'
<1>1. lastFrame \subseteq Streams /\ Ok(Now, lastFrame) /\ Now.step = step
  BY DEF VideoInv, Inv, Now
<1>2. lastFrame' = lastFrame  BY DEF Negotiation, Unchanged, Fixed
<1>3. \/ MayProceed(Now) /\ Becomes(Proceed(Now))
      \/ step = "answer" /\ Becomes(SetRemoteDescription(Now))
      \/ \E tile \in BOOLEAN : Becomes(IncompatibleSDP(Now, tile))
      \/ Becomes(TaskFailed(Now))
  BY DEF Negotiation
<1> HIDE DEF Now
<1>4. CASE MayProceed(Now) /\ Becomes(Proceed(Now))
  BY <1>1, <1>2, <1>4, ProceedOk, BecomesInv
<1>5. CASE step = "answer" /\ Becomes(SetRemoteDescription(Now))
  BY <1>1, <1>2, <1>5, AnswerOk, BecomesInv
<1>6. CASE \E tile \in BOOLEAN : Becomes(IncompatibleSDP(Now, tile))
  <2>1. PICK tile \in BOOLEAN : Becomes(IncompatibleSDP(Now, tile))  BY <1>6
  <2>2. Inv(IncompatibleSDP(Now, tile), lastFrame)  BY <1>1, IncompatibleOk
  <2> QED  BY <1>1, <1>2, <2>1, <2>2, BecomesInv
<1>7. CASE Becomes(TaskFailed(Now))
  BY <1>1, <1>2, <1>7, FailedOk, BecomesInv
<1> QED  BY <1>3, <1>4, <1>5, <1>6, <1>7

-----------------------------------------------------------------------------
(* Negotiations beside it. *)

(* The state with the other one in its place. *)
LEMMA SwappedIs ==
  ASSUME VideoInv, NEW k \in DOMAIN others, NEW q, q = Swapped(k)
  PROVE  /\ Differs(Now, q, {"step", "restarting", "others"})
         /\ SetInv(q) /\ MapInv(q) /\ q.step = others[k].step
         /\ session = "updating" => Ok(q, lastFrame)
<1> DEFINE n == [step |-> step, restarting |-> restarting]
           o == [others EXCEPT ![k] = n]
<1>1. q = [Now EXCEPT !.step = others[k].step, !.restarting = others[k].restarting, !.others = o]
  BY DEF Swapped, Now
<1>2. Ok(Now, lastFrame)  BY DEF VideoInv, Inv
<1>3. /\ Now.session = session /\ Now.step = step /\ Now.restarting = restarting
      /\ Now.others = others
  BY DEF Now
<1> HIDE DEF Now, n
<1>4. /\ Differs(Now, q, {"step", "restarting", "others"})
      /\ q.step = others[k].step /\ q.restarting = others[k].restarting /\ q.others = o
  BY <1>1, <1>2 DEF Ok, Differs, IsState, Fields
<1>5. /\ SameSets(Now, q) /\ SameMap(Now, q) /\ SameIndex(Now, q) /\ SameReceived(Now, q)
      /\ q.session = Now.session /\ q.deferred = Now.deferred /\ q.raced = Now.raced
  BY <1>4 DEF Differs, Fields, SameSets, SameMap, SameIndex, SameReceived
<1>6. SetInv(q) /\ MapInv(q)  BY <1>2, <1>5, Frames DEF Ok
<1>7. ASSUME session = "updating" PROVE Ok(q, lastFrame)
  <2>1. step \in {"attach", "describe", "subscribe", "ack", "answer"} /\ restarting \in BOOLEAN
    BY <1>2, <1>3, <1>7 DEF Ok, Flow
  <2>2. n \in Negotiations  BY <2>1 DEF Negotiations, n
  <2>3. others \in Seq(Negotiations)  BY <1>2, <1>3 DEF Ok, Flow
  <2>4. o \in Seq(Negotiations) /\ others[k] \in Negotiations  BY <2>2, <2>3
  <2>5. /\ others[k].step \in {"attach", "describe", "subscribe", "ack", "answer"}
        /\ others[k].restarting \in BOOLEAN
    BY <2>4 DEF Negotiations
  <2>6. Flow(q)  BY <1>2, <1>3, <1>4, <1>5, <1>7, <2>4, <2>5 DEF Ok, Flow
  <2> QED  BY <1>2, <1>4, <1>5, <1>6, <2>6, Frames DEF Ok, Differs
<1> QED  BY <1>4, <1>6, <1>7

(* What is left when one of them is over. *)
LEMMA EndedOk ==
  ASSUME NEW s, NEW f, Inv(s, f), NEW k \in DOMAIN s.others, NEW t, t = Ended(s, k)
  PROVE  Inv(t, f)
<1> DEFINE o == RemoveAt(s.others, k)
           u == [s EXCEPT !.others = o]
<1>1. t = IF others[k].restarting THEN GoOn(u) ELSE u  BY DEF Ended
<1>2. s.others \in Seq(Negotiations)  BY DEF Inv, Ok, Flow
<1>3. o \in Seq(Negotiations)
  <2>1. k \in 1..Len(s.others) /\ Len(s.others) \in Nat  BY <1>2
  <2>2. SubSeq(s.others, 1, k - 1) \in Seq(Negotiations)  BY <1>2, <2>1
  <2>3. SubSeq(s.others, k + 1, Len(s.others)) \in Seq(Negotiations)  BY <1>2, <2>1
  <2> QED  BY <2>2, <2>3 DEF RemoveAt
<1> HIDE DEF o
<1>4. Differs(s, u, {"others"}) /\ u.others = o  BY DEF Inv, Ok, Differs, IsState, Fields
<1> HIDE DEF u
<1>5. /\ u.session = s.session /\ u.step = s.step /\ u.deferred = s.deferred
      /\ u.restarting = s.restarting /\ u.retrying = s.retrying /\ u.indexPaused = s.indexPaused
      /\ u.raced = s.raced
  BY <1>4 DEF Differs, Fields
<1>6. Flow(u)  BY <1>3, <1>4, <1>5 DEF Inv, Ok, Flow
<1>7. Ok(u, f)  BY <1>4, <1>6, StepOk DEF Inv, Differs
<1>8. Inv(u, f)  BY <1>5, <1>7 DEF Inv, Rests
<1>9. Inv(GoOn(u), f)  BY <1>7, GoOnOk
<1> QED  BY <1>1, <1>8, <1>9

(* A task of another one. *)
LEMMA OtherProceedsKeeps ==
  ASSUME VideoInv, NEW k \in DOMAIN others, OtherProceeds(k)
  PROVE  VideoInv'
<1> DEFINE q == Swapped(k)
<1>1. PICK s \in {Proceed(q)} :
        Becomes([s EXCEPT !.step = step, !.restarting = restarting,
                          !.others = [others EXCEPT ![k].step = s.step]])
  BY DEF OtherProceeds
<1>2. MayProceed(q) /\ lastFrame' = lastFrame  BY DEF OtherProceeds, Unchanged, Fixed
<1>3. lastFrame \subseteq Streams /\ Inv(Now, lastFrame)  BY DEF VideoInv
<1>4. Now.step = step /\ Now.restarting = restarting /\ Now.others = others  BY DEF Now
<1>5. Differs(Now, q, {"step", "restarting", "others"}) /\ SetInv(q) /\ MapInv(q)
  BY SwappedIs
<1> HIDE DEF Now, q
<1>6. /\ Differs(q, s, ByTask) /\ SetInv(s) /\ MapInv(s) /\ Recorded(q, s)
      /\ s.step \in {"describe", "subscribe", "ack", "answer"}
  BY <1>2, <1>5, ProceedIs DEF Differs
<1> DEFINE n == [others[k] EXCEPT !.step = s.step]
           o == [others EXCEPT ![k] = n]
           t == [s EXCEPT !.step = step, !.restarting = restarting, !.others = o]
<1>7. Becomes(t)  BY <1>1
<1>8. others \in Seq(Negotiations)  BY <1>3, <1>4 DEF Inv, Ok, Flow
<1>9. others[k] \in Negotiations  BY <1>8
<1>10. n \in Negotiations  BY <1>6, <1>9 DEF Negotiations
<1> HIDE DEF n
<1>11. o \in Seq(Negotiations)  BY <1>8, <1>10
<1> HIDE DEF o
<1>12. /\ Differs(s, t, {"step", "restarting", "others"})
       /\ t.step = step /\ t.restarting = restarting /\ t.others = o
  BY <1>6 DEF Differs, IsState, Fields
<1> HIDE DEF t
<1>13. /\ SameIndex(Now, t) /\ SameReceived(Now, t) /\ t.session = Now.session
       /\ t.deferred = Now.deferred /\ t.retrying = Now.retrying
  BY <1>5, <1>6, <1>12 DEF Differs, Fields, ByTask, SameIndex, SameReceived
<1>14. SameSets(s, t) /\ SameMap(s, t)  BY <1>12 DEF Differs, Fields, SameSets, SameMap
<1>15. SetInv(t) /\ MapInv(t)  BY <1>6, <1>14, Frames
<1>19. t.raced
  <2>1. others # <<>>  BY <1>8
  <2>2. Now.raced  BY <1>3, <1>4, <2>1 DEF Inv, Ok, Flow
  <2>3. q.raced = Now.raced  BY <1>5 DEF Differs, Fields
  <2>4. s.raced  BY <1>6, <2>2, <2>3 DEF Recorded
  <2> QED  BY <1>12, <2>4 DEF Differs, Fields
<1>16. Flow(t)  BY <1>3, <1>4, <1>11, <1>12, <1>13, <1>19 DEF Inv, Ok, Flow
<1>17. Ok(t, lastFrame)  BY <1>3, <1>12, <1>13, <1>15, <1>16, Frames DEF Inv, Ok, Differs
<1>18. Rests(t)  BY <1>3, <1>13 DEF Inv, Rests, SameIndex
<1> QED  BY <1>2, <1>3, <1>7, <1>17, <1>18, BecomesInv DEF Inv

(* Another one comes to its end, or fails. *)
LEMMA OtherKeeps ==
  ASSUME VideoInv, NEW k \in DOMAIN others, OtherNegotiation(k)
  PROVE  VideoInv'
<1>1. lastFrame \subseteq Streams /\ Inv(Now, lastFrame) /\ Now.others = others
  BY DEF VideoInv, Now
<1>2. Swapped(k).step = others[k].step /\ (session = "updating" => Ok(Swapped(k), lastFrame))
  BY SwappedIs
<1>3. Inv(Ended(Now, k), lastFrame)
  <2> HIDE DEF Now
  <2> QED  BY <1>1, EndedOk
<1>4. CASE OtherProceeds(k)  BY <1>4, OtherProceedsKeeps
<1>5. CASE OtherEnds(k)
  <2> DEFINE q == Swapped(k)
             u == SetRemote(Now)
  <2>1. /\ lastFrame' = lastFrame /\ others[k].step = "answer"
        /\ Becomes(IF session = "updating" THEN SetRemoteDescription(q) ELSE Ended(u, k))
    BY <1>5 DEF OtherEnds, Unchanged, Fixed
  <2>2. CASE session = "updating"
    <3>1. Becomes(SetRemoteDescription(q))  BY <2>1, <2>2
    <3>2. Ok(q, lastFrame) /\ q.step = "answer"  BY <1>2, <2>1, <2>2
    <3> HIDE DEF q
    <3>3. Inv(SetRemoteDescription(q), lastFrame)  BY <1>1, <3>2, AnswerOk
    <3> QED  BY <1>1, <2>1, <3>1, <3>3, BecomesInv
  <2>3. CASE session # "updating"
    <3>1. Becomes(Ended(u, k))  BY <2>1, <2>3
    <3> HIDE DEF Now
    <3>2. Ok(u, lastFrame) /\ SameFlow(Now, u) /\ SameIndex(Now, u) /\ u.retrying = Now.retrying
      BY <1>1, SetRemoteOk DEF Inv
    <3> HIDE DEF u
    <3>3. Inv(u, lastFrame)  BY <1>1, <3>2 DEF Inv, Rests, SameFlow, SameIndex
    <3>4. k \in DOMAIN u.others  BY <1>1, <3>2 DEF SameFlow, SameBeside
    <3>5. Inv(Ended(u, k), lastFrame)  BY <3>3, <3>4, EndedOk
    <3> QED  BY <1>1, <2>1, <3>1, <3>5, BecomesInv
  <2> QED  BY <2>2, <2>3
<1>6. CASE OtherFails(k)
  <2> DEFINE q == Swapped(k)
  <2>1. /\ lastFrame' = lastFrame
        /\ Becomes(IF session = "updating" THEN TaskFailed(q) ELSE Ended(Now, k))
    BY <1>6 DEF OtherFails, Fixed
  <2>2. CASE session = "updating"
    <3>1. Becomes(TaskFailed(q)) /\ Ok(q, lastFrame)  BY <1>2, <2>1, <2>2
    <3> HIDE DEF q
    <3>2. Inv(TaskFailed(q), lastFrame)  BY <3>1, FailedOk
    <3> QED  BY <1>1, <2>1, <3>1, <3>2, BecomesInv
  <2>3. CASE session # "updating"
    <3>1. Becomes(Ended(Now, k))  BY <2>1, <2>3
    <3> HIDE DEF Now
    <3> QED  BY <1>1, <1>3, <2>1, <3>1, BecomesInv
  <2> QED  BY <2>2, <2>3
<1>7. CASE OtherIncompatible(k)
  <2> DEFINE q == Swapped(k)
  <2>1. PICK tile \in BOOLEAN : Becomes(IncompatibleSDP(q, tile))
    BY <1>7 DEF OtherIncompatible
  <2>2. lastFrame' = lastFrame /\ Ok(q, lastFrame)
    BY <1>2, <1>7 DEF OtherIncompatible, Fixed
  <2> HIDE DEF q
  <2>3. Inv(IncompatibleSDP(q, tile), lastFrame)  BY <2>2, IncompatibleOk
  <2> QED  BY <1>1, <2>1, <2>2, <2>3, BecomesInv
<1> QED  BY <1>4, <1>5, <1>6, <1>7 DEF OtherNegotiation

(* The connection is lost. *)
LEMMA LostKeeps ==
  ASSUME VideoInv, ConnectionLost
  PROVE  VideoInv'
<1> DEFINE t == [Now EXCEPT !.retrying = TRUE]
<1>1. Becomes(t) /\ lastFrame' = lastFrame  BY DEF ConnectionLost, Fixed
<1>2. lastFrame \subseteq Streams /\ Ok(Now, lastFrame) /\ Rests(Now)
  BY DEF VideoInv, Inv
<1> HIDE DEF Now
<1>3. Differs(Now, t, {"retrying"}) /\ t.retrying = TRUE
  BY <1>2 DEF Ok, Differs, IsState, Fields
<1> HIDE DEF t
<1>4. SameFlow(Now, t)  BY <1>3 DEF Differs, Fields, SameFlow, SameBeside
<1>5. Flow(t)  BY <1>2, <1>4, Frames DEF Ok
<1>6. Ok(t, lastFrame)  BY <1>2, <1>3, <1>5, StepOk DEF Differs
<1>7. Rests(t)  BY <1>2, <1>3, <1>4 DEF Rests, SameFlow, SameBeside
<1> QED  BY <1>1, <1>2, <1>6, <1>7, BecomesInv DEF Inv

(* Another connection is tried. *)
LEMMA RetryKeeps ==
  ASSUME VideoInv, RetryWithBackoff
  PROVE  VideoInv'
<1> DEFINE u == [Now EXCEPT !.retrying = FALSE]
           t == perform(u, "reconnect")
<1>1. Becomes(t) /\ lastFrame' = lastFrame  BY DEF RetryWithBackoff, Unchanged, Fixed
<1>2. lastFrame \subseteq Streams /\ Ok(Now, lastFrame)  BY DEF VideoInv, Inv
<1> HIDE DEF Now
<1>3. Differs(Now, u, {"retrying"})  BY <1>2 DEF Ok, Differs, IsState, Fields
<1> HIDE DEF u
<1>4. SameFlow(Now, u)  BY <1>3 DEF Differs, Fields, SameFlow, SameBeside
<1>5. Flow(u)  BY <1>2, <1>4, Frames DEF Ok
<1>6. Ok(u, lastFrame)  BY <1>2, <1>3, <1>5, StepOk DEF Differs
<1>7. Ok(t, lastFrame) /\ t.session # "connected"  BY <1>6, PerformOk
<1> QED  BY <1>1, <1>2, <1>7, BecomesInv DEF Inv, Rests

-----------------------------------------------------------------------------
(* The server and the application. *)

(* A frame is handled, or waits in the place of any other. *)
LEMMA HandleOk ==
  ASSUME NEW s, NEW f, Inv(s, f), NEW frame \in SUBSET Streams,
         NEW t, t = handleIndexFrame(s, frame)
  PROVE  /\ Inv(t, frame)
         /\ s.session # "connected" => t.session = s.session /\ t.step = s.step
<1>1. CASE s.indexPaused
  <2>1. t = [s EXCEPT !.pendingIndex = frame]  BY <1>1 DEF handleIndexFrame
  <2>2. Differs(s, t, {"pendingIndex"}) /\ t.pendingIndex = frame
    BY <2>1 DEF Inv, Ok, Differs, IsState, Fields
  <2>3. /\ SameMap(s, t) /\ SameFlow(s, t) /\ SameReceived(s, t)
        /\ t.indexPaused = s.indexPaused /\ t.current = s.current /\ t.retrying = s.retrying
        /\ t.forSubscribe = s.forSubscribe /\ t.optimal = s.optimal
        /\ t.attached = s.attached /\ t.last = s.last /\ t.chosen = s.chosen
    BY <2>2 DEF Differs, Fields, SameMap, SameFlow, SameBeside, SameReceived
  <2>4. SetInv(t)  BY <2>2, <2>3 DEF Inv, Ok, SetInv, SameReceived
  <2>5. Latest(t, frame)  BY <1>1, <2>2, <2>3 DEF Latest
  <2>6. Ok(t, frame)  BY <2>2, <2>3, <2>4, <2>5, Frames DEF Inv, Ok, Differs
  <2> QED  BY <2>3, <2>6 DEF Inv, Rests, SameFlow, SameBeside
<1>2. CASE ~s.indexPaused
  <2>1. t = finish(ingest(s, frame))  BY <1>2 DEF handleIndexFrame
  <2>2. Ends(s, t, frame)  BY <2>1, IngestAll DEF Inv
  <2> QED  BY <2>2 DEF Ends, Kept, Inv, Rests
<1> QED  BY <1>1, <1>2

(* A frame arrives. *)
LEMMA FrameKeeps ==
  ASSUME VideoInv, NEW frame \in SUBSET Streams, IndexFrame(frame)
  PROVE  VideoInv'
<1>1. Becomes(handleIndexFrame(Now, frame)) /\ lastFrame' = frame  BY DEF IndexFrame
<1>2. Inv(Now, lastFrame)  BY DEF VideoInv
<1> HIDE DEF Now
<1>3. Inv(handleIndexFrame(Now, frame), frame)  BY <1>2, HandleOk
<1> QED  BY <1>1, <1>3, BecomesInv

(* The first frame of a new connection. *)
LEMMA RejoinedKeeps ==
  ASSUME VideoInv, NEW frame \in SUBSET Streams, Rejoined(frame)
  PROVE  VideoInv'
<1> DEFINE u == handleIndexFrame(Now, frame)
           t == [u EXCEPT !.step = "attach"]
<1>1. Becomes(t) /\ lastFrame' = frame /\ Now.step = "rejoin"  BY DEF Rejoined, Now
<1>2. Inv(Now, lastFrame)  BY DEF VideoInv
<1> HIDE DEF Now
<1>3. Now.session # "connected"  BY <1>1, <1>2 DEF Inv, Ok, Flow
<1>4. Inv(u, frame) /\ u.session # "connected"  BY <1>2, <1>3, HandleOk
<1> HIDE DEF u
<1>5. Differs(u, t, {"step"}) /\ t.step = "attach"
  BY <1>4 DEF Inv, Ok, Differs, IsState, Fields
<1> HIDE DEF t
<1>6. t.session = u.session /\ t.deferred = u.deferred /\ SameBeside(u, t)
  BY <1>5 DEF Differs, Fields, SameBeside
<1>7. Flow(t) /\ t.session # "connected"  BY <1>4, <1>5, <1>6 DEF Inv, Ok, Flow, SameBeside
<1>8. Ok(t, frame)  BY <1>4, <1>5, <1>7, StepOk DEF Inv, Differs
<1> QED  BY <1>1, <1>7, <1>8, BecomesInv DEF Inv, Rests

(* A report of metrics. *)
LEMMA MetricsKeep ==
  ASSUME VideoInv, metricsDidReceive
  PROVE  VideoInv'
<1> DEFINE t == checkResubscribe(Now)
<1>1. Becomes(t) /\ lastFrame' = lastFrame  BY DEF metricsDidReceive, Unchanged, Fixed
<1>2. lastFrame \subseteq Streams /\ Ok(Now, lastFrame) /\ Rests(Now)
  BY DEF VideoInv, Inv
<1> HIDE DEF Now
<1>3. Ok(t, lastFrame) /\ Kept(Now, t)
  <2>1. CASE Now.monitorPaused
    <3>1. t = [Now EXCEPT !.pendingReport = TRUE]  BY <2>1 DEF checkResubscribe
    <3> HIDE DEF t
    <3>2. Differs(Now, t, {"pendingReport"})
      BY <1>2, <3>1 DEF Ok, Differs, IsState, Fields
    <3>3. SameFlow(Now, t) /\ SameIndex(Now, t) /\ t.retrying = Now.retrying
      BY <3>2 DEF Differs, Fields, SameFlow, SameBeside, SameIndex
    <3>4. Flow(t)  BY <1>2, <3>3, Frames DEF Ok
    <3>5. Ok(t, lastFrame)  BY <1>2, <3>2, <3>4, StepOk DEF Differs
    <3> QED  BY <3>3, <3>5, SameIsKept
  <2>2. CASE ~Now.monitorPaused
    <3>1. t = finish(resubscribe(Now))  BY <2>2 DEF checkResubscribe
    <3> HIDE DEF t
    <3> QED  BY <1>2, <3>1, ResubscribeAll
  <2> QED  BY <2>1, <2>2
<1> HIDE DEF t
<1>4. Rests(t)  BY <1>2, <1>3 DEF Kept, Rests
<1> QED  BY <1>1, <1>2, <1>3, <1>4, BecomesInv DEF Inv

(* The application chooses whom to see. *)
LEMMA ChooseKeeps ==
  ASSUME VideoInv, NEW sources \in SUBSET Attendees, chooseRemoteVideoSources(sources)
  PROVE  VideoInv'
<1> DEFINE o == calculateOptimalReceiveSet(current, sources)
           t == [Now EXCEPT !.chosen = sources, !.optimal = o]
<1>1. Becomes(t) /\ lastFrame' = lastFrame /\ Now.current = current
  BY DEF chooseRemoteVideoSources, Fixed, Now
<1>2. lastFrame \subseteq Streams /\ Ok(Now, lastFrame) /\ Rests(Now)
  BY DEF VideoInv, Inv
<1> HIDE DEF Now
<1>3. o \subseteq Streams  BY <1>1, <1>2, ChosenFrom DEF Ok, SetInv
<1> HIDE DEF o
<1>4. Differs(Now, t, {"chosen", "optimal"}) /\ t.chosen = sources /\ t.optimal = o
  BY <1>2 DEF Ok, Differs, IsState, Fields
<1> HIDE DEF t
<1>5. /\ SameMap(Now, t) /\ SameFlow(Now, t) /\ SameReceived(Now, t) /\ SameIndex(Now, t)
      /\ t.retrying = Now.retrying /\ t.forSubscribe = Now.forSubscribe
      /\ t.attached = Now.attached /\ t.last = Now.last
  BY <1>4 DEF Differs, Fields, SameMap, SameFlow, SameBeside, SameReceived, SameIndex
<1>6. SetInv(t)  BY <1>2, <1>3, <1>4, <1>5 DEF Ok, SetInv, SameReceived, SameIndex
<1>7. Ok(t, lastFrame)  BY <1>2, <1>4, <1>5, <1>6, Frames DEF Ok, Differs
<1>8. Rests(t)  BY <1>2, <1>5 DEF Rests, SameFlow, SameBeside, SameIndex
<1> QED  BY <1>1, <1>2, <1>7, <1>8, BecomesInv DEF Inv

(* Its own video begins or ends. *)
LEMMA LocalKeeps ==
  ASSUME VideoInv, LocalVideo
  PROVE  VideoInv'
<1> DEFINE t == update(Now)
<1>1. Becomes(t) /\ lastFrame' = lastFrame  BY DEF LocalVideo, Fixed
<1>2. lastFrame \subseteq Streams /\ Ok(Now, lastFrame)  BY DEF VideoInv, Inv
<1> HIDE DEF Now
<1>3. Ok(t, lastFrame) /\ t.session # "connected"  BY <1>2, UpdateOk
<1> QED  BY <1>1, <1>2, <1>3, BecomesInv DEF Inv, Rests

-----------------------------------------------------------------------------
(* The theorems. *)

(* The meeting begins with the first frame, which waits. *)
LEMMA InitInv == Init => VideoInv
<1> SUFFICES ASSUME Init PROVE VideoInv  OBVIOUS
<1>1. lastFrame \subseteq Streams  BY StreamsAssumption DEF Init
<1>2. SetInv(Now)  BY <1>1 DEF Init, SetInv, Now
<1>3. MapInv(Now)
  <2>1. trans = <<>> /\ map = [x \in Streams |-> Absent] /\ tiles = {}  BY DEF Init
  <2>2. trans \in Seq(Transceivers) /\ Len(trans) = 0  BY <2>1
  <2>3. Absent \in [at : 0..0, mid : Int]  BY DEF Absent
  <2>4. map \in [Streams -> [at : 0..Len(trans), mid : Int]]  BY <2>1, <2>2, <2>3
  <2> QED  BY <2>1, <2>2, <2>4 DEF MapInv, Now
<1>4. Flow(Now) /\ Rests(Now)
  <2>1. others = <<>> /\ restarting = FALSE  BY DEF Init
  <2>2. others \in Seq(Negotiations)  BY <2>1
  <2>3. restarting \in BOOLEAN  BY <2>1
  <2> QED  BY <2>1, <2>2, <2>3 DEF Init, Flow, Rests, Now
<1>5. Latest(Now, lastFrame)  BY DEF Init, Latest, Now
<1>6. Received(Now)  BY DEF Init, Received, Now
<1> QED  BY <1>1, <1>2, <1>3, <1>4, <1>5, <1>6, NowIsState DEF VideoInv, Inv, Ok

(* The invariant holds at every step, for any streams and any number of events. *)
THEOREM InvAlways == Spec => []VideoInv
<1>1. VideoInv /\ [Next]_vars => VideoInv'
  <2> SUFFICES ASSUME VideoInv, [Next]_vars PROVE VideoInv'  OBVIOUS
  <2>1. CASE Negotiation  BY <2>1, NegotiationKeeps
  <2>2. ASSUME NEW k \in DOMAIN others, OtherNegotiation(k) PROVE VideoInv'
    BY <2>2, OtherKeeps
  <2>3. CASE ConnectionLost  BY <2>3, LostKeeps
  <2>4. CASE RetryWithBackoff  BY <2>4, RetryKeeps
  <2>5. ASSUME NEW frame \in Indexes, IndexFrame(frame) PROVE VideoInv'
    BY <2>5, FrameKeeps, StreamsAssumption
  <2>6. ASSUME NEW frame \in Indexes, Rejoined(frame) PROVE VideoInv'
    BY <2>6, RejoinedKeeps, StreamsAssumption
  <2>7. CASE metricsDidReceive  BY <2>7, MetricsKeep
  <2>8. CASE LocalVideo  BY <2>8, LocalKeeps
  <2>9. ASSUME NEW sources \in SUBSET Attendees, chooseRemoteVideoSources(sources)
        PROVE  VideoInv'
    BY <2>9, ChooseKeeps
  <2>10. CASE UNCHANGED vars
    <3>1. Now' = Now /\ lastFrame' = lastFrame  BY <2>10 DEF vars, Now
    <3>2. Becomes(Now)  BY <2>10 DEF Becomes, vars, Now
    <3> HIDE DEF Now
    <3> QED  BY <3>1, <3>2, BecomesInv DEF VideoInv
  <2> QED  BY <2>1, <2>2, <2>3, <2>4, <2>5, <2>6, <2>7, <2>8, <2>9, <2>10 DEF Next
<1> QED  BY <1>1, InitInv, PTL DEF Spec

(* Every variable keeps its type, every stream has a transceiver that is there  *)
(* or none, and so has every tile; who negotiates is never connected.         *)
THEOREM TypeCorrect == Spec => []TypeOK
<1>1. VideoInv => TypeOK
  <2> SUFFICES ASSUME VideoInv PROVE TypeOK  OBVIOUS
  <2>1. SetInv(Now) /\ MapInv(Now) /\ Flow(Now) /\ Rests(Now) /\ lastFrame \subseteq Streams
    BY DEF VideoInv, Inv, Ok
  <2>2. /\ session \in {"starting", "connecting", "connected", "updating"}
        /\ step \in {"none", "rejoin", "attach", "describe", "subscribe", "ack", "answer"}
        /\ step = "none" <=> session = "connected"
        /\ deferred \in {"none", "update", "reconnect"}
        /\ session = "connected" => deferred = "none"
        /\ others \in Seq(Negotiations)
    BY <2>1 DEF Flow, Rests, Now
  <2>3. /\ \A S \in {current, forSubscribe, receive, optimal, subscribed, attached, lastFrame} :
             S \subseteq Streams
        /\ \A S \in {last, pendingIndex} \ {NoSet} : S \subseteq Streams
        /\ chosen = NoSet \/ chosen \subseteq Attendees
    BY <2>1 DEF SetInv, Now
  <2>4. /\ trans \in Seq(Transceivers) /\ \A e \in tiles : e.at \in DOMAIN trans
        /\ map \in [Streams -> [at : 0..Len(trans), mid : Int]]
    BY <2>1 DEF MapInv, Now
  <2>5. \A i \in DOMAIN trans : trans[i] \in Transceivers  BY <2>4
  <2>6. \A x \in Streams : map[x].at \in 0..Len(trans) /\ map[x].mid \in Int  BY <2>4
  <2> QED  BY <2>2, <2>3, <2>4, <2>5, <2>6 DEF TypeOK, Transceivers, Negotiations
<1> QED  BY <1>1, InvAlways, PTL

(* However frames, reports, calls and failures fall between the steps of a      *)
(* negotiation, and however many negotiations overlap because the first of a  *)
(* restart failed, no frame is left behind when none of them keeps the session *)
(* in transit, and what is received is what the policy believes is.           *)
THEOREM Served == Spec => []IndexServed
<1>1. VideoInv => IndexServed
  <2> SUFFICES ASSUME VideoInv, Settled
               PROVE  /\ current = integrateIndexFrame(lastFrame)
                      /\ Noticed(Now) => receive \in {subscribed, truncate(subscribed)}
    BY DEF IndexServed
  <2>1. Latest(Now, lastFrame) /\ Received(Now) /\ Rests(Now)  BY DEF VideoInv, Inv, Ok
  <2>2. ~Now.indexPaused  BY <2>1 DEF Rests, Settled, Now
  <2>3. current = integrateIndexFrame(lastFrame)  BY <2>1, <2>2 DEF Latest, Now
  <2>4. Noticed(Now) => receive \in {subscribed, truncate(subscribed)}
    <3>1. Now.receive = receive /\ Now.subscribed = subscribed  BY DEF Now
    <3> HIDE DEF Now
    <3> QED  BY <2>1, <3>1 DEF Received
  <2> QED  BY <2>3, <2>4
<1> QED  BY <1>1, InvAlways, PTL

-----------------------------------------------------------------------------
(* The tiles: what they show, when the histories record no race.            *)

CleanIn(s) == ~s.raced /\ ~s.misaligned
OneEach(S) == \A x, y \in S : Attendee[x] = Attendee[y] => x = y
OneGroup(S) == \A x, y \in S : Attendee[x] = Attendee[y] => Group[x] = Group[y]
LastOnes(s) == IF s.last = NoSet THEN {} ELSE s.last

(* What the policy chooses: streams of the index, and one of each attendee;    *)
(* publications that are no longer in the server's index have ended.          *)
Chosen(s, f, R) ==
  /\ Groups(s.current) \subseteq Groups(f) \cup R
  /\ OneGroup(s.current) /\ OneEach(s.optimal) /\ OneEach(s.receive)
  /\ s.optimal \subseteq s.current
OneTile(s) == \A e, d \in s.tiles : e.attendee = d.attendee => e = d

(* A tile is of a section that receives, and what the server sends on it and   *)
(* what its track is known for are of the tile's attendee.                   *)
Shows(s, e) ==
  /\ e.at \in DOMAIN s.server /\ e.at \in DOMAIN s.track
  /\ s.trans[e.at].receiving /\ s.track[e.at] \in {0, e.stream}
  /\ e.stream \in Streams /\ Attendee[e.stream] = e.attendee
  /\ s.server[e.at] # 0 =>
       s.server[e.at] \in Streams /\ Attendee[s.server[e.at]] = e.attendee
Showing(s) == \A e \in s.tiles : Shows(s, e)
Shown(s) == \A i \in DOMAIN s.trans : s.trans[i].receiving => \E e \in s.tiles : e.at = i

(* No two tracks are of one attendee. *)
OneTrack(s) ==
  s.tiles # {} =>
    \A i, j \in DOMAIN s.track :
      s.track[i] # 0 /\ s.track[j] # 0 /\ Attendee[s.track[i]] = Attendee[s.track[j]] => i = j

(* A transceiver that may be filled is not under a tile. *)
Idle(s) ==
  ~canStop /\ ~Negotiating(s) =>
    \A i \in DOMAIN s.trans : s.trans[i].dir = "inactive" => ~s.trans[i].receiving

(* The streams that are negotiated have transceivers of their own, and the one  *)
(* under a tile is for the tile's stream.                                     *)
Placed(s) ==
  Negotiating(s) =>
    /\ s.attached = s.receive
    /\ \A x \in s.receive :
         s.map[x].at \in DOMAIN s.trans /\ s.trans[s.map[x].at].dir = "recvonly"
    /\ \A x, y \in s.receive : s.map[x].at = s.map[y].at => x = y
    /\ \A e \in s.tiles : \A x \in s.receive : s.map[x].at = e.at => x = e.stream
    /\ s.step # "describe" =>
         \A i \in DOMAIN s.trans : s.trans[i].dir # "gone" => s.trans[i].mid

(* When the server has been told, it sends each stream on its section.        *)
Told(s, R) ==
  s.step \in {"ack", "answer"} =>
    /\ s.answer = s.server /\ DOMAIN s.server = DOMAIN s.trans
    /\ s.step = "answer" => s.track = s.server
    /\ s.receive \subseteq s.forSubscribe
    /\ \A i \in DOMAIN s.server :
         s.server[i] # 0 => s.server[i] \in s.receive /\ s.map[s.server[i]].at = i
    /\ \A x \in s.receive : s.server[s.map[x].at] = x \/ Group[x] \in R
    /\ \A e \in s.tiles : s.server[e.at] \in {0, e.stream}

(* Nothing is negotiated: tiles show what the last update was for, and it has   *)
(* its tiles.                                                                *)
Agreed(s, R) ==
  s.step = "none" /\ ~s.retrying =>
    /\ \A e \in s.tiles :
         s.server[e.at] = e.stream /\ s.track[e.at] = e.stream /\ e.stream \in LastOnes(s)
    /\ \A x \in LastOnes(s) : (\E e \in s.tiles : e.attendee = Attendee[x]) \/ Group[x] \in R

Matched(s, R) ==
  /\ s.receive \subseteq s.current
  /\ Showing(s) /\ Shown(s) /\ OneTrack(s) /\ Idle(s) /\ Placed(s) /\ Told(s, R) /\ Agreed(s, R)

(* Within an operation an update may still be to come.                        *)
Loose(s, f, R) == Chosen(s, f, R) /\ OneTile(s) /\ (CleanIn(s) => Matched(s, R))
Formed(s, f, R) ==
  /\ Chosen(s, f, R) /\ OneTile(s)
  /\ CleanIn(s) => /\ s.receive \subseteq s.current /\ Showing(s) /\ Shown(s) /\ OneTrack(s)
                   /\ Idle(s) /\ Placed(s) /\ Told(s, R)
Asked(s) == s.last = s.receive \/ (s.last = NoSet /\ s.receive = {})
Tiled(s, f, R) == Loose(s, f, R) /\ Asked(s)

(* What the policy picks. *)
LEMMA Picks ==
  ASSUME NEW S \in SUBSET Streams
  PROVE  /\ Groups(integrateIndexFrame(S)) \subseteq Groups(S)
         /\ OneGroup(integrateIndexFrame(S)) /\ truncate(S) \subseteq S
         /\ \A sources : OneGroup(S) => OneEach(calculateOptimalReceiveSet(S, sources))
         /\ \A sources : calculateOptimalReceiveSet(S, sources) \subseteq S
<1> DEFINE index == integrateIndexFrame(S)
<1>1. index \subseteq S  BY DEF integrateIndexFrame
<1>2. Groups(index) \subseteq Groups(S)  BY <1>1 DEF Groups
<1>3. OneGroup(index)
  <2> SUFFICES ASSUME NEW x \in index, NEW y \in index, Attendee[x] = Attendee[y]
               PROVE  Group[x] = Group[y]
    BY DEF OneGroup
  <2>1. Group[x] <= Group[y] /\ Group[y] <= Group[x]  BY DEF integrateIndexFrame
  <2>2. Group[x] \in Nat /\ Group[y] \in Nat  BY <1>1, StreamsAssumption
  <2> QED  BY <2>1, <2>2
<1>4. truncate(S) \subseteq S  BY DEF truncate
<1>5. ASSUME NEW sources
      PROVE  /\ calculateOptimalReceiveSet(S, sources) \subseteq S
             /\ OneGroup(S) => OneEach(calculateOptimalReceiveSet(S, sources))
  <2> DEFINE O == calculateOptimalReceiveSet(S, sources)
  <2>1. O \subseteq S /\ \A x, y \in O : Group[x] = Group[y] => x <= y /\ y <= x
    BY DEF calculateOptimalReceiveSet, highestQualityStreamFromEachGroup
  <2>2. \A x \in O : x \in Nat  BY <2>1, StreamsAssumption
  <2> HIDE DEF O
  <2>3. \A x, y \in O : Group[x] = Group[y] => x = y  BY <2>1, <2>2
  <2> QED  BY <2>1, <2>3 DEF OneGroup, OneEach, O
<1> QED  BY <1>2, <1>3, <1>4, <1>5

(* The fields the tiles depend on. *)
SameShown(s, t) ==
  /\ t.tiles = s.tiles /\ t.trans = s.trans /\ t.server = s.server /\ t.track = s.track
SameAsked(s, t) ==
  /\ t.receive = s.receive /\ t.current = s.current /\ t.optimal = s.optimal
SameRest(s, t) ==
  /\ t.last = s.last /\ t.map = s.map /\ t.attached = s.attached /\ t.answer = s.answer
  /\ t.forSubscribe = s.forSubscribe /\ t.step = s.step /\ t.retrying = s.retrying

(* What is about other fields leaves the tiles as they are. *)
LEMMA LooseFrames ==
  ASSUME NEW s, NEW f, NEW R, NEW t, SameShown(s, t), SameAsked(s, t), SameRest(s, t),
         CleanIn(t) => CleanIn(s)
  PROVE  /\ Loose(s, f, R) => Loose(t, f, R)
         /\ Tiled(s, f, R) => Tiled(t, f, R)
<1>1. Chosen(s, f, R) => Chosen(t, f, R)  BY DEF Chosen, SameAsked
<1>2. OneTile(s) => OneTile(t)  BY DEF OneTile, SameShown
<1>3. Matched(s, R) => Matched(t, R)
  <2>1. Showing(s) /\ Shown(s) /\ OneTrack(s) => Showing(t) /\ Shown(t) /\ OneTrack(t)
    BY DEF Showing, Shows, Shown, OneTrack, SameShown
  <2>2. Idle(s) => Idle(t)  BY DEF Idle, Negotiating, SameShown, SameRest
  <2>3. Placed(s) => Placed(t)  BY DEF Placed, Negotiating, SameShown, SameAsked, SameRest
  <2>4. Told(s, R) => Told(t, R)  BY DEF Told, SameShown, SameAsked, SameRest
  <2>5. Agreed(s, R) => Agreed(t, R)  BY DEF Agreed, LastOnes, SameShown, SameRest
  <2> QED  BY <2>1, <2>2, <2>3, <2>4, <2>5 DEF Matched, SameAsked
<1>4. Asked(s) => Asked(t)  BY DEF Asked, SameAsked, SameRest
<1> QED  BY <1>1, <1>2, <1>3, <1>4 DEF Loose, Tiled

(* What is formed is only not agreed on. *)
LEMMA LooseIs ==
  ASSUME NEW s, NEW f, NEW R
  PROVE  Loose(s, f, R) <=> Formed(s, f, R) /\ (CleanIn(s) => Agreed(s, R))
BY DEF Loose, Formed, Matched

(* A negotiation that stops, or a session that is lost, leaves its tiles.      *)
LEMMA LooseStops ==
  ASSUME NEW s, NEW f, NEW R, Formed(s, f, R), NEW t, SameShown(s, t), SameAsked(s, t),
         ~Negotiating(t), t.step # "none" \/ t.retrying,
         CleanIn(t) => CleanIn(s) /\ (Negotiating(s) => canStop)
  PROVE  Loose(t, f, R)
<1>1. Chosen(t, f, R)  BY DEF Formed, Chosen, SameAsked
<1>2. OneTile(t)  BY DEF Formed, OneTile, SameShown
<1>3. ASSUME CleanIn(t) PROVE Matched(t, R)
  <2>1. /\ s.receive \subseteq s.current
        /\ Showing(s) /\ Shown(s) /\ OneTrack(s) /\ Idle(s)
    BY <1>3 DEF Formed
  <2>2. Showing(t) /\ Shown(t) /\ OneTrack(t)
    BY <2>1 DEF Showing, Shows, Shown, OneTrack, SameShown
  <2>3. Idle(t)  BY <1>3, <2>1 DEF Idle, SameShown
  <2>4. Placed(t) /\ Told(t, R) /\ Agreed(t, R)  BY DEF Placed, Told, Agreed, Negotiating
  <2> QED  BY <2>1, <2>2, <2>3, <2>4 DEF Matched, SameAsked
<1> QED  BY <1>1, <1>2, <1>3 DEF Loose

-----------------------------------------------------------------------------
(* A reconnection begins without tracks or tiles. *)
LEMMA ReconnectTiled ==
  ASSUME NEW s, NEW old, NEW f, NEW R, Ok(s, old), Chosen(s, f, R),
         NEW t, t = BeginReconnect(s)
  PROVE  Loose(t, f, R) /\ (Asked(s) => Asked(t))
<1> DEFINE m == [x \in Streams |-> [at |-> 0, mid |-> getMidForStreamId(s, x)]]
           raced1 == ~(s.receive \subseteq s.current) \/ s.others # <<>>
<1>1. t = [s EXCEPT !.session = "connecting", !.step = "rejoin", !.map = m,
             !.trans = <<>>, !.tiles = {}, !.server = <<>>, !.answer = <<>>,
             !.optimal = {}, !.subscribed = {}, !.chosen = NoSet, !.raced = raced1]
  BY DEF BeginReconnect
<1> HIDE DEF m
<1>2. /\ t.step = "rejoin" /\ t.trans = <<>> /\ t.tiles = {} /\ t.optimal = {}
      /\ t.raced = raced1 /\ t.current = s.current /\ t.receive = s.receive /\ t.last = s.last
  <2>1. IsState(s)  BY DEF Ok
  <2> HIDE DEF raced1
  <2> QED  BY <1>1, <2>1 DEF IsState, Fields
<1> HIDE DEF raced1
<1>3. Chosen(t, f, R) /\ OneTile(t)
  BY <1>2 DEF Chosen, OneTile, OneEach, OneGroup
<1>4. ASSUME CleanIn(t) PROVE Matched(t, R)
  <2>1. t.receive \subseteq t.current  BY <1>2, <1>4 DEF CleanIn, raced1
  <2>2. DOMAIN t.trans = {}
    <3>1. t.trans \in Seq({}) /\ Len(t.trans) = 0  BY <1>2
    <3> QED  BY <3>1
  <2>3. Showing(t) /\ Shown(t) /\ OneTrack(t) /\ Idle(t)
    BY <1>2, <2>2 DEF Showing, Shown, OneTrack, Idle
  <2>4. Placed(t) /\ Told(t, R) /\ Agreed(t, R)
    BY <1>2 DEF Placed, Told, Agreed, Negotiating
  <2> QED  BY <2>1, <2>3, <2>4 DEF Matched
<1> QED  BY <1>2, <1>3, <1>4 DEF Loose, Asked

(* An action is begun, or put off. *)
LEMMA PerformTiled ==
  ASSUME NEW s, NEW old, NEW f, NEW R, NEW action, Ok(s, old), Loose(s, f, R),
         NEW t, t = perform(s, action)
  PROVE  Loose(t, f, R) /\ (Asked(s) => Asked(t))
<1>1. CASE s.session = "connected" /\ action = "update"
  <2>1. t = Begin(s)  BY <1>1 DEF perform
  <2>2. Differs(s, t, {"session", "step", "indexPaused", "monitorPaused"}) /\ t.step = "attach"
    BY <2>1 DEF Begin, Ok, Differs, IsState, Fields
  <2>3. /\ SameShown(s, t) /\ SameAsked(s, t) /\ t.last = s.last
        /\ t.raced = s.raced /\ t.misaligned = s.misaligned
    BY <2>2 DEF Differs, Fields, SameShown, SameAsked
  <2>4. ~Negotiating(s) /\ ~Negotiating(t)  BY <1>1, <2>2 DEF Ok, Flow, Negotiating
  <2>5. Loose(t, f, R)  BY <2>2, <2>3, <2>4, LooseIs, LooseStops DEF CleanIn
  <2> QED  BY <2>3, <2>5 DEF Asked, SameAsked
<1>2. CASE s.session = "connected" /\ action = "reconnect"
  <2>1. t = BeginReconnect(s)  BY <1>2 DEF perform
  <2> QED  BY <2>1, ReconnectTiled DEF Loose
<1>3. CASE ~(s.session = "connected" /\ action \in {"update", "reconnect"})
  <2> DEFINE d == IF s.deferred = "reconnect" THEN s.deferred ELSE action
  <2>1. t = [s EXCEPT !.deferred = d]  BY <1>3 DEF perform
  <2> HIDE DEF d
  <2>2. Differs(s, t, {"deferred"})  BY <2>1 DEF Ok, Differs, IsState, Fields
  <2>3. /\ SameShown(s, t) /\ SameAsked(s, t) /\ SameRest(s, t)
        /\ t.raced = s.raced /\ t.misaligned = s.misaligned
    BY <2>2 DEF Differs, Fields, SameShown, SameAsked, SameRest
  <2>4. Loose(t, f, R)  BY <2>3, LooseFrames DEF CleanIn
  <2> QED  BY <2>3, <2>4 DEF Asked, SameAsked, SameRest
<1> QED  BY <1>1, <1>2, <1>3

(* What was put off. *)
LEMMA DeferredTiled ==
  ASSUME NEW s, NEW f, NEW R, Ok(s, f), Tiled(s, f, R), NEW t, t = performDeferredAction(s)
  PROVE  Tiled(t, f, R)
<1>1. CASE s.deferred = "none"  BY <1>1 DEF performDeferredAction
<1>2. CASE s.deferred # "none"
  <2> DEFINE u == [s EXCEPT !.deferred = "none"]
  <2>1. t = perform(u, s.deferred)  BY <1>2 DEF performDeferredAction
  <2>2. Differs(s, u, {"deferred"}) /\ u.deferred = "none"
    BY DEF Ok, Differs, IsState, Fields
  <2> HIDE DEF u
  <2>3. /\ SameSets(s, u) /\ SameMap(s, u) /\ SameReceived(s, u) /\ SameIndex(s, u)
        /\ u.session = s.session /\ u.step = s.step /\ SameBeside(s, u)
    BY <2>2 DEF Differs, Fields, SameSets, SameMap, SameReceived, SameIndex, SameBeside
  <2>4. Flow(u)  BY <2>2, <2>3 DEF Ok, Flow, SameBeside
  <2>5. Ok(u, f)  BY <2>2, <2>3, <2>4, Frames DEF Ok, Differs
  <2>6. /\ SameShown(s, u) /\ SameAsked(s, u) /\ SameRest(s, u)
        /\ u.raced = s.raced /\ u.misaligned = s.misaligned
    BY <2>2 DEF Differs, Fields, SameShown, SameAsked, SameRest
  <2>7. Tiled(u, f, R)  BY <2>6, LooseFrames DEF CleanIn
  <2> QED  BY <2>1, <2>5, <2>7, PerformTiled DEF Tiled
<1> QED  BY <1>1, <1>2

(* A change of local video: the streams are those of the last update. *)
LEMMA UpdateTiled ==
  ASSUME NEW s, NEW f, NEW R, Ok(s, f), Tiled(s, f, R), NEW t, t = update(s)
  PROVE  Tiled(t, f, R)
<1> DEFINE u == [s EXCEPT !.last = s.receive]
<1>1. t = perform(u, "update")  BY DEF update
<1>2. Differs(s, u, {"last"}) /\ u.last = s.receive
  BY DEF Ok, Differs, IsState, Fields
<1> HIDE DEF u
<1>3. /\ SameMap(s, u) /\ SameReceived(s, u) /\ SameIndex(s, u) /\ SameFlow(s, u)
      /\ u.forSubscribe = s.forSubscribe /\ u.optimal = s.optimal /\ u.attached = s.attached
      /\ u.chosen = s.chosen /\ SameShown(s, u) /\ SameAsked(s, u) /\ u.step = s.step
      /\ u.retrying = s.retrying /\ u.map = s.map /\ u.answer = s.answer
      /\ u.raced = s.raced /\ u.misaligned = s.misaligned
  BY <1>2 DEF Differs, Fields, SameMap, SameReceived, SameIndex, SameFlow, SameBeside, SameShown, SameAsked
<1>4. SetInv(u)  BY <1>2, <1>3 DEF Ok, SetInv, SameReceived, SameIndex
<1>5. Ok(u, f)  BY <1>2, <1>3, <1>4, Frames DEF Ok, Differs
<1>6. LastOnes(u) = LastOnes(s)
  <2>1. s.receive # NoSet  BY NoSetIs DEF Ok, SetInv
  <2> QED  BY <1>2, <2>1 DEF Tiled, Asked, LastOnes
<1>7. Loose(u, f, R)
  <2>1. Chosen(u, f, R) /\ OneTile(u)
    BY <1>3 DEF Tiled, Loose, Chosen, OneTile, SameAsked, SameShown
  <2>2. ASSUME CleanIn(u) PROVE Matched(u, R)
    <3>1. Matched(s, R)  BY <1>3, <2>2 DEF Tiled, Loose, CleanIn
    <3>2. Showing(u) /\ Shown(u) /\ OneTrack(u)
      BY <1>3, <3>1 DEF Matched, Showing, Shows, Shown, OneTrack, SameShown
    <3>3. Idle(u)  BY <1>3, <3>1 DEF Matched, Idle, Negotiating, SameShown
    <3>4. Placed(u)  BY <1>3, <3>1 DEF Matched, Placed, Negotiating, SameShown, SameAsked
    <3>5. Told(u, R)  BY <1>3, <3>1 DEF Matched, Told, SameShown, SameAsked
    <3>6. Agreed(u, R)  BY <1>3, <1>6, <3>1 DEF Matched, Agreed, SameShown
    <3> QED  BY <1>3, <3>1, <3>2, <3>3, <3>4, <3>5, <3>6 DEF Matched, SameAsked
  <2> QED  BY <2>1, <2>2 DEF Loose
<1>8. Asked(u)  BY <1>2, <1>3 DEF Asked, SameAsked
<1> QED  BY <1>1, <1>5, <1>7, <1>8, PerformTiled DEF Tiled

-----------------------------------------------------------------------------
(* What the policy asks for changes no tile. *)
LEMMA AskTiled ==
  ASSUME NEW s, NEW f, NEW R, Loose(s, f, R), NEW t, SameShown(s, t), t.last = s.last,
         t.step = s.step, t.retrying = s.retrying, Chosen(t, f, R),
         CleanIn(t) => CleanIn(s) /\ ~Negotiating(s) /\ t.receive \subseteq t.current
  PROVE  Loose(t, f, R)
<1>1. OneTile(t)  BY DEF Loose, OneTile, SameShown
<1>2. ASSUME CleanIn(t) PROVE Matched(t, R)
  <2>1. Matched(s, R) /\ ~Negotiating(t)  BY <1>2 DEF Loose, Negotiating
  <2>2. Showing(t) /\ Shown(t) /\ OneTrack(t)
    BY <2>1 DEF Matched, Showing, Shows, Shown, OneTrack, SameShown
  <2>3. Idle(t)  BY <1>2, <2>1 DEF Matched, Idle, SameShown
  <2>4. Placed(t) /\ Told(t, R)  BY <2>1 DEF Placed, Told, Negotiating
  <2>5. Agreed(t, R)  BY <2>1 DEF Matched, Agreed, LastOnes, SameShown
  <2> QED  BY <1>2, <2>1, <2>2, <2>3, <2>4, <2>5 DEF Matched
<1> QED  BY <1>1, <1>2 DEF Loose

(* A frame that is taken in. *)
LEMMA FrameTiled ==
  ASSUME NEW s, NEW old, NEW f \in SUBSET Streams, NEW R, Ok(s, old), Tiled(s, f, R)
  PROVE  /\ Loose(AskedOfFrame(s, f), f, R)
         /\ CleanIn(AskedOfFrame(s, f)) => ~Negotiating(AskedOfFrame(s, f))
         /\ ~wantsResubscribe(Indexed(s, f)) => Tiled(RacedByFrame(s, f), f, R)
<1> DEFINE index == integrateIndexFrame(f)
           optimal1 == calculateOptimalReceiveSet(index, s.chosen)
           raced1 == s.raced \/ Negotiating(s)
           u == Indexed(s, f)
           v == AskedOfFrame(s, f)
           w == RacedByFrame(s, f)
<1>1. index \in SUBSET Streams  BY ChosenFrom
<1>2. /\ Groups(index) \subseteq Groups(f) /\ OneGroup(index)
      /\ OneEach(optimal1) /\ optimal1 \subseteq index
  <2>1. Groups(index) \subseteq Groups(f) /\ OneGroup(index)  BY Picks
  <2> HIDE DEF index
  <2> QED  BY <1>1, <2>1, Picks
<1>3. optimal1 \in SUBSET Streams  BY <1>1, <1>2
<1>4. truncate(optimal1) \subseteq optimal1
  <2> HIDE DEF optimal1
  <2> QED  BY <1>3, Picks
<1>5. /\ Differs(s, u, {"indexPaused", "pendingIndex", "current", "optimal", "raced"})
      /\ u.current = index /\ u.optimal = optimal1 /\ u.raced = raced1
  BY DEF Indexed, Ok, Differs, IsState, Fields
<1>6. /\ v = [u EXCEPT !.subscribed = u.optimal, !.receive = truncate(u.optimal)]
      /\ w = [u EXCEPT !.raced = u.raced \/ ~Noticed(u)]
  BY DEF AskedOfFrame, RacedByFrame
<1> HIDE DEF u, v, w, index, optimal1, raced1
<1>7. /\ SameShown(s, u) /\ u.last = s.last /\ u.step = s.step /\ u.retrying = s.retrying
      /\ u.misaligned = s.misaligned /\ u.receive = s.receive /\ u.subscribed = s.subscribed
  BY <1>5 DEF Differs, Fields, SameShown
<1>8. Loose(v, f, R) /\ (CleanIn(v) => ~Negotiating(v))
  <2>1. /\ Differs(u, v, {"subscribed", "receive"}) /\ v.receive = truncate(optimal1)
    BY <1>5, <1>6 DEF Differs, IsState, Fields
  <2>2. /\ SameShown(s, v) /\ v.last = s.last /\ v.step = s.step /\ v.retrying = s.retrying
        /\ v.misaligned = s.misaligned /\ v.current = index /\ v.optimal = optimal1
        /\ v.raced = raced1
    BY <1>5, <1>7, <2>1 DEF Differs, Fields, SameShown
  <2>3. Chosen(v, f, R)  BY <1>2, <1>4, <2>1, <2>2 DEF Chosen, OneEach
  <2>4. CleanIn(v) => CleanIn(s) /\ ~Negotiating(s) /\ v.receive \subseteq v.current
    BY <1>2, <1>4, <2>1, <2>2 DEF CleanIn, raced1
  <2>5. CleanIn(v) => ~Negotiating(v)  BY <2>2, <2>4 DEF Negotiating
  <2> QED  BY <2>2, <2>3, <2>4, <2>5, AskTiled DEF Tiled
<1>9. ASSUME ~wantsResubscribe(u) PROVE Tiled(w, f, R)
  <2>1. Differs(u, w, {"raced"}) /\ w.raced = (u.raced \/ ~Noticed(u))
    BY <1>5, <1>6 DEF Differs, IsState, Fields
  <2>2. /\ SameShown(s, w) /\ w.last = s.last /\ w.step = s.step /\ w.retrying = s.retrying
        /\ w.misaligned = s.misaligned /\ w.current = index /\ w.optimal = optimal1
        /\ w.receive = s.receive
    BY <1>5, <1>7, <2>1 DEF Differs, Fields, SameShown
  <2>3. Chosen(w, f, R)  BY <1>2, <2>2 DEF Tiled, Loose, Chosen
  <2>4. ASSUME CleanIn(w)
        PROVE  CleanIn(s) /\ ~Negotiating(s) /\ w.receive \subseteq w.current
    <3>1. CleanIn(s) /\ ~Negotiating(s) /\ Noticed(u)
      BY <1>5, <2>1, <2>2, <2>4 DEF CleanIn, raced1
    <3>2. Noticed(s)  BY <1>7, <3>1 DEF Noticed
    <3>3. s.receive \in {s.subscribed, truncate(s.subscribed)}  BY <3>2 DEF Ok, Received
    <3>4. s.subscribed = optimal1  BY <1>5, <1>7, <1>9 DEF wantsResubscribe
    <3> QED  BY <1>2, <1>4, <2>2, <3>1, <3>3, <3>4
  <2>5. Loose(w, f, R)  BY <2>2, <2>3, <2>4, AskTiled DEF Tiled
  <2> QED  BY <2>2, <2>5 DEF Tiled, Asked
<1> QED  BY <1>8, <1>9 DEF u, v, w

(* A report that is looked at. *)
LEMMA ReportTiled ==
  ASSUME NEW s, NEW f, NEW R, Ok(s, f), Tiled(s, f, R)
  PROVE  /\ Tiled(Reported(s), f, R) /\ Loose(AskedOfReport(s), f, R)
         /\ CleanIn(AskedOfReport(s)) => ~Negotiating(AskedOfReport(s))
<1> DEFINE raced1 == s.raced \/ Negotiating(s)
           u == Reported(s)
           v == AskedOfReport(s)
<1>1. Differs(s, u, {"monitorPaused", "pendingReport"})
  BY DEF Reported, Ok, Differs, IsState, Fields
<1>2. v = [u EXCEPT !.subscribed = u.optimal, !.receive = u.optimal,
                    !.raced = u.raced \/ Negotiating(s)]
  BY DEF AskedOfReport
<1> HIDE DEF u, v
<1>3. /\ SameShown(s, u) /\ SameAsked(s, u) /\ SameRest(s, u)
      /\ u.raced = s.raced /\ u.misaligned = s.misaligned
  BY <1>1 DEF Differs, Fields, SameShown, SameAsked, SameRest
<1>4. Tiled(u, f, R)  BY <1>3, LooseFrames DEF CleanIn
<1>5. /\ Differs(u, v, {"subscribed", "receive", "raced"}) /\ v.receive = u.optimal
      /\ v.raced = raced1
  BY <1>1, <1>2, <1>3 DEF Differs, IsState, Fields
<1> HIDE DEF raced1
<1>6. /\ SameShown(s, v) /\ v.last = s.last /\ v.step = s.step /\ v.retrying = s.retrying
      /\ v.misaligned = s.misaligned /\ v.current = s.current /\ v.optimal = s.optimal
      /\ v.receive = s.optimal
  BY <1>3, <1>5 DEF Differs, Fields, SameShown, SameAsked, SameRest
<1>7. Chosen(v, f, R)  BY <1>6 DEF Tiled, Loose, Chosen
<1>8. CleanIn(v) => CleanIn(s) /\ ~Negotiating(s) /\ v.receive \subseteq v.current
  BY <1>5, <1>6 DEF CleanIn, raced1, Tiled, Loose, Chosen
<1>9. Loose(v, f, R)  BY <1>6, <1>7, <1>8, AskTiled DEF Tiled
<1>10. CleanIn(v) => ~Negotiating(v)  BY <1>6, <1>8 DEF Negotiating
<1> QED  BY <1>4, <1>9, <1>10 DEF u, v

-----------------------------------------------------------------------------
(* Streams that are switched in place. *)

(* A tile after a switch to the stream x. *)
Turned(q, e, x) == IF e.attendee = TileAttendee(q, x) THEN [e EXCEPT !.stream = x] ELSE e

(* Only its stream is another, and only if it is the attendee's. *)
LEMMA TurnedIs ==
  ASSUME NEW q, NEW e, DOMAIN e = {"at", "attendee", "stream"}, NEW x
  PROVE  /\ Turned(q, e, x).at = e.at /\ Turned(q, e, x).attendee = e.attendee
         /\ Turned(q, e, x).stream = IF e.attendee = TileAttendee(q, x) THEN x ELSE e.stream
<1> DEFINE d == [e EXCEPT !.stream = x]
<1>1. d.at = e.at /\ d.attendee = e.attendee /\ d.stream = x  OBVIOUS
<1> HIDE DEF d
<1>2. Turned(q, e, x) = IF e.attendee = TileAttendee(q, x) THEN d ELSE e  BY DEF Turned, d
<1> QED  BY <1>1, <1>2

(* What a switch does. *)
Switches(q, y, x, mid, t) ==
  /\ t.tiles = {Turned(q, e, x) : e \in q.tiles}
  /\ t.track = [i \in DOMAIN q.track |->
                 IF /\ q.track[i] = y
                    /\ \A j \in DOMAIN q.track : q.track[j] = y => i <= j
                 THEN x ELSE q.track[i]]
  /\ t.raced = (q.raced \/ streamIdForTrack(q, mid) # y)
  /\ Differs(q, t, {"map", "track", "tiles", "raced"}) /\ MapInv(t)

(* The stream is switched on its track, in the map and under its tile. *)
LEMMA SwitchIs ==
  ASSUME NEW q, IsState(q), MapInv(q), NEW x \in Streams, NEW y, NEW mid,
         NEW t, t = switchStream(q, y, x, mid)
  PROVE  Switches(q, y, x, mid, t)
<1> DEFINE u == setStreamIdForMid(q, mid, x)
           k == {i \in DOMAIN q.track : q.track[i] = y}
           track1 == [i \in DOMAIN u.track |->
                       IF i \in k /\ \A j \in k : i <= j THEN x ELSE u.track[i]]
           tile(e) == IF e.attendee = TileAttendee(q, x) THEN [e EXCEPT !.stream = x] ELSE e
           tiles1 == {tile(e) : e \in u.tiles}
           raced1 == u.raced \/ streamIdForTrack(q, mid) # y
<1>1. Differs(q, u, {"map"})  BY SetStreamIs
<1>2. t = [u EXCEPT !.track = track1, !.tiles = tiles1, !.raced = raced1]
  BY DEF switchStream
<1>3. u.track = q.track /\ u.tiles = q.tiles /\ u.raced = q.raced
  BY <1>1 DEF Differs, Fields
<1>4. tiles1 = {Turned(q, e, x) : e \in q.tiles}  BY <1>3 DEF Turned
<1>5. track1 = [i \in DOMAIN q.track |->
                 IF /\ q.track[i] = y
                    /\ \A j \in DOMAIN q.track : q.track[j] = y => i <= j
                 THEN x ELSE q.track[i]]
  BY <1>3
<1>6. raced1 = (q.raced \/ streamIdForTrack(q, mid) # y)  BY <1>3
<1> HIDE DEF u, tiles1, track1, raced1
<1>7. t.track = track1 /\ t.tiles = tiles1 /\ t.raced = raced1
  BY <1>1, <1>2 DEF Differs, IsState, Fields
<1>8. Differs(q, t, {"map", "track", "tiles", "raced"}) /\ MapInv(t)  BY SwitchStreamIs
<1> QED  BY <1>4, <1>5, <1>6, <1>7, <1>8 DEF Switches

(* A stream that its section had is switched: its attendee's tile goes with it. *)
LEMMA SwitchTiled ==
  ASSUME NEW q, IsState(q), MapInv(q), Showing(q), Shown(q), OneTrack(q),
         NEW x \in Streams, x \in q.current, NEW y, y # 0, Attendee[y] = Attendee[x],
         NEW mid \in Int, NEW t, t = switchStream(q, y, x, mid), CleanIn(t)
  PROVE  /\ CleanIn(q) /\ Showing(t) /\ Shown(t) /\ OneTrack(t)
         /\ t.tiles # {} => /\ mid \in DOMAIN q.track /\ q.track[mid] = y
                            /\ t.track = [q.track EXCEPT ![mid] = x]
<1>1. /\ t.tiles = {Turned(q, e, x) : e \in q.tiles}
      /\ t.track = [i \in DOMAIN q.track |->
                     IF /\ q.track[i] = y
                        /\ \A j \in DOMAIN q.track : q.track[j] = y => i <= j
                     THEN x ELSE q.track[i]]
      /\ t.raced = (q.raced \/ streamIdForTrack(q, mid) # y)
      /\ Differs(q, t, {"map", "track", "tiles", "raced"})
  BY SwitchIs DEF Switches
<1>2. /\ t.trans = q.trans /\ t.server = q.server /\ t.misaligned = q.misaligned
  BY <1>1 DEF Differs, Fields
<1>3. CleanIn(q) /\ streamIdForTrack(q, mid) = y  BY <1>1, <1>2 DEF CleanIn
<1>4. mid \in DOMAIN q.track /\ q.track[mid] = y  BY <1>3 DEF streamIdForTrack
<1>5. x # 0 /\ TileAttendee(q, x) = Attendee[x]
  BY StreamsAssumption DEF TileAttendee
<1>6. ASSUME NEW e \in q.tiles
      PROVE  /\ Turned(q, e, x).at = e.at /\ Turned(q, e, x).attendee = e.attendee
             /\ Turned(q, e, x).stream = IF e.attendee = Attendee[x] THEN x ELSE e.stream
  <2>1. DOMAIN e = {"at", "attendee", "stream"}  BY DEF MapInv
  <2> QED  BY <1>5, <2>1, TurnedIs
<1>7. Shown(t)
  <2> SUFFICES ASSUME NEW i \in DOMAIN t.trans, t.trans[i].receiving
               PROVE  \E e \in t.tiles : e.at = i
    BY DEF Shown
  <2>1. PICK e \in q.tiles : e.at = i  BY <1>2 DEF Shown
  <2>2. Turned(q, e, x) \in t.tiles /\ Turned(q, e, x).at = i  BY <1>1, <1>6, <2>1
  <2> QED  BY <2>2
<1>8. CASE q.tiles = {}
  <2>1. t.tiles = {}  BY <1>1, <1>8
  <2> QED  BY <1>3, <1>7, <2>1 DEF Showing, OneTrack
<1>9. CASE q.tiles # {}
  <2>1. ASSUME NEW i \in DOMAIN q.track, q.track[i] = y PROVE i = mid
    BY <1>4, <1>9, <2>1 DEF OneTrack
  <2>2. t.track = [q.track EXCEPT ![mid] = x]
    <3>1. ASSUME NEW i \in DOMAIN q.track
          PROVE  t.track[i] = IF i = mid THEN x ELSE q.track[i]
      <4>1. CASE i = mid
        <5>1. mid <= mid  OBVIOUS
        <5> QED  BY <1>1, <1>4, <2>1, <4>1, <5>1
      <4>2. CASE i # mid  BY <1>1, <2>1, <4>2
      <4> QED  BY <4>1, <4>2
    <3> QED  BY <1>1, <3>1
  <2>3. Showing(t)
    <3> SUFFICES ASSUME NEW e \in q.tiles PROVE Shows(t, Turned(q, e, x))
      BY <1>1 DEF Showing
    <3> DEFINE d == Turned(q, e, x)
    <3>1. Shows(q, e)  BY DEF Showing
    <3>2. /\ d.at = e.at /\ d.attendee = e.attendee
          /\ d.stream = IF e.attendee = Attendee[x] THEN x ELSE e.stream
      BY <1>6
    <3> HIDE DEF d
    <3>3. e.at = mid => e.attendee = Attendee[x]  BY <1>4, <3>1 DEF Shows
    <3>4. ASSUME e.at # mid, e.attendee = Attendee[x] PROVE q.track[e.at] = 0
      <4>1. e.at \in DOMAIN q.track /\ q.track[e.at] \in {0, e.stream}
            /\ Attendee[e.stream] = e.attendee
        BY <3>1 DEF Shows
      <4> QED  BY <1>4, <1>9, <3>4, <4>1 DEF OneTrack
    <3>5. t.track[e.at] \in {0, d.stream} /\ e.at \in DOMAIN t.track
      <4>1. e.at \in DOMAIN q.track /\ q.track[e.at] \in {0, e.stream}  BY <3>1 DEF Shows
      <4> QED  BY <2>2, <3>2, <3>3, <3>4, <4>1
    <3>6. d.stream \in Streams /\ Attendee[d.stream] = d.attendee  BY <3>1, <3>2 DEF Shows
    <3> QED  BY <1>2, <3>1, <3>2, <3>5, <3>6 DEF Shows, d
  <2>4. OneTrack(t)
    <3>1. DOMAIN t.track = DOMAIN q.track  BY <2>2
    <3>2. ASSUME NEW i \in DOMAIN q.track
          PROVE  (t.track[i] # 0 <=> q.track[i] # 0) /\ Attendee[t.track[i]] = Attendee[q.track[i]]
      BY <1>4, <1>5, <2>2
    <3> QED  BY <1>9, <3>1, <3>2 DEF OneTrack
  <2> QED  BY <1>3, <1>4, <1>7, <2>2, <2>3, <2>4
<1> QED  BY <1>8, <1>9

(* A mid is a number. *)
LEMMA MidIs ==
  ASSUME NEW s, MapInv(s), NEW x \in Streams
  PROVE  getMidForStreamId(s, x) \in Int
<1>1. s.map[x].at \in 0..Len(s.trans) /\ s.map[x].mid \in Int /\ Len(s.trans) \in Nat
  BY DEF MapInv
<1> QED  BY <1>1 DEF getMidForStreamId

(* A stream replaces one of its own publication when the index knows it.      *)
LEMMA ReplacedIs ==
  ASSUME NEW s, SetInv(s), s.last \subseteq Streams, NEW x \in Switched(s)
  PROVE  /\ x \in s.receive /\ x \notin s.last /\ x \in Streams
         /\ Replaced(s, x) \in s.last /\ Replaced(s, x) \in Streams /\ Replaced(s, x) # 0
         /\ x \in s.current => /\ Group[Replaced(s, x)] = Group[x]
                               /\ Attendee[Replaced(s, x)] = Attendee[x]
<1> DEFINE y == Replaced(s, x)
<1>1. x \in s.receive /\ x \notin s.last /\ \E z \in s.last : StreamIdsInSameGroup(s, x, z)
  BY DEF Switched
<1>2. y \in s.last /\ StreamIdsInSameGroup(s, x, y)  BY <1>1 DEF Replaced
<1> HIDE DEF y
<1>3. x \in Streams /\ y \in Streams  BY <1>1, <1>2 DEF SetInv
<1>4. y # 0  BY <1>3, StreamsAssumption
<1>5. ASSUME x \in s.current PROVE Group[y] = Group[x] /\ Attendee[y] = Attendee[x]
  <2>1. groupIdForStreamId(s, x) = Group[x] /\ Group[x] # 0
    BY <1>3, <1>5, StreamsAssumption DEF groupIdForStreamId
  <2>2. groupIdForStreamId(s, y) = Group[x]  BY <1>2, <2>1 DEF StreamIdsInSameGroup
  <2>3. Group[y] = Group[x]  BY <2>1, <2>2 DEF groupIdForStreamId
  <2> QED  BY <1>3, <2>3, StreamsAssumption
<1> QED  BY <1>1, <1>2, <1>3, <1>4, <1>5 DEF y

(* What is true when the streams of T have been switched: what the server is to *)
(* be told is what the tracks are known for, and of a session at rest every    *)
(* tile still shows what its track is known for.                              *)
Rested(s) == s.step = "none" /\ ~s.retrying
Tells(s, q, d) ==
  d.mid \in DOMAIN q.track /\ q.track[d.mid] = d.stream /\ d.stream \in s.receive \ s.last
Follows(s, r, e, T) ==
  /\ r.state.track[e.at] = e.stream /\ e.stream \in s.last \cup T
  /\ s.server[e.at] = e.stream \/ \E d \in r.sent : d.mid = e.at
SwitchedTo(q, T) == \A x \in T : \A e \in q.tiles : e.attendee = Attendee[x] => e.stream = x

SameTiles(s, q) ==
  /\ OneTile(q)
  /\ \A e \in q.tiles : \E d \in s.tiles : d.attendee = e.attendee
  /\ \A d \in s.tiles : \E e \in q.tiles : d.attendee = e.attendee
Switching(s, r, T) ==
  /\ DOMAIN r = {"done", "state", "sent"}
  /\ Differs(s, r.state, {"map", "track", "tiles", "raced"}) /\ MapInv(r.state)
  /\ SameTiles(s, r.state)
  /\ CleanIn(r.state) =>
       /\ CleanIn(s) /\ Showing(r.state) /\ Shown(r.state) /\ OneTrack(r.state)
       /\ r.state.tiles # {} => \A d \in r.sent : Tells(s, r.state, d)
       /\ Rested(s) => /\ \A e \in r.state.tiles : Follows(s, r, e, T)
                       /\ r.done => SwitchedTo(r.state, T)

(* One more stream. *)
LEMMA SwitchOneTiled ==
  ASSUME NEW s, NEW f, NEW R, IsState(s), MapInv(s), SetInv(s), Loose(s, f, R),
         s.last \subseteq Streams, NEW x \in Switched(s), NEW T, x \notin T,
         T \subseteq Switched(s),
         NEW r, Switching(s, r, T), NEW p, p = SwitchOne(s, r, x)
  PROVE  Switching(s, p, T \cup {x})
<1> DEFINE y == Replaced(s, x)
           q == r.state
           mid == getMidForStreamId(q, y)
           u == switchStream(q, y, x, mid)
           d0 == [mid |-> mid, stream |-> x]
<1>1. /\ x \in s.receive /\ x \notin s.last /\ x \in Streams
      /\ y \in s.last /\ y \in Streams /\ y # 0
      /\ x \in s.current => Group[y] = Group[x] /\ Attendee[y] = Attendee[x]
  BY ReplacedIs
<1>2. CASE ~r.done \/ mid = -1
  <2>1. p = [r EXCEPT !.done = FALSE]  BY <1>2 DEF SwitchOne
  <2>2. /\ DOMAIN p = {"done", "state", "sent"} /\ p.done = FALSE
        /\ p.state = r.state /\ p.sent = r.sent
    BY <2>1 DEF Switching
  <2>3. ASSUME NEW e, Follows(s, r, e, T) PROVE Follows(s, p, e, T \cup {x})
    BY <2>2, <2>3 DEF Follows
  <2> QED  BY <2>2, <2>3 DEF Switching
<1>3. CASE ~(~r.done \/ mid = -1)
  <2>1. p = [done |-> TRUE, state |-> u, sent |-> r.sent \cup {d0}]  BY <1>3 DEF SwitchOne
  <2>2. /\ Differs(s, q, {"map", "track", "tiles", "raced"}) /\ MapInv(q) /\ IsState(q)
        /\ SameTiles(s, q) /\ r.done
    BY <1>3 DEF Switching, Differs
  <2>3. mid \in Int  BY <1>1, <2>2, MidIs
  <2> DEFINE m == mid
  <2> HIDE DEF q, y, mid
  <2>4. d0.mid = m /\ d0.stream = x  OBVIOUS
  <2>5. /\ u.tiles = {Turned(q, e, x) : e \in q.tiles}
        /\ u.raced = (q.raced \/ streamIdForTrack(q, m) # y)
        /\ Differs(q, u, {"map", "track", "tiles", "raced"}) /\ MapInv(u)
    <3>1. x \in Streams /\ u = switchStream(q, y, x, m)  BY <1>1
    <3> HIDE DEF u, m
    <3>2. Switches(q, y, x, m, u)  BY <2>2, <3>1, SwitchIs
    <3> QED  BY <3>2 DEF Switches
  <2>6. /\ DOMAIN p = {"done", "state", "sent"} /\ p.done /\ p.state = u
        /\ p.sent = r.sent \cup {d0}
    BY <2>1
  <2>7. CleanIn(u) /\ Showing(q) /\ Shown(q) /\ OneTrack(q) /\ x \in q.current
          => /\ Attendee[y] = Attendee[x] =>
                 /\ Showing(u) /\ Shown(u) /\ OneTrack(u)
                 /\ u.tiles # {} => /\ m \in DOMAIN q.track /\ q.track[m] = y
                                    /\ u.track = [q.track EXCEPT ![m] = x]
    BY <1>1, <2>2, <2>3, SwitchTiled
  <2> HIDE DEF m, u, d0
  <2>8. ASSUME NEW e \in q.tiles
        PROVE  /\ Turned(q, e, x).at = e.at /\ Turned(q, e, x).attendee = e.attendee
               /\ Turned(q, e, x).stream = IF e.attendee = TileAttendee(q, x) THEN x ELSE e.stream
    <3>1. DOMAIN e = {"at", "attendee", "stream"}  BY <2>2 DEF MapInv
    <3> QED  BY <3>1, TurnedIs
  <2>9. SameTiles(s, u)
    <3>1. OneTile(u)
      <4> SUFFICES ASSUME NEW e \in q.tiles, NEW d \in q.tiles,
                          Turned(q, e, x).attendee = Turned(q, d, x).attendee
                   PROVE  Turned(q, e, x) = Turned(q, d, x)
        BY <2>5 DEF OneTile
      <4>1. e.attendee = d.attendee  BY <2>8
      <4> QED  BY <2>2, <4>1 DEF SameTiles, OneTile
    <3>2. \A e \in u.tiles : \E d \in s.tiles : d.attendee = e.attendee
      BY <2>2, <2>5, <2>8 DEF SameTiles
    <3>3. ASSUME NEW d \in s.tiles PROVE \E e \in u.tiles : d.attendee = e.attendee
      <4>1. PICK e \in q.tiles : d.attendee = e.attendee  BY <2>2 DEF SameTiles
      <4>2. Turned(q, e, x) \in u.tiles  BY <2>5
      <4> QED  BY <2>8, <4>1, <4>2
    <3> QED  BY <3>1, <3>2, <3>3 DEF SameTiles
  <2>10. Differs(s, u, {"map", "track", "tiles", "raced"})  BY <2>2, <2>5 DEF Differs
  <2>11. ASSUME CleanIn(u)
         PROVE  /\ CleanIn(s) /\ Showing(u) /\ Shown(u) /\ OneTrack(u)
                /\ u.tiles # {} => \A d \in p.sent : Tells(s, u, d)
                /\ Rested(s) => /\ \A e \in u.tiles : Follows(s, p, e, T \cup {x})
                                /\ SwitchedTo(u, T \cup {x})
    <3>1. u.misaligned = q.misaligned /\ q.current = s.current
      BY <2>2, <2>5 DEF Differs, Fields
    <3>2. CleanIn(q)  BY <2>5, <2>11, <3>1 DEF CleanIn
    <3>3. /\ CleanIn(s) /\ Showing(q) /\ Shown(q) /\ OneTrack(q)
          /\ q.tiles # {} => \A d \in r.sent : Tells(s, q, d)
          /\ Rested(s) => (\A e \in q.tiles : Follows(s, r, e, T)) /\ SwitchedTo(q, T)
      BY <2>2, <3>2 DEF Switching, q
    <3>4. s.receive \subseteq s.current /\ OneEach(s.receive)
      BY <3>3 DEF Loose, Matched, Chosen
    <3>5. x \in q.current /\ Attendee[y] = Attendee[x]  BY <1>1, <3>1, <3>4
    <3>6. /\ Showing(u) /\ Shown(u) /\ OneTrack(u)
          /\ u.tiles # {} => /\ m \in DOMAIN q.track /\ q.track[m] = y
                             /\ u.track = [q.track EXCEPT ![m] = x]
      BY <2>7, <2>11, <3>3, <3>5
    <3>7. TileAttendee(q, x) = Attendee[x]  BY <3>5 DEF TileAttendee
    <3>8. u.tiles # {} <=> q.tiles # {}  BY <2>5
    <3>9. ASSUME u.tiles # {}, NEW d \in p.sent PROVE Tells(s, u, d)
      <4>1. CASE d = d0  BY <1>1, <2>4, <3>6, <3>9, <4>1 DEF Tells
      <4>2. CASE d \in r.sent
        <5>1. Tells(s, q, d)  BY <3>3, <3>8, <3>9, <4>2
        <5>2. d.mid # m  BY <1>1, <3>6, <3>9, <5>1 DEF Tells
        <5> QED  BY <3>6, <3>9, <5>1, <5>2 DEF Tells
      <4> QED  BY <2>6, <4>1, <4>2
    <3>10. ASSUME Rested(s), NEW e \in q.tiles
           PROVE  Follows(s, p, Turned(q, e, x), T \cup {x})
      <4> DEFINE d == Turned(q, e, x)
      <4>1. /\ d.at = e.at /\ d.attendee = e.attendee
            /\ d.stream = IF e.attendee = Attendee[x] THEN x ELSE e.stream
        BY <2>8, <3>7
      <4> SUFFICES Follows(s, p, d, T \cup {x})  OBVIOUS
      <4> HIDE DEF d
      <4>2. Follows(s, r, e, T) /\ Shows(q, e)  BY <3>3, <3>10 DEF Showing
      <4>3. q.track[e.at] = e.stream /\ e.stream # 0 /\ Attendee[e.stream] = e.attendee
            /\ e.at \in DOMAIN q.track
        BY <4>2, StreamsAssumption DEF Follows, Shows, q
      <4>4. m \in DOMAIN q.track /\ q.track[m] = y /\ u.track = [q.track EXCEPT ![m] = x]
        BY <3>6, <3>8
      <4>5. CASE e.attendee = Attendee[x]
        <5>1. e.at = m  BY <1>1, <3>3, <3>5, <4>3, <4>4, <4>5 DEF OneTrack
        <5>2. u.track[d.at] = d.stream /\ d0 \in p.sent /\ d0.mid = d.at
          BY <2>4, <2>6, <4>1, <4>4, <4>5, <5>1
        <5> QED  BY <2>6, <4>1, <4>5, <5>2 DEF Follows
      <4>6. CASE e.attendee # Attendee[x]
        <5>1. e.at # m  BY <3>5, <4>3, <4>4, <4>6
        <5>2. u.track[d.at] = d.stream  BY <4>1, <4>3, <4>4, <4>6, <5>1
        <5> QED  BY <2>6, <4>1, <4>2, <4>6, <5>2 DEF Follows
      <4> QED  BY <4>5, <4>6
    <3>11. ASSUME Rested(s), NEW z \in T \cup {x}, NEW e \in q.tiles,
                  Turned(q, e, x).attendee = Attendee[z]
           PROVE  Turned(q, e, x).stream = z
      <4>1. e.attendee = Attendee[z]  BY <2>8, <3>11
      <4>2. CASE e.attendee = Attendee[x]
        <5>1. z \in s.receive  BY <1>1 DEF Switched
        <5>2. z = x  BY <1>1, <3>4, <4>1, <4>2, <5>1 DEF OneEach
        <5> QED  BY <2>8, <3>7, <4>2, <5>2
      <4>3. CASE e.attendee # Attendee[x]
        <5>1. z \in T  BY <4>1, <4>3
        <5> QED  BY <2>8, <3>3, <3>7, <3>11, <4>1, <4>3, <5>1 DEF SwitchedTo
      <4> QED  BY <4>2, <4>3
    <3>12. ASSUME Rested(s)
           PROVE  (\A e \in u.tiles : Follows(s, p, e, T \cup {x})) /\ SwitchedTo(u, T \cup {x})
      BY <2>5, <3>10, <3>11, <3>12 DEF SwitchedTo
    <3> QED  BY <3>3, <3>6, <3>9, <3>12
  <2> QED  BY <2>5, <2>6, <2>9, <2>10, <2>11 DEF Switching
<1> QED  BY <1>2, <1>3

(* Every stream has been switched, and the server is told, or not all could be. *)
LEMMA SwitchAllTiled ==
  ASSUME NEW s, NEW f, NEW R, IsState(s), MapInv(s), SetInv(s), Loose(s, f, R),
         s.last \subseteq Streams, NEW t, t = SwitchAll(s).state
  PROVE  /\ SameTiles(s, t)
         /\ CleanIn(t) =>
              /\ CleanIn(s) /\ Showing(t) /\ Shown(t) /\ OneTrack(t)
              /\ Rested(s) /\ SwitchAll(s).done =>
                   /\ \A e \in t.tiles : /\ t.server[e.at] = e.stream
                                         /\ t.track[e.at] = e.stream
                                         /\ e.stream \in s.last \cup Switched(s)
                   /\ SwitchedTo(t, Switched(s))
<1> DEFINE base == [done |-> TRUE, state |-> s, sent |-> {}]
           S == Switched(s)
           r == Fold(s, base, S)
           sent(i) == {e \in r.sent : e.mid = i}
           served == [i \in DOMAIN r.state.server |->
                       IF sent(i) = {} THEN r.state.server[i]
                       ELSE (CHOOSE e \in sent(i) : TRUE).stream]
<1>1. Switching(s, base, {})
  <2>1. /\ DOMAIN base = {"done", "state", "sent"} /\ base.state = s /\ base.sent = {}
        /\ base.done
    OBVIOUS
  <2> HIDE DEF base
  <2>2. SameTiles(s, s)  BY DEF SameTiles, Loose
  <2>3. Differs(s, s, {"map", "track", "tiles", "raced"})  BY DEF Differs
  <2>4. ASSUME CleanIn(s), Rested(s), NEW e \in s.tiles PROVE Follows(s, base, e, {})
    <3>1. /\ s.server[e.at] = e.stream /\ s.track[e.at] = e.stream /\ e.stream \in LastOnes(s)
      BY <2>4 DEF Loose, Matched, Agreed, Rested
    <3> QED  BY <2>1, <3>1 DEF Follows, LastOnes
  <2>5. CleanIn(s) => Showing(s) /\ Shown(s) /\ OneTrack(s)  BY DEF Loose, Matched
  <2> QED  BY <2>1, <2>2, <2>3, <2>4, <2>5 DEF Switching, SwitchedTo
<1>2. S \in SUBSET Streams  BY DEF SetInv, Switched
<1>3. Switching(s, r, S)
  <2>1. PICK g : Iterates(g, s, base, S) /\ r = g[S]  BY <1>2, FoldIterates
  <2> DEFINE P == {T \in SUBSET S : Switching(s, g[T], T)}
  <2> HIDE DEF base, r, S
  <2>2. {} \in P  BY <1>1, <2>1, Iteration
  <2>3. ASSUME NEW T \in SUBSET S, T # {}, \A x \in T : T \ {x} \in P PROVE T \in P
    <3> DEFINE x == Max(T)
               U == T \ {x}
    <3>1. x \in T /\ x \in S  BY <1>2, <2>3, LastStream
    <3>2. Switching(s, g[U], U)  BY <2>3, <3>1
    <3>3. g[T] = SwitchOne(s, g[U], x)  BY <2>1, <2>3, Iteration
    <3>4. U \subseteq S /\ x \notin U /\ U \cup {x} = T  BY <3>1
    <3> HIDE DEF x, U
    <3>5. Switching(s, g[T], U \cup {x})  BY <3>1, <3>2, <3>3, <3>4, SwitchOneTiled DEF S
    <3> QED  BY <2>3, <3>4, <3>5
  <2>4. IsFiniteSet(S)  BY <1>2, StreamsAssumption, FS_Subset
  <2>5. S \in P
    <3> HIDE DEF P
    <3> QED  BY <2>2, <2>3, <2>4, SetInduction
  <2> QED  BY <2>1, <2>5
<1>4. SwitchAll(s) = IF ~r.done THEN [done |-> FALSE, state |-> r.state]
                     ELSE [done |-> TRUE, state |-> [r.state EXCEPT !.server = served]]
  BY DEF SwitchAll, Fold
<1> DEFINE q == r.state
<1>5. /\ SameTiles(s, q) /\ Differs(s, q, {"map", "track", "tiles", "raced"})
      /\ CleanIn(q) =>
           /\ CleanIn(s) /\ Showing(q) /\ Shown(q) /\ OneTrack(q)
           /\ q.tiles # {} => \A d \in r.sent : Tells(s, q, d)
           /\ Rested(s) => /\ \A e \in q.tiles : Follows(s, r, e, S)
                           /\ r.done => SwitchedTo(q, S)
  BY <1>3 DEF Switching
<1> HIDE DEF r, S
<1>6. CASE ~r.done
  <2>1. t = q /\ ~SwitchAll(s).done  BY <1>4, <1>6
  <2> HIDE DEF q
  <2> QED  BY <1>5, <2>1
<1>7. CASE r.done
  <2>0. t = [q EXCEPT !.server = served]  BY <1>4, <1>7
  <2>1. served = [i \in DOMAIN q.server |->
                   IF sent(i) = {} THEN q.server[i]
                   ELSE (CHOOSE e \in sent(i) : TRUE).stream]
    OBVIOUS
  <2> HIDE DEF q, served
  <2>2. Differs(q, t, {"server"}) /\ t.server = served
    BY <1>5, <2>0 DEF Differs, IsState, Fields
  <2>3. /\ t.tiles = q.tiles /\ t.track = q.track /\ t.trans = q.trans
        /\ t.raced = q.raced /\ t.misaligned = q.misaligned /\ q.server = s.server
    BY <1>5, <2>2 DEF Differs, Fields
  <2>4. SameTiles(s, t)  BY <1>5, <2>3 DEF SameTiles, OneTile
  <2>5. ASSUME CleanIn(t)
        PROVE  /\ CleanIn(s) /\ Showing(t) /\ Shown(t) /\ OneTrack(t)
               /\ Rested(s) => /\ \A e \in t.tiles : /\ t.server[e.at] = e.stream
                                                     /\ t.track[e.at] = e.stream
                                                     /\ e.stream \in s.last \cup S
                               /\ SwitchedTo(t, S)
    <3>1. CleanIn(q)  BY <2>3, <2>5 DEF CleanIn
    <3>2. /\ CleanIn(s) /\ Showing(q) /\ Shown(q) /\ OneTrack(q)
          /\ q.tiles # {} => \A d \in r.sent : Tells(s, q, d)
          /\ Rested(s) => (\A e \in q.tiles : Follows(s, r, e, S)) /\ SwitchedTo(q, S)
      BY <1>5, <1>7, <3>1
    <3>3. ASSUME NEW e \in q.tiles
          PROVE  /\ e.at \in DOMAIN t.server
                 /\ sent(e.at) = {} => t.server[e.at] = s.server[e.at]
                 /\ sent(e.at) # {} => t.server[e.at] = e.stream
      <4>1. Shows(q, e)  BY <3>2 DEF Showing
      <4>2. e.at \in DOMAIN q.server /\ e.at \in DOMAIN t.server  BY <2>1, <2>2, <4>1 DEF Shows
      <4>3. sent(e.at) = {} => t.server[e.at] = s.server[e.at]
        BY <2>1, <2>2, <2>3, <4>2
      <4>4. ASSUME sent(e.at) # {} PROVE t.server[e.at] = e.stream
        <5> DEFINE d == CHOOSE d \in sent(e.at) : TRUE
        <5>1. d \in sent(e.at)  BY <4>4
        <5>2. t.server[e.at] = d.stream  BY <2>1, <2>2, <4>2, <4>4
        <5>3. d \in r.sent /\ d.mid = e.at  BY <5>1
        <5> HIDE DEF d
        <5>4. Tells(s, q, d)  BY <3>2, <5>3
        <5>5. d.stream \in Streams  BY <5>4 DEF Tells, SetInv
        <5>6. q.track[e.at] = d.stream /\ d.stream # 0
          BY <5>3, <5>4, <5>5, StreamsAssumption DEF Tells
        <5> QED  BY <4>1, <5>2, <5>6 DEF Shows
      <4> QED  BY <4>2, <4>3, <4>4
    <3>4. ASSUME NEW e \in q.tiles PROVE Shows(t, e)
      <4>1. Shows(q, e)  BY <3>2 DEF Showing
      <4> QED  BY <2>3, <3>3, <4>1 DEF Shows
    <3>5. Showing(t) /\ Shown(t) /\ OneTrack(t)
      BY <2>3, <3>2, <3>4 DEF Showing, Shown, OneTrack
    <3>6. ASSUME Rested(s), NEW e \in t.tiles
          PROVE  /\ t.server[e.at] = e.stream /\ t.track[e.at] = e.stream
                 /\ e.stream \in s.last \cup S
      <4>1. e \in q.tiles /\ Follows(s, r, e, S)  BY <2>3, <3>2, <3>6
      <4>2. t.track[e.at] = e.stream /\ e.stream \in s.last \cup S
        BY <2>3, <4>1 DEF Follows, q
      <4>3. s.server[e.at] = e.stream \/ sent(e.at) # {}  BY <4>1 DEF Follows
      <4> QED  BY <3>3, <4>1, <4>2, <4>3
    <3>7. Rested(s) => SwitchedTo(t, S)  BY <2>3, <3>2 DEF SwitchedTo
    <3> QED  BY <3>2, <3>5, <3>6, <3>7
  <2> QED  BY <2>4, <2>5 DEF S
<1> QED  BY <1>6, <1>7

(* An update that was tried in place leaves the tiles formed, and agreed on when  *)
(* it could be done.                                                         *)
LEMMA TriedTiled ==
  ASSUME NEW s, NEW old, NEW f, NEW R, Ok(s, old), Loose(s, f, R),
         CleanIn(s) => ~Negotiating(s), NEW t, t = Tried(s)
  PROVE  /\ Formed(t, f, R) /\ Asked(t) /\ (CleanIn(t) => ~Negotiating(t))
         /\ Done(s) \/ s.step # "none" => Tiled(t, f, R)
<1> DEFINE q == updateRemoteVideosFromLastVideosToReceive(s)
           u == q.state
<1>0. t = [u EXCEPT !.last = s.receive]  BY DEF Tried
<1>1. CASE s.receive = {} \/ s.last \in {{}, NoSet}
  <2>1. q = [done |-> FALSE, state |-> s]
    BY <1>1 DEF updateRemoteVideosFromLastVideosToReceive
  <2>2. u = s /\ ~Done(s)  BY <2>1 DEF Done
  <2> HIDE DEF u
  <2>3. Differs(s, t, {"last"}) /\ t.last = s.receive
    BY <1>0, <2>2 DEF Ok, Differs, IsState, Fields
  <2>4. /\ SameShown(s, t) /\ SameAsked(s, t) /\ t.step = s.step /\ t.retrying = s.retrying
        /\ t.raced = s.raced /\ t.misaligned = s.misaligned
    BY <2>3 DEF Differs, Fields, SameShown, SameAsked
  <2>5. Chosen(t, f, R) /\ OneTile(t)
    BY <2>4 DEF Loose, Chosen, OneTile, SameAsked, SameShown
  <2>6. ASSUME CleanIn(t)
        PROVE  /\ t.receive \subseteq t.current /\ Showing(t) /\ Shown(t) /\ OneTrack(t)
               /\ Idle(t) /\ Placed(t) /\ Told(t, R) /\ ~Negotiating(t)
    <3>1. Matched(s, R) /\ ~Negotiating(s)  BY <2>4, <2>6 DEF Loose, CleanIn
    <3>2. ~Negotiating(t)  BY <2>4, <3>1 DEF Negotiating
    <3>3. Showing(t) /\ Shown(t) /\ OneTrack(t)
      BY <2>4, <3>1 DEF Matched, Showing, Shows, Shown, OneTrack, SameShown
    <3>4. Idle(t)  BY <2>4, <3>1 DEF Matched, Idle, Negotiating, SameShown
    <3>5. Placed(t) /\ Told(t, R)  BY <3>2 DEF Placed, Told, Negotiating
    <3> QED  BY <2>4, <3>1, <3>2, <3>3, <3>4, <3>5 DEF Matched, SameAsked
  <2>7. Formed(t, f, R)  BY <2>5, <2>6 DEF Formed
  <2>8. Asked(t)  BY <2>3, <2>4 DEF Asked, SameAsked
  <2>9. ASSUME Done(s) \/ s.step # "none" PROVE Agreed(t, R)
    BY <2>2, <2>4, <2>9 DEF Agreed
  <2> QED  BY <2>6, <2>7, <2>8, <2>9, LooseIs DEF Tiled
<1>2. CASE ~(s.receive = {} \/ s.last \in {{}, NoSet})
  <2> DEFINE r == SwitchAll(s)
             added == (s.receive \ s.last) \ Switched(s)
             removed == (s.last \ s.receive) \ {Replaced(s, x) : x \in Switched(s)}
             d == r.done /\ added = {} /\ removed = {}
             v == r.state
  <2>1. q = [r EXCEPT !.done = d]
    BY <1>2 DEF updateRemoteVideosFromLastVideosToReceive
  <2>2. DOMAIN r = {"done", "state"}  BY DEF SwitchAll
  <2>3. s.last \subseteq Streams  BY <1>2 DEF Ok, SetInv
  <2>4. Differs(s, v, {"map", "track", "tiles", "raced", "server"})
    BY SwitchAllIs DEF Ok
  <2>5. /\ SameTiles(s, v)
        /\ CleanIn(v) =>
             /\ CleanIn(s) /\ Showing(v) /\ Shown(v) /\ OneTrack(v)
             /\ Rested(s) /\ r.done =>
                  /\ \A e \in v.tiles : /\ v.server[e.at] = e.stream
                                        /\ v.track[e.at] = e.stream
                                        /\ e.stream \in s.last \cup Switched(s)
                  /\ SwitchedTo(v, Switched(s))
    BY <2>3, SwitchAllTiled DEF Ok
  <2> DEFINE done == r.done
  <2> HIDE DEF r, added, removed
  <2>6. u = v /\ (Done(s) <=> done /\ added = {} /\ removed = {})
    BY <2>1, <2>2 DEF Done
  <2> HIDE DEF q, u, v, done
  <2>7. Differs(v, t, {"last"}) /\ t.last = s.receive
    BY <1>0, <2>4, <2>6 DEF Differs, IsState, Fields
  <2>8. /\ SameShown(v, t) /\ SameAsked(s, t) /\ t.step = s.step /\ t.retrying = s.retrying
        /\ t.raced = v.raced /\ t.misaligned = v.misaligned /\ t.trans = s.trans
    BY <2>4, <2>7 DEF Differs, Fields, SameShown, SameAsked
  <2>9. Chosen(t, f, R) /\ OneTile(t)
    BY <2>5, <2>8 DEF Loose, Chosen, SameTiles, OneTile, SameAsked, SameShown
  <2>10. ASSUME CleanIn(t)
         PROVE  /\ t.receive \subseteq t.current /\ Showing(t) /\ Shown(t) /\ OneTrack(t)
                /\ Idle(t) /\ Placed(t) /\ Told(t, R) /\ ~Negotiating(t)
    <3>1. CleanIn(v)  BY <2>8, <2>10 DEF CleanIn
    <3>2. CleanIn(s) /\ Showing(v) /\ Shown(v) /\ OneTrack(v)  BY <2>5, <3>1
    <3>3. Matched(s, R) /\ ~Negotiating(s)  BY <3>2 DEF Loose
    <3>4. ~Negotiating(t)  BY <2>8, <3>3 DEF Negotiating
    <3>5. Showing(t) /\ Shown(t) /\ OneTrack(t)
      BY <2>8, <3>2 DEF Showing, Shows, Shown, OneTrack, SameShown
    <3>6. Idle(t)  BY <2>8, <3>3 DEF Matched, Idle, Negotiating
    <3>7. Placed(t) /\ Told(t, R)  BY <3>4 DEF Placed, Told, Negotiating
    <3> QED  BY <2>8, <3>3, <3>4, <3>5, <3>6, <3>7 DEF Matched, SameAsked
  <2>11. Formed(t, f, R)  BY <2>9, <2>10 DEF Formed
  <2>12. Asked(t)  BY <2>7, <2>8 DEF Asked, SameAsked
  <2>13. ASSUME CleanIn(t), Done(s), Rested(s)
         PROVE  /\ \A e \in t.tiles : /\ t.server[e.at] = e.stream
                                       /\ t.track[e.at] = e.stream
                                       /\ e.stream \in s.receive
                /\ \A x \in s.receive :
                     (\E e \in t.tiles : e.attendee = Attendee[x]) \/ Group[x] \in R
    <3>1. CleanIn(v) /\ done /\ added = {} /\ removed = {}
      BY <2>6, <2>8, <2>13 DEF CleanIn
    <3>2. /\ CleanIn(s) /\ SwitchedTo(v, Switched(s)) /\ Showing(v)
          /\ \A e \in v.tiles : /\ v.server[e.at] = e.stream
                                /\ v.track[e.at] = e.stream
                                /\ e.stream \in s.last \cup Switched(s)
      BY <2>5, <2>13, <3>1 DEF done
    <3>3. Matched(s, R)  BY <3>2 DEF Loose
    <3>4. ASSUME NEW x \in Switched(s)
          PROVE  /\ x \in s.receive /\ Replaced(s, x) \in s.last
                 /\ Group[Replaced(s, x)] = Group[x] /\ Attendee[Replaced(s, x)] = Attendee[x]
      <4>1. x \in s.receive  BY <2>3, ReplacedIs DEF Ok
      <4>2. x \in s.current  BY <3>3, <4>1 DEF Matched
      <4> QED  BY <2>3, <4>1, <4>2, ReplacedIs DEF Ok
    <3>5. ASSUME NEW e \in v.tiles, e.stream \notin s.receive PROVE FALSE
      <4>1. e.stream \in s.last  BY <3>2, <3>4, <3>5
      <4>2. PICK x \in Switched(s) : e.stream = Replaced(s, x)
        BY <3>1, <3>5, <4>1 DEF removed
      <4>3. e.attendee = Attendee[x]  BY <3>2, <3>4, <4>2 DEF Showing, Shows
      <4> QED  BY <3>2, <3>4, <3>5, <4>3 DEF SwitchedTo
    <3>6. ASSUME NEW y \in s.last
          PROVE  (\E e \in v.tiles : e.attendee = Attendee[y]) \/ Group[y] \in R
      <4>1. (\E e \in s.tiles : e.attendee = Attendee[y]) \/ Group[y] \in R
        BY <1>2, <2>13, <3>3 DEF Matched, Agreed, Rested, LastOnes
      <4> QED  BY <2>5, <4>1 DEF SameTiles
    <3>7. ASSUME NEW x \in s.receive
          PROVE  (\E e \in v.tiles : e.attendee = Attendee[x]) \/ Group[x] \in R
      <4>1. CASE x \in s.last  BY <3>6, <4>1
      <4>2. CASE x \notin s.last
        <5>1. x \in Switched(s)  BY <3>1, <4>2 DEF added
        <5> QED  BY <3>4, <3>6, <5>1
      <4> QED  BY <4>1, <4>2
    <3> QED  BY <2>8, <3>2, <3>5, <3>7 DEF SameShown
  <2>14. ASSUME CleanIn(t), Done(s) \/ s.step # "none" PROVE Agreed(t, R)
    <3>1. LastOnes(t) = s.receive
      <4>1. s.receive # NoSet  BY NoSetIs DEF Ok, SetInv
      <4> QED  BY <2>7, <4>1 DEF LastOnes
    <3> QED  BY <2>8, <2>13, <2>14, <3>1 DEF Agreed, Rested
  <2> QED  BY <2>10, <2>11, <2>12, <2>14, LooseIs DEF Tiled
<1> QED  BY <1>1, <1>2

(* An update, in place or by a negotiation. *)
LEMMA UpdateInPlaceTiled ==
  ASSUME NEW s, NEW old, NEW f, NEW R, Ok(s, old), Loose(s, f, R),
         CleanIn(s) => ~Negotiating(s), NEW r, r = updateInPlace(s)
  PROVE  Tiled(r.state, f, R)
<1> DEFINE u == Tried(s)
           p == perform(u, "update")
<1>1. r = [done |-> Done(s), state |-> IF Done(s) THEN u ELSE p]
  <2> DEFINE tried(q) ==
        [done |-> q.done, state |-> IF q.done THEN [q.state EXCEPT !.last = s.receive]
                                   ELSE perform([q.state EXCEPT !.last = s.receive], "update")]
             q == updateRemoteVideosFromLastVideosToReceive(s)
             U == {tried(v) : v \in {q}}
  <2>1. r = CHOOSE v \in U : TRUE  BY DEF updateInPlace
  <2>2. U = {tried(q)}  OBVIOUS
  <2>3. tried(q) = [done |-> Done(s), state |-> IF Done(s) THEN u ELSE p]
    BY DEF Tried, Done
  <2> HIDE DEF U, tried, q, u, p
  <2> QED  BY <2>1, <2>2, <2>3
<1>2. Ok(u, old) /\ SameFlow(s, u)  BY TriedOk
<1>3. /\ Formed(u, f, R) /\ Asked(u) /\ (CleanIn(u) => ~Negotiating(u))
      /\ Done(s) \/ s.step # "none" => Tiled(u, f, R)
  BY TriedTiled
<1> HIDE DEF u
<1>4. CASE Done(s)  BY <1>1, <1>3, <1>4
<1>5. CASE ~Done(s) /\ s.step # "none"
  BY <1>1, <1>2, <1>3, <1>5, PerformTiled DEF Tiled
<1>6. CASE ~Done(s) /\ s.step = "none"
  <2>1. u.session = "connected"  BY <1>2, <1>6 DEF Ok, Flow, SameFlow, SameBeside
  <2>2. p = Begin(u)  BY <2>1 DEF perform
  <2> HIDE DEF p
  <2>3. Differs(u, p, {"session", "step", "indexPaused", "monitorPaused"}) /\ p.step = "attach"
    BY <1>2, <2>2 DEF Begin, Ok, Differs, IsState, Fields
  <2>4. /\ SameShown(u, p) /\ SameAsked(u, p) /\ p.last = u.last
        /\ p.raced = u.raced /\ p.misaligned = u.misaligned
    BY <2>3 DEF Differs, Fields, SameShown, SameAsked
  <2>5. ~Negotiating(p)  BY <2>3 DEF Negotiating
  <2>6. Loose(p, f, R)  BY <1>3, <2>3, <2>4, <2>5, LooseStops DEF CleanIn
  <2> QED  BY <1>1, <1>3, <1>6, <2>4, <2>6 DEF Tiled, Asked, SameAsked
<1> QED  BY <1>4, <1>5, <1>6

(* A frame, and what is asked for because of it. *)
LEMMA IngestTiled ==
  ASSUME NEW s, NEW old, NEW f \in SUBSET Streams, NEW R, Ok(s, old), Tiled(s, f, R),
         NEW r, r = ingest(s, f)
  PROVE  Tiled(r.state, f, R)
<1> DEFINE t == Indexed(s, f)
           q == AskedOfFrame(s, f)
           w == RacedByFrame(s, f)
<1>1. r = IF wantsResubscribe(t) THEN updateInPlace(q) ELSE [done |-> FALSE, state |-> w]
  BY DEF ingest, NoUpdate, Indexed, AskedOfFrame, RacedByFrame
<1>2. Ok(q, f)  BY FrameOk
<1>3. /\ Loose(q, f, R) /\ (CleanIn(q) => ~Negotiating(q))
      /\ ~wantsResubscribe(t) => Tiled(w, f, R)
  BY FrameTiled
<1> HIDE DEF t, q, w
<1>4. CASE wantsResubscribe(t)  BY <1>1, <1>2, <1>3, <1>4, UpdateInPlaceTiled
<1>5. CASE ~wantsResubscribe(t)  BY <1>1, <1>3, <1>5
<1> QED  BY <1>4, <1>5

(* A report, and what is asked for because of it. *)
LEMMA ResubscribeTiled ==
  ASSUME NEW s, NEW f, NEW R, Ok(s, f), Tiled(s, f, R), NEW r, r = resubscribe(s)
  PROVE  Tiled(r.state, f, R)
<1> DEFINE t == Reported(s)
           q == AskedOfReport(s)
<1>1. r = IF wantsResubscribe(t) THEN updateInPlace(q) ELSE [done |-> FALSE, state |-> t]
  BY DEF resubscribe, NoUpdate, Reported, AskedOfReport
<1>2. Ok(q, f)  BY ReportOk
<1>3. Tiled(t, f, R) /\ Loose(q, f, R) /\ (CleanIn(q) => ~Negotiating(q))
  BY ReportTiled
<1> HIDE DEF t, q
<1>4. CASE wantsResubscribe(t)  BY <1>1, <1>2, <1>3, <1>4, UpdateInPlaceTiled
<1>5. CASE ~wantsResubscribe(t)  BY <1>1, <1>3, <1>5
<1> QED  BY <1>4, <1>5

(* What is resumed. *)
LEMMA ResumeOneTiled ==
  ASSUME NEW s, NEW f \in SUBSET Streams, NEW R, Ok(s, f), Tiled(s, f, R)
  PROVE  Tiled(resumeIngestion(s).state, f, R) /\ Tiled(resumeResubscribeCheck(s).state, f, R)
<1>1. Tiled(resumeIngestion(s).state, f, R)
  <2>1. CASE s.indexPaused /\ s.pendingIndex # NoSet
    <3>1. resumeIngestion(s) = ingest(s, s.pendingIndex)  BY <2>1 DEF resumeIngestion
    <3>2. s.pendingIndex = f  BY <2>1, WaitingIs
    <3> QED  BY <3>1, <3>2, IngestTiled
  <2>2. CASE ~(s.indexPaused /\ s.pendingIndex # NoSet)
    <3> DEFINE t == [s EXCEPT !.indexPaused = FALSE]
    <3>1. resumeIngestion(s) = [done |-> FALSE, state |-> t]
      BY <2>2 DEF resumeIngestion, NoUpdate
    <3>2. Differs(s, t, {"indexPaused"})  BY DEF Ok, Differs, IsState, Fields
    <3> HIDE DEF t
    <3>3. /\ SameShown(s, t) /\ SameAsked(s, t) /\ SameRest(s, t)
          /\ t.raced = s.raced /\ t.misaligned = s.misaligned
      BY <3>2 DEF Differs, Fields, SameShown, SameAsked, SameRest
    <3> QED  BY <3>1, <3>3, LooseFrames DEF CleanIn
  <2> QED  BY <2>1, <2>2
<1>2. Tiled(resumeResubscribeCheck(s).state, f, R)
  <2>1. CASE s.monitorPaused /\ s.pendingReport
    <3>1. resumeResubscribeCheck(s) = resubscribe(s)  BY <2>1 DEF resumeResubscribeCheck
    <3> QED  BY <3>1, ResubscribeTiled
  <2>2. CASE ~(s.monitorPaused /\ s.pendingReport)
    <3> DEFINE t == [s EXCEPT !.monitorPaused = FALSE]
    <3>1. resumeResubscribeCheck(s) = [done |-> FALSE, state |-> t]
      BY <2>2 DEF resumeResubscribeCheck, NoUpdate
    <3>2. Differs(s, t, {"monitorPaused"})  BY DEF Ok, Differs, IsState, Fields
    <3> HIDE DEF t
    <3>3. /\ SameShown(s, t) /\ SameAsked(s, t) /\ SameRest(s, t)
          /\ t.raced = s.raced /\ t.misaligned = s.misaligned
      BY <3>2 DEF Differs, Fields, SameShown, SameAsked, SameRest
    <3> QED  BY <3>1, <3>3, LooseFrames DEF CleanIn
  <2> QED  BY <2>1, <2>2
<1> QED  BY <1>1, <1>2

(* All that is to be resumed is. *)
LEMMA ResumeTiled ==
  ASSUME NEW s, NEW f \in SUBSET Streams, NEW R, Ok(s, f), Tiled(s, f, R),
         NEW calls, calls \in {<<"check", "ingestion">>, <<"ingestion", "check">>},
         NEW t, t = resume(s, calls)
  PROVE  Tiled(t, f, R)
<1> DEFINE g == CHOOSE g : g = [k \in 0..6 |-> IF k = 0 THEN [state |-> s, calls |-> calls]
                                               ELSE resumeNext(g[k - 1])]
<1>1. \E h : After(h, s, calls, 6)
  <2>0. After([k \in 0..0 |-> [state |-> s, calls |-> calls]], s, calls, 0)  BY DEF After
  <2>1. \E h : After(h, s, calls, 1)  BY <2>0, AfterNext
  <2>2. \E h : After(h, s, calls, 2)  BY <2>1, AfterNext
  <2>3. \E h : After(h, s, calls, 3)  BY <2>2, AfterNext
  <2>4. \E h : After(h, s, calls, 4)  BY <2>3, AfterNext
  <2>5. \E h : After(h, s, calls, 5)  BY <2>4, AfterNext
  <2> QED  BY <2>5, AfterNext
<1>2. After(g, s, calls, 6)
  <2>1. PICK h : After(h, s, calls, 6)  BY <1>1
  <2> QED  BY <2>1 DEF After
<1>3. t = g[6].state  BY DEF resume
<1> HIDE DEF g
<1>4. g[0] = [state |-> s, calls |-> calls]  BY <1>2 DEF After
<1> DEFINE Good(n) == Ok(g[n].state, f) /\ Tiled(g[n].state, f, R)
<1>5. Good(0)  BY <1>4
<1>6. ASSUME NEW n \in 0..5, Good(n) PROVE Good(n + 1)
  <2>1. n + 1 \in 0..6 /\ n + 1 # 0 /\ (n + 1) - 1 = n  OBVIOUS
  <2>2. g[n + 1] = resumeNext(g[n])  BY <1>2, <2>1 DEF After
  <2> DEFINE r == g[n]
  <2>3. CASE r.calls = <<>>  BY <1>6, <2>2, <2>3 DEF resumeNext
  <2>4. CASE r.calls # <<>>
    <3> DEFINE q == IF Head(r.calls) = "check" THEN resumeResubscribeCheck(r.state)
                    ELSE resumeIngestion(r.state)
    <3>1. g[n + 1].state = q.state  BY <2>2, <2>4 DEF resumeNext
    <3>2. Ok(q.state, f) /\ Tiled(q.state, f, R)
      <4>1. CASE Head(r.calls) = "check"  BY <1>6, <4>1, ResumeCheckOk, ResumeOneTiled
      <4>2. CASE Head(r.calls) # "check"  BY <1>6, <4>2, ResumeIngestionOk, ResumeOneTiled
      <4> QED  BY <4>1, <4>2
    <3> HIDE DEF q
    <3> QED  BY <3>1, <3>2
  <2> QED  BY <2>3, <2>4
<1> HIDE DEF Good
<1>7. Good(1)  BY <1>5, <1>6
<1>8. Good(2)  BY <1>6, <1>7
<1>9. Good(3)  BY <1>6, <1>8
<1>10. Good(4)  BY <1>6, <1>9
<1>11. Good(5)  BY <1>6, <1>10
<1>12. Good(6)  BY <1>6, <1>11
<1> QED  BY <1>3, <1>12 DEF Good

(* An update in place is finished, a negotiation is still to be made. *)
LEMMA FinishTiled ==
  ASSUME NEW r, NEW f \in SUBSET Streams, NEW R, Ok(r.state, f), Tiled(r.state, f, R),
         NEW t, t = finish(r)
  PROVE  Tiled(t, f, R)
<1>1. CASE r.done
  BY <1>1, ResumeTiled DEF finish, actionFinishUpdating
<1>2. CASE ~r.done  BY <1>2 DEF finish
<1> QED  BY <1>1, <1>2

(* A frame that is handled, or waits. *)
LEMMA HandleTiled ==
  ASSUME NEW s, NEW old, NEW f \in SUBSET Streams, NEW R, Ok(s, old), Tiled(s, f, R),
         NEW t, t = handleIndexFrame(s, f)
  PROVE  Tiled(t, f, R)
<1>1. CASE s.indexPaused
  <2>1. t = [s EXCEPT !.pendingIndex = f]  BY <1>1 DEF handleIndexFrame
  <2>2. Differs(s, t, {"pendingIndex"})  BY <2>1 DEF Ok, Differs, IsState, Fields
  <2>3. /\ SameShown(s, t) /\ SameAsked(s, t) /\ SameRest(s, t)
        /\ t.raced = s.raced /\ t.misaligned = s.misaligned
    BY <2>2 DEF Differs, Fields, SameShown, SameAsked, SameRest
  <2> QED  BY <2>3, LooseFrames DEF CleanIn
<1>2. CASE ~s.indexPaused
  <2> DEFINE r == ingest(s, f)
  <2>1. t = finish(r)  BY <1>2 DEF handleIndexFrame
  <2>2. Ok(r.state, f) /\ Tiled(r.state, f, R)  BY IngestOk, IngestTiled
  <2> HIDE DEF r
  <2> QED  BY <2>1, <2>2, FinishTiled
<1> QED  BY <1>1, <1>2

-----------------------------------------------------------------------------
(* The steps of a negotiation. *)

(* Streams of different rank are different. *)
LEMMA RankDiffers ==
  ASSUME NEW S \in SUBSET Streams, NEW x \in S, NEW y \in S, Rank(S, x) = Rank(S, y)
  PROVE  x = y
<1>1. ASSUME NEW a \in S, NEW b \in S, a <= b, Rank(S, a) = Rank(S, b) PROVE a = b
  <2> DEFINE A == {z \in S : z <= a}
             B == {z \in S : z <= b}
  <2>1. \A z \in S : z \in Nat  BY StreamsAssumption
  <2>2. A \in SUBSET B  BY <1>1, <2>1
  <2>3. IsFiniteSet(B)  BY StreamsAssumption, FS_Subset
  <2>4. Cardinality(A) = Cardinality(B)  BY <1>1 DEF Rank
  <2>5. A = B
    <3> HIDE DEF A, B
    <3> QED  BY <2>2, <2>3, <2>4, FS_Subset
  <2>6. b <= a  BY <2>1, <2>5
  <2> QED  BY <1>1, <2>1, <2>6
<1>2. x \in Nat /\ y \in Nat  BY StreamsAssumption
<1>3. x <= y \/ y <= x  BY <1>2
<1> QED  BY <1>1, <1>3

(* The streams that no transceiver of before is for. *)
Added(s) == s.receive \ {Gets(s, i) : i \in 1..Len(s.trans)}
(* The transceivers that are chosen: those of before, for what they get, and new *)
(* ones for the streams that are added.                                      *)
LEMMA AttachedIs ==
  ASSUME NEW s, IsState(s), MapInv(s), SetInv(s), NEW t, t = updateVideoTransceivers(s)
  PROVE  /\ Len(s.trans) \in Nat /\ Cardinality(Added(s)) \in Nat
         /\ DOMAIN t.trans = 1..(Len(s.trans) + Cardinality(Added(s)))
         /\ \A i \in 1..Len(s.trans) :
              /\ t.trans[i].receiving = s.trans[i].receiving
              /\ Gets(s, i) # 0 => t.trans[i].dir = "recvonly"
         /\ \A k \in 1..Cardinality(Added(s)) : t.trans[Len(s.trans) + k] = New
         /\ \A x \in s.receive :
              /\ x \in Added(s) => t.map[x].at = Len(s.trans) + Rank(Added(s), x)
              /\ x \notin Added(s) =>
                   t.map[x].at \in 1..Len(s.trans) /\ Gets(s, t.map[x].at) = x
         /\ t.raced =
              (s.raced \/ \E i \in 1..Len(s.trans) : Takes(s, i) \notin {0, streamIdForTrack(s, i)})
<1> DEFINE n == Len(s.trans)
           added == s.receive \ {Gets(s, i) : i \in 1..n}
           At(x) == IF x \in added THEN n + Rank(added, x)
                    ELSE CHOOSE i \in 1..n : Gets(s, i) = x
           Dropped(x) == \E i \in 1..n :
             \/ Takes(s, i) # 0 /\ streamIdForTrack(s, i) = x
             \/ Released(s, i) /\ IF canStop THEN getMidForStreamId(s, x) = i ELSE s.map[x].at = i
           dir(i) == IF Gets(s, i) # 0 THEN "recvonly"
                     ELSE IF Released(s, i) THEN (IF canStop THEN "stopped" ELSE "inactive")
                     ELSE s.trans[i].dir
           turned(i) == [s.trans[i] EXCEPT !.dir = dir(i)]
           old == [i \in 1..n |-> turned(i)]
           new == [k \in 1..Cardinality(added) |-> New]
           trans1 == old \o new
           map1 == [x \in Streams |->
                     IF x \in s.receive THEN [at |-> At(x), mid |-> 0]
                     ELSE IF Dropped(x) THEN Absent ELSE s.map[x]]
           raced1 == s.raced \/ \E i \in 1..n : Takes(s, i) \notin {0, streamIdForTrack(s, i)}
<1>1. t = [s EXCEPT !.trans = trans1, !.map = map1, !.attached = s.receive, !.raced = raced1]
  BY DEF updateVideoTransceivers
<1>2. n \in Nat /\ \A i \in 1..n : s.trans[i] \in Transceivers  BY DEF MapInv
<1>3. added \in SUBSET Streams /\ s.receive \in SUBSET Streams  BY DEF SetInv
<1>4. Cardinality(added) \in Nat  BY <1>3, StreamsAssumption, FS_Subset, FS_CardinalityType
<1>5. /\ \A i \in 1..n : turned(i) \in Transceivers
      /\ \A i \in 1..n : turned(i).receiving = s.trans[i].receiving
      /\ \A i \in 1..n : Gets(s, i) # 0 => turned(i).dir = "recvonly"
  <2>1. \A i \in 1..n : dir(i) \in {"recvonly", "inactive", "stopped", "gone"}
    BY <1>2 DEF Transceivers
  <2>2. \A i \in 1..n : Gets(s, i) # 0 => dir(i) = "recvonly"  OBVIOUS
  <2> HIDE DEF dir, n
  <2> QED  BY <1>2, <2>1, <2>2 DEF Transceivers
<1>6. /\ DOMAIN trans1 = 1..(n + Cardinality(added))
      /\ \A i \in 1..n : trans1[i] = turned(i)
      /\ \A k \in 1..Cardinality(added) : trans1[n + k] = New
  <2> HIDE DEF n, turned, added
  <2>1. old \in Seq(Transceivers) /\ Len(old) = n /\ \A i \in 1..n : old[i] = turned(i)
    BY <1>2, <1>5
  <2>2. New \in Transceivers  BY DEF New, Transceivers
  <2>3. /\ new \in Seq(Transceivers) /\ Len(new) = Cardinality(added)
        /\ \A k \in 1..Cardinality(added) : new[k] = New
    BY <1>4, <2>2
  <2> HIDE DEF old, new
  <2>4. trans1 \in Seq(Transceivers) /\ Len(trans1) = n + Cardinality(added)  BY <2>1, <2>3
  <2> QED  BY <1>2, <1>4, <2>1, <2>3, <2>4
<1>7. \A x \in s.receive : map1[x].at = At(x)  BY <1>3
<1>8. ASSUME NEW x \in s.receive, x \notin added PROVE At(x) \in 1..n /\ Gets(s, At(x)) = x
  <2>1. \E i \in 1..n : Gets(s, i) = x  BY <1>8
  <2> QED  BY <1>8, <2>1
<1>9. \A x \in added : At(x) = n + Rank(added, x)  OBVIOUS
<1> HIDE DEF trans1, map1, raced1, At
<1>10. t.trans = trans1 /\ t.map = map1 /\ t.raced = raced1
  BY <1>1 DEF IsState, Fields
<1>11. Added(s) = added  BY DEF Added
<1> HIDE DEF added
<1> QED  BY <1>2, <1>4, <1>5, <1>6, <1>7, <1>8, <1>9, <1>10, <1>11 DEF raced1

(* A transceiver under a tile is chosen for the tile's stream, or for none. *)
LEMMA AttachTiled ==
  ASSUME NEW s, NEW old, NEW f, NEW R, Ok(s, old), Tiled(s, f, R), s.step = "attach",
         NEW t, t = [updateVideoTransceivers(s) EXCEPT !.step = "describe"]
  PROVE  Tiled(t, f, R)
<1> DEFINE u == updateVideoTransceivers(s)
           n == Len(s.trans)
           added == Added(s)
<1>1. /\ Differs(s, u, {"trans", "map", "attached", "raced"}) /\ u.attached = s.receive
  BY TransceiversAre DEF Ok
<1>2. /\ n \in Nat /\ Cardinality(added) \in Nat
      /\ DOMAIN u.trans = 1..(n + Cardinality(added))
      /\ \A i \in 1..n : /\ u.trans[i].receiving = s.trans[i].receiving
                         /\ Gets(s, i) # 0 => u.trans[i].dir = "recvonly"
      /\ \A k \in 1..Cardinality(added) : u.trans[n + k] = New
      /\ \A x \in s.receive :
           /\ x \in added => u.map[x].at = n + Rank(added, x)
           /\ x \notin added => u.map[x].at \in 1..n /\ Gets(s, u.map[x].at) = x
      /\ u.raced = (s.raced \/ \E i \in 1..n : Takes(s, i) \notin {0, streamIdForTrack(s, i)})
  BY AttachedIs DEF Ok
<1>3. DOMAIN s.trans = 1..n  BY DEF Ok, MapInv
<1>4. added \subseteq s.receive /\ s.receive \in SUBSET Streams /\ added \in SUBSET Streams
  BY DEF Added, Ok, SetInv
<1>5. \A x \in added : Rank(added, x) \in 1..Cardinality(added)
  <2> HIDE DEF added
  <2> QED  BY <1>4, RankIs
<1> HIDE DEF u, n, added
<1>6. Differs(u, t, {"step"}) /\ t.step = "describe"
  BY <1>1 DEF Differs, IsState, Fields, u
<1>7. /\ t.trans = u.trans /\ t.map = u.map /\ t.raced = u.raced /\ t.attached = s.receive
      /\ t.receive = s.receive /\ t.current = s.current /\ t.optimal = s.optimal
      /\ t.tiles = s.tiles /\ t.server = s.server /\ t.track = s.track /\ t.last = s.last
      /\ t.misaligned = s.misaligned /\ t.retrying = s.retrying
  BY <1>1, <1>6 DEF Differs, Fields
<1>8. Chosen(t, f, R) /\ OneTile(t) /\ Asked(t)
  BY <1>7 DEF Tiled, Loose, Chosen, OneTile, Asked
<1>9. ASSUME CleanIn(t) PROVE Matched(t, R)
  <2>1. CleanIn(s) /\ \A i \in 1..n : Takes(s, i) \in {0, streamIdForTrack(s, i)}
    BY <1>2, <1>7, <1>9 DEF CleanIn
  <2>2. Matched(s, R)  BY <2>1 DEF Tiled, Loose
  <2>3. 1..n \subseteq DOMAIN t.trans  BY <1>2, <1>7
  <2>4. ASSUME NEW e \in s.tiles
        PROVE  e.at \in 1..n /\ Shows(s, e)
    BY <1>3, <2>2 DEF Ok, MapInv, Matched, Showing
  <2>5. Showing(t)
    <3> SUFFICES ASSUME NEW e \in s.tiles PROVE Shows(t, e)  BY <1>7 DEF Showing
    <3> QED  BY <1>2, <1>7, <2>4 DEF Shows
  <2>6. Shown(t)
    <3> SUFFICES ASSUME NEW i \in DOMAIN t.trans, t.trans[i].receiving
                 PROVE  \E e \in s.tiles : e.at = i
      BY <1>7 DEF Shown
    <3>1. CASE i \in 1..n
      <4>1. s.trans[i].receiving  BY <1>2, <1>7, <3>1
      <4> QED  BY <1>3, <2>2, <3>1, <4>1 DEF Matched, Shown
    <3>2. CASE i \notin 1..n
      <4>1. i \in 1..(n + Cardinality(added))  BY <1>2, <1>7
      <4>2. i - n \in 1..Cardinality(added) /\ n + (i - n) = i  BY <1>2, <3>2, <4>1
      <4>3. t.trans[i] = New  BY <1>2, <1>7, <4>2
      <4> QED  BY <4>3 DEF New
    <3> QED  BY <3>1, <3>2
  <2>7. OneTrack(t)  BY <1>7, <2>2 DEF Matched, OneTrack
  <2>8. Idle(t) /\ Told(t, R) /\ Agreed(t, R)
    BY <1>6 DEF Idle, Negotiating, Told, Agreed
  <2>9. ASSUME NEW x \in s.receive
        PROVE  t.map[x].at \in DOMAIN t.trans /\ t.trans[t.map[x].at].dir = "recvonly"
    <3>1. CASE x \in added
      <4> DEFINE k == Rank(added, x)
      <4>1. t.map[x].at = n + k /\ k \in 1..Cardinality(added)  BY <1>2, <1>5, <1>7, <3>1
      <4> HIDE DEF k
      <4>2. n + k \in 1..(n + Cardinality(added))  BY <1>2, <4>1
      <4>3. t.trans[n + k] = New  BY <1>2, <1>7, <4>1
      <4> QED  BY <1>2, <1>7, <4>1, <4>2, <4>3 DEF New
    <3>2. CASE x \notin added
      <4>1. t.map[x].at \in 1..n /\ Gets(s, t.map[x].at) = x  BY <1>2, <1>7, <3>2
      <4>2. x # 0  BY <1>4, StreamsAssumption
      <4> QED  BY <1>2, <1>7, <2>3, <4>1, <4>2
    <3> QED  BY <3>1, <3>2
  <2>10. ASSUME NEW x \in s.receive, NEW y \in s.receive, t.map[x].at = t.map[y].at PROVE x = y
    <3>1. ASSUME NEW z \in added PROVE t.map[z].at \notin 1..n
      <4>1. t.map[z].at = n + Rank(added, z) /\ Rank(added, z) \in 1..Cardinality(added)
        BY <1>2, <1>4, <1>5, <1>7
      <4> QED  BY <1>2, <4>1
    <3>2. CASE x \in added /\ y \in added
      <4> DEFINE k == Rank(added, x)
                 l == Rank(added, y)
      <4>1. n + k = n + l /\ k \in Nat /\ l \in Nat  BY <1>2, <1>5, <1>7, <2>10, <3>2
      <4>2. k = l
        <5> HIDE DEF k, l
        <5> QED  BY <1>2, <4>1
      <4> QED  BY <1>4, <3>2, <4>2, RankDiffers
    <3>3. CASE x \notin added /\ y \notin added  BY <1>2, <1>7, <2>10, <3>3
    <3>4. CASE x \in added /\ y \notin added  BY <1>2, <1>7, <2>10, <3>1, <3>4
    <3>5. CASE x \notin added /\ y \in added  BY <1>2, <1>7, <2>10, <3>1, <3>5
    <3> QED  BY <3>2, <3>3, <3>4, <3>5
  <2>11. ASSUME NEW e \in s.tiles, NEW x \in s.receive, t.map[x].at = e.at
         PROVE  x = e.stream
    <3>1. e.at \in 1..n /\ Shows(s, e)  BY <2>4
    <3>2. x \notin added
      <4>1. CASE x \in added
        <5>1. t.map[x].at = n + Rank(added, x) /\ Rank(added, x) \in 1..Cardinality(added)
          BY <1>2, <1>5, <1>7, <4>1
        <5> QED  BY <1>2, <2>11, <3>1, <5>1
      <4> QED  BY <4>1
    <3>3. Gets(s, e.at) = x /\ x # 0
      BY <1>2, <1>4, <1>7, <2>11, <3>2, StreamsAssumption
    <3>4. CASE Takes(s, e.at) # 0
      <4>1. x = Takes(s, e.at)  BY <3>3, <3>4 DEF Gets
      <4>2. x = s.track[e.at]  BY <2>1, <3>1, <3>4, <4>1 DEF streamIdForTrack, Shows
      <4> QED  BY <3>1, <3>3, <4>2 DEF Shows
    <3>5. CASE Takes(s, e.at) = 0
      <4>1. ~canStop /\ Fills(s, e.at) # 0  BY <3>3, <3>5 DEF Gets
      <4>2. e.at \in Free(s)  BY <4>1 DEF Fills
      <4>3. s.trans[e.at].dir = "inactive" /\ e.at \in DOMAIN s.trans  BY <4>2 DEF Free
      <4>4. ~s.trans[e.at].receiving  BY <2>2, <4>1, <4>3 DEF Matched, Idle, Negotiating
      <4> QED  BY <3>1, <4>4 DEF Shows
    <3> QED  BY <3>4, <3>5
  <2>12. Placed(t)  BY <1>6, <1>7, <2>9, <2>10, <2>11 DEF Placed
  <2> QED  BY <1>7, <2>2, <2>5, <2>6, <2>7, <2>8, <2>12 DEF Matched
<1> QED  BY <1>8, <1>9 DEF Tiled, Loose

(* The transceivers get their mids. *)
LEMMA DescribeTiled ==
  ASSUME NEW s, NEW old, NEW f, NEW R, Ok(s, old), Tiled(s, f, R), s.step = "describe",
         NEW t, Differs(s, t, {"step", "trans"}), t.step = "subscribe",
         t.trans = [i \in DOMAIN s.trans |-> [s.trans[i] EXCEPT !.mid = s.trans[i].dir # "gone"]]
  PROVE  Tiled(t, f, R)
<1>1. /\ t.map = s.map /\ t.raced = s.raced /\ t.attached = s.attached
      /\ t.receive = s.receive /\ t.current = s.current /\ t.optimal = s.optimal
      /\ t.tiles = s.tiles /\ t.server = s.server /\ t.track = s.track /\ t.last = s.last
      /\ t.misaligned = s.misaligned /\ t.retrying = s.retrying
  BY DEF Differs, Fields
<1>2. DOMAIN t.trans = DOMAIN s.trans  OBVIOUS
<1>3. ASSUME NEW i \in DOMAIN s.trans
      PROVE  /\ t.trans[i].receiving = s.trans[i].receiving
             /\ t.trans[i].dir = s.trans[i].dir /\ t.trans[i].mid = (s.trans[i].dir # "gone")
  <2>1. s.trans[i] \in Transceivers  BY DEF Ok, MapInv
  <2> QED  BY <2>1 DEF Transceivers
<1>4. Chosen(t, f, R) /\ OneTile(t) /\ Asked(t)
  BY <1>1 DEF Tiled, Loose, Chosen, OneTile, Asked
<1>5. ASSUME CleanIn(t) PROVE Matched(t, R)
  <2>1. Matched(s, R)  BY <1>1, <1>5 DEF Tiled, Loose, CleanIn
  <2>2. Showing(t)
    <3> SUFFICES ASSUME NEW e \in s.tiles PROVE Shows(t, e)  BY <1>1 DEF Showing
    <3>1. Shows(s, e) /\ e.at \in DOMAIN s.trans
      BY <2>1 DEF Matched, Showing, Ok, MapInv
    <3> QED  BY <1>1, <1>3, <3>1 DEF Shows
  <2>3. Shown(t)  BY <1>1, <1>2, <1>3, <2>1 DEF Matched, Shown
  <2>4. OneTrack(t)  BY <1>1, <2>1 DEF Matched, OneTrack
  <2>5. Idle(t) /\ Told(t, R) /\ Agreed(t, R)  BY DEF Idle, Negotiating, Told, Agreed
  <2>6. Placed(t)
    <3>1. Placed(s) /\ Negotiating(s)  BY <2>1 DEF Matched, Negotiating
    <3>2. ASSUME NEW x \in s.receive
          PROVE  t.map[x].at \in DOMAIN t.trans /\ t.trans[t.map[x].at].dir = "recvonly"
      <4>1. s.map[x].at \in DOMAIN s.trans /\ s.trans[s.map[x].at].dir = "recvonly"
        BY <3>1 DEF Placed
      <4> QED  BY <1>1, <1>2, <1>3, <4>1
    <3>3. \A i \in DOMAIN t.trans : t.trans[i].dir # "gone" => t.trans[i].mid
      BY <1>2, <1>3
    <3>4. /\ t.attached = t.receive
          /\ \A x, y \in t.receive : t.map[x].at = t.map[y].at => x = y
          /\ \A e \in t.tiles : \A x \in t.receive : t.map[x].at = e.at => x = e.stream
      BY <1>1, <3>1 DEF Placed
    <3> QED  BY <1>1, <3>2, <3>3, <3>4 DEF Placed
  <2> QED  BY <1>1, <2>1, <2>2, <2>3, <2>4, <2>5, <2>6 DEF Matched
<1> QED  BY <1>4, <1>5 DEF Tiled, Loose

(* When no section is left out the subscriptions are those of the sections. *)
LEMMA SectionsLineUp ==
  ASSUME NEW s, s.trans \in Seq(Transceivers),
         NEW subscriptions, subscriptions = fixUpSubscriptionOrder(s),
         Len(subscriptions) = Len(s.trans)
  PROVE  \A i \in 1..Len(s.trans) : subscriptions[i] = Section(s, i) /\ Section(s, i) # -1
<1> DEFINE n == Len(s.trans)
           kept == {i \in DOMAIN s.trans : Section(s, i) # -1}
           at(k) == CHOOSE i \in kept : Rank(kept, i) = k
           m == Cardinality(kept)
<1>1. n \in Nat /\ DOMAIN s.trans = 1..n  OBVIOUS
<1>2. IsFiniteSet(1..n) /\ Cardinality(1..n) = n  BY <1>1, FS_Interval
<1>3. kept \in SUBSET (1..n)  BY <1>1
<1>4. subscriptions = [k \in 1..m |-> Section(s, at(k))]  BY DEF fixUpSubscriptionOrder
<1> HIDE DEF kept, n
<1>5. m \in Nat  BY <1>2, <1>3, FS_Subset, FS_CardinalityType
<1>6. Len(subscriptions) = m
  <2> DEFINE a(k) == Section(s, at(k))
  <2> HIDE DEF a, m
  <2>1. subscriptions = [k \in 1..m |-> a(k)]  BY <1>4 DEF a
  <2>2. subscriptions \in Seq({a(k) : k \in 1..m})  BY <1>5, <2>1
  <2> QED  BY <1>5, <2>1
<1>7. m = n  BY <1>6 DEF n
<1>8. kept = 1..n  BY <1>2, <1>3, <1>7, FS_Subset
<1>9. ASSUME NEW i \in 1..n PROVE Rank(1..n, i) = i
  <2>1. {y \in 1..n : y <= i} = 1..i  BY <1>1
  <2>2. Cardinality(1..i) = i  BY <1>1, FS_Interval
  <2> QED  BY <2>1, <2>2 DEF Rank
<1>10. ASSUME NEW i \in 1..n PROVE at(i) = i
  <2>1. i \in kept /\ Rank(kept, i) = i  BY <1>8, <1>9
  <2>2. at(i) \in kept /\ Rank(kept, at(i)) = i  BY <2>1
  <2> HIDE DEF at
  <2> QED  BY <1>8, <1>9, <2>2
<1>11. ASSUME NEW i \in 1..n PROVE subscriptions[i] = Section(s, i) /\ Section(s, i) # -1
  <2>1. subscriptions[i] = Section(s, at(i))  BY <1>4, <1>7
  <2>2. Section(s, i) # -1
    <3>1. i \in kept  BY <1>8
    <3> QED  BY <3>1 DEF kept
  <2> HIDE DEF at
  <2> QED  BY <1>10, <2>1, <2>2
<1> QED  BY <1>11 DEF n

(* The server sends each stream on its section, or its publication has ended.  *)
LEMMA SubscribeTiled ==
  ASSUME NEW s, NEW R, Ok(s, lastFrame), Tiled(s, lastFrame, R), s.step = "subscribe",
         NEW t, Differs(s, t, {"step", "forSubscribe", "server", "answer", "misaligned"}),
         t.step = "ack", t.forSubscribe = s.current,
         t.server = Sends(s, fixUpSubscriptionOrder(s)), t.answer = t.server,
         t.misaligned = (s.misaligned \/ Len(fixUpSubscriptionOrder(s)) # Len(s.trans))
  PROVE  Tiled(t, lastFrame, R)
<1> DEFINE subscriptions == fixUpSubscriptionOrder(s)
           n == Len(s.trans)
<1>1. /\ t.map = s.map /\ t.raced = s.raced /\ t.attached = s.attached
      /\ t.receive = s.receive /\ t.current = s.current /\ t.optimal = s.optimal
      /\ t.tiles = s.tiles /\ t.trans = s.trans /\ t.track = s.track /\ t.last = s.last
      /\ t.retrying = s.retrying
  BY DEF Differs, Fields
<1>2. Chosen(t, lastFrame, R) /\ OneTile(t) /\ Asked(t)
  BY <1>1 DEF Tiled, Loose, Chosen, OneTile, Asked
<1>3. n \in Nat /\ DOMAIN s.trans = 1..n /\ s.trans \in Seq(Transceivers)
  BY DEF Ok, MapInv
<1>4. t.server = [i \in 1..n |->
        IF i <= Len(subscriptions) /\ Live(subscriptions[i]) THEN subscriptions[i] ELSE 0]
  BY <1>3 DEF Sends
<1>5. ASSUME CleanIn(t) PROVE Matched(t, R)
  <2>1. CleanIn(s) /\ Len(subscriptions) = n  BY <1>1, <1>5 DEF CleanIn
  <2>2. Matched(s, R)  BY <2>1 DEF Tiled, Loose
  <2>3. ASSUME NEW i \in 1..n
        PROVE  /\ Section(s, i) # -1
               /\ t.server[i] = IF Live(Section(s, i)) THEN Section(s, i) ELSE 0
    <3>1. subscriptions[i] = Section(s, i) /\ Section(s, i) # -1
      BY <1>3, <2>1, SectionsLineUp
    <3> HIDE DEF subscriptions
    <3> QED  BY <1>3, <1>4, <2>1, <3>1
  <2>4. /\ s.attached = s.receive
        /\ \A x \in s.receive :
             s.map[x].at \in DOMAIN s.trans /\ s.trans[s.map[x].at].dir = "recvonly"
        /\ \A x, y \in s.receive : s.map[x].at = s.map[y].at => x = y
        /\ \A e \in s.tiles : \A x \in s.receive : s.map[x].at = e.at => x = e.stream
        /\ \A i \in DOMAIN s.trans : s.trans[i].dir # "gone" => s.trans[i].mid
    BY <2>2 DEF Matched, Placed, Negotiating
  <2>5. ASSUME NEW x \in s.receive PROVE getMidForStreamId(s, x) = s.map[x].at
    <3>1. /\ s.map[x].at \in 1..n /\ s.trans[s.map[x].at].mid
      BY <1>3, <2>4
    <3>2. s.map[x].at # 0  BY <1>3, <3>1
    <3> QED  BY <3>1, <3>2 DEF getMidForStreamId
  <2>6. ASSUME NEW i \in 1..n, Section(s, i) # 0
        PROVE  Section(s, i) \in s.receive /\ s.map[Section(s, i)].at = i
    <3> DEFINE X == {y \in s.attached : getMidForStreamId(s, y) = i}
    <3>1. X # {} /\ Section(s, i) = CHOOSE y \in X : TRUE  BY <2>3, <2>6 DEF Section
    <3>2. Section(s, i) \in X  BY <3>1
    <3> QED  BY <2>4, <2>5, <3>2
  <2>7. ASSUME NEW x \in s.receive PROVE Section(s, s.map[x].at) = x
    <3> DEFINE i == s.map[x].at
               X == {y \in s.attached : getMidForStreamId(s, y) = i}
    <3>1. x \in X  BY <2>4, <2>5
    <3>2. s.trans[i].dir = "recvonly"  BY <2>4
    <3>3. Section(s, i) = CHOOSE y \in X : TRUE  BY <3>1, <3>2 DEF Section
    <3>4. Section(s, i) \in X  BY <3>1, <3>3
    <3>5. Section(s, i) \in s.receive /\ s.map[Section(s, i)].at = i  BY <2>4, <2>5, <3>4
    <3> QED  BY <2>4, <3>5
  <2>8. ASSUME NEW i \in 1..n, t.server[i] # 0
        PROVE  t.server[i] \in s.receive /\ s.map[t.server[i]].at = i
    BY <2>3, <2>6, <2>8
  <2>9. ASSUME NEW x \in s.receive PROVE t.server[s.map[x].at] = x \/ Group[x] \in R
    <3>1. s.map[x].at \in 1..n  BY <1>3, <2>4
    <3>2. t.server[s.map[x].at] = IF Live(x) THEN x ELSE 0  BY <2>3, <2>7, <3>1
    <3>3. x # 0 /\ x \in s.current  BY <2>2, StreamsAssumption DEF Matched, Ok, SetInv
    <3>4. Group[x] \in Groups(lastFrame) \cup R
      BY <3>3 DEF Tiled, Loose, Chosen, Groups
    <3> QED  BY <3>2, <3>3, <3>4 DEF Live
  <2>10. ASSUME NEW e \in s.tiles PROVE e.at \in 1..n /\ t.server[e.at] \in {0, e.stream}
    <3>1. e.at \in 1..n  BY <1>3 DEF Ok, MapInv
    <3> QED  BY <2>4, <2>8, <3>1
  <2>11. Told(t, R)
    BY <1>1, <1>3, <1>4, <2>2, <2>8, <2>9, <2>10 DEF Told, Matched
  <2>12. Showing(t)
    <3> SUFFICES ASSUME NEW e \in s.tiles PROVE Shows(t, e)  BY <1>1 DEF Showing
    <3>1. Shows(s, e)  BY <2>2 DEF Matched, Showing
    <3> QED  BY <1>1, <1>4, <2>10, <3>1 DEF Shows
  <2>13. Shown(t) /\ OneTrack(t)  BY <1>1, <2>2 DEF Matched, Shown, OneTrack
  <2>14. Idle(t) /\ Agreed(t, R)  BY DEF Idle, Negotiating, Agreed
  <2>15. Placed(t)  BY <1>1, <2>4 DEF Placed
  <2> QED  BY <1>1, <2>2, <2>11, <2>12, <2>13, <2>14, <2>15 DEF Matched
<1> QED  BY <1>2, <1>5 DEF Tiled, Loose

(* The tracks are known for what is sent on them. *)
LEMMA AckTiled ==
  ASSUME NEW s, NEW old, NEW f, NEW R, Ok(s, old), Tiled(s, f, R), s.step = "ack",
         NEW t, Differs(s, t, {"step", "track"}), t.step = "answer", t.track = s.answer
  PROVE  Tiled(t, f, R)
<1>1. /\ t.map = s.map /\ t.raced = s.raced /\ t.attached = s.attached
      /\ t.receive = s.receive /\ t.current = s.current /\ t.optimal = s.optimal
      /\ t.tiles = s.tiles /\ t.trans = s.trans /\ t.server = s.server /\ t.last = s.last
      /\ t.retrying = s.retrying /\ t.misaligned = s.misaligned /\ t.answer = s.answer
      /\ t.forSubscribe = s.forSubscribe
  BY DEF Differs, Fields
<1>2. Chosen(t, f, R) /\ OneTile(t) /\ Asked(t)
  BY <1>1 DEF Tiled, Loose, Chosen, OneTile, Asked
<1>3. ASSUME CleanIn(t) PROVE Matched(t, R)
  <2>1. Matched(s, R)  BY <1>1, <1>3 DEF CleanIn, Tiled, Loose
  <2>2. /\ s.answer = s.server /\ DOMAIN s.server = DOMAIN s.trans
        /\ s.receive \subseteq s.forSubscribe
        /\ \A i \in DOMAIN s.server :
             s.server[i] # 0 => s.server[i] \in s.receive /\ s.map[s.server[i]].at = i
        /\ \A x \in s.receive : s.server[s.map[x].at] = x \/ Group[x] \in R
        /\ \A e \in s.tiles : s.server[e.at] \in {0, e.stream}
    BY <2>1 DEF Matched, Told
  <2>3. t.track = s.server  BY <2>2
  <2>4. Showing(t)
    <3> SUFFICES ASSUME NEW e \in s.tiles PROVE Shows(t, e)  BY <1>1 DEF Showing
    <3>1. Shows(s, e)  BY <2>1 DEF Matched, Showing
    <3> QED  BY <1>1, <2>2, <2>3, <3>1 DEF Shows
  <2>5. OneTrack(t)
    <3> SUFFICES ASSUME NEW i \in DOMAIN s.server, NEW j \in DOMAIN s.server,
                        s.server[i] # 0, s.server[j] # 0,
                        Attendee[s.server[i]] = Attendee[s.server[j]]
                 PROVE  i = j
      BY <2>3 DEF OneTrack
    <3>1. s.server[i] = s.server[j]  BY <2>2 DEF Tiled, Loose, Chosen, OneEach
    <3> QED  BY <2>2, <3>1
  <2>6. Told(t, R)  BY <1>1, <2>2 DEF Told
  <2>7. Placed(t)  BY <1>1, <2>1 DEF Matched, Placed, Negotiating
  <2>8. Shown(t)  BY <1>1, <2>1 DEF Matched, Shown
  <2>9. Idle(t) /\ Agreed(t, R)  BY DEF Idle, Negotiating, Agreed
  <2> QED  BY <1>1, <2>1, <2>4, <2>5, <2>6, <2>7, <2>8, <2>9 DEF Matched
<1> QED  BY <1>2, <1>3 DEF Tiled, Loose

(* Each section that is sent to has its tile, and tiles agree with it. *)
Answered(s, t, R) ==
  /\ Showing(t) /\ Shown(t) /\ OneTrack(t)
  /\ \A i \in DOMAIN t.trans : t.trans[i].dir = "inactive" => ~t.trans[i].receiving
  /\ \A e \in t.tiles :
       t.server[e.at] = e.stream /\ t.track[e.at] = e.stream /\ e.stream \in s.receive
  /\ \A x \in s.receive : (\E e \in t.tiles : e.attendee = Attendee[x]) \/ Group[x] \in R

(* An attendee has one tile, whatever the tracks are known for. *)
LEMMA OneTileStays ==
  ASSUME NEW s, s.trans \in Seq(Transceivers), OneTile(s), NEW t, t.tiles =
           addRemoteVideoTracks(s, {i \in DOMAIN s.trans :
                                      Receives(s, i) /\ ~s.trans[i].receiving})
  PROVE  OneTile(t)
<1> DEFINE added == {i \in DOMAIN s.trans : Receives(s, i) /\ ~s.trans[i].receiving}
           kept == {e \in s.tiles : Receives(s, e.at)}
           who(i) == attendeeIdForTrack(s, i)
           mine(i) == /\ \A e \in kept : e.attendee # who(i)
                      /\ \A j \in added : j < i => who(j) # who(i)
           tile(i) == [at |-> i, attendee |-> who(i), stream |-> streamIdForTrack(s, i)]
<1>1. t.tiles = kept \cup {tile(i) : i \in {j \in added : mine(j)}}
  BY DEF addRemoteVideoTracks
<1>2. \A i \in added : i \in Nat
  <2>1. DOMAIN s.trans = 1..Len(s.trans)  OBVIOUS
  <2> QED  BY <2>1
<1>3. \A i : tile(i).attendee = who(i)  OBVIOUS
<1>4. kept \subseteq s.tiles  OBVIOUS
<1> HIDE DEF added, who, tile, kept
<1>5. ASSUME NEW i \in added, NEW j \in added, mine(i), mine(j), who(i) = who(j)
      PROVE  i = j
  BY <1>2, <1>5
<1>6. ASSUME NEW e \in t.tiles, NEW d \in t.tiles, e.attendee = d.attendee PROVE e = d
  <2>1. CASE e \in kept /\ d \in kept  BY <1>4, <1>6, <2>1 DEF OneTile
  <2>2. CASE e \in kept /\ d \notin kept
    <3>1. PICK j \in added : mine(j) /\ d = tile(j)  BY <1>1, <2>2
    <3> QED  BY <1>3, <1>6, <2>2, <3>1
  <2>3. CASE e \notin kept /\ d \in kept
    <3>1. PICK i \in added : mine(i) /\ e = tile(i)  BY <1>1, <2>3
    <3> QED  BY <1>3, <1>6, <2>3, <3>1
  <2>4. CASE e \notin kept /\ d \notin kept
    <3>1. PICK i \in added : mine(i) /\ e = tile(i)  BY <1>1, <2>4
    <3>2. PICK j \in added : mine(j) /\ d = tile(j)  BY <1>1, <2>4
    <3>3. who(i) = who(j)  BY <1>3, <1>6, <3>1, <3>2
    <3>4. i = j  BY <1>5, <3>1, <3>2, <3>3
    <3> QED  BY <3>1, <3>2, <3>4
  <2> QED  BY <2>1, <2>2, <2>3, <2>4
<1> QED  BY <1>6 DEF OneTile

(* When the answer is set, the tracks and their tiles are those of the streams. *)
LEMMA AnswerTiled ==
  ASSUME NEW s, NEW old, NEW f, NEW R, Ok(s, old), Tiled(s, f, R), s.step = "answer",
         NEW t, t = SetRemote(s)
  PROVE  /\ Differs(s, t, {"tiles", "trans"}) /\ OneTile(t)
         /\ CleanIn(s) => Answered(s, t, R)
<1> DEFINE added == {i \in DOMAIN s.trans : Receives(s, i) /\ ~s.trans[i].receiving}
           tiles1 == addRemoteVideoTracks(s, added)
           turned(i) == IF s.trans[i].dir = "stopped"
                        THEN [dir |-> "gone", mid |-> FALSE, receiving |-> FALSE]
                        ELSE [s.trans[i] EXCEPT !.receiving = Receives(s, i)]
           trans1 == [i \in DOMAIN s.trans |-> turned(i)]
<1>1. t = [s EXCEPT !.tiles = tiles1, !.trans = trans1]  BY DEF SetRemote
<1>2. s.trans \in Seq(Transceivers)  BY DEF Ok, MapInv
<1> HIDE DEF tiles1, trans1
<1>3. Differs(s, t, {"tiles", "trans"}) /\ t.tiles = tiles1 /\ t.trans = trans1
  BY <1>1 DEF Ok, Differs, IsState, Fields
<1>4. OneTile(t)  BY <1>2, <1>3, OneTileStays DEF tiles1, Tiled, Loose
<1>5. t.server = s.server /\ t.track = s.track  BY <1>3 DEF Differs, Fields
<1> HIDE DEF added
<1>6. ASSUME CleanIn(s) PROVE Answered(s, t, R)
  <2>1. Matched(s, R)  BY <1>6 DEF Tiled, Loose
  <2>2. /\ s.track = s.server /\ s.answer = s.server /\ DOMAIN s.server = DOMAIN s.trans
        /\ s.receive \subseteq s.forSubscribe
        /\ \A i \in DOMAIN s.server :
             s.server[i] # 0 => s.server[i] \in s.receive /\ s.map[s.server[i]].at = i
        /\ \A x \in s.receive : s.server[s.map[x].at] = x \/ Group[x] \in R
        /\ \A e \in s.tiles : s.server[e.at] \in {0, e.stream}
    BY <2>1 DEF Matched, Told
  <2>3. \A x \in s.receive :
          s.map[x].at \in DOMAIN s.trans /\ s.trans[s.map[x].at].dir = "recvonly"
    BY <2>1 DEF Matched, Placed, Negotiating
  <2>4. s.receive \subseteq Streams /\ OneEach(s.receive)
    BY DEF Ok, SetInv, Tiled, Loose, Chosen
  <2>5. ASSUME NEW i \in DOMAIN s.trans PROVE Receives(s, i) <=> s.server[i] # 0
    BY <2>2, <2>3 DEF Receives
  <2>6. ASSUME NEW i \in DOMAIN s.trans, s.server[i] # 0
        PROVE  streamIdForTrack(s, i) = s.server[i]
               /\ attendeeIdForTrack(s, i) = Attendee[s.server[i]]
    <3>1. streamIdForTrack(s, i) = s.server[i]  BY <2>2 DEF streamIdForTrack
    <3> QED  BY <2>2, <2>6, <3>1 DEF attendeeIdForTrack
  <2>7. ASSUME NEW i \in DOMAIN s.trans, NEW j \in DOMAIN s.trans, s.server[i] # 0,
               s.server[j] # 0, Attendee[s.server[i]] = Attendee[s.server[j]]
        PROVE  i = j
    <3>1. s.server[i] = s.server[j]  BY <2>2, <2>4, <2>7 DEF OneEach
    <3> QED  BY <2>2, <2>7, <3>1
  <2>8. ASSUME NEW i \in DOMAIN s.trans
        PROVE  /\ t.trans[i].receiving = Receives(s, i)
               /\ t.trans[i].dir = "inactive" => s.trans[i].dir = "inactive"
    <3>1. s.trans[i] \in Transceivers  BY <1>2
    <3>2. t.trans[i] = turned(i)  BY <1>3 DEF trans1
    <3>3. Receives(s, i) \in BOOLEAN  BY DEF Receives
    <3>4. s.trans[i].dir = "stopped" => ~Receives(s, i)  BY DEF Receives
    <3>5. CASE s.trans[i].dir = "stopped"
      <4>1. t.trans[i].receiving = FALSE /\ t.trans[i].dir = "gone"  BY <3>2, <3>5
      <4> QED  BY <3>3, <3>4, <3>5, <4>1
    <3>6. CASE s.trans[i].dir # "stopped"
      <4>1. t.trans[i] = [s.trans[i] EXCEPT !.receiving = Receives(s, i)]  BY <3>2, <3>6
      <4> QED  BY <3>1, <4>1 DEF Transceivers
    <3> QED  BY <3>5, <3>6
  <2>9. DOMAIN t.trans = DOMAIN s.trans  BY <1>3 DEF trans1
  <2> DEFINE tile(i) == [at |-> i, attendee |-> attendeeIdForTrack(s, i),
                         stream |-> streamIdForTrack(s, i)]
             kept == {e \in s.tiles : Receives(s, e.at)}
             mine(i) == /\ \A e \in kept : e.attendee # attendeeIdForTrack(s, i)
                        /\ \A j \in added : j < i =>
                             attendeeIdForTrack(s, j) # attendeeIdForTrack(s, i)
  <2>10. t.tiles = kept \cup {tile(i) : i \in {j \in added : mine(j)}}
    BY <1>3 DEF addRemoteVideoTracks, tiles1
  <2>11. ASSUME NEW e \in s.tiles
         PROVE  /\ e.at \in DOMAIN s.trans /\ s.trans[e.at].receiving
                /\ Attendee[e.stream] = e.attendee /\ s.server[e.at] \in {0, e.stream}
    BY <2>1, <2>2 DEF Matched, Showing, Shows, Ok, MapInv
  <2>12. ASSUME NEW i \in added
         PROVE  i \in DOMAIN s.trans /\ s.server[i] # 0 /\ ~s.trans[i].receiving
    BY <2>5 DEF added
  <2>13. ASSUME NEW i
         PROVE  /\ tile(i).at = i /\ tile(i).stream = streamIdForTrack(s, i)
                /\ tile(i).attendee = attendeeIdForTrack(s, i)
    OBVIOUS
  <2> HIDE DEF tile
  <2>14. ASSUME NEW e \in t.tiles
         PROVE  /\ e.at \in DOMAIN s.trans /\ s.server[e.at] # 0
                /\ e.stream = s.server[e.at] /\ e.attendee = Attendee[s.server[e.at]]
    <3>1. CASE e \in kept  BY <2>5, <2>11, <3>1
    <3>2. CASE e \notin kept
      <4>1. PICK i \in added : e = tile(i)  BY <2>10, <3>2
      <4> QED  BY <2>6, <2>12, <2>13, <4>1
    <3> QED  BY <3>1, <3>2
  <2>15. ASSUME NEW i \in added PROVE mine(i)
    <3>1. i \in DOMAIN s.trans /\ s.server[i] # 0 /\ ~s.trans[i].receiving
          /\ attendeeIdForTrack(s, i) = Attendee[s.server[i]]
      BY <2>6, <2>12
    <3>2. ASSUME NEW e \in kept, e.attendee = Attendee[s.server[i]] PROVE FALSE
      <4>1. /\ e.at \in DOMAIN s.trans /\ s.trans[e.at].receiving
            /\ s.server[e.at] = e.stream /\ s.server[e.at] # 0
            /\ Attendee[s.server[e.at]] = e.attendee
        BY <2>5, <2>11
      <4>2. e.at = i  BY <2>7, <3>1, <3>2, <4>1
      <4> QED  BY <3>1, <4>1, <4>2
    <3>3. ASSUME NEW j \in added, j < i PROVE Attendee[s.server[j]] # Attendee[s.server[i]]
      <4>1. j \in DOMAIN s.trans /\ s.server[j] # 0  BY <2>12
      <4>2. i \in Nat /\ j \in Nat
        <5>1. DOMAIN s.trans = 1..Len(s.trans)  BY <1>2
        <5> QED  BY <3>1, <4>1, <5>1
      <4>3. i # j  BY <3>3, <4>2
      <4> QED  BY <2>7, <3>1, <4>1, <4>3
    <3>4. \A j \in added : attendeeIdForTrack(s, j) = Attendee[s.server[j]]
      BY <2>6, <2>12
    <3> HIDE DEF kept
    <3> QED  BY <3>1, <3>2, <3>3, <3>4
  <2>16. ASSUME NEW i \in DOMAIN s.trans, s.server[i] # 0
         PROVE  \E e \in t.tiles : e.at = i
    <3>1. CASE s.trans[i].receiving
      <4>1. PICK e \in s.tiles : e.at = i  BY <2>1, <3>1 DEF Matched, Shown
      <4>2. e \in kept  BY <2>5, <2>16, <4>1
      <4> QED  BY <2>10, <4>1, <4>2
    <3>2. CASE ~s.trans[i].receiving
      <4>1. i \in added  BY <2>5, <2>16, <3>2 DEF added
      <4>2. tile(i) \in t.tiles
        <5> HIDE DEF kept
        <5>1. mine(i)  BY <2>15, <4>1
        <5> HIDE DEF mine
        <5> QED  BY <2>10, <4>1, <5>1
      <4> QED  BY <2>13, <4>2
    <3> QED  BY <3>1, <3>2
  <2> HIDE DEF kept, mine
  <2>17. Showing(t)
    <3> SUFFICES ASSUME NEW e \in t.tiles PROVE Shows(t, e)  BY DEF Showing
    <3>1. s.server[e.at] \in Streams  BY <2>2, <2>4, <2>14
    <3>2. t.trans[e.at].receiving  BY <2>5, <2>8, <2>14
    <3> QED  BY <1>5, <2>2, <2>14, <3>1, <3>2 DEF Shows
  <2>18. Shown(t)  BY <2>5, <2>8, <2>9, <2>16 DEF Shown
  <2>19. OneTrack(t)  BY <1>5, <2>2, <2>7 DEF OneTrack
  <2>20. \A i \in DOMAIN t.trans : t.trans[i].dir = "inactive" => ~t.trans[i].receiving
    BY <2>8, <2>9 DEF Receives
  <2>21. \A e \in t.tiles :
           t.server[e.at] = e.stream /\ t.track[e.at] = e.stream /\ e.stream \in s.receive
    BY <1>5, <2>2, <2>14
  <2>22. ASSUME NEW x \in s.receive, Group[x] \notin R
         PROVE  \E e \in t.tiles : e.attendee = Attendee[x]
    <3> DEFINE i == s.map[x].at
    <3>1. s.server[i] = x /\ i \in DOMAIN s.trans  BY <2>2, <2>3, <2>22
    <3>2. x # 0  BY <2>4, StreamsAssumption
    <3>3. PICK e \in t.tiles : e.at = i  BY <2>16, <3>1, <3>2
    <3> QED  BY <2>14, <3>1, <3>3
  <2> QED  BY <2>17, <2>18, <2>19, <2>20, <2>21, <2>22 DEF Answered
<1> QED  BY <1>3, <1>4, <1>6

(* Then the negotiation is over, or begins once more. *)
LEMMA AnsweredTiled ==
  ASSUME NEW s, NEW old, NEW f, NEW R, Ok(s, old), Tiled(s, f, R), s.step = "answer",
         NEW u, u = SetRemote(s), NEW v, v.step \in {"attach", "none"},
         Differs(u, v, {"session", "step", "restarting", "answer", "attached"})
  PROVE  Tiled(v, f, R)
<1>1. Differs(s, u, {"tiles", "trans"}) /\ OneTile(u) /\ (CleanIn(s) => Answered(s, u, R))
  BY AnswerTiled
<1>2. /\ SameShown(u, v) /\ v.receive = s.receive /\ v.current = s.current
      /\ v.optimal = s.optimal /\ v.last = s.last
      /\ v.raced = s.raced /\ v.misaligned = s.misaligned
  BY <1>1 DEF Differs, Fields, SameShown
<1>3. Chosen(v, f, R) /\ Asked(v)  BY <1>2 DEF Tiled, Loose, Chosen, Asked
<1>4. OneTile(v)  BY <1>1, <1>2 DEF OneTile, SameShown
<1>5. ASSUME CleanIn(v) PROVE Matched(v, R)
  <2>1. Answered(s, u, R) /\ s.receive \subseteq s.current
    BY <1>1, <1>2, <1>5 DEF CleanIn, Tiled, Loose, Matched
  <2>2. Showing(v) /\ Shown(v) /\ OneTrack(v)
    BY <1>2, <2>1 DEF Answered, Showing, Shows, Shown, OneTrack, SameShown
  <2>3. Idle(v)  BY <1>2, <2>1 DEF Answered, Idle, SameShown
  <2>4. Placed(v) /\ Told(v, R)  BY DEF Placed, Told, Negotiating
  <2>5. Agreed(v, R)
    <3>1. LastOnes(v) = s.receive
      <4>1. s.receive # NoSet  BY NoSetIs DEF Ok, SetInv
      <4> QED  BY <1>2, <1>3, <4>1 DEF Asked, LastOnes
    <3> QED  BY <1>2, <2>1, <3>1 DEF Answered, Agreed, SameShown
  <2> QED  BY <1>2, <2>1, <2>2, <2>3, <2>4, <2>5 DEF Matched
<1> QED  BY <1>3, <1>4, <1>5 DEF Tiled, Loose

(* What waited is done when it is over. *)
LEMMA FinishedTiled ==
  ASSUME NEW s, NEW f \in SUBSET Streams, NEW R, Ok(s, f), Tiled(s, f, R), s.step = "answer",
         NEW t, t = Finish(SetRemote(s))
  PROVE  Tiled(t, f, R)
<1> DEFINE w == SetRemote(s)
           a == IF w.others = <<>> THEN <<>> ELSE w.answer
           d == IF w.others = <<>> THEN {} ELSE w.attached
           u == [w EXCEPT !.session = "connected", !.step = "none", !.answer = a,
                          !.attached = d]
           v == IF w.session = "updating" THEN actionFinishUpdating(u)
                ELSE actionFinishConnecting(u)
<1>1. t = performDeferredAction(v)  BY DEF Finish
<1>2. Ok(w, f)  BY SetRemoteOk
<1>3. w = SetRemote(s)  OBVIOUS
<1> HIDE DEF w
<1>9. d \subseteq Streams  BY <1>2 DEF Ok, SetInv
<1> HIDE DEF a, d
<1>4. /\ Differs(w, u, {"session", "step", "answer", "attached"})
      /\ u.session = "connected" /\ u.step = "none" /\ u.attached = d
  BY <1>2 DEF Ok, Differs, IsState, Fields
<1> HIDE DEF u
<1>5. Differs(w, u, {"session", "step", "restarting", "answer", "attached"})
  BY <1>4 DEF Differs
<1>6. Tiled(u, f, R)  BY <1>3, <1>4, <1>5, AnsweredTiled
<1>7. Ok(u, f)
  <2>1. /\ SameMap(w, u) /\ SameIndex(w, u) /\ SameReceived(w, u) /\ u.deferred = w.deferred
        /\ u.forSubscribe = w.forSubscribe /\ u.optimal = w.optimal /\ u.last = w.last
        /\ u.chosen = w.chosen /\ SameBeside(w, u)
    BY <1>4 DEF Differs, Fields, SameMap, SameIndex, SameReceived, SameBeside
  <2>2. SetInv(u)  BY <1>2, <1>4, <1>9, <2>1 DEF Ok, SetInv, SameIndex, SameReceived
  <2>3. Flow(u)  BY <1>2, <1>4, <2>1 DEF Ok, Flow, SameBeside
  <2> QED  BY <1>2, <1>4, <2>1, <2>2, <2>3, Frames DEF Ok, Differs
<1>8. Ok(v, f) /\ Tiled(v, f, R)
  <2>1. CASE w.session = "updating"
    <3>1. v = actionFinishUpdating(u)  BY <2>1
    <3>2. v = resume(u, <<"check", "ingestion">>)  BY <3>1 DEF actionFinishUpdating
    <3> HIDE DEF v
    <3> QED  BY <1>6, <1>7, <3>1, <3>2, FinishUpdatingOk, ResumeTiled DEF Ends
  <2>2. CASE w.session # "updating"
    <3>1. v = actionFinishConnecting(u)  BY <2>2
    <3>2. v = resume(u, <<"ingestion", "check">>)  BY <3>1 DEF actionFinishConnecting
    <3> HIDE DEF v
    <3> QED  BY <1>6, <1>7, <3>1, <3>2, FinishConnectingOk, ResumeTiled DEF Ends
  <2> QED  BY <2>1, <2>2
<1> HIDE DEF v
<1> QED  BY <1>1, <1>8, DeferredTiled

(* A task that is not the last leaves them so. *)
LEMMA ProceedTiled ==
  ASSUME NEW s, NEW R, Ok(s, lastFrame), Tiled(s, lastFrame, R), MayProceed(s),
         NEW t, t = Proceed(s)
  PROVE  Tiled(t, lastFrame, R)
<1>1. IsState(s) /\ SetInv(s) /\ MapInv(s)  BY DEF Ok
<1>2. CASE s.step = "attach"
  <2>1. t = [updateVideoTransceivers(s) EXCEPT !.step = "describe"]
    BY <1>2 DEF Proceed, AttachMediaInput
  <2> QED  BY ONLY <1>2, <2>1, Ok(s, lastFrame), Tiled(s, lastFrame, R), AttachTiled
<1>3. CASE s.step = "describe"
  <2>1. t = SetLocalDescription(s)  BY <1>3 DEF Proceed
  <2>2. /\ Differs(s, t, {"step", "trans"}) /\ t.step = "subscribe"
        /\ t.trans = [i \in DOMAIN s.trans |->
                        [s.trans[i] EXCEPT !.mid = s.trans[i].dir # "gone"]]
    BY <1>1, <2>1, DescribeIs
  <2> QED  BY <1>3, <2>2, DescribeTiled
<1>4. CASE s.step = "subscribe"
  <2>1. t = Subscribe(s)  BY <1>4 DEF Proceed
  <2>2. /\ Differs(s, t, {"step", "forSubscribe", "server", "answer", "misaligned"})
        /\ t.step = "ack" /\ t.forSubscribe = s.current /\ t.answer = t.server
        /\ t.server = Sends(s, fixUpSubscriptionOrder(s))
        /\ t.misaligned = (s.misaligned \/ Len(fixUpSubscriptionOrder(s)) # Len(s.trans))
    BY <1>1, <2>1, SubscribeIs
  <2> QED  BY <1>4, <2>2, SubscribeTiled
<1>5. CASE s.step = "ack"
  <2>1. t = ReceiveSubscribeAck(s)  BY <1>5 DEF Proceed
  <2>2. Differs(s, t, {"step", "track"}) /\ t.step = "answer" /\ t.track = s.answer
    BY <1>1, <2>1, AckIs
  <2> QED  BY <1>5, <2>2, AckTiled
<1> QED  BY <1>2, <1>3, <1>4, <1>5 DEF MayProceed

(* What pauses frames and reports changes no tile. *)
LEMMA PausedTiled ==
  ASSUME NEW s, NEW f, NEW R, Ok(s, f), Tiled(s, f, R), NEW t, t = Paused(s)
  PROVE  Tiled(t, f, R)
<1>1. Differs(s, t, {"indexPaused", "monitorPaused"})
  BY DEF Paused, Ok, Differs, IsState, Fields
<1>2. /\ SameShown(s, t) /\ SameAsked(s, t) /\ SameRest(s, t)
      /\ t.raced = s.raced /\ t.misaligned = s.misaligned
  BY <1>1 DEF Differs, Fields, SameShown, SameAsked, SameRest
<1> QED  BY <1>2, LooseFrames DEF CleanIn

(* The second half of a restart begins with the tiles of the first. *)
LEMMA RestartAgainTiled ==
  ASSUME NEW s, NEW f, NEW R, Ok(s, f), Tiled(s, f, R), s.step = "answer",
         NEW t, t = RestartAgain(SetRemote(s))
  PROVE  Tiled(t, f, R)
<1> DEFINE u == SetRemote(s)
           v == [u EXCEPT !.step = "attach", !.restarting = FALSE]
           w == update(v)
<1>1. t = Paused(w)  BY DEF RestartAgain
<1>2. Ok(u, f) /\ SameFlow(s, u)  BY SetRemoteOk
<1>3. u = SetRemote(s)  OBVIOUS
<1> HIDE DEF u
<1>4. Differs(u, v, {"step", "restarting"}) /\ v.step = "attach" /\ v.restarting = FALSE
  BY <1>2 DEF Ok, Differs, IsState, Fields
<1> HIDE DEF v
<1>5. /\ v.session = u.session /\ v.deferred = u.deferred
      /\ v.others = u.others /\ v.raced = u.raced
  BY <1>4 DEF Differs, Fields
<1>6. u.session # "connected"  BY <1>2 DEF Ok, Flow, SameFlow
<1>7. Flow(v)  BY <1>2, <1>4, <1>5, <1>6 DEF Ok, Flow
<1>8. Ok(v, f)  BY <1>2, <1>4, <1>7, StepOk DEF Differs
<1>9. Differs(u, v, {"session", "step", "restarting", "answer", "attached"})
  BY <1>4 DEF Differs
<1>10. Tiled(v, f, R)  BY <1>3, <1>4, <1>9, AnsweredTiled
<1>11. Ok(w, f) /\ Tiled(w, f, R)  BY <1>8, <1>10, UpdateOk, UpdateTiled
<1> HIDE DEF w
<1> QED  BY <1>1, <1>11, PausedTiled

(* The answer is set. *)
LEMMA AnswerSetTiled ==
  ASSUME NEW s, NEW f \in SUBSET Streams, NEW R, Ok(s, f), Tiled(s, f, R), s.step = "answer",
         NEW t, t = SetRemoteDescription(s)
  PROVE  Tiled(t, f, R)
<1>1. Tiled(RestartAgain(SetRemote(s)), f, R)  BY RestartAgainTiled
<1>2. Tiled(Finish(SetRemote(s)), f, R)  BY FinishedTiled
<1> QED  BY <1>1, <1>2 DEF SetRemoteDescription

-----------------------------------------------------------------------------
(* Tiles after a failure. *)

(* Where a negotiation overlaps another, only the policy's choice and the one    *)
(* tile of each attendee are left.                                             *)
LEMMA RacedTiled ==
  ASSUME NEW s, NEW f, NEW R, Tiled(s, f, R), NEW t, t.raced, t.tiles = s.tiles,
         SameAsked(s, t), t.last = s.last
  PROVE  Tiled(t, f, R)
<1>1. Chosen(t, f, R) /\ Asked(t)  BY DEF Tiled, Loose, Chosen, Asked, SameAsked
<1>2. OneTile(t)  BY DEF Tiled, Loose, OneTile
<1> QED  BY <1>1, <1>2 DEF Tiled, Loose, CleanIn

(* The second half goes on beside what has begun. *)
LEMMA GoOnTiled ==
  ASSUME NEW s, NEW f, NEW R, Ok(s, f), Tiled(s, f, R), NEW t, t = GoOn(s)
  PROVE  Tiled(t, f, R)
<1> DEFINE u == update(s)
           v == Paused(u)
           o == Append(v.others, [step |-> "attach", restarting |-> FALSE])
<1>1. t = [v EXCEPT !.raced = TRUE, !.others = o]  BY DEF GoOn
<1>2. Ok(u, f) /\ Tiled(u, f, R)  BY UpdateOk, UpdateTiled
<1> HIDE DEF u
<1>3. Ok(v, f) /\ Tiled(v, f, R)  BY <1>2, PausedOk, PausedTiled
<1> HIDE DEF v, o
<1>4. Differs(v, t, {"raced", "others"}) /\ t.raced = TRUE
  BY <1>1, <1>3 DEF Ok, Differs, IsState, Fields
<1>5. t.tiles = v.tiles /\ SameAsked(v, t) /\ t.last = v.last
  BY <1>4 DEF Differs, Fields, SameAsked
<1> QED  BY <1>3, <1>4, <1>5, RacedTiled

(* Only when it was the first half of one. *)
LEMMA FailsTiled ==
  ASSUME NEW s, NEW f, NEW R, NEW t, Ok(t, f), Tiled(t, f, R), NEW u, u = Fails(s, t)
  PROVE  Tiled(u, f, R)
<1> DEFINE v == [t EXCEPT !.restarting = FALSE]
<1>1. u = IF s.restarting THEN GoOn(v) ELSE t  BY DEF Fails
<1>2. Differs(t, v, {"restarting"}) /\ v.restarting = FALSE
  BY DEF Ok, Differs, IsState, Fields
<1> HIDE DEF v
<1>3. /\ v.session = t.session /\ v.step = t.step /\ v.deferred = t.deferred
      /\ v.others = t.others /\ v.raced = t.raced /\ v.misaligned = t.misaligned
      /\ SameShown(t, v) /\ SameAsked(t, v) /\ SameRest(t, v)
  BY <1>2 DEF Differs, Fields, SameShown, SameAsked, SameRest
<1>4. Flow(v)  BY <1>2, <1>3 DEF Ok, Flow
<1>5. Ok(v, f)  BY <1>2, <1>4, StepOk DEF Differs
<1>6. Tiled(v, f, R)  BY <1>3, LooseFrames DEF CleanIn
<1>7. Tiled(GoOn(v), f, R)  BY <1>5, <1>6, GoOnTiled
<1> QED  BY <1>1, <1>7

(* The negotiation begins again. *)
LEMMA IncompatibleTiled ==
  ASSUME NEW s, NEW f, NEW R, Ok(s, f), Tiled(s, f, R), NEW tile \in BOOLEAN,
         NEW t, t = IncompatibleSDP(s, tile)
  PROVE  Tiled(t, f, R)
<1> DEFINE b == Begin(s)
           r == b.raced \/ ~canStop
           u == [b EXCEPT !.raced = r]
           v == performDeferredAction(u)
           w == Fails(s, v)
           x == update(w)
<1>1. t = IF tile THEN [x EXCEPT !.restarting = TRUE] ELSE w  BY DEF IncompatibleSDP
<1>2. Ok(b, f) /\ b.session = "updating"  BY BeginOk
<1>3. Differs(s, b, {"session", "step", "indexPaused", "monitorPaused"}) /\ b.step = "attach"
  BY DEF Begin, Ok, Differs, IsState, Fields
<1>4. b.raced => r  OBVIOUS
<1>5. r => b.raced \/ ~canStop  OBVIOUS
<1> HIDE DEF b, r
<1>6. Differs(b, u, {"raced"}) /\ u.raced = r  BY <1>2 DEF Ok, Differs, IsState, Fields
<1> HIDE DEF u
<1>7. SameFlow(b, u)  BY <1>4, <1>6 DEF Differs, Fields, SameFlow, SameBeside
<1>8. Flow(u) /\ u.session = "updating"  BY <1>2, <1>7, Frames DEF Ok, SameFlow
<1>9. Ok(u, f)  BY <1>2, <1>6, <1>8, StepOk DEF Differs
<1>10. Tiled(u, f, R)
  <2>1. /\ SameShown(s, u) /\ SameAsked(s, u) /\ u.last = s.last /\ u.step = "attach"
        /\ u.misaligned = s.misaligned /\ b.raced = s.raced
    BY <1>3, <1>6 DEF Differs, Fields, SameShown, SameAsked
  <2>2. ~Negotiating(u) /\ u.step # "none"  BY <2>1 DEF Negotiating
  <2>3. CleanIn(u) => CleanIn(s) /\ canStop  BY <1>6, <2>1 DEF CleanIn, r
  <2>4. Loose(u, f, R)  BY <2>1, <2>2, <2>3, LooseIs, LooseStops DEF Tiled
  <2> QED  BY <2>1, <2>4 DEF Tiled, Asked, SameAsked
<1>11. Ok(v, f) /\ Tiled(v, f, R) /\ v.session # "connected"
  BY <1>8, <1>9, <1>10, DeferredOk, DeferredTiled
<1> HIDE DEF v
<1>12. Inv(w, f)  BY <1>11, FailsOk DEF Inv, Rests
<1>13. Tiled(w, f, R)  BY <1>11, FailsTiled
<1> HIDE DEF w
<1>14. Ok(x, f) /\ Tiled(x, f, R)  BY <1>12, <1>13, UpdateOk, UpdateTiled DEF Inv
<1> HIDE DEF x
<1>15. CASE tile
  <2>1. t = [x EXCEPT !.restarting = TRUE]  BY <1>1, <1>15
  <2>2. Differs(x, t, {"restarting"})  BY <1>14, <2>1 DEF Ok, Differs, IsState, Fields
  <2>3. /\ SameShown(x, t) /\ SameAsked(x, t) /\ SameRest(x, t)
        /\ t.raced = x.raced /\ t.misaligned = x.misaligned
    BY <2>2 DEF Differs, Fields, SameShown, SameAsked, SameRest
  <2> QED  BY <1>14, <2>3, LooseFrames DEF CleanIn
<1> QED  BY <1>1, <1>13, <1>15

(* Another connection will be tried. *)
LEMMA FailedTiled ==
  ASSUME NEW s, NEW f, NEW R, Ok(s, f), Tiled(s, f, R), NEW t, t = TaskFailed(s)
  PROVE  Tiled(t, f, R)
<1> DEFINE r == s.raced \/ (~canStop /\ s.step # "attach")
           u == [s EXCEPT !.session = "connected", !.step = "none", !.retrying = TRUE,
                          !.raced = r]
           v == performDeferredAction(u)
<1>1. t = Fails(s, v)  BY DEF TaskFailed
<1>2. s.raced => r  OBVIOUS
<1> HIDE DEF r
<1>3. /\ Differs(s, u, {"session", "step", "retrying", "raced"})
      /\ u.session = "connected" /\ u.step = "none" /\ u.retrying = TRUE /\ u.raced = r
  BY DEF Ok, Differs, IsState, Fields
<1> HIDE DEF u
<1>4. /\ SameSets(s, u) /\ SameMap(s, u) /\ SameIndex(s, u) /\ SameReceived(s, u)
      /\ u.deferred = s.deferred /\ SameBeside(s, u)
  BY <1>2, <1>3 DEF Differs, Fields, SameSets, SameMap, SameIndex, SameReceived, SameBeside
<1>5. Flow(u)  BY <1>3, <1>4 DEF Ok, Flow, SameBeside
<1>6. Ok(u, f)  BY <1>3, <1>4, <1>5, Frames DEF Ok, Differs
<1>7. Tiled(u, f, R)
  <2>1. /\ SameShown(s, u) /\ SameAsked(s, u) /\ u.last = s.last
        /\ u.misaligned = s.misaligned
    BY <1>3 DEF Differs, Fields, SameShown, SameAsked
  <2>2. ~Negotiating(u)  BY <1>3 DEF Negotiating
  <2>3. CleanIn(u) => CleanIn(s) /\ (Negotiating(s) => canStop)
    BY <1>3, <2>1 DEF CleanIn, r, Negotiating
  <2>4. Loose(u, f, R)  BY <1>3, <2>1, <2>2, <2>3, LooseIs, LooseStops DEF Tiled
  <2> QED  BY <2>1, <2>4 DEF Tiled, Asked, SameAsked
<1>8. Ok(v, f) /\ Tiled(v, f, R)  BY <1>6, <1>7, DeferredOk, DeferredTiled
<1> HIDE DEF v
<1> QED  BY <1>1, <1>8, FailsTiled

(* One of several negotiations is over. *)
LEMMA EndedTiled ==
  ASSUME NEW s, NEW f, NEW R, Inv(s, f), Tiled(s, f, R), NEW k \in DOMAIN s.others,
         NEW t, t = Ended(s, k)
  PROVE  Tiled(t, f, R)
<1> DEFINE o == RemoveAt(s.others, k)
           u == [s EXCEPT !.others = o]
<1>1. t = IF others[k].restarting THEN GoOn(u) ELSE u  BY DEF Ended
<1>2. s.others \in Seq(Negotiations)  BY DEF Inv, Ok, Flow
<1>3. o \in Seq(Negotiations)
  <2>1. k \in 1..Len(s.others) /\ Len(s.others) \in Nat  BY <1>2
  <2>2. SubSeq(s.others, 1, k - 1) \in Seq(Negotiations)  BY <1>2, <2>1
  <2>3. SubSeq(s.others, k + 1, Len(s.others)) \in Seq(Negotiations)  BY <1>2, <2>1
  <2> QED  BY <2>2, <2>3 DEF RemoveAt
<1>4. s.raced
  <2>1. s.others # <<>>  BY <1>2
  <2> QED  BY <2>1 DEF Inv, Ok, Flow
<1> HIDE DEF o
<1>5. Differs(s, u, {"others"}) /\ u.others = o  BY DEF Inv, Ok, Differs, IsState, Fields
<1> HIDE DEF u
<1>6. /\ u.session = s.session /\ u.step = s.step /\ u.deferred = s.deferred
      /\ u.restarting = s.restarting /\ u.raced = s.raced
      /\ u.tiles = s.tiles /\ SameAsked(s, u) /\ u.last = s.last
  BY <1>5 DEF Differs, Fields, SameAsked
<1>7. Flow(u)  BY <1>3, <1>4, <1>5, <1>6 DEF Inv, Ok, Flow
<1>8. Ok(u, f)  BY <1>5, <1>7, StepOk DEF Inv, Differs
<1>9. Tiled(u, f, R)  BY <1>4, <1>6, RacedTiled
<1>10. Tiled(GoOn(u), f, R)  BY <1>8, <1>9, GoOnTiled
<1> QED  BY <1>1, <1>9, <1>10

-----------------------------------------------------------------------------
(* Every action leaves the tiles as they should be. *)

(* The publications that have ended are not in the server's index. *)
TilesInv ==
  VideoInv /\ Groups(lastFrame) \cap retired = {} /\ Tiled(Now, lastFrame, retired)

(* What the state becomes has its tiles. *)
LEMMA BecomesTiled ==
  ASSUME NEW t, NEW f, NEW R, IsState(t), Tiled(t, f, R), Groups(f) \cap R = {}, Becomes(t),
         lastFrame' = f, retired' = R, canStop' = canStop, VideoInv'
  PROVE  TilesInv'
<1>1. Now' = t  BY BecomesIs
<1>2. Tiled(Now', lastFrame', retired')  BY <1>1
<1>3. Groups(lastFrame') \cap retired' = {}  OBVIOUS
<1>4. canStop' <=> canStop  OBVIOUS
<1> HIDE DEF Now
<1>5. Tiled(Now, lastFrame, retired)' <=> Tiled(Now', lastFrame', retired')
  BY <1>4 DEF Tiled, Asked, Loose, Chosen, Groups, OneGroup, OneEach, OneTile, CleanIn,
       Matched, Showing, Shows, Shown, OneTrack, Idle, Placed, Negotiating, Told, Agreed,
       LastOnes
<1>6. (Groups(lastFrame) \cap retired = {})' <=> Groups(lastFrame') \cap retired' = {}
  BY DEF Groups
<1> QED  BY <1>2, <1>3, <1>5, <1>6 DEF TilesInv

(* The negotiation that is to end the transition. *)
LEMMA NegotiationAgrees ==
  ASSUME TilesInv, Negotiation, VideoInv'
  PROVE  TilesInv'
<1>1. /\ Ok(Now, lastFrame) /\ Tiled(Now, lastFrame, retired) /\ lastFrame \subseteq Streams
      /\ Groups(lastFrame) \cap retired = {} /\ Now.step = step
  BY DEF TilesInv, VideoInv, Inv, Now
<1>2. UNCHANGED <<canStop, lastFrame, retired>>  BY DEF Negotiation, Unchanged, Fixed
<1>3. \/ MayProceed(Now) /\ Becomes(Proceed(Now))
      \/ step = "answer" /\ Becomes(SetRemoteDescription(Now))
      \/ \E tile \in BOOLEAN : Becomes(IncompatibleSDP(Now, tile))
      \/ Becomes(TaskFailed(Now))
  BY DEF Negotiation
<1> HIDE DEF Now
<1>4. ASSUME NEW t, Becomes(t), Inv(t, lastFrame), Tiled(t, lastFrame, retired) PROVE TilesInv'
  BY <1>1, <1>2, <1>4, BecomesTiled DEF Inv, Ok
<1>5. CASE MayProceed(Now) /\ Becomes(Proceed(Now))
  BY <1>1, <1>4, <1>5, ProceedOk, ProceedTiled
<1>6. CASE step = "answer" /\ Becomes(SetRemoteDescription(Now))
  BY <1>1, <1>4, <1>6, AnswerOk, AnswerSetTiled
<1>7. CASE \E tile \in BOOLEAN : Becomes(IncompatibleSDP(Now, tile))
  <2>1. PICK tile \in BOOLEAN : Becomes(IncompatibleSDP(Now, tile))  BY <1>7
  <2> DEFINE t == IncompatibleSDP(Now, tile)
  <2>2. Inv(t, lastFrame)  BY <1>1, IncompatibleOk
  <2>3. Tiled(t, lastFrame, retired)  BY <1>1, IncompatibleTiled
  <2> QED  BY <1>4, <2>1, <2>2, <2>3
<1>8. CASE Becomes(TaskFailed(Now))
  BY <1>1, <1>4, <1>8, FailedOk, FailedTiled
<1> QED  BY <1>3, <1>5, <1>6, <1>7, <1>8

(* A task of another one. *)
LEMMA OtherProceedsAgrees ==
  ASSUME TilesInv, NEW k \in DOMAIN others, OtherProceeds(k), VideoInv'
  PROVE  TilesInv'
<1> DEFINE q == Swapped(k)
<1>1. PICK s \in {Proceed(q)} :
        Becomes([s EXCEPT !.step = step, !.restarting = restarting,
                          !.others = [others EXCEPT ![k].step = s.step]])
  BY DEF OtherProceeds
<1>2. MayProceed(q) /\ UNCHANGED <<canStop, lastFrame, retired>>
  BY DEF OtherProceeds, Unchanged, Fixed
<1>3. /\ Ok(Now, lastFrame) /\ Tiled(Now, lastFrame, retired) /\ VideoInv
      /\ Groups(lastFrame) \cap retired = {} /\ Now.others = others
  BY DEF TilesInv, VideoInv, Inv, Now
<1>4. Differs(Now, q, {"step", "restarting", "others"}) /\ SetInv(q) /\ MapInv(q)
  BY <1>3, SwappedIs
<1> HIDE DEF Now, q
<1>5. Differs(q, s, ByTask) /\ Recorded(q, s)  BY <1>2, <1>4, ProceedIs DEF Differs
<1> DEFINE o == [others EXCEPT ![k].step = s.step]
           t == [s EXCEPT !.step = step, !.restarting = restarting, !.others = o]
<1>6. Becomes(t)  BY <1>1
<1> HIDE DEF o
<1>7. Differs(s, t, {"step", "restarting", "others"})
  BY <1>5 DEF Differs, IsState, Fields
<1> HIDE DEF t
<1>8. t.raced
  <2>1. others # <<>>  BY <1>3 DEF Ok, Flow
  <2>2. Now.raced  BY <1>3, <2>1 DEF Ok, Flow
  <2>3. q.raced = Now.raced  BY <1>4 DEF Differs, Fields
  <2>4. s.raced  BY <1>5, <2>2, <2>3 DEF Recorded
  <2> QED  BY <1>7, <2>4 DEF Differs, Fields
<1>9. t.tiles = Now.tiles /\ SameAsked(Now, t) /\ t.last = Now.last
  BY <1>4, <1>5, <1>7 DEF Differs, Fields, ByTask, SameAsked
<1>10. Tiled(t, lastFrame, retired)  BY <1>3, <1>8, <1>9, RacedTiled
<1> QED  BY <1>2, <1>3, <1>6, <1>7, <1>10, BecomesTiled DEF Differs

(* Another one comes to its end, or fails. *)
LEMMA OtherAgrees ==
  ASSUME TilesInv, NEW k \in DOMAIN others, OtherNegotiation(k), VideoInv'
  PROVE  TilesInv'
<1>1. /\ Inv(Now, lastFrame) /\ Tiled(Now, lastFrame, retired) /\ VideoInv
      /\ Groups(lastFrame) \cap retired = {} /\ Now.others = others
      /\ lastFrame \subseteq Streams
  BY DEF TilesInv, VideoInv, Now
<1>2. Now.raced
  <2>1. others \in Seq(Negotiations)  BY <1>1 DEF Inv, Ok, Flow
  <2>2. others # <<>>  BY <2>1
  <2> HIDE DEF Now
  <2> QED  BY <1>1, <2>2 DEF Inv, Ok, Flow
<1> DEFINE q == Swapped(k)
<1>3. /\ q.step = others[k].step /\ (session = "updating" => Ok(q, lastFrame))
      /\ Differs(Now, q, {"step", "restarting", "others"})
  BY <1>1, SwappedIs
<1> HIDE DEF Now, q
<1>4. Tiled(q, lastFrame, retired)
  <2>1. q.raced /\ q.tiles = Now.tiles /\ SameAsked(Now, q) /\ q.last = Now.last
    BY <1>2, <1>3 DEF Differs, Fields, SameAsked
  <2> QED  BY <1>1, <2>1, RacedTiled
<1>5. ASSUME NEW t, Becomes(t), Inv(t, lastFrame), Tiled(t, lastFrame, retired),
             UNCHANGED <<canStop, lastFrame, retired>>
      PROVE  TilesInv'
  BY <1>1, <1>5, BecomesTiled DEF Inv, Ok
<1>6. CASE OtherProceeds(k)  BY <1>6, OtherProceedsAgrees
<1>7. CASE OtherEnds(k)
  <2> DEFINE u == SetRemote(Now)
  <2>1. /\ UNCHANGED <<canStop, lastFrame, retired>> /\ others[k].step = "answer"
        /\ Becomes(IF session = "updating" THEN SetRemoteDescription(q) ELSE Ended(u, k))
    BY <1>7 DEF OtherEnds, Unchanged, Fixed, q
  <2>2. CASE session = "updating"
    <3> DEFINE t == SetRemoteDescription(q)
    <3>1. Becomes(t)  BY <2>1, <2>2
    <3>2. Inv(t, lastFrame)  BY <1>1, <1>3, <2>1, <2>2, AnswerOk
    <3>3. Tiled(t, lastFrame, retired)  BY <1>1, <1>3, <1>4, <2>1, <2>2, AnswerSetTiled
    <3> QED  BY <1>5, <2>1, <3>1, <3>2, <3>3
  <2>3. CASE session # "updating"
    <3> DEFINE t == Ended(u, k)
               tiles1 == addRemoteVideoTracks(Now, {i \in DOMAIN Now.trans :
                                          Receives(Now, i) /\ ~Now.trans[i].receiving})
    <3>1. Becomes(t)  BY <2>1, <2>3
    <3>2. Ok(u, lastFrame) /\ SameFlow(Now, u) /\ SameIndex(Now, u) /\ u.retrying = Now.retrying
      BY <1>1, SetRemoteOk DEF Inv
    <3>3. u.tiles = tiles1 /\ SameAsked(Now, u) /\ u.last = Now.last
      <4>1. IsState(Now)  BY <1>1 DEF Inv, Ok
      <4> HIDE DEF tiles1
      <4> QED  BY <4>1 DEF SetRemote, IsState, Fields, SameAsked, tiles1
    <3>4. OneTile(u)
      <4>1. Now.trans \in Seq(Transceivers) /\ OneTile(Now)
        BY <1>1 DEF Inv, Ok, MapInv, Tiled, Loose
      <4> HIDE DEF u
      <4> QED  BY <3>3, <4>1, OneTileStays DEF tiles1
    <3> HIDE DEF u
    <3>5. Inv(u, lastFrame)  BY <1>1, <3>2 DEF Inv, Rests, SameFlow, SameIndex
    <3>6. k \in DOMAIN u.others  BY <1>1, <3>2 DEF SameFlow, SameBeside
    <3>7. u.raced  BY <1>2, <3>2 DEF SameFlow, SameBeside
    <3>8. Tiled(u, lastFrame, retired)
      <4>1. Chosen(u, lastFrame, retired) /\ Asked(u)
        BY <1>1, <3>3 DEF Tiled, Loose, Chosen, Asked, SameAsked
      <4> QED  BY <3>4, <3>7, <4>1 DEF Tiled, Loose, CleanIn
    <3>9. Inv(t, lastFrame)  BY <3>5, <3>6, EndedOk
    <3>10. Tiled(t, lastFrame, retired)  BY <3>5, <3>6, <3>8, EndedTiled
    <3> QED  BY <1>5, <2>1, <3>1, <3>9, <3>10
  <2> QED  BY <2>2, <2>3
<1>8. CASE OtherFails(k)
  <2>1. /\ UNCHANGED <<canStop, lastFrame, retired>>
        /\ Becomes(IF session = "updating" THEN TaskFailed(q) ELSE Ended(Now, k))
    BY <1>8 DEF OtherFails, Fixed, q
  <2>2. CASE session = "updating"
    <3>1. Becomes(TaskFailed(q)) /\ Ok(q, lastFrame)  BY <1>3, <2>1, <2>2
    <3>2. Inv(TaskFailed(q), lastFrame)  BY <3>1, FailedOk
    <3>3. Tiled(TaskFailed(q), lastFrame, retired)  BY <1>4, <3>1, FailedTiled
    <3> QED  BY <1>5, <2>1, <3>1, <3>2, <3>3
  <2>3. CASE session # "updating"
    <3> DEFINE t == Ended(Now, k)
    <3>1. Becomes(t)  BY <2>1, <2>3
    <3>2. Inv(t, lastFrame)  BY <1>1, EndedOk
    <3>3. Tiled(t, lastFrame, retired)  BY <1>1, EndedTiled
    <3> QED  BY <1>5, <2>1, <3>1, <3>2, <3>3
  <2> QED  BY <2>2, <2>3
<1>9. CASE OtherIncompatible(k)
  <2>1. PICK tile \in BOOLEAN : Becomes(IncompatibleSDP(q, tile))
    BY <1>9 DEF OtherIncompatible, q
  <2>2. UNCHANGED <<canStop, lastFrame, retired>> /\ Ok(q, lastFrame)
    BY <1>3, <1>9 DEF OtherIncompatible, Fixed
  <2> DEFINE t == IncompatibleSDP(q, tile)
  <2>3. Inv(t, lastFrame)  BY <2>2, IncompatibleOk
  <2>4. Tiled(t, lastFrame, retired)  BY <1>4, <2>2, IncompatibleTiled
  <2> QED  BY <1>5, <2>1, <2>2, <2>3, <2>4
<1> QED  BY <1>6, <1>7, <1>8, <1>9 DEF OtherNegotiation

(* The connection is lost. *)
LEMMA LostAgrees ==
  ASSUME TilesInv, ConnectionLost, VideoInv'
  PROVE  TilesInv'
<1> DEFINE t == [Now EXCEPT !.retrying = TRUE]
<1>1. Becomes(t) /\ UNCHANGED <<canStop, lastFrame, retired>> /\ Now.session = "connected"
  BY DEF ConnectionLost, Fixed, Now
<1>2. /\ Ok(Now, lastFrame) /\ Tiled(Now, lastFrame, retired)
      /\ Groups(lastFrame) \cap retired = {}
  BY DEF TilesInv, VideoInv, Inv
<1> HIDE DEF Now
<1>3. Differs(Now, t, {"retrying"}) /\ t.retrying = TRUE
  BY <1>2 DEF Ok, Differs, IsState, Fields
<1> HIDE DEF t
<1>4. /\ SameShown(Now, t) /\ SameAsked(Now, t) /\ t.last = Now.last /\ t.step = Now.step
      /\ t.raced = Now.raced /\ t.misaligned = Now.misaligned
  BY <1>3 DEF Differs, Fields, SameShown, SameAsked
<1>5. ~Negotiating(Now) /\ ~Negotiating(t)  BY <1>1, <1>2, <1>4 DEF Ok, Flow, Negotiating
<1>6. Loose(t, lastFrame, retired)
  BY <1>2, <1>3, <1>4, <1>5, LooseIs, LooseStops DEF CleanIn, Tiled
<1>7. Tiled(t, lastFrame, retired)  BY <1>2, <1>4, <1>6 DEF Tiled, Asked, SameAsked
<1> QED  BY <1>1, <1>2, <1>3, <1>7, BecomesTiled DEF Differs

(* Another connection is tried, or will be when the negotiation is over. *)
LEMMA RetryAgrees ==
  ASSUME TilesInv, RetryWithBackoff, VideoInv'
  PROVE  TilesInv'
<1> DEFINE u == [Now EXCEPT !.retrying = FALSE]
           t == perform(u, "reconnect")
<1>1. Becomes(t) /\ UNCHANGED <<canStop, lastFrame, retired>>
  BY DEF RetryWithBackoff, Unchanged, Fixed
<1>2. /\ Ok(Now, lastFrame) /\ Tiled(Now, lastFrame, retired)
      /\ Groups(lastFrame) \cap retired = {}
  BY DEF TilesInv, VideoInv, Inv
<1> HIDE DEF Now
<1>3. Differs(Now, u, {"retrying"})  BY <1>2 DEF Ok, Differs, IsState, Fields
<1> HIDE DEF u
<1>4. SameFlow(Now, u)  BY <1>3 DEF Differs, Fields, SameFlow, SameBeside
<1>5. Flow(u)  BY <1>2, <1>4, Frames DEF Ok
<1>6. Ok(u, lastFrame)  BY <1>2, <1>3, <1>5, StepOk DEF Differs
<1>7. /\ SameShown(Now, u) /\ SameAsked(Now, u) /\ u.last = Now.last /\ u.step = Now.step
      /\ u.map = Now.map /\ u.attached = Now.attached /\ u.answer = Now.answer
      /\ u.forSubscribe = Now.forSubscribe
      /\ u.raced = Now.raced /\ u.misaligned = Now.misaligned
  BY <1>3 DEF Differs, Fields, SameShown, SameAsked
<1>8. Chosen(u, lastFrame, retired) /\ Asked(u)
  BY <1>2, <1>7 DEF Tiled, Loose, Chosen, Asked, SameAsked
<1>9. Tiled(t, lastFrame, retired)
  <2>1. CASE u.session = "connected"
    <3>1. t = BeginReconnect(u)  BY <2>1 DEF perform
    <3> HIDE DEF t
    <3> QED  BY <1>6, <1>8, <3>1, ReconnectTiled DEF Tiled
  <2>2. CASE u.session # "connected"
    <3>1. u.step # "none"  BY <1>5, <2>2 DEF Flow
    <3>2. OneTile(u)  BY <1>2, <1>7 DEF Tiled, Loose, OneTile, SameShown
    <3>3. ASSUME CleanIn(u) PROVE Matched(u, retired)
      <4>1. Matched(Now, retired)  BY <1>2, <1>7, <3>3 DEF Tiled, Loose, CleanIn
      <4>2. Showing(u) /\ Shown(u) /\ OneTrack(u)
        BY <1>7, <4>1 DEF Matched, Showing, Shows, Shown, OneTrack, SameShown
      <4>3. Idle(u)  BY <1>7, <4>1 DEF Matched, Idle, Negotiating, SameShown
      <4>4. Placed(u)  BY <1>7, <4>1 DEF Matched, Placed, Negotiating, SameShown, SameAsked
      <4>5. Told(u, retired)  BY <1>7, <4>1 DEF Matched, Told, SameShown, SameAsked
      <4>6. Agreed(u, retired)  BY <3>1 DEF Agreed
      <4> QED  BY <1>7, <4>1, <4>2, <4>3, <4>4, <4>5, <4>6 DEF Matched, SameAsked
    <3>4. Loose(u, lastFrame, retired)  BY <1>8, <3>2, <3>3 DEF Loose
    <3> QED  BY <1>6, <1>8, <3>4, PerformTiled DEF Tiled
  <2> QED  BY <2>1, <2>2
<1>10. Ok(t, lastFrame)  BY <1>6, PerformOk
<1> HIDE DEF t
<1> QED  BY <1>1, <1>2, <1>9, <1>10, BecomesTiled DEF Ok

-----------------------------------------------------------------------------
(* Tiles when the server or the application acts. *)

(* Publications only end: what was known is in the new frame, or has ended. *)
LEMMA MovesOn ==
  ASSUME NEW s, NEW f, NEW R, Tiled(s, f, R), NEW frame,
         NEW Q, Q = R \cup (Groups(f) \ Groups(frame))
  PROVE  Tiled(s, frame, Q)
<1>1. Groups(f) \cup R \subseteq Groups(frame) \cup Q  OBVIOUS
<1>2. Chosen(s, frame, Q)  BY <1>1 DEF Tiled, Loose, Chosen
<1>3. ASSUME Matched(s, R) PROVE Matched(s, Q)
  <2>1. Told(s, Q)  BY <1>3 DEF Matched, Told
  <2>2. Agreed(s, Q)  BY <1>3 DEF Matched, Agreed
  <2> QED  BY <1>3, <2>1, <2>2 DEF Matched
<1> QED  BY <1>2, <1>3 DEF Tiled, Loose

(* A frame arrives. *)
LEMMA FrameAgrees ==
  ASSUME TilesInv, NEW frame \in SUBSET Streams, IndexFrame(frame), VideoInv'
  PROVE  TilesInv'
<1> DEFINE Q == retired \cup (Groups(lastFrame) \ Groups(frame))
           t == handleIndexFrame(Now, frame)
<1>1. /\ Becomes(t) /\ lastFrame' = frame /\ retired' = Q /\ UNCHANGED canStop
      /\ Groups(frame) \cap retired = {}
  BY DEF IndexFrame
<1>2. Inv(Now, lastFrame) /\ Tiled(Now, lastFrame, retired)  BY DEF TilesInv, VideoInv
<1> HIDE DEF Now
<1>3. Groups(frame) \cap Q = {}  BY <1>1
<1>4. Tiled(Now, frame, Q)  BY <1>2, MovesOn
<1> HIDE DEF Q
<1>5. Tiled(t, frame, Q)  BY <1>2, <1>4, HandleTiled DEF Inv
<1>6. Ok(t, frame)  BY <1>2, HandleOk DEF Inv
<1> HIDE DEF t
<1> QED  BY <1>1, <1>3, <1>5, <1>6, BecomesTiled DEF Ok

(* The first frame of a new connection. *)
LEMMA RejoinedAgrees ==
  ASSUME TilesInv, NEW frame \in SUBSET Streams, Rejoined(frame), VideoInv'
  PROVE  TilesInv'
<1> DEFINE Q == retired \cup (Groups(lastFrame) \ Groups(frame))
           u == handleIndexFrame(Now, frame)
           t == [u EXCEPT !.step = "attach"]
<1>1. /\ Becomes(t) /\ lastFrame' = frame /\ retired' = Q /\ UNCHANGED canStop
      /\ Groups(frame) \cap retired = {} /\ Now.step = "rejoin"
  BY DEF Rejoined, Now
<1>2. Inv(Now, lastFrame) /\ Tiled(Now, lastFrame, retired)  BY DEF TilesInv, VideoInv
<1> HIDE DEF Now
<1>3. Groups(frame) \cap Q = {}  BY <1>1
<1>4. Tiled(Now, frame, Q)  BY <1>2, MovesOn
<1> HIDE DEF Q
<1>5. Tiled(u, frame, Q)  BY <1>2, <1>4, HandleTiled DEF Inv
<1>6. Ok(u, frame) /\ u.step = "rejoin"
  <2>1. Now.session # "connected"  BY <1>1, <1>2 DEF Inv, Ok, Flow
  <2> QED  BY <1>1, <1>2, <2>1, HandleOk DEF Inv
<1> HIDE DEF u
<1>7. Differs(u, t, {"step"}) /\ t.step = "attach"
  BY <1>6 DEF Ok, Differs, IsState, Fields
<1> HIDE DEF t
<1>8. Tiled(t, frame, Q)
  <2>1. /\ SameShown(u, t) /\ SameAsked(u, t) /\ t.last = u.last
        /\ t.raced = u.raced /\ t.misaligned = u.misaligned
    BY <1>7 DEF Differs, Fields, SameShown, SameAsked
  <2>2. ~Negotiating(u) /\ ~Negotiating(t) /\ t.step # "none"
    BY <1>6, <1>7 DEF Negotiating
  <2> QED  BY <1>5, <2>1, <2>2, LooseIs, LooseStops DEF Tiled, CleanIn, Asked, SameAsked
<1> QED  BY <1>1, <1>3, <1>7, <1>8, BecomesTiled DEF Differs

(* A report of metrics. *)
LEMMA MetricsAgree ==
  ASSUME TilesInv, metricsDidReceive, VideoInv'
  PROVE  TilesInv'
<1> DEFINE t == checkResubscribe(Now)
<1>1. Becomes(t) /\ UNCHANGED <<canStop, lastFrame, retired>>
  BY DEF metricsDidReceive, Unchanged, Fixed
<1>2. /\ Ok(Now, lastFrame) /\ Tiled(Now, lastFrame, retired) /\ lastFrame \subseteq Streams
      /\ Groups(lastFrame) \cap retired = {}
  BY DEF TilesInv, VideoInv, Inv
<1> HIDE DEF Now
<1>3. IsState(t) /\ Tiled(t, lastFrame, retired)
  <2>1. CASE Now.monitorPaused
    <3>1. t = [Now EXCEPT !.pendingReport = TRUE]  BY <2>1 DEF checkResubscribe
    <3> HIDE DEF t
    <3>2. Differs(Now, t, {"pendingReport"})
      BY <1>2, <3>1 DEF Ok, Differs, IsState, Fields
    <3>3. /\ SameShown(Now, t) /\ SameAsked(Now, t) /\ SameRest(Now, t)
          /\ t.raced = Now.raced /\ t.misaligned = Now.misaligned
      BY <3>2 DEF Differs, Fields, SameShown, SameAsked, SameRest
    <3> QED  BY <1>2, <3>2, <3>3, LooseFrames DEF CleanIn, Differs
  <2>2. CASE ~Now.monitorPaused
    <3> DEFINE r == resubscribe(Now)
    <3>1. t = finish(r)  BY <2>2 DEF checkResubscribe
    <3>2. Ok(t, lastFrame)
      <4> HIDE DEF t
      <4> QED  BY <1>2, <3>1, ResubscribeAll
    <3>3. Ok(r.state, lastFrame) /\ Tiled(r.state, lastFrame, retired)
      BY <1>2, ResubscribeOk, ResubscribeTiled
    <3> HIDE DEF r, t
    <3> QED  BY <1>2, <3>1, <3>2, <3>3, FinishTiled DEF Ok
  <2> QED  BY <2>1, <2>2
<1> HIDE DEF t
<1> QED  BY <1>1, <1>2, <1>3, BecomesTiled

(* The application chooses whom to see. *)
LEMMA ChooseAgrees ==
  ASSUME TilesInv, NEW sources \in SUBSET Attendees, chooseRemoteVideoSources(sources), VideoInv'
  PROVE  TilesInv'
<1> DEFINE o == calculateOptimalReceiveSet(current, sources)
           t == [Now EXCEPT !.chosen = sources, !.optimal = o]
<1>1. /\ Becomes(t) /\ UNCHANGED <<canStop, lastFrame, retired>> /\ Now.current = current
  BY DEF chooseRemoteVideoSources, Fixed, Now
<1>2. /\ Ok(Now, lastFrame) /\ Tiled(Now, lastFrame, retired)
      /\ Groups(lastFrame) \cap retired = {}
  BY DEF TilesInv, VideoInv, Inv
<1> HIDE DEF Now
<1>3. o \subseteq current /\ OneEach(o)
  <2>1. current \in SUBSET Streams /\ OneGroup(current)
    BY <1>1, <1>2 DEF Ok, SetInv, Tiled, Loose, Chosen
  <2> QED  BY <2>1, Picks
<1> HIDE DEF o
<1>4. Differs(Now, t, {"chosen", "optimal"}) /\ t.optimal = o
  BY <1>2 DEF Ok, Differs, IsState, Fields
<1> HIDE DEF t
<1>5. /\ SameShown(Now, t) /\ SameRest(Now, t) /\ t.current = Now.current
      /\ t.receive = Now.receive /\ t.raced = Now.raced /\ t.misaligned = Now.misaligned
  BY <1>4 DEF Differs, Fields, SameShown, SameRest
<1>6. Chosen(t, lastFrame, retired) /\ Asked(t)
  BY <1>1, <1>2, <1>3, <1>4, <1>5 DEF Tiled, Loose, Chosen, Asked, SameRest
<1>7. OneTile(t)  BY <1>2, <1>5 DEF Tiled, Loose, OneTile, SameShown
<1>8. ASSUME CleanIn(t) PROVE Matched(t, retired)
  <2>1. Matched(Now, retired)  BY <1>2, <1>5, <1>8 DEF Tiled, Loose, CleanIn
  <2>2. Showing(t) /\ Shown(t) /\ OneTrack(t)
    BY <1>5, <2>1 DEF Matched, Showing, Shows, Shown, OneTrack, SameShown
  <2>3. Idle(t)  BY <1>5, <2>1 DEF Matched, Idle, Negotiating, SameShown, SameRest
  <2>4. Placed(t)  BY <1>5, <2>1 DEF Matched, Placed, Negotiating, SameShown, SameRest
  <2>5. Told(t, retired)  BY <1>5, <2>1 DEF Matched, Told, SameShown, SameRest
  <2>6. Agreed(t, retired)  BY <1>5, <2>1 DEF Matched, Agreed, LastOnes, SameShown, SameRest
  <2> QED  BY <1>5, <2>1, <2>2, <2>3, <2>4, <2>5, <2>6 DEF Matched
<1>9. Tiled(t, lastFrame, retired)  BY <1>6, <1>7, <1>8 DEF Tiled, Loose
<1> QED  BY <1>1, <1>2, <1>4, <1>9, BecomesTiled DEF Differs

(* Its own video begins or ends. *)
LEMMA LocalAgrees ==
  ASSUME TilesInv, LocalVideo, VideoInv'
  PROVE  TilesInv'
<1> DEFINE t == update(Now)
<1>1. Becomes(t) /\ UNCHANGED <<canStop, lastFrame, retired>>  BY DEF LocalVideo, Fixed
<1>2. /\ Ok(Now, lastFrame) /\ Tiled(Now, lastFrame, retired)
      /\ Groups(lastFrame) \cap retired = {}
  BY DEF TilesInv, VideoInv, Inv
<1> HIDE DEF Now
<1>3. Ok(t, lastFrame) /\ Tiled(t, lastFrame, retired)  BY <1>2, UpdateOk, UpdateTiled
<1> HIDE DEF t
<1> QED  BY <1>1, <1>2, <1>3, BecomesTiled DEF Ok

-----------------------------------------------------------------------------
(* At the beginning there is no tile. *)
LEMMA InitTiles == Init => TilesInv
<1> SUFFICES ASSUME Init PROVE TilesInv  OBVIOUS
<1>1. Chosen(Now, lastFrame, retired) /\ OneTile(Now) /\ Asked(Now)
  BY DEF Init, Now, Chosen, Groups, OneGroup, OneEach, OneTile, Asked
<1>2. DOMAIN trans = {}
  <2>1. trans \in Seq({}) /\ Len(trans) = 0  BY DEF Init
  <2> QED  BY <2>1
<1>3. Showing(Now) /\ Shown(Now) /\ OneTrack(Now) /\ Idle(Now)
  BY <1>2 DEF Init, Now, Showing, Shown, OneTrack, Idle
<1>4. Placed(Now) /\ Told(Now, retired) /\ Agreed(Now, retired)
  BY DEF Init, Now, Placed, Told, Agreed, Negotiating
<1>5. Matched(Now, retired)  BY <1>3, <1>4 DEF Matched, Init, Now
<1>6. Groups(lastFrame) \cap retired = {}  BY DEF Init
<1> QED  BY <1>1, <1>5, <1>6, InitInv DEF TilesInv, Tiled, Loose

(* The tiles agree at every step, for any streams and any number of events. *)
THEOREM TilesAlways == Spec => []TilesInv
<1>1. TilesInv /\ VideoInv' /\ [Next]_vars => TilesInv'
  <2> SUFFICES ASSUME TilesInv, VideoInv', [Next]_vars PROVE TilesInv'  OBVIOUS
  <2>1. CASE Negotiation  BY <2>1, NegotiationAgrees
  <2>2. ASSUME NEW k \in DOMAIN others, OtherNegotiation(k) PROVE TilesInv'
    BY <2>2, OtherAgrees
  <2>3. CASE ConnectionLost  BY <2>3, LostAgrees
  <2>4. CASE RetryWithBackoff  BY <2>4, RetryAgrees
  <2>5. ASSUME NEW frame \in Indexes, IndexFrame(frame) PROVE TilesInv'
    BY <2>5, FrameAgrees, StreamsAssumption
  <2>6. ASSUME NEW frame \in Indexes, Rejoined(frame) PROVE TilesInv'
    BY <2>6, RejoinedAgrees, StreamsAssumption
  <2>7. CASE metricsDidReceive  BY <2>7, MetricsAgree
  <2>8. CASE LocalVideo  BY <2>8, LocalAgrees
  <2>9. ASSUME NEW sources \in SUBSET Attendees, chooseRemoteVideoSources(sources)
        PROVE  TilesInv'
    BY <2>9, ChooseAgrees
  <2>10. CASE UNCHANGED vars
    <3>1. UNCHANGED <<canStop, lastFrame, retired>>  BY <2>10 DEF vars
    <3>2. Becomes(Now)  BY <2>10 DEF Becomes, vars, Now
    <3>3. /\ IsState(Now) /\ Tiled(Now, lastFrame, retired)
          /\ Groups(lastFrame) \cap retired = {}
      BY NowIsState DEF TilesInv
    <3> HIDE DEF Now
    <3> QED  BY <3>1, <3>2, <3>3, BecomesTiled
  <2> QED  BY <2>1, <2>2, <2>3, <2>4, <2>5, <2>6, <2>7, <2>8, <2>9, <2>10 DEF Next
<1> QED  BY <1>1, InitTiles, InvAlways, PTL DEF Spec

(* On a connection without the races that the histories record, two negotiations *)
(* at once among them, no tile ever shows the stream of another attendee and     *)
(* none has two; and once nothing is negotiated or retried, those whose streams  *)
(* are received have tiles, which show the streams they name.                    *)
THEOREM TilesAgreed == Spec => []TilesAgree
<1>1. TilesInv => TilesAreTheirs
  <2> SUFFICES ASSUME TilesInv, Clean
               PROVE  /\ \A e \in tiles : server[e.at] # 0 =>
                                            Attendee[server[e.at]] = e.attendee
                      /\ \A e, d \in tiles : e.attendee = d.attendee => e = d
    BY DEF TilesAreTheirs
  <2>1. Tiled(Now, lastFrame, retired) /\ CleanIn(Now)
    BY DEF TilesInv, Clean, CleanIn, Now
  <2>2. OneTile(Now) /\ Showing(Now)  BY <2>1 DEF Tiled, Loose, Matched
  <2> QED  BY <2>2 DEF OneTile, Showing, Shows, Now
<1>2. TilesInv => TilesMatch
  <2> SUFFICES ASSUME TilesInv, Settled, Clean
               PROVE  /\ {e.attendee : e \in tiles} =
                           {Attendee[x] : x \in {y \in receive : Live(y)}}
                      /\ \A e \in tiles : server[e.at] = e.stream
    BY DEF TilesMatch
  <2>1. /\ Tiled(Now, lastFrame, retired) /\ CleanIn(Now) /\ Inv(Now, lastFrame)
        /\ Groups(lastFrame) \cap retired = {}
    BY DEF TilesInv, VideoInv, Clean, CleanIn, Now
  <2>2. Matched(Now, retired) /\ Asked(Now)  BY <2>1 DEF Tiled, Loose
  <2>3. step = "none" /\ ~retrying /\ current = integrateIndexFrame(lastFrame)
    BY <2>1 DEF Inv, Ok, Flow, Rests, Latest, Settled, Now
  <2>4. LastOnes(Now) = receive
    <3>1. receive # NoSet  BY <2>1, NoSetIs DEF Inv, Ok, SetInv, Now
    <3> QED  BY <2>2, <3>1 DEF Asked, LastOnes, Now
  <2>5. /\ \A e \in tiles : server[e.at] = e.stream /\ e.stream \in receive
        /\ \A x \in receive : (\E e \in tiles : e.attendee = Attendee[x]) \/ Group[x] \in retired
    <3>1. Agreed(Now, retired)  BY <2>2 DEF Matched
    <3> QED  BY <2>3, <2>4, <3>1 DEF Agreed, Now
  <2>6. ASSUME NEW x \in receive PROVE Live(x) /\ Group[x] \notin retired
    <3>1. x \in current /\ x \in Streams
      BY <2>1, <2>2 DEF Matched, Inv, Ok, SetInv, Now
    <3>2. x \in lastFrame  BY <2>3, <3>1 DEF integrateIndexFrame
    <3>3. Group[x] \in Groups(lastFrame)  BY <3>2 DEF Groups
    <3> QED  BY <2>1, <3>1, <3>3, StreamsAssumption DEF Live
  <2>7. ASSUME NEW e \in tiles PROVE e.stream \in receive /\ e.attendee = Attendee[e.stream]
    <3>1. Shows(Now, e)  BY <2>2 DEF Matched, Showing, Now
    <3> QED  BY <2>5, <3>1 DEF Shows
  <2>8. {y \in receive : Live(y)} = receive  BY <2>6
  <2>9. {e.attendee : e \in tiles} = {Attendee[x] : x \in receive}
    <3>1. \A e \in tiles : \E x \in receive : e.attendee = Attendee[x]  BY <2>7
    <3>2. \A x \in receive : \E e \in tiles : e.attendee = Attendee[x]  BY <2>5, <2>6
    <3> QED  BY <3>1, <3>2
  <2> QED  BY <2>5, <2>8, <2>9
<1> QED  BY <1>1, <1>2, TilesAlways, PTL DEF TilesAgree

=============================================================================
