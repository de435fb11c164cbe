---------------------------- MODULE RealtimeProofs ----------------------------
(***************************************************************************)
(* Of what an application learns of the attendees, for any attendees, any   *)
(* number of streams and frames, volumes and scores: its roster becomes the *)
(* server's again, and the two agree on whether this client is muted.       *)
(*                                                                         *)
(* RealtimeInv says what the server's streams are (ServerInv), that what the *)
(* adapter remembers of them was so (MemoryInv), that it knows all of them   *)
(* while frames are read (AdapterInv), that whoever is on the roster is      *)
(* known to the adapter (RosterInv), and of the client its types and that    *)
(* it shows the local mute (ClientOK).  A frame is a fold; what a fold       *)
(* preserves is proved by induction over its length, below.                 *)
(***************************************************************************)
EXTENDS Realtime, WellFoundedInduction, SequenceTheorems, TLAPS

(* Whoever listens to the presence of attendees: the application first, once. *)
Listeners == {"app", "wait", "detector"}
ListOK(l) ==
  /\ l \in Seq(Listeners) /\ Len(l) >= 1
  /\ l[1] = "app" /\ \A i \in 2..Len(l) : l[i] # "app"

Indicator == [muted : BOOLEAN \union {None}, volume : Volumes \union {None}]
RtOK(r) ==
  /\ r = [f \in {"attendeeIdChangesCallbacks", "muted", "indicators", "callbacks"} |-> r[f]]
  /\ ListOK(r.attendeeIdChangesCallbacks) /\ r.muted \in BOOLEAN
  /\ r.indicators \in [Attendees -> Indicator] /\ r.callbacks \in [Attendees -> Nat]

(* LocalMuteRules, of a state of the controller. *)
LocalShown(r) == r.indicators[self].muted \in {r.muted, None}
MutedSilent(r) ==
  \A a \in Attendees : r.indicators[a].muted = TRUE => r.indicators[a].volume \in {0, None}

AppOK(p) ==
  /\ p = [f \in {"roster", "waited"} |-> p[f]]
  /\ p.roster \subseteq Attendees /\ p.waited \in BOOLEAN

DetOK(d) ==
  /\ d = [f \in {"subscription", "volumes", "speakerScores", "known", "activeSpeakers",
                 "hasBandwidthPriority"} |-> d[f]]
  /\ d.volumes \in [Attendees -> 0..MaxLevel] /\ d.speakerScores \in [Attendees -> 0..MaxLevel]
  /\ d.known \in Seq(Attendees)

(* The client, and the client while a change of the mute is not shown yet.    *)
AlmostOK(s) ==
  /\ s = [f \in {"rt", "app", "det"} |-> s[f]]
  /\ RtOK(s.rt) /\ MutedSilent(s.rt) /\ AppOK(s.app) /\ DetOK(s.det)
ClientOK(s) == AlmostOK(s) /\ LocalShown(s.rt)

(* The adapter: an attendee is known by a stream that is the attendee's.      *)
AdapterOK(byStream, byAttendee) ==
  /\ byStream \in [Streams -> Attendees \union {None}]
  /\ byAttendee \in [Attendees -> 0..MaxStreams]
  /\ \A a \in Attendees : byAttendee[a] # 0 => byStream[byAttendee[a]] = a

(* The server's streams: numbers are given once, and this client has one.     *)
ServerInv ==
  /\ streams \in [Streams -> Attendees \union {None}] /\ nextStream \in 1..MaxStreams + 1
  /\ {fullFrameDue, selfDue, serverMuted, sessionReconnected} \subseteq BOOLEAN
  /\ link \in {"down", "open", "up"} /\ frames \in 0..MaxFrames
  /\ \A i \in Streams : streams[i] # None => i < nextStream
  /\ \A i, j \in Streams : streams[i] = self /\ streams[j] = self => i = j
  /\ link = "up" => \E i \in Streams : streams[i] = self

(* What the adapter remembers was so: a stream is its attendee's or has ended, *)
(* and one that has ended is older than the attendee's others.                *)
MemoryInv ==
  /\ \A i \in Streams : streamIdToAttendeeId[i] # None => i < nextStream
  /\ \A i \in Streams : streams[i] # None /\ streamIdToAttendeeId[i] # None =>
       streams[i] = streamIdToAttendeeId[i]
  /\ \A i, j \in Streams :
       streamIdToAttendeeId[i] # None /\ streams[i] = None /\ streams[j] = streamIdToAttendeeId[i]
       => j > i

(* While frames are read the adapter has every stream that was told of.       *)
Told(i) == streams[i] # None /\ (streams[i] = self => ~selfDue)
AdapterInv ==
  /\ AdapterOK(streamIdToAttendeeId, attendeeIdToStreamId)
  /\ Listening => \A i \in Streams : Told(i) => streamIdToAttendeeId[i] = streams[i]

(* Who is on the roster is known to the adapter, and so is told as gone when a *)
(* connection comes back without; before the first frame nobody is.          *)
BeforeFirst == (link = "open" \/ (link = "up" /\ fullFrameDue)) /\ ~sessionReconnected
RosterInv ==
  /\ \A a \in app.roster : a # self => \E i \in Streams : streamIdToAttendeeId[i] = a
  /\ Listening => ~sessionReconnected
  /\ BeforeFirst => app.roster = {} /\ \A i \in Streams : streamIdToAttendeeId[i] = None
  /\ Listening => \A a \in Attendees : a # self
     => (a \in app.roster <=> \E i \in Streams : streams[i] = a)
  /\ Listening /\ ~selfDue => self \in app.roster

RealtimeInv ==
  /\ ServerInv /\ MemoryInv /\ AdapterInv /\ RosterInv
  /\ ClientOK(Client) /\ ServerKnowsMute
-----------------------------------------------------------------------------
(* Folds.  The theorems of the library about recursive functions are about an *)
(* operator that is a parameter; here the steps of all folds of Realtime are  *)
(* alternatives of one operator, with what they need to know as the context c,*)
(* and induction is over a set of numbers.                                   *)
Step(k, c, t, x) ==
  CASE k = 1 -> updateScore(t, c[1], c[2])
    [] k = 2 -> InfoItem(t, x)
    [] k = 3 -> IF x = None \/ x \in c THEN t ELSE Delete(t, x)
    [] k = 4 -> IF x = None THEN t
                ELSE realtimeUpdateVolumeIndicator(t, x, c[1][x], None, x \in c[2])
Fold(k, c, base, seq) == FoldLeft(LAMBDA t, x : Step(k, c, t, x), base, seq)

(* A set of numbers with 0, and with the successor of each, has all. *)
LEMMA Induction ==
  ASSUME NEW P, 0 \in P, \A n \in Nat : n \in P => n + 1 \in P
  PROVE Nat \subseteq P
<1> DEFINE R == OpToRel(<, Nat)
           T == Nat \ P
<1>1. SUFFICES ASSUME T # {} PROVE FALSE
  OBVIOUS
<1>2. IsWellFoundedOn(R, Nat)
  BY NatLessThanWellFounded
<1>3. T \subseteq Nat
  OBVIOUS
<1>4. \A x, y \in Nat : y < x => <<y, x>> \in R
  BY DEF OpToRel
<1> HIDE DEF R
<1>5. PICK x \in T : \A y \in T : ~ (<<y, x>> \in R)
  <2> HIDE DEF T
  <2> QED BY <1>1, <1>2, <1>3, WFMin
<1>6. x # 0 /\ x - 1 \in Nat
  OBVIOUS
<1>7. x \in Nat /\ x - 1 < x /\ (x - 1) + 1 = x
  OBVIOUS
<1>8. <<x - 1, x>> \in R
  BY <1>4, <1>6, <1>7
<1>9. x - 1 \in P
  BY <1>5, <1>6, <1>8
<1> QED BY <1>6, <1>7, <1>9

(* A nonempty set of numbers up to k has a greatest. *)
LEMMA MaxIs ==
  ASSUME NEW k \in Nat, NEW s \in SUBSET (1..k), s # {}
  PROVE Max(s) \in s /\ \A y \in s : y <= Max(s)
<1> DEFINE P == {n \in Nat : \A t \in SUBSET (1..n) : t # {} => \E x \in t : \A y \in t : x >= y}
<1>1. 0 \in P
  <2>1. \A t \in SUBSET (1..0) : t = {}
    OBVIOUS
  <2> QED BY <2>1
<1>2. ASSUME NEW n \in P PROVE n + 1 \in P
  <2> SUFFICES ASSUME NEW t \in SUBSET (1..n+1), t # {} PROVE \E x \in t : \A y \in t : x >= y
    OBVIOUS
  <2>1. CASE n + 1 \in t
    BY <2>1
  <2>2. CASE n + 1 \notin t
    <3>1. t \in SUBSET (1..n)
      BY <2>2
    <3> QED BY <3>1
  <2> QED BY <2>1, <2>2
<1>3. Nat \subseteq P
  <2> HIDE DEF P
  <2> QED BY <1>1, <1>2, Induction
<1>4. PICK x \in s : \A y \in s : x >= y
  BY <1>3
<1>5. s \subseteq Nat
  OBVIOUS
<1> QED BY <1>4, <1>5 DEF Max

(* What FoldLeft takes for its iteration, over the numbers up to n. *)
Iterates(g, k, c, base, seq, n) ==
  g = [s \in SUBSET (1..n) |-> IF s = {} THEN base ELSE Step(k, c, g[s \ {Max(s)}], seq[Max(s)])]

(* There is such a function. *)
LEMMA FoldExists ==
  ASSUME NEW k, NEW c, NEW base, NEW seq, NEW m \in Nat
  PROVE \E g : Iterates(g, k, c, base, seq, m)
<1> DEFINE P == {n \in Nat : \E g : Iterates(g, k, c, base, seq, n)}
<1>1. 0 \in P
  <2>1. Iterates([s \in SUBSET (1..0) |-> base], k, c, base, seq, 0)
    BY DEF Iterates
  <2> QED BY <2>1
<1>2. ASSUME NEW n \in P PROVE n + 1 \in P
  <2>1. PICK g : Iterates(g, k, c, base, seq, n)
    OBVIOUS
  <2> DEFINE h == [s \in SUBSET (1..n+1) |->
                     IF n + 1 \in s THEN Step(k, c, g[s \ {n + 1}], seq[n + 1]) ELSE g[s]]
  <2>2. ASSUME NEW s \in SUBSET (1..n+1)
        PROVE h[s] = IF s = {} THEN base ELSE Step(k, c, h[s \ {Max(s)}], seq[Max(s)])
    <3>0. n + 1 \in Nat /\ n \in Nat
      OBVIOUS
    <3>1. CASE n + 1 \in s
      <4>1. Max(s) \in s /\ n + 1 <= Max(s)
        <5> HIDE DEF P, h
        <5> QED BY <3>0, <3>1, MaxIs
      <4>5. Max(s) \in 1..n+1
        BY <4>1
      <4>2. Max(s) = n + 1
        BY <4>1, <4>5, <3>0
      <4>3. s \ {n + 1} \in SUBSET (1..n+1) /\ n + 1 \notin s \ {n + 1}
        OBVIOUS
      <4>4. h[s \ {n + 1}] = g[s \ {n + 1}]
        BY <4>3
      <4> QED BY <3>1, <4>2, <4>4
    <3>2. CASE n + 1 \notin s
      <4>1. s \in SUBSET (1..n)
        BY <3>2
      <4>2. s \ {Max(s)} \in SUBSET (1..n)
        BY <4>1
      <4>3. g[s] = IF s = {} THEN base ELSE Step(k, c, g[s \ {Max(s)}], seq[Max(s)])
        BY <2>1, <4>1 DEF Iterates
      <4>4. h[s] = g[s]
        BY <3>2, <4>1
      <4>5. h[s \ {Max(s)}] = g[s \ {Max(s)}]
        BY <3>2, <4>2
      <4> QED BY <4>3, <4>4, <4>5
    <3> QED BY <3>1, <3>2
  <2>3. Iterates(h, k, c, base, seq, n + 1)
    <3>1. h = [s \in SUBSET (1..n+1) |-> h[s]]
      OBVIOUS
    <3> HIDE DEF h
    <3> QED BY <2>2, <3>1, Zenon DEF Iterates
  <2> QED BY <2>3
<1>3. Nat \subseteq P
  <2> HIDE DEF P
  <2> QED BY <1>1, <1>2, Induction
<1> QED BY <1>3

(* A fold goes through a state for every prefix of the sequence. *)
Passes(h, k, c, base, seq, n) ==
  /\ h[0] = base
  /\ \A i \in 1..n : h[i] = Step(k, c, h[i - 1], seq[i])

(* A fold over a sequence passes one value after each element, and ends with the last. *)
LEMMA FoldPasses ==
  ASSUME NEW k, NEW c, NEW base, NEW n \in Nat, NEW seq, DOMAIN seq = 1..n
  PROVE \E h : Passes(h, k, c, base, seq, n) /\ Fold(k, c, base, seq) = h[n]
<1> DEFINE g == CHOOSE f : Iterates(f, k, c, base, seq, n)
           h == [i \in 0..n |-> g[1..i]]
<1>1. Iterates(g, k, c, base, seq, n)
  BY FoldExists
<1>2. Fold(k, c, base, seq) = g[1..n]
  BY DEF Fold, FoldLeft, MapThenFoldSet, Iterates
<1> HIDE DEF g
<1>3. h[0] = base
  <2>1. 1..0 = {} /\ {} \in SUBSET (1..n)
    OBVIOUS
  <2> QED BY <1>1, <2>1 DEF Iterates
<1>4. ASSUME NEW i \in 1..n PROVE h[i] = Step(k, c, h[i - 1], seq[i])
  <2>1. 1..i \in SUBSET (1..n) /\ 1..i # {} /\ i \in Nat /\ i - 1 \in 0..n /\ i \in 0..n
    OBVIOUS
  <2>2. Max(1..i) = i
    <3>1. Max(1..i) \in 1..i /\ \A y \in 1..i : y <= Max(1..i)
      BY <2>1, MaxIs
    <3> QED BY <3>1
  <2>3. (1..i) \ {i} = 1..(i - 1)
    OBVIOUS
  <2>4. g[1..i] = Step(k, c, g[1..(i - 1)], seq[i])
    BY <1>1, <2>1, <2>2, <2>3 DEF Iterates
  <2> QED BY <2>1, <2>4
<1>5. h[n] = g[1..n]
  OBVIOUS
<1> QED BY <1>2, <1>3, <1>4, <1>5 DEF Passes

(* What the states of a fold keep: a set of prefixes, with each the next.     *)
LEMMA FoldKeeps ==
  ASSUME NEW n \in Nat, NEW P, 0 \in P, \A i \in 1..n : i - 1 \in P => i \in P
  PROVE n \in P
<1> DEFINE Q == {i \in Nat : i <= n => i \in P}
<1>1. 0 \in Q
  OBVIOUS
<1>2. ASSUME NEW i \in Nat, i \in Q PROVE i + 1 \in Q
  <2>1. i + 1 \in 1..n => i \in P
    BY <1>2
  <2>2. i + 1 \in 1..n => i + 1 \in P
    <3>1. (i + 1) - 1 = i
      OBVIOUS
    <3> QED BY <2>1, <3>1
  <2> QED BY <2>2
<1>3. Nat \subseteq Q
  <2> HIDE DEF Q
  <2> QED BY <1>1, <1>2, Induction
<1> QED BY <1>3

-----------------------------------------------------------------------------
(* The steps of the client. *)

(* A nonempty set of positions has a first. *)
LEMMA MinIs ==
  ASSUME NEW k \in Nat, NEW s \in SUBSET (1..k), s # {}
  PROVE Min(s) \in s /\ \A y \in s : Min(s) <= y
<1> DEFINE R == OpToRel(<, Nat)
<1>1. IsWellFoundedOn(R, Nat)
  BY NatLessThanWellFounded
<1>2. \A x, y \in Nat : y < x => <<y, x>> \in R
  BY DEF OpToRel
<1>3. s \subseteq Nat
  OBVIOUS
<1> HIDE DEF R
<1>4. PICK x \in s : \A y \in s : ~ (<<y, x>> \in R)
  BY <1>1, <1>3, WFMin
<1>5. x \in Nat /\ \A y \in s : y \in Nat /\ ~ (y < x)
  BY <1>2, <1>3, <1>4
<1>6. \A y \in s : x <= y
  BY <1>5
<1> QED BY <1>4, <1>6, <1>3 DEF Min

(* To take any listener but the application off the list leaves a list. *)
LEMMA RemovedOK ==
  ASSUME NEW l, ListOK(l), NEW w \in 2..Len(l)
  PROVE ListOK(RemoveAt(l, w))
<1>1. l \in Seq(Listeners) /\ Len(l) \in Nat /\ w \in Nat
  BY DEF ListOK
<1> DEFINE m == RemoveAt(l, w)
           p == SubSeq(l, 1, w - 1)
           q == SubSeq(l, w + 1, Len(l))
<1>2. p \in Seq(Listeners) /\ Len(p) = w - 1 /\ \A i \in 1..(w - 1) : p[i] = l[i]
  BY <1>1
<1>3. q \in Seq(Listeners) /\ Len(q) = Len(l) - w /\ \A i \in 1..(Len(l) - w) : q[i] = l[w + i]
  BY <1>1
<1>4. m = p \o q
  BY DEF RemoveAt
<1> HIDE DEF m, p, q
<1>5. m \in Seq(Listeners) /\ Len(m) = Len(l) - 1
  <2>1. m \in Seq(Listeners) /\ Len(m) = Len(p) + Len(q)
    BY <1>2, <1>3, <1>4, ConcatProperties
  <2> QED BY <1>1, <1>2, <1>3, <2>1
<1>6. \A i \in 1..Len(m) : m[i] = IF i <= w - 1 THEN l[i] ELSE l[i + 1]
  <2> TAKE i \in 1..Len(m)
  <2>1. CASE i <= w - 1
    BY <1>1, <1>2, <1>3, <1>4, <1>5, <2>1
  <2>2. CASE ~(i <= w - 1)
    <3>1. m[i] = q[i - (w - 1)]
      BY <1>1, <1>2, <1>3, <1>4, <1>5, <2>2
    <3>2. i - (w - 1) \in 1..(Len(l) - w) /\ w + (i - (w - 1)) = i + 1
      BY <1>1, <1>5, <2>2
    <3> QED BY <1>3, <2>2, <3>1, <3>2
  <2> QED BY <2>1, <2>2
<1>7. Len(m) >= 1 /\ m[1] = "app"
  BY <1>1, <1>5, <1>6 DEF ListOK
<1>8. \A i \in 2..Len(m) : m[i] # "app"
  BY <1>1, <1>5, <1>6 DEF ListOK
<1> QED BY <1>5, <1>7, <1>8 DEF ListOK, m

(* A listener but the application is found behind the application. *)
LEMMA FoundBehind ==
  ASSUME NEW l, ListOK(l), NEW e \in {"wait", "detector"}
  PROVE SelectInSeq(l, LAMBDA x : x = e) \in {0} \union 2..Len(l)
<1> DEFINE I == {i \in 1..Len(l) : l[i] = e}
<1>1. l \in Seq(Listeners) /\ Len(l) \in Nat
  BY DEF ListOK
<1>2. I \in SUBSET (1..Len(l)) /\ I \subseteq 2..Len(l)
  BY <1>1 DEF ListOK
<1>3. SelectInSeq(l, LAMBDA x : x = e) = IF I # {} THEN Min(I) ELSE 0
  BY DEF SelectInSeq
<1> HIDE DEF I
<1>4. CASE I # {}
  <2>1. Min(I) \in I
    BY <1>1, <1>2, <1>4, MinIs
  <2> QED BY <1>2, <1>3, <1>4, <2>1
<1> QED BY <1>3, <1>4

(* indexOf and splice leave the application first, and the only one of it. *)
LEMMA UnsubscribedOK ==
  ASSUME NEW l, ListOK(l), NEW e \in {"wait", "detector"}
  PROVE ListOK(RemoveFirst(l, e))
<1> DEFINE w == SelectInSeq(l, LAMBDA x : x = e)
<1>1. w \in {0} \union 2..Len(l)
  BY FoundBehind
<1>2. CASE \E i \in 1..Len(l) : l[i] = e
  <2>1. PICK i \in 1..Len(l) : l[i] = e
    BY <1>2
  <2>2. w \in 2..Len(l)
    <3> DEFINE I == {j \in 1..Len(l) : l[j] = e}
    <3>1. Len(l) \in Nat /\ I \in SUBSET (1..Len(l)) /\ I # {}
      BY <2>1 DEF ListOK
    <3>2. w = Min(I)
      BY <3>1 DEF SelectInSeq
    <3> HIDE DEF I, w
    <3>3. Min(I) \in I
      BY <3>1, MinIs
    <3>4. w # 0
      BY <3>1, <3>2, <3>3
    <3> QED BY <1>1, <3>4
  <2>3. RemoveFirst(l, e) = RemoveAt(l, w)
    BY <1>2 DEF RemoveFirst
  <2> QED BY <2>2, <2>3, RemovedOK
<1>3. CASE ~ \E i \in 1..Len(l) : l[i] = e
  BY <1>3 DEF RemoveFirst
<1> QED BY <1>2, <1>3

(* The walk never skips the application, who is in front of all others. *)
LEMMA WalkOK ==
  ASSUME NEW l, ListOK(l), NEW a, NEW present
  PROVE /\ ListOK(Walk(l, a, present).left)
        /\ "app" \in Range(l) \ Walk(l, a, present).skipped
<1> DEFINE w == SelectInSeq(l, LAMBDA x : x = "wait")
           found == w # 0 /\ a = self /\ present
<1>1. w \in {0} \union 2..Len(l)
  BY FoundBehind
<1>2. Walk(l, a, present) =
        [left |-> IF found THEN RemoveAt(l, w) ELSE l,
         skipped |-> IF found /\ w < Len(l) THEN {l[w + 1]} ELSE {}]
  BY DEF Walk
<1>3. "app" \in Range(l)
  BY DEF ListOK, Range
<1> HIDE DEF w
<1>4. found => w \in 2..Len(l)
  BY <1>1
<1>5. found => ListOK(RemoveAt(l, w))
  BY <1>4, RemovedOK
<1>6. found /\ w < Len(l) => l[w + 1] # "app"
  <2>1. found /\ w < Len(l) => w + 1 \in 2..Len(l)
    BY <1>4 DEF ListOK
  <2> QED BY <2>1 DEF ListOK
<1> HIDE DEF found
<1> QED BY <1>2, <1>3, <1>5, <1>6

(* Scores have their range, and who is known is an attendee. *)
LEMMA ScoresOK ==
  ASSUME NEW volumes \in [Attendees -> 0..MaxLevel], NEW a \in Attendees, NEW loud
  PROVE calculateScore(volumes, a, loud) \in [Attendees -> 0..MaxLevel]
<1>1. MaxLevel \in Nat
  BY BoundsAssumption
<1>2. ASSUME NEW b \in Attendees
      PROVE (IF b = a /\ loud
             THEN IF volumes[b] < MaxLevel THEN volumes[b] + 1 ELSE MaxLevel
             ELSE IF (b = a \/ loud) /\ volumes[b] > 0 THEN volumes[b] - 1
             ELSE volumes[b]) \in 0..MaxLevel
  <2>1. volumes[b] \in 0..MaxLevel
    OBVIOUS
  <2> QED BY <1>1, <2>1
<1> QED BY <1>2 DEF calculateScore

(* An attendee whose score is set is known from then on. *)
LEMMA SetScoreOK ==
  ASSUME NEW d, DetOK(d), NEW a \in Attendees, NEW score \in 0..MaxLevel
  PROVE DetOK(SetScore(d, a, score))
<1> DEFINE u == [d EXCEPT !.speakerScores[a] = score,
                          !.known = IF a \in Range(@) THEN @ ELSE Append(@, a)]
<1>1. DetOK(u)
  <2> DEFINE scores == [d.speakerScores EXCEPT ![a] = score]
             known == IF a \in Range(d.known) THEN d.known ELSE Append(d.known, a)
  <2>1. scores \in [Attendees -> 0..MaxLevel]
    BY DEF DetOK
  <2>2. known \in Seq(Attendees)
    BY DEF DetOK
  <2>3. u = [d EXCEPT !.speakerScores = scores, !.known = known]
    BY Zenon DEF DetOK
  <2> HIDE DEF u, scores, known
  <2> QED BY <2>1, <2>2, <2>3 DEF DetOK
<1>2. SetScore(d, a, score) = updateActiveSpeakers(u, a)
  BY DEF SetScore
<1> HIDE DEF u
<1>3. DetOK(updateActiveSpeakers(u, a))
  BY <1>1 DEF updateActiveSpeakers, DetOK
<1> QED BY <1>2, <1>3

(* The detector keeps its types, whoever is heard. *)
LEMMA updateScoreOK ==
  ASSUME NEW d, DetOK(d), NEW a \in Attendees, NEW loud
  PROVE DetOK(updateScore(d, a, loud))
<1> DEFINE heard == [d EXCEPT !.volumes = calculateScore(@, a, loud)]
<1>1. calculateScore(d.volumes, a, loud) \in [Attendees -> 0..MaxLevel]
  BY ScoresOK DEF DetOK
<1>4. DetOK(heard) /\ heard.volumes[a] \in 0..MaxLevel
  BY <1>1 DEF DetOK
<1>3. updateScore(d, a, loud) \in {heard, SetScore(heard, a, heard.volumes[a])}
  BY DEF updateScore
<1> HIDE DEF heard
<1> QED BY <1>3, <1>4, SetScoreOK

(* The callbacks of an attendee's volume change the detector, and nothing else.*)
LEMMA ChangeOK ==
  ASSUME NEW s, ClientOK(s), NEW a \in Attendees, NEW volume, NEW muted
  PROVE LET t == sendVolumeIndicatorChange(s, a, volume, muted) IN
        ClientOK(t) /\ t.rt = s.rt /\ t.app = s.app
<1> DEFINE loud == muted # TRUE /\ volume \in Volumes \ {0}
           n == s.rt.callbacks[a]
           seq == [i \in 1..n |-> i]
           d == Fold(1, <<a, loud>>, s.det, seq)
           t == [s EXCEPT !.det = d]
<1>1. sendVolumeIndicatorChange(s, a, volume, muted) = t
  <2>1. FoldLeft(LAMBDA x, i : updateScore(x, a, loud), s.det, seq) = d
    BY DEF Fold, FoldLeft, MapThenFoldSet, Step
  <2> HIDE DEF d
  <2> QED BY <2>1 DEF sendVolumeIndicatorChange
<1>2. DetOK(d)
  <2> HIDE DEF loud
  <2>1. n \in Nat /\ DOMAIN seq = 1..n
    BY DEF ClientOK, AlmostOK, RtOK
  <2> DEFINE c == <<a, loud>>
  <2>2. PICK h : Passes(h, 1, c, s.det, seq, n) /\ Fold(1, c, s.det, seq) = h[n]
    <3> HIDE DEF c, seq, n
    <3> QED BY <2>1, FoldPasses
  <2> DEFINE P == {i \in 0..n : DetOK(h[i])}
  <2>3. 0 \in P
    BY <2>1, <2>2 DEF Passes, ClientOK, AlmostOK
  <2>4. ASSUME NEW i \in 1..n, i - 1 \in P PROVE i \in P
    <3>1. h[i] = updateScore(h[i - 1], a, loud)
      BY <2>2 DEF Passes, Step
    <3>2. DetOK(h[i])
      BY <2>4, <3>1, updateScoreOK
    <3> QED BY <2>1, <3>2
  <2>5. n \in P
    <3> HIDE DEF P, n
    <3> QED BY <2>1, <2>3, <2>4, FoldKeeps
  <2> QED BY <2>2, <2>5
<1> HIDE DEF d
<1>3. ClientOK(t) /\ t.rt = s.rt /\ t.app = s.app
  BY <1>2 DEF ClientOK, AlmostOK
<1> QED BY <1>1, <1>3

(* What is said of a volume or a mute changes the indicator of that attendee; *)
(* the local mute rules, and who is muted shows no volume.                   *)
LEMMA UpdateOK ==
  ASSUME NEW s, AlmostOK(s), NEW a \in Attendees, a = self \/ LocalShown(s.rt),
         NEW volume \in Volumes \union {None}, NEW mutedRemote \in BOOLEAN \union {None},
         NEW signalChanges
  PROVE LET t == realtimeUpdateVolumeIndicator(s, a, volume, mutedRemote, signalChanges) IN
        /\ ClientOK(t) /\ t.app = s.app /\ t.rt.muted = s.rt.muted
<1> DEFINE old == s.rt.indicators[a]
           said == applyLocalMuteOverride(s, a, mutedRemote)
           muted == IF said = None THEN old.muted ELSE said
           heard == muted # TRUE /\ volume # None
           new == [muted |-> IF heard /\ muted = None THEN FALSE ELSE muted,
                   volume |-> IF heard THEN volume ELSE VolumeWhenMuted(old, muted)]
           t == [s EXCEPT !.rt.indicators[a] = new]
<1>1. old \in Indicator /\ s.rt.muted \in BOOLEAN /\ 0 \in Volumes
  BY BoundsAssumption DEF AlmostOK, RtOK, Volumes
<1>2. said \in BOOLEAN \union {None} /\ (a = self => said = s.rt.muted)
  BY <1>1 DEF applyLocalMuteOverride
<1>3. muted \in BOOLEAN \union {None} /\ (a = self => muted = s.rt.muted)
  <2> HIDE DEF said
  <2> QED BY <1>1, <1>2, AttendeesAssumption DEF Indicator
<1>4. /\ new \in Indicator
      /\ a = self => new.muted = s.rt.muted
      /\ new.muted = TRUE => new.volume \in {0, None}
  <2> HIDE DEF muted
  <2>1. old.muted = TRUE => old.volume \in {0, None}
    BY DEF AlmostOK, MutedSilent
  <2>2. VolumeWhenMuted(old, muted) \in Volumes \union {None}
    BY <1>1 DEF VolumeWhenMuted, Indicator
  <2>3. muted = TRUE => VolumeWhenMuted(old, muted) \in {0, None}
    BY <2>1 DEF VolumeWhenMuted
  <2>4. new.muted \in BOOLEAN \union {None} /\ (a = self => new.muted = s.rt.muted)
    BY <1>1, <1>3, AttendeesAssumption
  <2>5. new.volume \in Volumes \union {None}
    BY <2>2
  <2>6. new.muted = TRUE => muted = TRUE
    BY <1>3
  <2>7. new.muted = TRUE => new.volume \in {0, None}
    BY <2>3, <2>6
  <2> HIDE DEF heard
  <2> QED BY <2>4, <2>5, <2>7 DEF Indicator
<1> HIDE DEF new
<1>5. t.app = s.app /\ t.det = s.det /\ t = [f \in {"rt", "app", "det"} |-> t[f]]
  BY DEF AlmostOK
<1>6. /\ t.rt = [f \in {"attendeeIdChangesCallbacks", "muted", "indicators", "callbacks"} |-> t.rt[f]]
      /\ t.rt.attendeeIdChangesCallbacks = s.rt.attendeeIdChangesCallbacks
      /\ t.rt.muted = s.rt.muted /\ t.rt.callbacks = s.rt.callbacks
      /\ t.rt.indicators = [s.rt.indicators EXCEPT ![a] = new]
  BY DEF AlmostOK, RtOK
<1> HIDE DEF t
<1>7. RtOK(t.rt)
  BY <1>4, <1>6 DEF AlmostOK, RtOK
<1>8. MutedSilent(t.rt) /\ LocalShown(t.rt)
  <2>1. s.rt.indicators \in [Attendees -> Indicator]
    BY DEF AlmostOK, RtOK
  <2>2. \A b \in Attendees : t.rt.indicators[b] = IF b = a THEN new ELSE s.rt.indicators[b]
    BY <1>6, <2>1
  <2>3. MutedSilent(t.rt)
    BY <1>4, <2>2 DEF AlmostOK, MutedSilent
  <2>4. LocalShown(t.rt)
    BY <1>4, <1>6, <2>2, AttendeesAssumption DEF LocalShown
  <2> QED BY <2>3, <2>4
<1>9. ClientOK(t)
  BY <1>5, <1>7, <1>8 DEF ClientOK, AlmostOK
<1> DEFINE v == IF new.volume = old.volume THEN None ELSE new.volume
           m == IF new.muted = old.muted THEN None ELSE new.muted
<1>10. realtimeUpdateVolumeIndicator(s, a, volume, mutedRemote, signalChanges) =
         IF new = old /\ ~signalChanges THEN t ELSE sendVolumeIndicatorChange(t, a, v, m)
  BY DEF realtimeUpdateVolumeIndicator, t, new
<1> HIDE DEF v, m, old
<1>11. LET u == sendVolumeIndicatorChange(t, a, v, m) IN ClientOK(u) /\ u.rt = t.rt /\ u.app = t.app
  BY <1>9, ChangeOK
<1> QED BY <1>5, <1>6, <1>9, <1>10, <1>11

(* To subscribe to an attendee tells the application nothing of presence. *)
LEMMA SubscribedOK ==
  ASSUME NEW s, ClientOK(s), NEW a \in Attendees
  PROVE LET t == realtimeSubscribeToVolumeIndicator(s, a) IN
        ClientOK(t) /\ t.app = s.app /\ t.rt.muted = s.rt.muted
<1> DEFINE t == [s EXCEPT !.rt.callbacks[a] = @ + 1]
<1>1. t.app = s.app /\ t.det = s.det /\ t = [f \in {"rt", "app", "det"} |-> t[f]]
  BY DEF ClientOK, AlmostOK
<1>2. /\ t.rt = [f \in {"attendeeIdChangesCallbacks", "muted", "indicators", "callbacks"} |-> t.rt[f]]
      /\ t.rt.attendeeIdChangesCallbacks = s.rt.attendeeIdChangesCallbacks
      /\ t.rt.muted = s.rt.muted /\ t.rt.indicators = s.rt.indicators
      /\ t.rt.callbacks = [s.rt.callbacks EXCEPT ![a] = @ + 1]
  BY DEF ClientOK, AlmostOK, RtOK
<1> HIDE DEF t
<1>3. RtOK(t.rt) /\ MutedSilent(t.rt) /\ LocalShown(t.rt)
  BY <1>2 DEF ClientOK, AlmostOK, RtOK, MutedSilent, LocalShown
<1>4. ClientOK(t)
  BY <1>1, <1>3 DEF ClientOK, AlmostOK
<1> DEFINE now == s.rt.indicators[a]
           u == sendVolumeIndicatorChange(t, a, now.volume, now.muted)
<1>5. realtimeSubscribeToVolumeIndicator(s, a) = IF now = [muted |-> None, volume |-> None] THEN t ELSE u
  BY DEF realtimeSubscribeToVolumeIndicator, t
<1>6. ClientOK(u) /\ u.rt = t.rt /\ u.app = t.app
  <2> DEFINE v == now.volume
             m == now.muted
  <2> HIDE DEF v, m
  <2>1. LET w == sendVolumeIndicatorChange(t, a, v, m) IN ClientOK(w) /\ w.rt = t.rt
        /\ w.app = t.app
    BY <1>4, ChangeOK
  <2> QED BY <2>1 DEF v, m
<1> HIDE DEF u
<1> QED BY <1>1, <1>2, <1>4, <1>5, <1>6

(* The detector's handler of presence changes neither roster nor mute. *)
LEMMA DetectorOK ==
  ASSUME NEW s, ClientOK(s), NEW a \in Attendees, NEW present
  PROVE LET t == DetectorHandler(s, a, present) IN
        ClientOK(t) /\ t.app = s.app /\ t.rt.muted = s.rt.muted
<1>1. CASE present
  BY <1>1, SubscribedOK DEF DetectorHandler
<1>2. CASE ~present
  <2> DEFINE d == SetScore(s.det, a, 0)
  <2>1. DetOK(d)
    <3>1. DetOK(s.det) /\ 0 \in 0..MaxLevel
      BY BoundsAssumption DEF ClientOK, AlmostOK
    <3> DEFINE e == s.det
    <3> HIDE DEF e
    <3>2. DetOK(e)
      BY <3>1 DEF e
    <3>3. DetOK(SetScore(e, a, 0))
      BY <3>1, <3>2, SetScoreOK
    <3> QED BY <3>3 DEF e
  <2>2. DetectorHandler(s, a, present) = [s EXCEPT !.det = d]
    BY <1>2 DEF DetectorHandler
  <2> HIDE DEF d
  <2> QED BY <2>1, <2>2 DEF ClientOK, AlmostOK
<1> QED BY <1>1, <1>2

RosterAfter(roster, a, present) == IF present THEN roster \union {a} ELSE roster \ {a}

(* The application always hears who comes and who leaves. *)
LEMMA PresenceOK ==
  ASSUME NEW s, ClientOK(s), NEW a \in Attendees, NEW present
  PROVE LET t == realtimeSetAttendeeIdPresence(s, a, present) IN
        /\ ClientOK(t) /\ t.rt.muted = s.rt.muted
        /\ t.app.roster = RosterAfter(s.app.roster, a, present)
<1> DEFINE l == s.rt.attendeeIdChangesCallbacks
           walk == Walk(l, a, present)
           called == Range(l) \ walk.skipped
           roster == IF present THEN s.app.roster \union {a} ELSE s.app.roster \ {a}
           t == [s EXCEPT !.rt.attendeeIdChangesCallbacks = walk.left, !.app.roster = roster]
<1>1. ListOK(walk.left) /\ "app" \in called
  <2>1. ListOK(l)
    BY DEF ClientOK, AlmostOK, RtOK
  <2> HIDE DEF l
  <2> QED BY <2>1, WalkOK
<1>2. realtimeSetAttendeeIdPresence(s, a, present) =
        IF "detector" \in called THEN DetectorHandler(t, a, present) ELSE t
  <2> DEFINE u == [s EXCEPT !.rt.attendeeIdChangesCallbacks = walk.left,
                            !.app.roster = IF "app" \notin called THEN @
                                           ELSE IF present THEN @ \union {a} ELSE @ \ {a}]
  <2>1. realtimeSetAttendeeIdPresence(s, a, present) =
          IF "detector" \in called THEN DetectorHandler(u, a, present) ELSE u
    BY DEF realtimeSetAttendeeIdPresence
  <2>2. u = t
    <3> HIDE DEF called, walk
    <3> QED BY <1>1, Zenon DEF ClientOK, AlmostOK, AppOK
  <2> HIDE DEF u, t
  <2> QED BY <2>1, <2>2
<1> DEFINE left == walk.left
<1> HIDE DEF walk, called, l, roster
<1>3. t.det = s.det /\ t = [f \in {"rt", "app", "det"} |-> t[f]]
  BY DEF ClientOK, AlmostOK
<1>4. /\ t.rt = [f \in {"attendeeIdChangesCallbacks", "muted", "indicators", "callbacks"} |-> t.rt[f]]
      /\ t.rt.attendeeIdChangesCallbacks = walk.left
      /\ t.rt.muted = s.rt.muted /\ t.rt.indicators = s.rt.indicators
      /\ t.rt.callbacks = s.rt.callbacks
  BY DEF ClientOK, AlmostOK, RtOK
<1>5. t.app = [f \in {"roster", "waited"} |-> t.app[f]] /\ t.app.roster = roster
      /\ t.app.waited = s.app.waited
  BY DEF ClientOK, AlmostOK, AppOK
<1> HIDE DEF t
<1>6. RtOK(t.rt) /\ MutedSilent(t.rt) /\ LocalShown(t.rt)
  BY <1>1, <1>4 DEF ClientOK, AlmostOK, RtOK, MutedSilent, LocalShown
<1>7. AppOK(t.app)
  <2>1. roster \subseteq Attendees
    BY DEF roster, ClientOK, AlmostOK, AppOK
  <2> QED BY <1>5, <2>1 DEF ClientOK, AlmostOK, AppOK
<1>8. ClientOK(t)
  BY <1>3, <1>6, <1>7 DEF ClientOK, AlmostOK
<1>9. LET u == DetectorHandler(t, a, present) IN ClientOK(u) /\ u.app = t.app
      /\ u.rt.muted = t.rt.muted
  BY <1>8, DetectorOK
<1> QED BY <1>2, <1>4, <1>5, <1>8, <1>9 DEF roster, RosterAfter

(* Who is told as gone is no longer on the roster. *)
LEMMA GoneOK ==
  ASSUME NEW s, ClientOK(s), NEW a \in Attendees
  PROVE LET t == realtimeSetAttendeeIdPresence(s, a, FALSE) IN
        ClientOK(t) /\ t.rt.muted = s.rt.muted /\ t.app.roster = s.app.roster \ {a}
<1> SUFFICES ASSUME NEW present, present = FALSE
             PROVE LET t == realtimeSetAttendeeIdPresence(s, a, present) IN
                   ClientOK(t) /\ t.rt.muted = s.rt.muted /\ t.app.roster = s.app.roster \ {a}
  OBVIOUS
<1>1. LET t == realtimeSetAttendeeIdPresence(s, a, present) IN
      /\ ClientOK(t) /\ t.rt.muted = s.rt.muted
      /\ t.app.roster = RosterAfter(s.app.roster, a, present)
  BY PresenceOK
<1>2. RosterAfter(s.app.roster, a, present) = s.app.roster \ {a}
  BY DEF RosterAfter
<1> QED BY <1>1, <1>2

-----------------------------------------------------------------------------
(* The items of a frame. *)

FrameOK(t) ==
  /\ t = [f \in {"byStream", "byAttendee", "client"} |-> t[f]]
  /\ AdapterOK(t.byStream, t.byAttendee) /\ ClientOK(t.client)

(* A stream is told of an attendee who had it, or whose stream it becomes. *)
LEMMA JoinsOK ==
  ASSUME NEW t, FrameOK(t), NEW i \in Streams, NEW a \in Attendees, NEW m,
         t.byStream[i] \in {a, None}
  PROVE LET u == Joins(t, Item(i, a, m)) IN
        /\ FrameOK(u) /\ u.client.rt.muted = t.client.rt.muted
        /\ u.byStream = [t.byStream EXCEPT ![i] = a]
        /\ u.client.app.roster = t.client.app.roster \union {a}
<1> DEFINE c == realtimeSetAttendeeIdPresence(t.client, a, TRUE)
           u == Joins(t, Item(i, a, m))
<1>1. u = [byStream |-> [t.byStream EXCEPT ![i] = a], byAttendee |-> [t.byAttendee EXCEPT ![a] = i],
           client |-> c]
  BY DEF Joins, Item
<1>2. /\ ClientOK(c) /\ c.rt.muted = t.client.rt.muted
      /\ c.app.roster = t.client.app.roster \union {a}
  <2> DEFINE s == t.client
  <2>1. ClientOK(s)
    BY DEF FrameOK
  <2> HIDE DEF s
  <2>2. LET v == realtimeSetAttendeeIdPresence(s, a, TRUE) IN
        ClientOK(v) /\ v.rt.muted = s.rt.muted /\ v.app.roster = s.app.roster \union {a}
    BY <2>1, PresenceOK DEF RosterAfter
  <2> QED BY <2>2 DEF s
<1> HIDE DEF c, u
<1>3. AdapterOK(u.byStream, u.byAttendee)
  <2>1. Streams = 1..MaxStreams /\ MaxStreams \in Nat
    BY BoundsAssumption DEF Streams
  <2>2. u.byStream = [t.byStream EXCEPT ![i] = a] /\ u.byAttendee = [t.byAttendee EXCEPT ![a] = i]
    BY <1>1
  <2>3. u.byStream \in [Streams -> Attendees \union {None}]
        /\ u.byAttendee \in [Attendees -> 0..MaxStreams]
    BY <2>1, <2>2 DEF FrameOK, AdapterOK
  <2>4. ASSUME NEW b \in Attendees, u.byAttendee[b] # 0 PROVE u.byStream[u.byAttendee[b]] = b
    <3>1. CASE b = a
      BY <2>2, <3>1 DEF FrameOK, AdapterOK
    <3>2. CASE b # a
      <4>1. u.byAttendee[b] = t.byAttendee[b] /\ t.byStream[t.byAttendee[b]] = b
        BY <2>2, <2>4, <3>2 DEF FrameOK, AdapterOK
      <4>2. t.byAttendee[b] # i
        BY <4>1, <3>2, AttendeesAssumption
      <4>3. t.byAttendee[b] \in Streams
        BY <2>1, <2>4, <4>1 DEF FrameOK, AdapterOK
      <4> QED BY <2>2, <4>1, <4>2, <4>3 DEF FrameOK, AdapterOK
    <3> QED BY <3>1, <3>2
  <2> QED BY <2>3, <2>4 DEF AdapterOK
<1> QED BY <1>1, <1>2, <1>3 DEF FrameOK, u

(* Who stays on the roster when stream i ends. *)
Staying(roster, byStream, i) ==
  IF \E j \in Streams : j > i /\ byStream[j] = byStream[i] THEN roster ELSE roster \ {byStream[i]}

(* A stream ends: its attendee is gone unless there is a newer one. *)
LEMMA LeavesOK ==
  ASSUME NEW t, FrameOK(t), NEW i \in Streams, NEW b, NEW m, t.byStream[i] # None
  PROVE LET u == Leaves(t, Item(i, b, m)) IN
        /\ FrameOK(u) /\ u.client.rt.muted = t.client.rt.muted
        /\ u.byStream = [t.byStream EXCEPT ![i] = None]
        /\ u.client.app.roster = Staying(t.client.app.roster, t.byStream, i)
<1> DEFINE a == t.byStream[i]
           byStream == [t.byStream EXCEPT ![i] = None]
           byAttendee == IF t.byAttendee[a] = i THEN [t.byAttendee EXCEPT ![a] = 0] ELSE t.byAttendee
           d == realtimeSetAttendeeIdPresence(t.client, a, FALSE)
           c == IF HasNewStream(byStream, a, i) THEN t.client ELSE d
           u == Leaves(t, Item(i, b, m))
<1>1. u = [byStream |-> byStream, byAttendee |-> byAttendee, client |-> c]
  BY DEF Leaves, Item
<1>2. a \in Attendees /\ t.byStream \in [Streams -> Attendees \union {None}]
  BY DEF FrameOK, AdapterOK
<1>3. HasNewStream(byStream, a, i) <=> \E j \in Streams : j > i /\ t.byStream[j] = a
  <2>1. Streams = 1..MaxStreams /\ MaxStreams \in Nat
    BY BoundsAssumption DEF Streams
  <2>2. \A j \in Streams : j > i => byStream[j] = t.byStream[j]
    BY <1>2, <2>1
  <2> QED BY <2>2 DEF HasNewStream
<1>4. ClientOK(d) /\ d.rt.muted = t.client.rt.muted /\ d.app.roster = t.client.app.roster \ {a}
  <2> DEFINE s == t.client
  <2>1. ClientOK(s)
    BY DEF FrameOK
  <2> HIDE DEF s, a
  <2>2. LET v == realtimeSetAttendeeIdPresence(s, a, FALSE) IN
        ClientOK(v) /\ v.rt.muted = s.rt.muted /\ v.app.roster = s.app.roster \ {a}
    BY <1>2, <2>1, GoneOK
  <2> QED BY <2>2 DEF s
<1>5. AdapterOK(byStream, byAttendee)
  <2>1. Streams = 1..MaxStreams /\ MaxStreams \in Nat
    BY BoundsAssumption DEF Streams
  <2>2. byStream \in [Streams -> Attendees \union {None}]
        /\ byAttendee \in [Attendees -> 0..MaxStreams]
    BY <1>2, <2>1 DEF FrameOK, AdapterOK
  <2>3. ASSUME NEW e \in Attendees, byAttendee[e] # 0 PROVE byStream[byAttendee[e]] = e
    <3>1. byAttendee[e] = t.byAttendee[e]
      BY <1>2, <2>3 DEF FrameOK, AdapterOK
    <3>2. t.byStream[t.byAttendee[e]] = e
      BY <2>3, <3>1 DEF FrameOK, AdapterOK
    <3>3. t.byAttendee[e] # i
      <4>1. t.byAttendee[e] = i => e = a
        BY <3>2
      <4>2. t.byAttendee[a] = i => byAttendee[a] = 0
        BY <1>2 DEF FrameOK, AdapterOK
      <4> QED BY <2>3, <4>1, <4>2, <3>1
    <3>4. t.byAttendee[e] \in Streams
      BY <2>1, <2>3, <3>1 DEF FrameOK, AdapterOK
    <3> QED BY <1>2, <3>1, <3>2, <3>3, <3>4
  <2> HIDE DEF byStream, byAttendee
  <2> QED BY <2>2, <2>3 DEF AdapterOK
<1> HIDE DEF d, byStream, byAttendee, u, a
<1>6. FrameOK(u)
  BY <1>1, <1>4, <1>5 DEF FrameOK
<1>7. /\ u.byStream = byStream /\ u.client.rt.muted = t.client.rt.muted
      /\ u.client.app.roster = IF HasNewStream(byStream, a, i) THEN t.client.app.roster
                               ELSE t.client.app.roster \ {a}
  BY <1>1, <1>4
<1> QED BY <1>3, <1>6, <1>7 DEF u, a, byStream, Staying

(* An item with a mute only, of a stream the adapter knows, changes what is shown. *)
LEMMA MutesOK ==
  ASSUME NEW t, FrameOK(t), NEW i \in Streams, NEW a, NEW m \in BOOLEAN, t.byStream[i] # None
  PROVE LET u == Mutes(t, Item(i, a, m)) IN
        /\ FrameOK(u) /\ u.client.rt.muted = t.client.rt.muted
        /\ u.byStream = t.byStream /\ u.client.app.roster = t.client.app.roster
<1> DEFINE s == t.client
           b == t.byStream[i]
           c == realtimeUpdateVolumeIndicator(s, b, None, m, FALSE)
<1>1. ClientOK(s) /\ b \in Attendees
  BY DEF FrameOK, AdapterOK
<1>2. Mutes(t, Item(i, a, m)) = [t EXCEPT !.client = c]
  BY DEF Mutes, Item
<1>3. ClientOK(c) /\ c.app = s.app /\ c.rt.muted = s.rt.muted
  <2> HIDE DEF s, b
  <2> DEFINE said == FALSE
  <2> HIDE DEF said
  <2>1. LET u == realtimeUpdateVolumeIndicator(s, b, None, m, said) IN
        ClientOK(u) /\ u.app = s.app /\ u.rt.muted = s.rt.muted
    BY <1>1, UpdateOK DEF ClientOK
  <2> QED BY <2>1 DEF said
<1> HIDE DEF c
<1> QED BY <1>2, <1>3 DEF FrameOK

(* The stream an attendee is known by is forgotten. *)
LEMMA DeleteOK ==
  ASSUME NEW t, FrameOK(t), NEW a \in Attendees
  PROVE LET u == Delete(t, a) IN
        /\ FrameOK(u) /\ u.client.rt.muted = t.client.rt.muted
        /\ \A i \in Streams : u.byStream[i] = t.byStream[i]
           \/ (u.byStream[i] = None /\ t.byStream[i] = a)
        /\ u.client.app.roster = IF a = self THEN t.client.app.roster ELSE t.client.app.roster \ {a}
<1> DEFINE byStream == [i \in Streams |-> IF i = t.byAttendee[a] THEN None ELSE t.byStream[i]]
           byAttendee == [t.byAttendee EXCEPT ![a] = 0]
           d == realtimeSetAttendeeIdPresence(t.client, a, FALSE)
           c == IF a = self THEN t.client ELSE d
           u == Delete(t, a)
<1>1. u = [byStream |-> byStream, byAttendee |-> byAttendee, client |-> c]
  BY DEF Delete
<1>2. Streams = 1..MaxStreams /\ MaxStreams \in Nat
  BY BoundsAssumption DEF Streams
<1>3. ClientOK(d) /\ d.rt.muted = t.client.rt.muted /\ d.app.roster = t.client.app.roster \ {a}
  <2> DEFINE s == t.client
  <2>1. ClientOK(s)
    BY DEF FrameOK
  <2> HIDE DEF s
  <2>2. LET v == realtimeSetAttendeeIdPresence(s, a, FALSE) IN
        ClientOK(v) /\ v.rt.muted = s.rt.muted /\ v.app.roster = s.app.roster \ {a}
    BY <2>1, GoneOK
  <2> QED BY <2>2 DEF s
<1>4. AdapterOK(byStream, byAttendee)
  <2>1. byStream \in [Streams -> Attendees \union {None}]
        /\ byAttendee \in [Attendees -> 0..MaxStreams]
    BY <1>2 DEF FrameOK, AdapterOK
  <2>2. ASSUME NEW b \in Attendees, byAttendee[b] # 0 PROVE byStream[byAttendee[b]] = b
    <3>1. b # a /\ byAttendee[b] = t.byAttendee[b] /\ t.byStream[t.byAttendee[b]] = b
      BY <2>2 DEF FrameOK, AdapterOK
    <3>2. t.byAttendee[b] # t.byAttendee[a]
      BY <2>2, <3>1 DEF FrameOK, AdapterOK
    <3>3. t.byAttendee[b] \in Streams
      BY <1>2, <2>2, <3>1 DEF FrameOK, AdapterOK
    <3> QED BY <3>1, <3>2, <3>3
  <2> HIDE DEF byStream, byAttendee
  <2> QED BY <2>1, <2>2 DEF AdapterOK
<1>5. \A i \in Streams : byStream[i] = t.byStream[i] \/ (byStream[i] = None /\ t.byStream[i] = a)
  <2>1. t.byAttendee[a] \in Streams => t.byStream[t.byAttendee[a]] = a
    BY <1>2 DEF FrameOK, AdapterOK
  <2>2. \A i \in Streams : byStream[i] = IF i = t.byAttendee[a] THEN None ELSE t.byStream[i]
    OBVIOUS
  <2> HIDE DEF byStream
  <2> QED BY <2>1, <2>2
<1> HIDE DEF d, byStream, byAttendee, u
<1>6. FrameOK(u)
  BY <1>1, <1>3, <1>4 DEF FrameOK
<1>7. /\ u.client.rt.muted = t.client.rt.muted
      /\ u.client.app.roster = IF a = self THEN t.client.app.roster ELSE t.client.app.roster \ {a}
  BY <1>1, <1>3
<1>8. u.byStream = byStream
  BY <1>1
<1> QED BY <1>5, <1>6, <1>7, <1>8 DEF u

-----------------------------------------------------------------------------
(* Whole frames. *)

Base == [byStream |-> streamIdToAttendeeId, byAttendee |-> attendeeIdToStreamId, client |-> Client]
BecomesFrame(t) ==
  /\ streamIdToAttendeeId' = t.byStream /\ attendeeIdToStreamId' = t.byAttendee
  /\ sessionReconnected' = FALSE /\ Becomes(t.client)

(* The fold of a frame starts with what the adapter and the client have. *)
LEMMA BaseOK ==
  ASSUME AdapterInv, ClientOK(Client)
  PROVE /\ FrameOK(Base) /\ Base.byStream = streamIdToAttendeeId
        /\ Base.client.app.roster = app.roster /\ Base.client.rt.muted = rt.muted
BY DEF AdapterInv, FrameOK, Base, Client

(* What the client becomes is what is there next. *)
LEMMA BecomesOK ==
  ASSUME NEW s, ClientOK(s), Becomes(s)
  PROVE ClientOK(Client)' /\ Client' = s
<1>1. Client' = s
  <2>1. Client' = [rt |-> s.rt, app |-> s.app, det |-> s.det]
    BY DEF Becomes, Client
  <2> QED BY <2>1 DEF ClientOK, AlmostOK
<1> QED
  BY <1>1 DEF ClientOK, AlmostOK, RtOK, MutedSilent, LocalShown, AppOK, DetOK, ListOK, Indicator,
     Volumes

(* A frame of one item. *)
LEMMA OneItem ==
  ASSUME ~sessionReconnected, NEW item, sendRealtimeUpdatesForAudioStreamIdInfo(<<item>>)
  PROVE BecomesFrame(InfoItem(Base, item))
<1> DEFINE items == <<item>>
<1>1. FoldLeft(InfoItem, Base, items) = Fold(2, 0, Base, items)
  BY DEF Fold, FoldLeft, MapThenFoldSet, Step
<1>2. DOMAIN items = 1..1 /\ items[1] = item /\ 1 \in Nat
  OBVIOUS
<1>3. Fold(2, 0, Base, items) = InfoItem(Base, item)
  <2> DEFINE n == 1
  <2>0. n \in Nat /\ DOMAIN items = 1..n
    BY <1>2
  <2> HIDE DEF items, n
  <2>1. PICK h : Passes(h, 2, 0, Base, items, n) /\ Fold(2, 0, Base, items) = h[n]
    BY <2>0, FoldPasses
  <2>2. 1 \in 1..1 /\ 1 - 1 = 0
    OBVIOUS
  <2>3. h[n] = Step(2, 0, Base, item)
    BY <1>2, <2>1, <2>2 DEF Passes, n
  <2> QED BY <2>1, <2>3 DEF Step
<1>4. sendRealtimeUpdatesForAudioStreamIdInfo(items) =>
        BecomesFrame(FoldLeft(InfoItem, Base, items))
  BY DEF sendRealtimeUpdatesForAudioStreamIdInfo, BecomesFrame, Base
<1> QED BY <1>1, <1>3, <1>4

(* A full frame lists the streams of L, and says of whom they are.            *)
FullItems(L) == [i \in Streams |-> IF i \in L THEN Item(i, streams[i], None) ELSE Item(0, None, None)]

(* The items of a full frame give the adapter the streams L it lists, and the *)
(* roster their attendees. *)
LEMMA FullFrameTold ==
  ASSUME AdapterInv, MemoryInv, ServerInv, ClientOK(Client),
         NEW L \in SUBSET {i \in Streams : streams[i] # None}
  PROVE LET t == FoldLeft(InfoItem, Base, FullItems(L)) IN
        /\ FrameOK(t) /\ t.client.rt.muted = rt.muted
        /\ \A i \in Streams : t.byStream[i] = IF i \in L THEN streams[i] ELSE streamIdToAttendeeId[i]
        /\ t.client.app.roster = app.roster \union {streams[i] : i \in L}
<1> DEFINE items == FullItems(L)
           n == MaxStreams
<1>0. L \subseteq Streams
  OBVIOUS
<1>1. n \in Nat /\ Streams = 1..n /\ DOMAIN items = 1..n
  BY BoundsAssumption DEF Streams, FullItems
<1>2. FoldLeft(InfoItem, Base, items) = Fold(2, 0, Base, items)
  BY DEF Fold, FoldLeft, MapThenFoldSet, Step
<1>3. PICK h : Passes(h, 2, 0, Base, items, n) /\ Fold(2, 0, Base, items) = h[n]
  <2> HIDE DEF items, n
  <2> QED BY <1>1, FoldPasses
<1> DEFINE Good(i) ==
      /\ FrameOK(h[i]) /\ h[i].client.rt.muted = rt.muted
      /\ \A j \in Streams :
           h[i].byStream[j] = IF j \in L /\ j <= i THEN streams[j] ELSE streamIdToAttendeeId[j]
      /\ h[i].client.app.roster = app.roster \union {streams[j] : j \in {k \in L : k <= i}}
           P == {i \in 0..n : Good(i)}
<1>4. 0 \in P
  <2>1. h[0] = Base
    BY <1>3 DEF Passes
  <2>3. \A j \in Streams : ~ (j <= 0)
    BY <1>1
  <2>2. {k \in L : k <= 0} = {}
    BY <1>0, <2>3
  <2> QED BY <1>1, <2>1, <2>2, <2>3, BaseOK
<1>5. ASSUME NEW i \in 1..n, i - 1 \in P PROVE i \in P
  <2> DEFINE t == h[i - 1]
  <2>1. h[i] = InfoItem(t, items[i]) /\ i \in Streams
    BY <1>1, <1>3 DEF Passes, Step
  <2>2. Good(i - 1)
    BY <1>5
  <2>3. \A j \in Streams : j <= i <=> (j <= i - 1 \/ j = i)
    BY <1>1
  <2>4. CASE i \notin L
    <3>1. items[i] = Item(0, None, None)
      BY <2>1, <2>4 DEF FullItems
    <3>2. h[i] = t
      BY <2>1, <3>1 DEF InfoItem, Item
    <3>3. {k \in L : k <= i} = {k \in L : k <= i - 1}
      BY <2>3, <2>4
    <3>4. Good(i)
      BY <2>2, <2>3, <2>4, <3>2, <3>3
    <3> QED BY <1>1, <3>4
  <2>5. CASE i \in L
    <3> DEFINE a == streams[i]
               u == Joins(t, Item(i, a, None))
    <3>1. items[i] = Item(i, a, None) /\ i # 0 /\ a \in Attendees /\ a # None
      BY <1>1, <2>1, <2>5, AttendeesAssumption DEF FullItems, ServerInv
    <3>2. h[i] = u
      BY <2>1, <3>1 DEF InfoItem, Item
    <3>3. t.byStream[i] = streamIdToAttendeeId[i] /\ streamIdToAttendeeId[i] \in {a, None}
      BY <1>1, <2>1, <2>2, <2>5 DEF MemoryInv
    <3>4. /\ FrameOK(u) /\ u.client.rt.muted = t.client.rt.muted
          /\ u.byStream = [t.byStream EXCEPT ![i] = a]
          /\ u.client.app.roster = t.client.app.roster \union {a}
      <4> HIDE DEF t, a, u
      <4>1. FrameOK(t) /\ a \in Attendees /\ t.byStream[i] \in {a, None}
        BY <2>2, <3>1, <3>3 DEF t
      <4> QED BY <2>1, <4>1, JoinsOK DEF u
    <3>5. {streams[j] : j \in {k \in L : k <= i}} = {streams[j] : j \in {k \in L : k <= i - 1}} \union {a}
      BY <2>3, <2>5
    <3>6. \A j \in Streams : u.byStream[j] = IF j = i THEN a ELSE t.byStream[j]
      BY <3>4, <2>2 DEF FrameOK, AdapterOK
    <3>7. Good(i)
      <4> HIDE DEF u
      <4>1. h[i].client.app.roster = app.roster \union {streams[j] : j \in {k \in L : k <= i}}
        BY <2>2, <3>2, <3>4, <3>5
      <4>2. \A j \in Streams :
              h[i].byStream[j] = IF j \in L /\ j <= i THEN streams[j] ELSE streamIdToAttendeeId[j]
        BY <2>2, <2>3, <2>5, <3>2, <3>6
      <4> QED BY <2>2, <3>2, <3>4, <4>1, <4>2
    <3> QED BY <1>1, <3>7
  <2> QED BY <2>4, <2>5
<1>6. n \in P
  <2> HIDE DEF P
  <2> QED BY <1>1, <1>4, <1>5, FoldKeeps
<1>7. \A j \in Streams : j <= n
  BY <1>1
<1>8. {k \in L : k <= n} = L
  BY <1>0, <1>7
<1> HIDE DEF items
<1> QED BY <1>2, <1>3, <1>6, <1>7, <1>8 DEF items

(* The clean-up takes nobody who is listed off the maps or the roster, and    *)
(* leaves nobody but this client on the roster whom the maps knew and who is   *)
(* not listed.                                                               *)
LEMMA CleanOK ==
  ASSUME NEW t, FrameOK(t), NEW listed
  PROVE LET u == cleanUpState(t, listed) IN
        /\ FrameOK(u) /\ u.client.rt.muted = t.client.rt.muted
        /\ \A j \in Streams :
             u.byStream[j] = t.byStream[j] \/ (u.byStream[j] = None /\ t.byStream[j] \notin listed)
        /\ u.client.app.roster \subseteq t.client.app.roster
        /\ \A a \in t.client.app.roster : a \in listed \union {self} => a \in u.client.app.roster
        /\ \A j \in Streams : t.byStream[j] \in u.client.app.roster \ {self}
           => t.byStream[j] \in listed
<1> DEFINE b == t.byStream
           n == MaxStreams
           R == t.client.app.roster
<1>1. n \in Nat /\ Streams = 1..n /\ DOMAIN b = 1..n /\ b \in [Streams -> Attendees \union {None}]
  BY BoundsAssumption DEF Streams, FrameOK, AdapterOK
<1>2. cleanUpState(t, listed) = Fold(3, listed, t, b)
  BY DEF cleanUpState, Fold, FoldLeft, MapThenFoldSet, Step
<1>3. PICK h : Passes(h, 3, listed, t, b, n) /\ Fold(3, listed, t, b) = h[n]
  <2> HIDE DEF b, n
  <2> QED BY <1>1, FoldPasses
<1> DEFINE Good(i) ==
      /\ FrameOK(h[i]) /\ h[i].client.rt.muted = t.client.rt.muted
      /\ \A j \in Streams :
           h[i].byStream[j] = b[j] \/ (h[i].byStream[j] = None /\ b[j] \notin listed)
      /\ h[i].client.app.roster \subseteq R
      /\ \A a \in R : a \in listed \union {self} => a \in h[i].client.app.roster
      /\ \A j \in Streams : j <= i /\ b[j] \in h[i].client.app.roster \ {self} => b[j] \in listed
           P == {i \in 0..n : Good(i)}
<1>4. 0 \in P
  <2>1. h[0] = t
    BY <1>3 DEF Passes
  <2>2. \A j \in Streams : ~ (j <= 0)
    BY <1>1
  <2> QED BY <1>1, <2>1, <2>2
<1>5. ASSUME NEW i \in 1..n, i - 1 \in P PROVE i \in P
  <2> DEFINE v == h[i - 1]
             a == b[i]
             w == Delete(v, a)
  <2>1. h[i] = (IF a = None \/ a \in listed THEN v ELSE w) /\ i \in Streams
    BY <1>1, <1>3 DEF Passes, Step
  <2>2. Good(i - 1)
    BY <1>5
  <2>3. \A j \in Streams : j <= i <=> (j <= i - 1 \/ j = i)
    BY <1>1
  <2>4. None \notin v.client.app.roster
    BY <2>2, AttendeesAssumption DEF FrameOK, ClientOK, AlmostOK, AppOK
  <2>5. CASE a = None \/ a \in listed
    <3>1. h[i] = v
      BY <2>1, <2>5
    <3>2. Good(i)
      BY <2>2, <2>3, <2>4, <2>5, <3>1
    <3> QED BY <1>1, <3>2
  <2>6. CASE ~ (a = None \/ a \in listed)
    <3>1. h[i] = w /\ a \in Attendees /\ a \notin listed
      BY <1>1, <2>1, <2>6
    <3>2. /\ FrameOK(w) /\ w.client.rt.muted = v.client.rt.muted
          /\ \A j \in Streams : w.byStream[j] = v.byStream[j]
             \/ (w.byStream[j] = None /\ v.byStream[j] = a)
          /\ w.client.app.roster = IF a = self THEN v.client.app.roster ELSE v.client.app.roster \ {a}
      <4> HIDE DEF v, a
      <4>1. FrameOK(v)
        BY <2>2 DEF v
      <4> QED BY <3>1, <4>1, DeleteOK
    <3> HIDE DEF w
    <3>3. ASSUME NEW j \in Streams
          PROVE w.byStream[j] = b[j] \/ (w.byStream[j] = None /\ b[j] \notin listed)
      <4>1. CASE w.byStream[j] = v.byStream[j]
        BY <2>2, <4>1
      <4>2. CASE w.byStream[j] = None /\ v.byStream[j] = a
        <5>1. v.byStream[j] = b[j] \/ v.byStream[j] = None
          BY <2>2
        <5>2. v.byStream[j] = b[j]
          BY <2>6, <4>2, <5>1
        <5> QED BY <3>1, <4>2, <5>2
      <4> QED BY <3>2, <4>1, <4>2
    <3>4. w.client.app.roster \subseteq R
      BY <2>2, <3>2
    <3>5. \A c \in R : c \in listed \union {self} => c \in w.client.app.roster
      BY <2>2, <3>1, <3>2
    <3>6. ASSUME NEW j \in Streams, j <= i, b[j] \in w.client.app.roster \ {self}
          PROVE b[j] \in listed
      <4>1. b[j] \in v.client.app.roster \ {self} /\ b[j] # a
        BY <3>2, <3>6
      <4>2. j <= i - 1
        BY <2>3, <3>6, <4>1
      <4> QED BY <2>2, <4>1, <4>2
    <3>7. Good(i)
      BY <2>2, <3>1, <3>2, <3>3, <3>4, <3>5, <3>6
    <3> QED BY <1>1, <3>7
  <2> QED BY <2>5, <2>6
<1>6. n \in P
  <2> HIDE DEF P
  <2> QED BY <1>1, <1>4, <1>5, FoldKeeps
<1>7. \A j \in Streams : j <= n
  BY <1>1
<1> QED BY <1>2, <1>3, <1>6, <1>7

(* Volumes and signal strengths change indicators, and nobody's presence. *)
LEMMA VolumesOK ==
  ASSUME AdapterInv, ClientOK(Client), NEW volumes \in [Attendees -> Volumes], NEW signalChanges,
         sendRealtimeUpdatesForAudioMetadata(volumes, signalChanges)
  PROVE ClientOK(Client)' /\ rt'.muted = rt.muted /\ app' = app
<1> DEFINE b == streamIdToAttendeeId
           n == MaxStreams
           c == <<volumes, signalChanges>>
           s == Fold(4, c, Client, b)
<1>1. n \in Nat /\ DOMAIN b = 1..n /\ Streams = 1..n /\ b \in [Streams -> Attendees \union {None}]
  BY BoundsAssumption DEF Streams, AdapterInv, AdapterOK
<1>2. Becomes(s)
  BY DEF sendRealtimeUpdatesForAudioMetadata, Fold, FoldLeft, MapThenFoldSet, Step
<1>3. PICK h : Passes(h, 4, c, Client, b, n) /\ s = h[n]
  <2> HIDE DEF b, n, c
  <2> QED BY <1>1, FoldPasses
<1> DEFINE P == {i \in 0..n : ClientOK(h[i]) /\ h[i].rt.muted = rt.muted /\ h[i].app = app}
<1>4. 0 \in P
  <2>1. h[0] = Client
    BY <1>3 DEF Passes
  <2>2. Client.rt = rt /\ Client.app = app
    BY DEF Client
  <2> QED BY <1>1, <2>1, <2>2
<1>5. ASSUME NEW i \in 1..n, i - 1 \in P PROVE i \in P
  <2> DEFINE v == h[i - 1]
             a == b[i]
             said == a \in signalChanges
             w == realtimeUpdateVolumeIndicator(v, a, volumes[a], None, said)
  <2>1. h[i] = IF a = None THEN v ELSE w
    BY <1>3 DEF Passes, Step
  <2>2. ClientOK(v) /\ v.rt.muted = rt.muted /\ v.app = app
    BY <1>5
  <2>3. CASE a = None
    BY <1>1, <2>1, <2>2, <2>3
  <2>4. CASE a # None
    <3> DEFINE volume == volumes[a]
    <3>1. a \in Attendees /\ volume \in Volumes
      BY <1>1, <2>4
    <3>2. ClientOK(w) /\ w.app = v.app /\ w.rt.muted = v.rt.muted
      <4>1. LET u == realtimeUpdateVolumeIndicator(v, a, volume, None, said) IN
            ClientOK(u) /\ u.app = v.app /\ u.rt.muted = v.rt.muted
        <5> HIDE DEF v, a, volume, said
        <5> QED BY <2>2, <3>1, UpdateOK DEF ClientOK
      <4> QED BY <4>1
    <3> HIDE DEF w
    <3> QED BY <1>1, <2>1, <2>2, <2>4, <3>2
  <2> QED BY <2>3, <2>4
<1>6. n \in P
  <2> HIDE DEF P
  <2> QED BY <1>1, <1>4, <1>5, FoldKeeps
<1>7. ClientOK(s) /\ s.rt.muted = rt.muted /\ s.app = app
  BY <1>3, <1>6
<1> HIDE DEF s
<1>8. ClientOK(Client)' /\ Client' = s
  BY <1>2, <1>7, BecomesOK
<1>9. rt' = s.rt /\ app' = s.app
  BY <1>2 DEF Becomes
<1> QED BY <1>7, <1>8, <1>9

(* After a frame. *)
LEMMA FrameBecomes ==
  ASSUME NEW t, FrameOK(t), BecomesFrame(t)
  PROVE /\ AdapterOK(streamIdToAttendeeId', attendeeIdToStreamId') /\ ClientOK(Client)'
        /\ streamIdToAttendeeId' = t.byStream /\ app'.roster = t.client.app.roster
        /\ rt'.muted = t.client.rt.muted /\ sessionReconnected' = FALSE
<1> DEFINE s == t.client
<1>1. ClientOK(s) /\ Becomes(s)
  BY DEF FrameOK, BecomesFrame
<1> HIDE DEF s
<1>2. ClientOK(Client)'
  BY <1>1, BecomesOK
<1>3. app' = s.app /\ rt' = s.rt
  BY <1>1 DEF Becomes
<1> QED BY <1>2, <1>3 DEF FrameOK, BecomesFrame, s

(* A frame in which an attendee joins with stream i. *)
LEMMA JoinFrame ==
  ASSUME AdapterInv, ClientOK(Client), ~sessionReconnected,
         NEW i \in Streams, NEW a \in Attendees, streamIdToAttendeeId[i] \in {a, None},
         NEW muted \in {FALSE, None},
         sendRealtimeUpdatesForAudioStreamIdInfo(<<Item(i, a, muted)>>)
  PROVE /\ AdapterOK(streamIdToAttendeeId', attendeeIdToStreamId') /\ ClientOK(Client)'
        /\ streamIdToAttendeeId' = [streamIdToAttendeeId EXCEPT ![i] = a]
        /\ app'.roster = app.roster \union {a}
        /\ rt'.muted = rt.muted /\ sessionReconnected' = FALSE
<1> DEFINE item == Item(i, a, muted)
           u == Joins(Base, item)
           t == InfoItem(Base, item)
<1>1. BecomesFrame(t)
  <2> HIDE DEF item
  <2> QED BY OneItem DEF item
<1>2. /\ FrameOK(u) /\ u.client.rt.muted = rt.muted
      /\ u.byStream = [streamIdToAttendeeId EXCEPT ![i] = a]
      /\ u.client.app.roster = app.roster \union {a}
  <2> DEFINE b == Base
  <2>1. FrameOK(b) /\ b.byStream[i] \in {a, None}
    BY BaseOK
  <2>2. LET v == Joins(b, Item(i, a, muted)) IN
        /\ FrameOK(v) /\ v.client.rt.muted = b.client.rt.muted
        /\ v.byStream = [b.byStream EXCEPT ![i] = a]
        /\ v.client.app.roster = b.client.app.roster \union {a}
    <3> HIDE DEF b
    <3> QED BY <2>1, JoinsOK
  <2> QED BY <2>2, BaseOK
<1>3. t = IF muted # None THEN Mutes(u, item) ELSE u
  <2>1. item.stream # 0 /\ item.attendee # None /\ item.muted = muted
    BY AttendeesAssumption DEF Item, Streams
  <2> HIDE DEF item
  <2> QED BY <2>1 DEF InfoItem
<1>4. muted # None =>
        LET v == Mutes(u, item) IN
        /\ FrameOK(v) /\ v.client.rt.muted = u.client.rt.muted
        /\ v.byStream = u.byStream /\ v.client.app.roster = u.client.app.roster
  <2> DEFINE w == u
  <2>1. FrameOK(w) /\ w.byStream[i] # None
    BY <1>2, AttendeesAssumption DEF AdapterInv, AdapterOK
  <2> HIDE DEF w
  <2>2. ASSUME NEW m \in BOOLEAN
        PROVE LET v == Mutes(w, Item(i, a, m)) IN
              /\ FrameOK(v) /\ v.client.rt.muted = w.client.rt.muted
              /\ v.byStream = w.byStream /\ v.client.app.roster = w.client.app.roster
    BY <2>1, MutesOK
  <2>3. muted # None => muted \in BOOLEAN
    OBVIOUS
  <2> QED BY <2>2, <2>3 DEF w
<1> HIDE DEF u, item, t
<1>5. /\ FrameOK(t) /\ t.client.rt.muted = rt.muted
      /\ t.byStream = [streamIdToAttendeeId EXCEPT ![i] = a]
      /\ t.client.app.roster = app.roster \union {a}
  BY <1>2, <1>3, <1>4
<1> QED BY <1>1, <1>5, FrameBecomes

(* A frame in which stream i has ended. *)
LEMMA LeaveFrame ==
  ASSUME AdapterInv, ClientOK(Client), ~sessionReconnected,
         NEW i \in Streams, streamIdToAttendeeId[i] # None,
         sendRealtimeUpdatesForAudioStreamIdInfo(<<Item(i, None, None)>>)
  PROVE /\ AdapterOK(streamIdToAttendeeId', attendeeIdToStreamId') /\ ClientOK(Client)'
        /\ streamIdToAttendeeId' = [streamIdToAttendeeId EXCEPT ![i] = None]
        /\ app'.roster = Staying(app.roster, streamIdToAttendeeId, i)
        /\ rt'.muted = rt.muted /\ sessionReconnected' = FALSE
<1> DEFINE item == Item(i, None, None)
           t == InfoItem(Base, item)
<1>1. BecomesFrame(t)
  <2> HIDE DEF item
  <2> QED BY OneItem DEF item
<1>2. t = Leaves(Base, item)
  <2>1. item.stream # 0 /\ item.attendee = None /\ item.muted = None
    BY DEF Item, Streams
  <2> HIDE DEF item
  <2> QED BY <2>1 DEF InfoItem
<1>3. /\ FrameOK(t) /\ t.client.rt.muted = rt.muted
      /\ t.byStream = [streamIdToAttendeeId EXCEPT ![i] = None]
      /\ t.client.app.roster = Staying(app.roster, streamIdToAttendeeId, i)
  <2> DEFINE b == Base
  <2>1. FrameOK(b) /\ b.byStream[i] # None
    BY BaseOK
  <2>2. LET v == Leaves(b, Item(i, None, None)) IN
        /\ FrameOK(v) /\ v.client.rt.muted = b.client.rt.muted
        /\ v.byStream = [b.byStream EXCEPT ![i] = None]
        /\ v.client.app.roster = Staying(b.client.app.roster, b.byStream, i)
    <3> HIDE DEF b
    <3> QED BY <2>1, LeavesOK
  <2> HIDE DEF t
  <2> QED BY <1>2, <2>2, BaseOK
<1> HIDE DEF t
<1> QED BY <1>1, <1>3, FrameBecomes

(* A frame in which the attendee of stream i mutes or unmutes. *)
LEMMA MuteFrame ==
  ASSUME AdapterInv, ClientOK(Client), ~sessionReconnected,
         NEW i \in Streams, streamIdToAttendeeId[i] # None, NEW muted \in BOOLEAN,
         sendRealtimeUpdatesForAudioStreamIdInfo(<<Item(i, None, muted)>>)
  PROVE /\ AdapterOK(streamIdToAttendeeId', attendeeIdToStreamId') /\ ClientOK(Client)'
        /\ streamIdToAttendeeId' = streamIdToAttendeeId /\ app'.roster = app.roster
        /\ rt'.muted = rt.muted /\ sessionReconnected' = FALSE
<1> DEFINE item == Item(i, None, muted)
           t == InfoItem(Base, item)
<1>1. BecomesFrame(t)
  <2> HIDE DEF item
  <2> QED BY OneItem DEF item
<1>2. t = Mutes(Base, item)
  <2>1. item.stream # 0 /\ item.attendee = None /\ item.muted # None
    BY AttendeesAssumption DEF Item, Streams
  <2> HIDE DEF item
  <2> QED BY <2>1 DEF InfoItem
<1>3. /\ FrameOK(t) /\ t.client.rt.muted = rt.muted
      /\ t.byStream = streamIdToAttendeeId /\ t.client.app.roster = app.roster
  <2> DEFINE b == Base
  <2>1. FrameOK(b) /\ b.byStream[i] # None
    BY BaseOK
  <2>2. LET v == Mutes(b, Item(i, None, muted)) IN
        /\ FrameOK(v) /\ v.client.rt.muted = b.client.rt.muted
        /\ v.byStream = b.byStream /\ v.client.app.roster = b.client.app.roster
    <3> HIDE DEF b
    <3> QED BY <2>1, MutesOK
  <2> HIDE DEF t
  <2> QED BY <1>2, <2>2, BaseOK
<1> HIDE DEF t
<1> QED BY <1>1, <1>3, FrameBecomes

(* The first frame of a connection: the roster becomes who is listed, but for *)
(* this client, who stays if it was there.                                   *)
LEMMA FullFrameOK ==
  ASSUME RealtimeInv, BeforeFirst \/ sessionReconnected,
         NEW L \in SUBSET {i \in Streams : streams[i] # None},
         sendRealtimeUpdatesForAudioStreamIdInfo(FullItems(L))
  PROVE LET listed == {streams[i] : i \in L} IN
        /\ AdapterOK(streamIdToAttendeeId', attendeeIdToStreamId') /\ ClientOK(Client)'
        /\ \A i \in L : streamIdToAttendeeId'[i] = streams[i]
        /\ \A i \in Streams \ L : streamIdToAttendeeId'[i] \in {streamIdToAttendeeId[i], None}
        /\ \A a \in app'.roster : a \in listed \union {self}
        /\ \A a \in listed : a \in app'.roster
        /\ rt'.muted = rt.muted /\ sessionReconnected' = FALSE
<1> DEFINE items == FullItems(L)
           told == FoldLeft(InfoItem, Base, items)
           all == Listed(items)
           clean == IF sessionReconnected THEN cleanUpState(told, all) ELSE told
           listed == {streams[i] : i \in L}
<1>1. BecomesFrame(clean)
  BY DEF sendRealtimeUpdatesForAudioStreamIdInfo, BecomesFrame, Base
<1>2. AdapterInv /\ MemoryInv /\ ServerInv /\ RosterInv /\ ClientOK(Client)
  BY DEF RealtimeInv
<1>3. /\ FrameOK(told) /\ told.client.rt.muted = rt.muted
      /\ \A i \in Streams : told.byStream[i] = IF i \in L THEN streams[i] ELSE streamIdToAttendeeId[i]
      /\ told.client.app.roster = app.roster \union listed
  <2> HIDE DEF listed
  <2> QED BY <1>2, FullFrameTold DEF listed
<1>4. listed \subseteq Attendees /\ listed \subseteq all /\ all \subseteq listed \union {None}
  <2>1. L \subseteq Streams /\ \A i \in L : streams[i] \in Attendees
    BY <1>2 DEF ServerInv
  <2>2. DOMAIN items = Streams
    BY DEF FullItems
  <2>3. \A i \in Streams : items[i].attendee = IF i \in L THEN streams[i] ELSE None
    BY DEF FullItems, Item
  <2>4. all = {items[i].attendee : i \in Streams}
    <3> HIDE DEF items
    <3> QED BY <2>2 DEF Listed, Range
  <2> HIDE DEF items, all
  <2> QED BY <2>1, <2>3, <2>4
<1>5. /\ FrameOK(clean) /\ clean.client.rt.muted = rt.muted
      /\ \A i \in L : clean.byStream[i] = streams[i]
      /\ \A i \in Streams \ L : clean.byStream[i] \in {streamIdToAttendeeId[i], None}
      /\ \A a \in clean.client.app.roster : a \in listed \union {self}
      /\ \A a \in listed : a \in clean.client.app.roster
  <2> HIDE DEF told, all, items
  <2>1. CASE ~sessionReconnected
    <3>1. clean = told /\ app.roster = {}
      BY <1>2, <2>1 DEF RosterInv
    <3> QED BY <1>3, <3>1
  <2>2. CASE sessionReconnected
    <3> DEFINE u == cleanUpState(told, all)
    <3>1. /\ FrameOK(u) /\ u.client.rt.muted = told.client.rt.muted
          /\ \A j \in Streams :
               u.byStream[j] = told.byStream[j]
               \/ (u.byStream[j] = None /\ told.byStream[j] \notin all)
          /\ u.client.app.roster \subseteq told.client.app.roster
          /\ \A a \in told.client.app.roster : a \in all \union {self} => a \in u.client.app.roster
          /\ \A j \in Streams : told.byStream[j] \in u.client.app.roster \ {self}
             => told.byStream[j] \in all
      BY <1>3, CleanOK
    <3> HIDE DEF u
    <3>2. clean = u
      BY <2>2 DEF u
    <3>3. \A i \in L : u.byStream[i] = streams[i]
      BY <1>3, <1>4, <3>1
    <3>4. \A i \in Streams \ L : u.byStream[i] \in {streamIdToAttendeeId[i], None}
      BY <1>3, <3>1
    <3>5. \A a \in listed : a \in u.client.app.roster
      BY <1>3, <1>4, <3>1
    <3>6. ASSUME NEW a \in u.client.app.roster, a # self PROVE a \in listed
      <4>1. a \in app.roster \union listed
        BY <1>3, <3>1
      <4>2. CASE a \in app.roster
        <5>1. PICK j \in Streams : streamIdToAttendeeId[j] = a
          BY <1>2, <3>6, <4>2 DEF RosterInv
        <5>2. a \in Attendees /\ a # None
          BY <1>2, <4>2, AttendeesAssumption DEF ClientOK, AlmostOK, AppOK, Client
        <5>3. told.byStream[j] = a
          BY <1>2, <1>3, <5>1, <5>2 DEF MemoryInv
        <5>4. a \in all
          BY <3>1, <3>6, <5>3
        <5> QED BY <1>4, <5>2, <5>4
      <4> QED BY <4>1, <4>2
    <3> HIDE DEF listed
    <3> QED BY <1>3, <3>1, <3>2, <3>3, <3>4, <3>5, <3>6
  <2> QED BY <2>1, <2>2
<1> HIDE DEF clean, listed
<1> QED BY <1>1, <1>5, FrameBecomes DEF listed

-----------------------------------------------------------------------------
(* The steps of the server and of the connection. *)

(* What a step leaves of the invariant that changes neither who is present nor *)
(* what is known of it.                                                      *)
LEMMA SameStreams ==
  ASSUME RealtimeInv, ClientOK(Client)',
         UNCHANGED <<serverVars, link, adapterVars>>, app'.roster = app.roster,
         frames' \in 0..MaxFrames, serverMuted' \in BOOLEAN,
         link = "up" => serverMuted' = rt'.muted
  PROVE RealtimeInv'
BY DEF RealtimeInv, ServerInv, MemoryInv, AdapterInv, AdapterOK, RosterInv, ServerKnowsMute,
       Listening, Told, BeforeFirst, serverVars, adapterVars, Streams

(* A new stream is later than all others, so nothing the adapter has is its. *)
LEMMA AttendeeJoinsOK ==
  ASSUME RealtimeInv, AttendeeJoins
  PROVE RealtimeInv'
<1>1. PICK a \in Attendees \ {self}, muted \in {FALSE, None} :
        /\ streams' = [streams EXCEPT ![nextStream] = a]
        /\ IF Listening
           THEN sendRealtimeUpdatesForAudioStreamIdInfo(<<Item(nextStream, a, muted)>>)
           ELSE muted = None /\ UNCHANGED <<adapterVars, clientVars>>
  BY DEF AttendeeJoins
<1>2. /\ nextStream \in Streams /\ nextStream' = nextStream + 1
      /\ UNCHANGED <<fullFrameDue, selfDue, serverMuted, link, frames>>
  BY DEF AttendeeJoins
<1>3. AdapterInv /\ MemoryInv /\ ServerInv /\ RosterInv /\ ClientOK(Client) /\ ServerKnowsMute
  BY DEF RealtimeInv
<1>4. MaxStreams \in Nat /\ Streams = 1..MaxStreams
  BY BoundsAssumption DEF Streams
<1>5. \A i \in Streams : streams'[i] = IF i = nextStream THEN a ELSE streams[i]
  BY <1>1, <1>3 DEF ServerInv
<1>6. streams[nextStream] = None /\ streamIdToAttendeeId[nextStream] = None
  BY <1>2, <1>3, <1>4 DEF ServerInv, MemoryInv
<1>7. /\ AdapterOK(streamIdToAttendeeId', attendeeIdToStreamId') /\ ClientOK(Client)'
      /\ IF Listening
         THEN /\ streamIdToAttendeeId' = [streamIdToAttendeeId EXCEPT ![nextStream] = a]
              /\ app'.roster = app.roster \union {a}
         ELSE streamIdToAttendeeId' = streamIdToAttendeeId /\ app'.roster = app.roster
      /\ rt'.muted = rt.muted /\ sessionReconnected' = sessionReconnected
  <2>1. CASE Listening
    <3> DEFINE i == nextStream
    <3>1. ~sessionReconnected
      BY <1>3, <2>1 DEF RosterInv
    <3>2. sendRealtimeUpdatesForAudioStreamIdInfo(<<Item(i, a, muted)>>)
      BY <1>1, <2>1
    <3>3. i \in Streams /\ streamIdToAttendeeId[i] \in {a, None} /\ a \in Attendees
      BY <1>2, <1>6
    <3> HIDE DEF i
    <3>4. /\ AdapterOK(streamIdToAttendeeId', attendeeIdToStreamId') /\ ClientOK(Client)'
          /\ streamIdToAttendeeId' = [streamIdToAttendeeId EXCEPT ![i] = a]
          /\ app'.roster = app.roster \union {a}
          /\ rt'.muted = rt.muted /\ sessionReconnected' = FALSE
      BY <1>3, <3>1, <3>2, <3>3, JoinFrame
    <3>5. sessionReconnected' = sessionReconnected
      BY <1>3, <3>1, <3>4 DEF ServerInv
    <3> QED BY <2>1, <3>4, <3>5 DEF i
  <2>2. CASE ~Listening
    BY <1>1, <1>3, <2>2 DEF adapterVars, clientVars, AdapterInv, Client, ClientOK, AlmostOK, RtOK,
       MutedSilent, LocalShown, AppOK, DetOK, ListOK, Indicator, Volumes
  <2> QED BY <2>1, <2>2
<1>8. \A i \in Streams : streamIdToAttendeeId'[i] =
        IF Listening /\ i = nextStream THEN a ELSE streamIdToAttendeeId[i]
  BY <1>3, <1>7 DEF AdapterInv, AdapterOK
<1>9. Listening' = Listening /\ BeforeFirst' = BeforeFirst
  BY <1>2, <1>7 DEF Listening, BeforeFirst
<1>10. ServerInv'
  <2>1. streams' \in [Streams -> Attendees \union {None}]
    BY <1>1, <1>3 DEF ServerInv
  <2>2. nextStream' \in 1..MaxStreams + 1
    BY <1>2, <1>4
  <2>3. \A i \in Streams : streams'[i] # None => i < nextStream'
    BY <1>2, <1>3, <1>4, <1>5 DEF ServerInv
  <2>4. \A i, j \in Streams : streams'[i] = self /\ streams'[j] = self => i = j
    BY <1>3, <1>5 DEF ServerInv
  <2>5. link' = "up" => \E i \in Streams : streams'[i] = self
    BY <1>2, <1>3, <1>5, <1>6, AttendeesAssumption DEF ServerInv
  <2> QED BY <1>2, <1>3, <1>7, <2>1, <2>2, <2>3, <2>4, <2>5 DEF ServerInv, Streams
<1>11. MemoryInv'
  <2>1. \A i \in Streams : streamIdToAttendeeId'[i] # None => i < nextStream'
    BY <1>2, <1>3, <1>4, <1>8 DEF MemoryInv
  <2>2. \A i \in Streams : streams'[i] # None /\ streamIdToAttendeeId'[i] # None =>
          streams'[i] = streamIdToAttendeeId'[i]
    BY <1>3, <1>5, <1>6, <1>8 DEF MemoryInv
  <2>3. ASSUME NEW i \in Streams, NEW j \in Streams, streamIdToAttendeeId'[i] # None,
               streams'[i] = None, streams'[j] = streamIdToAttendeeId'[i]
        PROVE j > i
    <3>1. i # nextStream
      BY <1>5, <2>3, AttendeesAssumption
    <3>2. streamIdToAttendeeId'[i] = streamIdToAttendeeId[i] /\ streams[i] = None
      BY <1>5, <1>8, <2>3, <3>1
    <3>3. CASE j = nextStream
      <4>1. i < nextStream
        BY <1>3, <2>3, <3>2 DEF MemoryInv
      <4> QED BY <1>2, <1>4, <3>3, <4>1
    <3>4. CASE j # nextStream
      BY <1>3, <1>5, <2>3, <3>2, <3>4 DEF MemoryInv
    <3> QED BY <3>3, <3>4
  <2> QED BY <2>1, <2>2, <2>3 DEF MemoryInv, Streams
<1>12. AdapterInv'
  <2>1. ASSUME Listening, NEW i \in Streams, streams'[i] # None, streams'[i] = self => ~selfDue
        PROVE streamIdToAttendeeId'[i] = streams'[i]
    BY <1>3, <1>5, <1>8, <2>1 DEF AdapterInv, Told
  <2> QED BY <1>2, <1>7, <1>9, <2>1 DEF AdapterInv, Told, Streams
<1>13. RosterInv'
  <2>1. ASSUME NEW b \in app'.roster, b # self PROVE \E i \in Streams : streamIdToAttendeeId'[i] = b
    <3>1. CASE b \in app.roster
      <4>1. PICK i \in Streams : streamIdToAttendeeId[i] = b
        BY <1>3, <2>1, <3>1 DEF RosterInv
      <4>2. b # None
        BY <1>3, <3>1, AttendeesAssumption DEF ClientOK, AlmostOK, AppOK, Client
      <4>3. streamIdToAttendeeId'[i] = b
        BY <1>6, <1>8, <4>1, <4>2
      <4> QED BY <4>3
    <3>2. CASE b \notin app.roster
      BY <1>2, <1>7, <1>8, <2>1, <3>2
    <3> QED BY <3>1, <3>2
  <2>2. BeforeFirst => app'.roster = {} /\ \A i \in Streams : streamIdToAttendeeId'[i] = None
    <3>1. BeforeFirst => ~Listening
      BY DEF BeforeFirst, Listening
    <3> QED BY <1>3, <1>7, <1>8, <3>1 DEF RosterInv
  <2>3. ASSUME Listening, NEW b \in Attendees, b # self
        PROVE b \in app'.roster <=> \E i \in Streams : streams'[i] = b
    <3>1. b \in app.roster <=> \E i \in Streams : streams[i] = b
      BY <1>3, <2>3 DEF RosterInv
    <3>2. (\E i \in Streams : streams'[i] = b) <=> (b = a \/ \E i \in Streams : streams[i] = b)
      BY <1>2, <1>5, <1>6, AttendeesAssumption
    <3> QED BY <1>7, <2>3, <3>1, <3>2
  <2>4. Listening => ~sessionReconnected
    BY <1>3 DEF RosterInv
  <2>5. Listening /\ ~selfDue => self \in app'.roster
    BY <1>3, <1>7 DEF RosterInv
  <2> QED BY <1>2, <1>7, <1>9, <2>1, <2>2, <2>3, <2>4, <2>5 DEF RosterInv, Streams
<1>14. ServerKnowsMute'
  BY <1>2, <1>3, <1>7 DEF ServerKnowsMute
<1> QED BY <1>7, <1>10, <1>11, <1>12, <1>13, <1>14 DEF RealtimeInv

(* The oldest stream of an attendee is one of them, and no other is older. *)
LEMMA OldestIs ==
  ASSUME NEW a, StreamsOf(a) # {}
  PROVE Oldest(a) \in StreamsOf(a) /\ \A j \in StreamsOf(a) : Oldest(a) <= j
<1> DEFINE S == StreamsOf(a)
           k == MaxStreams
<1>1. k \in Nat /\ S \in SUBSET (1..k) /\ S # {}
  BY BoundsAssumption DEF StreamsOf, Streams
<1>2. Min(S) \in S /\ \A j \in S : Min(S) <= j
  <2> HIDE DEF S, k
  <2> QED BY <1>1, MinIs
<1> QED BY <1>2 DEF Oldest

(* The oldest stream ends: its attendee stays on the roster with a later one. *)
LEMMA AttendeeLeavesOK ==
  ASSUME RealtimeInv, AttendeeLeaves
  PROVE RealtimeInv'
<1>1. PICK a \in Attendees \ {self} :
        /\ StreamsOf(a) # {}
        /\ streams' = [streams EXCEPT ![Oldest(a)] = None]
        /\ IF Listening
           THEN sendRealtimeUpdatesForAudioStreamIdInfo(<<Item(Oldest(a), None, None)>>)
           ELSE UNCHANGED <<adapterVars, clientVars>>
  BY DEF AttendeeLeaves
<1> DEFINE o == Oldest(a)
<1>2. UNCHANGED <<nextStream, fullFrameDue, selfDue, serverMuted, link, frames>>
  BY DEF AttendeeLeaves
<1>3. AdapterInv /\ MemoryInv /\ ServerInv /\ RosterInv /\ ClientOK(Client) /\ ServerKnowsMute
  BY DEF RealtimeInv
<1>4. MaxStreams \in Nat /\ Streams = 1..MaxStreams
  BY BoundsAssumption DEF Streams
<1>5. o \in Streams /\ streams[o] = a /\ \A j \in Streams : streams[j] = a => o <= j
  BY <1>1, OldestIs DEF StreamsOf
<1> HIDE DEF o
<1>6. streams' = [streams EXCEPT ![o] = None]
  BY <1>1 DEF o
<1>7. \A i \in Streams : streams'[i] = IF i = o THEN None ELSE streams[i]
  BY <1>3, <1>6 DEF ServerInv
<1>8. a # None /\ a # self /\ a \in Attendees /\ (Listening => streamIdToAttendeeId[o] = a)
  BY <1>3, <1>5, AttendeesAssumption DEF AdapterInv, Told
<1>9. /\ AdapterOK(streamIdToAttendeeId', attendeeIdToStreamId') /\ ClientOK(Client)'
      /\ IF Listening
         THEN /\ streamIdToAttendeeId' = [streamIdToAttendeeId EXCEPT ![o] = None]
              /\ app'.roster = Staying(app.roster, streamIdToAttendeeId, o)
         ELSE streamIdToAttendeeId' = streamIdToAttendeeId /\ app'.roster = app.roster
      /\ rt'.muted = rt.muted /\ sessionReconnected' = sessionReconnected
  <2>1. CASE Listening
    <3>1. ~sessionReconnected
      BY <1>3, <2>1 DEF RosterInv
    <3>2. sendRealtimeUpdatesForAudioStreamIdInfo(<<Item(o, None, None)>>)
      BY <1>1, <2>1 DEF o
    <3>3. streamIdToAttendeeId[o] # None
      BY <1>8, <2>1
    <3>4. /\ AdapterOK(streamIdToAttendeeId', attendeeIdToStreamId') /\ ClientOK(Client)'
          /\ streamIdToAttendeeId' = [streamIdToAttendeeId EXCEPT ![o] = None]
          /\ app'.roster = Staying(app.roster, streamIdToAttendeeId, o)
          /\ rt'.muted = rt.muted /\ sessionReconnected' = FALSE
      BY <1>3, <1>5, <3>1, <3>2, <3>3, LeaveFrame
    <3>5. sessionReconnected' = sessionReconnected
      BY <1>3, <3>1, <3>4 DEF ServerInv
    <3> QED BY <2>1, <3>4, <3>5
  <2>2. CASE ~Listening
    BY <1>1, <1>3, <2>2 DEF adapterVars, clientVars, AdapterInv, Client, ClientOK, AlmostOK, RtOK,
       MutedSilent, LocalShown, AppOK, DetOK, ListOK, Indicator, Volumes
  <2> QED BY <2>1, <2>2
<1>10. \A i \in Streams : streamIdToAttendeeId'[i] =
         IF Listening /\ i = o THEN None ELSE streamIdToAttendeeId[i]
  BY <1>3, <1>9 DEF AdapterInv, AdapterOK
<1>11. Listening' = Listening /\ BeforeFirst' = BeforeFirst
  BY <1>2, <1>9 DEF Listening, BeforeFirst
<1>12. ServerInv'
  <2>1. streams' \in [Streams -> Attendees \union {None}]
    BY <1>3, <1>6 DEF ServerInv
  <2>2. \A i \in Streams : streams'[i] # None => i < nextStream'
    BY <1>2, <1>3, <1>7 DEF ServerInv
  <2>3. \A i, j \in Streams : streams'[i] = self /\ streams'[j] = self => i = j
    BY <1>3, <1>7, AttendeesAssumption DEF ServerInv
  <2>4. link' = "up" => \E i \in Streams : streams'[i] = self
    BY <1>2, <1>3, <1>5, <1>7, <1>8 DEF ServerInv
  <2> QED BY <1>2, <1>3, <1>9, <2>1, <2>2, <2>3, <2>4 DEF ServerInv, Streams
<1>13. MemoryInv'
  <2>1. \A i \in Streams : streamIdToAttendeeId'[i] # None => i < nextStream'
    BY <1>2, <1>3, <1>10 DEF MemoryInv
  <2>2. \A i \in Streams : streams'[i] # None /\ streamIdToAttendeeId'[i] # None =>
          streams'[i] = streamIdToAttendeeId'[i]
    BY <1>3, <1>7, <1>10 DEF MemoryInv
  <2>3. ASSUME NEW i \in Streams, NEW j \in Streams, streamIdToAttendeeId'[i] # None,
               streams'[i] = None, streams'[j] = streamIdToAttendeeId'[i]
        PROVE j > i
    <3>1. streamIdToAttendeeId'[i] = streamIdToAttendeeId[i] /\ j # o /\ streams'[j] = streams[j]
      BY <1>7, <1>10, <2>3
    <3>2. CASE i = o
      <4>1. streamIdToAttendeeId[i] = a
        BY <1>3, <1>5, <1>8, <2>3, <3>1, <3>2 DEF MemoryInv
      <4> QED BY <1>4, <1>5, <2>3, <3>1, <3>2, <4>1
    <3>3. CASE i # o
      BY <1>3, <1>7, <2>3, <3>1, <3>3 DEF MemoryInv
    <3> QED BY <3>2, <3>3
  <2> QED BY <2>1, <2>2, <2>3 DEF MemoryInv, Streams
<1>14. AdapterInv'
  <2>1. ASSUME Listening, NEW i \in Streams, streams'[i] # None, streams'[i] = self => ~selfDue
        PROVE streamIdToAttendeeId'[i] = streams'[i]
    BY <1>3, <1>7, <1>10, <2>1 DEF AdapterInv, Told
  <2> QED BY <1>2, <1>9, <1>11, <2>1 DEF AdapterInv, Told, Streams
<1>15. RosterInv'
  <2>1. Listening =>
          /\ app'.roster \subseteq app.roster
          /\ app.roster \ {a} \subseteq app'.roster
          /\ a \in app'.roster <=> a \in app.roster /\ \E j \in Streams : j > o
             /\ streamIdToAttendeeId[j] = a
    <3> DEFINE newer == \E j \in Streams : j > o /\ streamIdToAttendeeId[j] = a
    <3>1. Listening => app'.roster = IF newer THEN app.roster ELSE app.roster \ {a}
      BY <1>8, <1>9 DEF Staying
    <3> HIDE DEF newer
    <3>2. Listening => /\ app'.roster \subseteq app.roster
                       /\ app.roster \ {a} \subseteq app'.roster
                       /\ a \in app'.roster <=> a \in app.roster /\ newer
      BY <3>1
    <3> QED BY <3>2 DEF newer
  <2>2. ASSUME NEW b \in app'.roster, b # self PROVE \E i \in Streams : streamIdToAttendeeId'[i] = b
    <3>1. b \in app.roster
      BY <1>9, <2>1, <2>2
    <3>2. PICK i \in Streams : streamIdToAttendeeId[i] = b
      BY <1>3, <2>2, <3>1 DEF RosterInv
    <3>3. CASE Listening /\ i = o
      <4>1. b = a
        BY <1>8, <3>2, <3>3
      <4>2. PICK j \in Streams : j > o /\ streamIdToAttendeeId[j] = a
        BY <2>1, <2>2, <3>3, <4>1
      <4>3. j # o
        BY <1>4, <1>5, <4>2
      <4> QED BY <1>10, <4>1, <4>2, <4>3
    <3>4. CASE ~(Listening /\ i = o)
      BY <1>10, <3>2, <3>4
    <3> QED BY <3>3, <3>4
  <2>3. BeforeFirst => app'.roster = {} /\ \A i \in Streams : streamIdToAttendeeId'[i] = None
    <3>1. BeforeFirst => ~Listening
      BY DEF BeforeFirst, Listening
    <3> QED BY <1>3, <1>9, <1>10, <3>1 DEF RosterInv
  <2>4. ASSUME Listening, NEW b \in Attendees, b # self
        PROVE b \in app'.roster <=> \E i \in Streams : streams'[i] = b
    <3>1. b \in app.roster <=> \E i \in Streams : streams[i] = b
      BY <1>3, <2>4 DEF RosterInv
    <3>2. CASE b # a
      <4>1. (\E i \in Streams : streams'[i] = b) <=> \E i \in Streams : streams[i] = b
        BY <1>5, <1>7, <3>2, AttendeesAssumption
      <4>2. b \in app'.roster <=> b \in app.roster
        BY <2>1, <2>4, <3>2
      <4> QED BY <3>1, <4>1, <4>2
    <3>3. CASE b = a
      <4>1. a \in app.roster
        BY <1>5, <3>1, <3>3
      <4>2. (\E j \in Streams : j > o /\ streamIdToAttendeeId[j] = a)
            <=> \E i \in Streams : streams'[i] = a
        <5>1. ASSUME NEW j \in Streams, j > o, streamIdToAttendeeId[j] = a PROVE streams'[j] = a
          <6>1. streams[j] # None
            <7>1. streams[j] = None => o > j
              BY <1>3, <1>5, <1>8, <5>1 DEF MemoryInv
            <7> QED BY <1>4, <1>5, <5>1, <7>1
          <6>2. streams[j] = a /\ j # o
            BY <1>3, <1>4, <1>5, <1>8, <5>1, <6>1 DEF MemoryInv
          <6> QED BY <1>7, <6>2
        <5>2. ASSUME NEW j \in Streams, streams'[j] = a PROVE j > o /\ streamIdToAttendeeId[j] = a
          <6>1. j # o /\ streams[j] = a
            BY <1>7, <1>8, <5>2
          <6>2. j > o
            BY <1>4, <1>5, <6>1
          <6>3. streamIdToAttendeeId[j] = a
            BY <1>3, <1>8, <2>4, <6>1 DEF AdapterInv, Told
          <6> QED BY <6>2, <6>3
        <5> QED BY <5>1, <5>2
      <4> QED BY <2>1, <2>4, <3>3, <4>1, <4>2
    <3> QED BY <3>2, <3>3
  <2>5. Listening => ~sessionReconnected
    BY <1>3 DEF RosterInv
  <2>6. Listening /\ ~selfDue => self \in app'.roster
    BY <1>3, <1>8, <2>1 DEF RosterInv
  <2> QED BY <1>2, <1>9, <1>11, <2>2, <2>3, <2>4, <2>5, <2>6 DEF RosterInv, Streams
<1>16. ServerKnowsMute'
  BY <1>2, <1>3, <1>9 DEF ServerKnowsMute
<1> QED BY <1>9, <1>12, <1>13, <1>14, <1>15, <1>16 DEF RealtimeInv

(* A mute frame is about a stream the adapter has. *)
LEMMA AttendeeMutesOK ==
  ASSUME RealtimeInv, AttendeeMutes
  PROVE RealtimeInv'
<1>1. PICK i \in Streams, muted \in BOOLEAN :
        /\ streams[i] # None /\ (streams[i] = self => ~selfDue)
        /\ sendRealtimeUpdatesForAudioStreamIdInfo(<<Item(i, None, muted)>>)
  BY DEF AttendeeMutes
<1>2. Listening /\ frames < MaxFrames /\ frames' = frames + 1
      /\ UNCHANGED <<serverVars, serverMuted, link>>
  BY DEF AttendeeMutes
<1>3. AdapterInv /\ MemoryInv /\ ServerInv /\ RosterInv /\ ClientOK(Client) /\ ServerKnowsMute
  BY DEF RealtimeInv
<1>4. streamIdToAttendeeId[i] # None /\ ~sessionReconnected
  BY <1>1, <1>2, <1>3 DEF AdapterInv, Told, RosterInv
<1>5. /\ AdapterOK(streamIdToAttendeeId', attendeeIdToStreamId') /\ ClientOK(Client)'
      /\ streamIdToAttendeeId' = streamIdToAttendeeId /\ app'.roster = app.roster
      /\ rt'.muted = rt.muted /\ sessionReconnected' = FALSE
  BY <1>1, <1>3, <1>4, MuteFrame
<1>6. frames' \in 0..MaxFrames
  BY <1>2, <1>3, BoundsAssumption DEF ServerInv
<1> QED BY <1>2, <1>3, <1>4, <1>5, <1>6
  DEF RealtimeInv, ServerInv, MemoryInv, AdapterInv, RosterInv, ServerKnowsMute,
      Listening, Told, BeforeFirst, serverVars, Streams

(* Volumes change what is shown and the scores, not who is there. *)
LEMMA VolumeFrameOK ==
  ASSUME RealtimeInv, VolumeFrame
  PROVE RealtimeInv'
<1>1. PICK volumes \in [Attendees -> Volumes], signalChanges \in SUBSET Attendees :
        sendRealtimeUpdatesForAudioMetadata(volumes, signalChanges)
  BY DEF VolumeFrame
<1>2. /\ frames < MaxFrames /\ frames' = frames + 1
      /\ UNCHANGED <<serverVars, serverMuted, link, adapterVars>>
  BY DEF VolumeFrame
<1>3. AdapterInv /\ ServerInv /\ ClientOK(Client) /\ ServerKnowsMute
  BY DEF RealtimeInv
<1>4. ClientOK(Client)' /\ rt'.muted = rt.muted /\ app' = app
  BY <1>1, <1>3, VolumesOK
<1>5. frames' \in 0..MaxFrames /\ serverMuted' \in BOOLEAN
  BY <1>2, <1>3, BoundsAssumption DEF ServerInv
<1> QED BY <1>2, <1>3, <1>4, <1>5, SameStreams DEF ServerKnowsMute

(* After the first frame of a connection the adapter has its streams, and those *)
(* it remembers besides are of attendees that are still listed. *)
LEMMA FullFrameStepOK ==
  ASSUME RealtimeInv, FullFrame
  PROVE RealtimeInv'
<1>1. PICK withSelf \in BOOLEAN :
        /\ selfDue' = ~withSelf
        /\ sendRealtimeUpdatesForAudioStreamIdInfo(
             [i \in Streams |-> IF streams[i] \in IF withSelf THEN {None} ELSE {None, self}
                                THEN Item(0, None, None) ELSE Item(i, streams[i], None)])
  BY DEF FullFrame
<1>2. /\ link = "up" /\ fullFrameDue /\ fullFrameDue' = FALSE
      /\ UNCHANGED <<streams, nextStream, serverMuted, link, frames>>
  BY DEF FullFrame
<1>3. AdapterInv /\ MemoryInv /\ ServerInv /\ RosterInv /\ ClientOK(Client) /\ ServerKnowsMute
  BY DEF RealtimeInv
<1> DEFINE L == {i \in Streams : streams[i] # None /\ (streams[i] = self => withSelf)}
           listed == {streams[i] : i \in L}
<1>4. sendRealtimeUpdatesForAudioStreamIdInfo(FullItems(L))
  <2> DEFINE items == [i \in Streams |-> IF streams[i] \in IF withSelf THEN {None} ELSE {None, self}
                                         THEN Item(0, None, None) ELSE Item(i, streams[i], None)]
  <2>1. \A i \in Streams : i \in L <=> ~ (streams[i] \in IF withSelf THEN {None} ELSE {None, self})
    OBVIOUS
  <2>2. items = FullItems(L)
    <3> HIDE DEF L
    <3> QED BY <2>1, Zenon DEF FullItems
  <2> QED BY <1>1, <2>2
<1>5. L \in SUBSET {i \in Streams : streams[i] # None}
  OBVIOUS
<1>6. BeforeFirst \/ sessionReconnected
  BY <1>2 DEF BeforeFirst
<1>7. /\ AdapterOK(streamIdToAttendeeId', attendeeIdToStreamId') /\ ClientOK(Client)'
      /\ \A i \in L : streamIdToAttendeeId'[i] = streams[i]
      /\ \A i \in Streams \ L : streamIdToAttendeeId'[i] \in {streamIdToAttendeeId[i], None}
      /\ \A a \in app'.roster : a \in listed \union {self}
      /\ \A a \in listed : a \in app'.roster
      /\ rt'.muted = rt.muted /\ sessionReconnected' = FALSE
  <2> HIDE DEF L
  <2> QED BY <1>4, <1>5, <1>6, FullFrameOK
<1>8. ServerInv'
  <2>1. selfDue' \in BOOLEAN
    BY <1>1
  <2> QED BY <1>2, <1>3, <1>7, <2>1 DEF ServerInv
<1>9. \A i \in Streams : \/ streamIdToAttendeeId'[i] = streams[i] /\ streams[i] # None
                         \/ streamIdToAttendeeId'[i] \in {streamIdToAttendeeId[i], None}
  BY <1>7
<1>10. MemoryInv'
  <2>1. \A i \in Streams : streamIdToAttendeeId'[i] # None => i < nextStream
    BY <1>3, <1>9 DEF MemoryInv, ServerInv
  <2>2. \A i \in Streams : streams[i] # None /\ streamIdToAttendeeId'[i] # None =>
          streams[i] = streamIdToAttendeeId'[i]
    BY <1>3, <1>9 DEF MemoryInv
  <2>3. \A i, j \in Streams :
          streamIdToAttendeeId'[i] # None /\ streams[i] = None
          /\ streams[j] = streamIdToAttendeeId'[i]
          => j > i
    <3>1. \A i \in Streams : streamIdToAttendeeId'[i] # None /\ streams[i] = None =>
            streamIdToAttendeeId'[i] = streamIdToAttendeeId[i]
      BY <1>9
    <3> QED BY <1>3, <3>1 DEF MemoryInv
  <2> QED BY <1>2, <2>1, <2>2, <2>3 DEF MemoryInv
<1>11. \A i \in Streams : streams[i] # None /\ (streams[i] = self => ~selfDue') =>
         streamIdToAttendeeId'[i] = streams[i]
  BY <1>1, <1>7
<1>12. AdapterInv'
  BY <1>2, <1>7, <1>11 DEF AdapterInv, Told
<1>13. RosterInv'
  <2>1. ASSUME NEW b \in app'.roster, b # self PROVE \E i \in Streams : streamIdToAttendeeId'[i] = b
    <3>1. PICK i \in L : streams[i] = b
      BY <1>7, <2>1
    <3> QED BY <1>7, <3>1
  <2>2. ASSUME NEW b \in Attendees, b # self
        PROVE b \in app'.roster <=> \E i \in Streams : streams[i] = b
    <3>1. b \in app'.roster <=> b \in listed
      BY <1>7, <2>2
    <3>2. b \in listed <=> \E i \in Streams : streams[i] = b
      BY <2>2, AttendeesAssumption
    <3> QED BY <3>1, <3>2
  <2>3. ~selfDue' => self \in app'.roster
    <3>1. PICK i \in Streams : streams[i] = self
      BY <1>2, <1>3 DEF ServerInv
    <3>2. ~selfDue' => i \in L
      BY <1>1, <3>1, AttendeesAssumption
    <3>3. ~selfDue' => self \in listed
      BY <3>1, <3>2
    <3> QED BY <1>7, <3>3
  <2> HIDE DEF L
  <2>4. ~BeforeFirst'
    BY <1>2 DEF BeforeFirst
  <2> QED BY <1>2, <1>7, <2>1, <2>2, <2>3, <2>4 DEF RosterInv
<1>14. ServerKnowsMute'
  BY <1>2, <1>3, <1>7 DEF ServerKnowsMute
<1> QED BY <1>7, <1>8, <1>10, <1>12, <1>13, <1>14 DEF RealtimeInv

(* The frame that brings the local attendee completes the roster. *)
LEMMA SelfFrameOK ==
  ASSUME RealtimeInv, SelfFrame
  PROVE RealtimeInv'
<1> DEFINE o == Oldest(self)
           muted == None
<1>1. /\ Listening /\ selfDue /\ selfDue' = FALSE
      /\ sendRealtimeUpdatesForAudioStreamIdInfo(<<Item(o, self, muted)>>)
      /\ UNCHANGED <<streams, nextStream, fullFrameDue, serverMuted, link, frames>>
  BY DEF SelfFrame
<1>2. AdapterInv /\ MemoryInv /\ ServerInv /\ RosterInv /\ ClientOK(Client) /\ ServerKnowsMute
  BY DEF RealtimeInv
<1>3. o \in Streams /\ streams[o] = self
  <2>1. StreamsOf(self) # {}
    BY <1>1, <1>2 DEF ServerInv, StreamsOf, Listening
  <2> QED BY <2>1, OldestIs DEF StreamsOf
<1> HIDE DEF o
<1>4. self \in Attendees /\ self # None /\ ~sessionReconnected
  BY <1>1, <1>2, AttendeesAssumption DEF RosterInv
<1>5. streamIdToAttendeeId[o] \in {self, None}
  BY <1>2, <1>3, <1>4 DEF MemoryInv
<1>6. /\ AdapterOK(streamIdToAttendeeId', attendeeIdToStreamId') /\ ClientOK(Client)'
      /\ streamIdToAttendeeId' = [streamIdToAttendeeId EXCEPT ![o] = self]
      /\ app'.roster = app.roster \union {self}
      /\ rt'.muted = rt.muted /\ sessionReconnected' = FALSE
  <2>1. muted \in {FALSE, None}
    OBVIOUS
  <2> HIDE DEF muted
  <2> QED BY <1>1, <1>2, <1>3, <1>4, <1>5, <2>1, JoinFrame
<1>7. \A i \in Streams : streamIdToAttendeeId'[i] = IF i = o THEN self ELSE streamIdToAttendeeId[i]
  BY <1>2, <1>6 DEF AdapterInv, AdapterOK
<1>8. ServerInv'
  BY <1>1, <1>2, <1>6 DEF ServerInv
<1>9. MemoryInv'
  <2>1. \A i \in Streams : streamIdToAttendeeId'[i] # None => i < nextStream
    BY <1>2, <1>3, <1>4, <1>7 DEF MemoryInv, ServerInv
  <2>2. \A i \in Streams : streams[i] # None /\ streamIdToAttendeeId'[i] # None =>
          streams[i] = streamIdToAttendeeId'[i]
    BY <1>2, <1>3, <1>7 DEF MemoryInv
  <2>3. \A i, j \in Streams :
          streamIdToAttendeeId'[i] # None /\ streams[i] = None
          /\ streams[j] = streamIdToAttendeeId'[i]
          => j > i
    BY <1>2, <1>3, <1>4, <1>7 DEF MemoryInv
  <2> QED BY <1>1, <2>1, <2>2, <2>3 DEF MemoryInv
<1>10. AdapterInv'
  <2>1. \A i \in Streams : streams[i] # None => streamIdToAttendeeId'[i] = streams[i]
    <3> TAKE i \in Streams
    <3>1. CASE streams[i] = self
      BY <1>2, <1>3, <1>7, <3>1 DEF ServerInv
    <3>2. CASE streams[i] # self
      BY <1>1, <1>2, <1>3, <1>7, <3>2 DEF AdapterInv, Told
    <3> QED BY <3>1, <3>2
  <2> QED BY <1>1, <1>6, <2>1 DEF AdapterInv, Told
<1>11. RosterInv'
  <2>1. ASSUME NEW b \in app'.roster, b # self PROVE \E i \in Streams : streamIdToAttendeeId'[i] = b
    <3>1. b \in app.roster
      BY <1>6, <2>1
    <3>2. PICK i \in Streams : streamIdToAttendeeId[i] = b
      BY <1>2, <2>1, <3>1 DEF RosterInv
    <3>3. b # None
      BY <1>2, <3>1, AttendeesAssumption DEF ClientOK, AlmostOK, AppOK, Client
    <3>4. i # o
      BY <1>5, <2>1, <3>2, <3>3
    <3> QED BY <1>7, <3>2, <3>4
  <2>2. \A b \in Attendees : b # self => (b \in app'.roster <=> \E i \in Streams : streams[i] = b)
    BY <1>1, <1>2, <1>6 DEF RosterInv
  <2>3. self \in app'.roster
    BY <1>6
  <2>4. ~BeforeFirst'
    BY <1>1 DEF BeforeFirst, Listening
  <2> QED BY <1>1, <1>6, <2>1, <2>2, <2>3, <2>4 DEF RosterInv
<1>12. ServerKnowsMute'
  BY <1>1, <1>2, <1>6 DEF ServerKnowsMute
<1> QED BY <1>6, <1>8, <1>9, <1>10, <1>11, <1>12 DEF RealtimeInv

(* What a step keeps of the client that leaves it alone. *)
LEMMA SameClient ==
  ASSUME ClientOK(Client), UNCHANGED clientVars
  PROVE ClientOK(Client)'
BY DEF clientVars, Client, ClientOK, AlmostOK, RtOK, MutedSilent, LocalShown, AppOK, DetOK,
       ListOK, Indicator, Volumes

(* Without a connection nothing is claimed of the roster. *)
LEMMA LinkLostOK ==
  ASSUME RealtimeInv, LinkLost
  PROVE RealtimeInv'
<1>1. ClientOK(Client)'
  BY SameClient DEF RealtimeInv, LinkLost
<1> QED BY <1>1 DEF RealtimeInv, LinkLost, ServerInv, MemoryInv, AdapterInv, AdapterOK, RosterInv,
       ServerKnowsMute, Listening, Told, BeforeFirst, serverVars, adapterVars, clientVars, Streams

(* From a reconnection on the next frame cleans up. *)
LEMMA ReconnectOK ==
  ASSUME RealtimeInv, Reconnect
  PROVE RealtimeInv'
<1>1. ClientOK(Client)'
  BY SameClient DEF RealtimeInv, Reconnect
<1>2. frames' \in 0..MaxFrames
  BY BoundsAssumption DEF RealtimeInv, ServerInv, Reconnect
<1> QED
  BY <1>1, <1>2 DEF RealtimeInv, Reconnect, ServerInv, MemoryInv, AdapterInv, AdapterOK, RosterInv,
       ServerKnowsMute, Listening, Told, BeforeFirst, serverVars, clientVars, Streams

(* The local attendee gets one stream in place of the one it had. *)
LEMMA SubscribeOK ==
  ASSUME RealtimeInv, Subscribe
  PROVE RealtimeInv'
<1>1. /\ link = "open" /\ link' = "up" /\ serverMuted' = rt.muted
      /\ fullFrameDue' = TRUE /\ selfDue' = TRUE /\ UNCHANGED <<frames, adapterVars, clientVars>>
  BY DEF Subscribe, audioMuted
<1>2. AdapterInv /\ MemoryInv /\ ServerInv /\ RosterInv /\ ClientOK(Client) /\ ServerKnowsMute
  BY DEF RealtimeInv
<1>3. ClientOK(Client)'
  BY <1>1, <1>2, SameClient
<1>4. ~Listening' /\ BeforeFirst' = BeforeFirst
  BY <1>1 DEF Listening, BeforeFirst, adapterVars
<1>5. AdapterInv' /\ RosterInv' /\ ServerKnowsMute'
  BY <1>1, <1>2, <1>4 DEF AdapterInv, AdapterOK, RosterInv, ServerKnowsMute, adapterVars,
     clientVars, Streams
<1>6. serverMuted' \in BOOLEAN
  BY <1>1, <1>2 DEF ClientOK, AlmostOK, RtOK, Client
<1>7. MaxStreams \in Nat /\ Streams = 1..MaxStreams
  BY BoundsAssumption DEF Streams
<1>8. CASE StreamsOf(self) # {} /\ UNCHANGED <<streams, nextStream>>
  <2>1. ServerInv'
    BY <1>1, <1>2, <1>6, <1>8 DEF ServerInv, StreamsOf, adapterVars
  <2>2. MemoryInv'
    BY <1>1, <1>2, <1>8 DEF MemoryInv, adapterVars
  <2> QED BY <1>3, <1>5, <2>1, <2>2 DEF RealtimeInv
<1>9. CASE /\ nextStream \in Streams /\ nextStream' = nextStream + 1
           /\ streams' = [i \in Streams |-> IF i = nextStream THEN self
                                            ELSE IF streams[i] = self THEN None ELSE streams[i]]
  <2>1. \A i \in Streams : streams'[i] = IF i = nextStream THEN self
                                         ELSE IF streams[i] = self THEN None ELSE streams[i]
    BY <1>9
  <2>2. self \in Attendees /\ self # None
    BY AttendeesAssumption
  <2>3. ServerInv'
    <3>1. streams' \in [Streams -> Attendees \union {None}]
      BY <1>2, <1>9, <2>2 DEF ServerInv
    <3>2. nextStream' \in 1..MaxStreams + 1
      BY <1>7, <1>9
    <3>3. \A i \in Streams : streams'[i] # None => i < nextStream'
      BY <1>2, <1>7, <1>9, <2>1 DEF ServerInv
    <3>4. \A i, j \in Streams : streams'[i] = self /\ streams'[j] = self => i = j
      BY <2>1, <2>2
    <3>5. \E i \in Streams : streams'[i] = self
      BY <1>9, <2>1
    <3> QED BY <1>1, <1>2, <1>6, <3>1, <3>2, <3>3, <3>4, <3>5 DEF ServerInv, adapterVars
  <2>4. MemoryInv'
    <3>1. \A i \in Streams : streamIdToAttendeeId[i] # None => i < nextStream'
      BY <1>2, <1>7, <1>9 DEF MemoryInv
    <3>2. \A i \in Streams : streams'[i] # None /\ streamIdToAttendeeId[i] # None =>
            streams'[i] = streamIdToAttendeeId[i]
      <4>1. \A i \in Streams : streamIdToAttendeeId[i] # None => i # nextStream
        BY <1>2, <1>7, <1>9 DEF MemoryInv
      <4> QED BY <1>2, <2>1, <4>1 DEF MemoryInv
    <3>3. ASSUME NEW i \in Streams, NEW j \in Streams, streamIdToAttendeeId[i] # None,
                 streams'[i] = None, streams'[j] = streamIdToAttendeeId[i]
          PROVE j > i
      <4>1. i < nextStream
        BY <1>2, <3>3 DEF MemoryInv
      <4>2. CASE j = nextStream
        BY <1>7, <4>1, <4>2
      <4>3. CASE j # nextStream
        <5>1. streams[j] = streamIdToAttendeeId[i] /\ streams[j] # self
          BY <2>1, <3>3, <4>3
        <5>2. streams[i] = None
          BY <1>2, <2>1, <2>2, <3>3, <5>1 DEF MemoryInv
        <5> QED BY <1>2, <3>3, <5>1, <5>2 DEF MemoryInv
      <4> QED BY <4>2, <4>3
    <3> QED BY <1>1, <3>1, <3>2, <3>3 DEF MemoryInv, adapterVars, Streams
  <2> QED BY <1>3, <1>5, <2>3, <2>4 DEF RealtimeInv
<1> QED BY <1>8, <1>9 DEF Subscribe

-----------------------------------------------------------------------------
(* The steps of the client alone. *)

(* The local mute is shown at once, and told over an open connection. *)
LEMMA SetMutedOK ==
  ASSUME RealtimeInv, NEW muted \in BOOLEAN, SetMuted(muted)
  PROVE RealtimeInv'
<1> DEFINE s == [Client EXCEPT !.rt.muted = muted]
           no == FALSE
           t == realtimeUpdateVolumeIndicator(s, self, None, None, no)
<1>1. /\ Becomes(t) /\ serverMuted' = (IF link = "down" THEN serverMuted ELSE muted)
      /\ UNCHANGED <<serverVars, link, frames, adapterVars>>
  BY DEF SetMuted
<1>2. AdapterInv /\ ServerInv /\ ClientOK(Client) /\ ServerKnowsMute
  BY DEF RealtimeInv
<1>3. AlmostOK(s) /\ s.app = app /\ s.rt.muted = muted
  <2>1. s.app = app /\ s.det = det /\ s = [f \in {"rt", "app", "det"} |-> s[f]]
    BY DEF Client
  <2>2. /\ s.rt = [f \in {"attendeeIdChangesCallbacks", "muted", "indicators", "callbacks"} |-> s.rt[f]]
        /\ s.rt.attendeeIdChangesCallbacks = rt.attendeeIdChangesCallbacks
        /\ s.rt.muted = muted /\ s.rt.callbacks = rt.callbacks /\ s.rt.indicators = rt.indicators
    BY <1>2 DEF Client, ClientOK, AlmostOK, RtOK
  <2> HIDE DEF s
  <2>3. RtOK(s.rt) /\ MutedSilent(s.rt)
    BY <1>2, <2>2 DEF Client, ClientOK, AlmostOK, RtOK, MutedSilent
  <2> QED BY <1>2, <2>1, <2>2, <2>3 DEF Client, ClientOK, AlmostOK
<1>4. ClientOK(t) /\ t.app = app /\ t.rt.muted = muted
  <2>1. ClientOK(t) /\ t.app = s.app /\ t.rt.muted = s.rt.muted
    <3>1. self \in Attendees
      BY AttendeesAssumption
    <3> HIDE DEF s, no
    <3> QED BY <1>3, <3>1, UpdateOK
  <2> HIDE DEF s, t
  <2> QED BY <1>3, <2>1
<1> HIDE DEF t
<1>5. ClientOK(Client)' /\ app' = app /\ rt'.muted = muted
  <2>1. ClientOK(Client)'
    BY <1>1, <1>4, BecomesOK
  <2> QED BY <1>1, <1>4, <2>1 DEF Becomes
<1>6. frames' \in 0..MaxFrames /\ serverMuted' \in BOOLEAN
      /\ (link = "up" => serverMuted' = rt'.muted)
  BY <1>1, <1>2, <1>5 DEF ServerInv
<1> QED BY <1>1, <1>5, <1>6, SameStreams

(* What a step of the client keeps that puts a list in the place of another.  *)
LEMMA NewListeners ==
  ASSUME RealtimeInv, NEW l, ListOK(l), rt' = [rt EXCEPT !.attendeeIdChangesCallbacks = l],
         AppOK(app)', DetOK(det)', app'.roster = app.roster,
         UNCHANGED <<serverVars, serverMuted, link, frames, adapterVars>>
  PROVE RealtimeInv'
<1>1. ServerInv /\ ClientOK(Client) /\ ServerKnowsMute
  BY DEF RealtimeInv
<1>2. /\ rt' = [f \in {"attendeeIdChangesCallbacks", "muted", "indicators", "callbacks"} |-> rt'[f]]
      /\ rt'.attendeeIdChangesCallbacks = l
      /\ rt'.muted = rt.muted /\ rt'.callbacks = rt.callbacks /\ rt'.indicators = rt.indicators
  BY <1>1 DEF Client, ClientOK, AlmostOK, RtOK
<1>3. RtOK(rt) /\ MutedSilent(rt) /\ LocalShown(rt)
  BY <1>1 DEF Client, ClientOK, AlmostOK
<1>4. RtOK(rt') /\ MutedSilent(rt') /\ LocalShown(rt')
  BY <1>2, <1>3 DEF RtOK, MutedSilent, LocalShown
<1>5. ClientOK(Client)'
  <2> DEFINE s == [rt |-> rt', app |-> app', det |-> det']
  <2>1. AppOK(app') /\ DetOK(det')
    BY DEF AppOK, DetOK
  <2>2. ClientOK(s)
    BY <1>4, <2>1 DEF ClientOK, AlmostOK
  <2>3. Becomes(s)
    BY DEF Becomes
  <2> HIDE DEF s
  <2> QED BY <2>2, <2>3, BecomesOK
<1>6. frames' \in 0..MaxFrames /\ serverMuted' \in BOOLEAN
      /\ (link = "up" => serverMuted' = rt'.muted)
  BY <1>1, <1>2 DEF ServerInv, ServerKnowsMute
<1> QED BY <1>5, <1>6, SameStreams

(* A listener that subscribes comes behind the application. *)
LEMMA AppendedOK ==
  ASSUME NEW l, ListOK(l), NEW e \in {"wait", "detector"}
  PROVE ListOK(Append(l, e))
<1>1. l \in Seq(Listeners) /\ Len(l) \in Nat /\ e \in Listeners
  BY DEF ListOK, Listeners
<1>2. Append(l, e) \in Seq(Listeners) /\ Len(Append(l, e)) = Len(l) + 1
  BY <1>1
<1>3. \A i \in 1..Len(l) + 1 : Append(l, e)[i] = IF i <= Len(l) THEN l[i] ELSE e
  BY <1>1
<1> DEFINE m == Append(l, e)
<1> HIDE DEF m
<1> QED BY <1>1, <1>2, <1>3 DEF ListOK, m

(* What the three steps below need of the client. *)
LEMMA ListenersAre ==
  ASSUME RealtimeInv
  PROVE ListOK(rt.attendeeIdChangesCallbacks) /\ AppOK(app) /\ DetOK(det)
BY DEF RealtimeInv, Client, ClientOK, AlmostOK, RtOK

(* The task that waits for the local attendee listens from here on. *)
LEMMA WaitForAttendeePresenceOK ==
  ASSUME RealtimeInv, WaitForAttendeePresence
  PROVE RealtimeInv'
<1> DEFINE k == rt.attendeeIdChangesCallbacks
           l == Append(k, "wait")
<1>1. /\ rt' = [rt EXCEPT !.attendeeIdChangesCallbacks = l]
      /\ app' = [app EXCEPT !.waited = TRUE]
      /\ UNCHANGED <<serverVars, serverMuted, link, frames, adapterVars, det>>
  BY DEF WaitForAttendeePresence, realtimeSubscribeToAttendeeIdPresence
<1>2. ListOK(k) /\ AppOK(app) /\ DetOK(det)
  BY ListenersAre
<1>3. ListOK(l)
  <2> HIDE DEF k
  <2> QED BY <1>2, AppendedOK
<1>4. AppOK(app)' /\ app'.roster = app.roster /\ DetOK(det)'
  BY <1>1, <1>2 DEF AppOK, DetOK
<1> HIDE DEF l
<1> QED BY <1>1, <1>3, <1>4, NewListeners

(* The detector listens from here on. *)
LEMMA DetectorSubscribesOK ==
  ASSUME RealtimeInv, DetectorSubscribes
  PROVE RealtimeInv'
<1> DEFINE k == rt.attendeeIdChangesCallbacks
           l == Append(k, "detector")
<1>1. /\ rt' = [rt EXCEPT !.attendeeIdChangesCallbacks = l]
      /\ det' = [det EXCEPT !.subscription = "on"]
      /\ UNCHANGED <<serverVars, serverMuted, link, frames, adapterVars, app>>
  BY DEF DetectorSubscribes, realtimeSubscribeToAttendeeIdPresence
<1>2. ListOK(k) /\ AppOK(app) /\ DetOK(det)
  BY ListenersAre
<1>3. ListOK(l)
  <2> HIDE DEF k
  <2> QED BY <1>2, AppendedOK
<1>4. AppOK(app)' /\ app'.roster = app.roster /\ DetOK(det)'
  BY <1>1, <1>2 DEF AppOK, DetOK
<1> HIDE DEF l
<1> QED BY <1>1, <1>3, <1>4, NewListeners

(* The detector listens no more; the application still does. *)
LEMMA DetectorUnsubscribesOK ==
  ASSUME RealtimeInv, DetectorUnsubscribes
  PROVE RealtimeInv'
<1> DEFINE k == rt.attendeeIdChangesCallbacks
           l == RemoveFirst(k, "detector")
<1>1. /\ rt' = [rt EXCEPT !.attendeeIdChangesCallbacks = l]
      /\ det' = [det EXCEPT !.subscription = "off"]
      /\ UNCHANGED <<serverVars, serverMuted, link, frames, adapterVars, app>>
  BY DEF DetectorUnsubscribes, realtimeUnsubscribeToAttendeeIdPresence
<1>2. ListOK(k) /\ AppOK(app) /\ DetOK(det)
  BY ListenersAre
<1>3. ListOK(l)
  <2> HIDE DEF k
  <2> QED BY <1>2, UnsubscribedOK
<1>4. AppOK(app)' /\ app'.roster = app.roster /\ DetOK(det)'
  BY <1>1, <1>2 DEF AppOK, DetOK
<1> HIDE DEF l
<1> QED BY <1>1, <1>3, <1>4, NewListeners

(* The activity timer changes the scores. *)
LEMMA ActivityTimerOK ==
  ASSUME RealtimeInv, NEW a \in Attendees, ActivityTimer(a)
  PROVE RealtimeInv'
<1> DEFINE s == [rt |-> rt, app |-> app, det |-> det']
           loud == FALSE
<1>1. /\ det' = updateScore(det, a, loud)
      /\ UNCHANGED <<serverVars, serverMuted, link, frames, adapterVars, rt, app>>
  BY DEF ActivityTimer
<1>2. ServerInv /\ ClientOK(Client) /\ ServerKnowsMute /\ DetOK(det)
  BY DEF RealtimeInv, Client, ClientOK, AlmostOK
<1>3. DetOK(det')
  <2> HIDE DEF loud
  <2> QED BY <1>1, <1>2, updateScoreOK
<1>4. ClientOK(s) /\ Becomes(s)
  BY <1>1, <1>2, <1>3 DEF Client, ClientOK, AlmostOK, Becomes
<1>5. ClientOK(Client)'
  <2> HIDE DEF s
  <2> QED BY <1>4, BecomesOK
<1>6. frames' \in 0..MaxFrames /\ serverMuted' \in BOOLEAN
      /\ (link = "up" => serverMuted' = rt'.muted)
  BY <1>1, <1>2 DEF ServerInv, ServerKnowsMute
<1> QED BY <1>1, <1>5, <1>6, SameStreams

-----------------------------------------------------------------------------
(* A client that has not heard of anybody, at an open connection. *)
LEMMA InitOK == Init => RealtimeInv
<1> SUFFICES ASSUME Init PROVE RealtimeInv
  OBVIOUS
<1>1. {MaxStreams, MaxFrames, MaxVolume, MaxLevel} \subseteq Nat /\ self \in Attendees
      /\ None \notin Attendees
  BY BoundsAssumption, AttendeesAssumption
<1>2. ServerInv
  <2>1. /\ streams = [i \in Streams |-> None] /\ nextStream = 1
        /\ fullFrameDue = FALSE /\ selfDue = FALSE /\ serverMuted = FALSE
        /\ link = "open" /\ frames = 0 /\ sessionReconnected = FALSE
    BY DEF Init
  <2>2. streams \in [Streams -> Attendees \union {None}] /\ nextStream \in 1..MaxStreams + 1
        /\ frames \in 0..MaxFrames
    BY <1>1, <2>1
  <2>3. \A i \in Streams : streams[i] = None
    BY <2>1
  <2> QED BY <1>1, <2>1, <2>2, <2>3 DEF ServerInv
<1>3. MemoryInv /\ AdapterInv /\ ServerKnowsMute
  BY <1>1 DEF Init, MemoryInv, AdapterInv, AdapterOK, Told, Listening, ServerKnowsMute, Streams
<1>4. RosterInv
  BY <1>1 DEF Init, RosterInv, Listening, BeforeFirst, Streams
<1>5. ListOK(<<"app">>)
  BY DEF ListOK, Listeners
<1>6. RtOK(rt) /\ MutedSilent(rt) /\ LocalShown(rt)
  <2> DEFINE l == <<"app">>
             silent == [muted |-> None, volume |-> None]
  <2>1. rt = [attendeeIdChangesCallbacks |-> l, muted |-> FALSE,
              indicators |-> [a \in Attendees |-> silent], callbacks |-> [a \in Attendees |-> 0]]
    BY DEF Init
  <2>2. silent \in Indicator /\ silent.muted = None /\ silent.volume = None
    BY DEF Indicator
  <2> HIDE DEF l, silent
  <2> QED BY <1>1, <1>5, <2>1, <2>2 DEF RtOK, MutedSilent, LocalShown, l
<1>7. AppOK(app)
  BY DEF Init, AppOK
<1>8. DetOK(det)
  <2>1. det = [subscription |-> "none", volumes |-> [a \in Attendees |-> 0],
               speakerScores |-> [a \in Attendees |-> 0], known |-> <<>>,
               activeSpeakers |-> <<>>, hasBandwidthPriority |-> FALSE]
    BY DEF Init
  <2>2. [a \in Attendees |-> 0] \in [Attendees -> 0..MaxLevel] /\ <<>> \in Seq(Attendees)
    BY <1>1
  <2> DEFINE none == <<>>
             zero == [a \in Attendees |-> 0]
  <2> HIDE DEF none, zero
  <2>3. det = [subscription |-> "none", volumes |-> zero, speakerScores |-> zero, known |-> none,
               activeSpeakers |-> none, hasBandwidthPriority |-> FALSE]
    BY <2>1 DEF none, zero
  <2>4. zero \in [Attendees -> 0..MaxLevel] /\ none \in Seq(Attendees)
    BY <2>2 DEF none, zero
  <2> QED BY <2>3, <2>4 DEF DetOK
<1>9. ClientOK(Client)
  BY <1>6, <1>7, <1>8 DEF Client, ClientOK, AlmostOK
<1> QED BY <1>2, <1>3, <1>4, <1>9 DEF RealtimeInv

(* Every step preserves the invariant. *)
LEMMA NextOK == RealtimeInv /\ [Next]_vars => RealtimeInv'
<1> SUFFICES ASSUME RealtimeInv, [Next]_vars PROVE RealtimeInv'
  OBVIOUS
<1>1. CASE AttendeeJoins
  BY <1>1, AttendeeJoinsOK
<1>2. CASE AttendeeLeaves
  BY <1>2, AttendeeLeavesOK
<1>3. CASE AttendeeMutes
  BY <1>3, AttendeeMutesOK
<1>4. CASE FullFrame
  BY <1>4, FullFrameStepOK
<1>5. CASE SelfFrame
  BY <1>5, SelfFrameOK
<1>6. CASE VolumeFrame
  BY <1>6, VolumeFrameOK
<1>7. CASE LinkLost
  BY <1>7, LinkLostOK
<1>8. CASE Reconnect
  BY <1>8, ReconnectOK
<1>9. CASE Subscribe
  BY <1>9, SubscribeOK
<1>10. CASE realtimeMuteLocalAudio
  <2> DEFINE muted == TRUE
  <2>1. SetMuted(muted) /\ muted \in BOOLEAN
    BY <1>10 DEF realtimeMuteLocalAudio
  <2> HIDE DEF muted
  <2> QED BY <2>1, SetMutedOK
<1>11. CASE realtimeUnmuteLocalAudio
  <2> DEFINE muted == FALSE
  <2>1. SetMuted(muted) /\ muted \in BOOLEAN
    BY <1>11 DEF realtimeUnmuteLocalAudio
  <2> HIDE DEF muted
  <2> QED BY <2>1, SetMutedOK
<1>12. CASE WaitForAttendeePresence
  BY <1>12, WaitForAttendeePresenceOK
<1>13. CASE DetectorSubscribes
  BY <1>13, DetectorSubscribesOK
<1>14. CASE DetectorUnsubscribes
  BY <1>14, DetectorUnsubscribesOK
<1>15. ASSUME NEW a \in Attendees, ActivityTimer(a) PROVE RealtimeInv'
  BY <1>15, ActivityTimerOK
<1>16. CASE UNCHANGED vars
  <2>1. UNCHANGED <<serverVars, serverMuted, link, frames, adapterVars, clientVars>>
    BY <1>16 DEF vars
  <2>2. ClientOK(Client)'
    BY <2>1, SameClient DEF RealtimeInv
  <2>3. frames' \in 0..MaxFrames /\ serverMuted' \in BOOLEAN
        /\ (link = "up" => serverMuted' = rt'.muted)
    BY <2>1 DEF RealtimeInv, ServerInv, ServerKnowsMute, clientVars
  <2>4. app'.roster = app.roster
    BY <2>1 DEF clientVars
  <2> QED BY <2>1, <2>2, <2>3, <2>4, SameStreams
<1> QED BY <1>1, <1>2, <1>3, <1>4, <1>5, <1>6, <1>7, <1>8, <1>9, <1>10, <1>11, <1>12, <1>13,
           <1>14, <1>15, <1>16 DEF Next

(* RealtimeInv is an invariant of the specification. *)
LEMMA Invariant == Spec => []RealtimeInv
BY InitOK, NextOK, PTL DEF Spec

(* What is typed stays so, also through the folds of a frame.                *)
THEOREM TypeCorrect == Spec => []TypeOK
<1>1. RealtimeInv => TypeOK
  BY DEF RealtimeInv, ServerInv, AdapterInv, AdapterOK, Client, ClientOK, AlmostOK, RtOK, AppOK,
         DetOK, TypeOK, Indicator
<1> QED BY <1>1, Invariant, PTL

(* Once the frames of a connection are in, the roster is who has a stream.    *)
THEOREM RosterAgrees == Spec => []RosterMatches
<1>1. RealtimeInv => RosterMatches
  <2> SUFFICES ASSUME RealtimeInv, Listening, ~selfDue
               PROVE app.roster = {streams[i] : i \in Streams} \ {None}
    BY DEF RosterMatches
  <2>1. ServerInv /\ RosterInv /\ app.roster \subseteq Attendees
    BY DEF RealtimeInv, Client, ClientOK, AlmostOK, AppOK
  <2>2. \A a \in Attendees : a \in app.roster <=> \E i \in Streams : streams[i] = a
    <3>1. self \in app.roster /\ \E i \in Streams : streams[i] = self
      BY <2>1 DEF RosterInv, ServerInv, Listening
    <3> QED BY <2>1, <3>1 DEF RosterInv
  <2>3. \A i \in Streams : streams[i] \in Attendees \union {None}
    BY <2>1 DEF ServerInv
  <2> QED BY <2>1, <2>2, <2>3, AttendeesAssumption
<1> QED BY <1>1, Invariant, PTL

(* The local mute rules what is shown of it and what the server knows.        *)
THEOREM MuteAgreed == Spec => []MuteAgrees
<1>1. RealtimeInv => MuteAgrees
  BY DEF RealtimeInv, Client, ClientOK, AlmostOK, MutedSilent, LocalShown, MuteAgrees,
     LocalMuteRules
<1> QED BY <1>1, Invariant, PTL

=============================================================================
