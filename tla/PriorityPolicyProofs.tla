-------------------------- MODULE PriorityPolicyProofs --------------------------
(***************************************************************************)
(* Of the downlink policy, for any streams, bitrates, preferences, index    *)
(* frames and reports: its selection is the best it could be, what it        *)
(* subscribes to is there, and it agrees with the tiles and the server on    *)
(* what is paused.                                                          *)
(*                                                                         *)
(* The first half is about the selection, a fold over candidates within a    *)
(* fold over priorities: Lowest and Better say what a priority has got when  *)
(* some of its candidates have been tried, Served when all have, ServedAll   *)
(* when some of the priorities have been served.  The second half is about   *)
(* states, as records: TileInv says what a tile, the pauses and the server   *)
(* have to do with each other, ExistInv that a stream that is received, or    *)
(* that a failed probe may return to, is there or its attendee paused.  One  *)
(* lemma for each operation says what it leaves of a state, until one says    *)
(* that a calculation and what follows it keep Inv.                          *)
(***************************************************************************)
EXTENDS PriorityPolicy, FiniteSetTheorems, TLAPS

-----------------------------------------------------------------------------
(* Folds.  The theorems of the library about folds are about operators that  *)
(* are parameters; here the steps of all folds of PriorityPolicy are          *)
(* alternatives of one operator, with what they need to know as the context   *)
(* c, and induction is over a set of sets.                                   *)
Step(k, c, t, x) ==
  CASE k = 1 -> Subscribe(t, c.target, x.stream)
    [] k = 2 -> Upgrade(t, c.target, c.infos, x.stream, c.prefs[x.at].size)
    [] k = 3 -> Level(t, c.target, c.prefs, c.infos, x)
    [] k = 4 -> PauseOrResume(t, c.infos, c.prefs[x].attendee)
    [] k = 5 -> Rate[x] + t
LastOf(k, T) ==
  CASE k \in {1, 2} -> LastTried(T) [] k \in {3, 4} -> Max(T) [] k = 5 -> CHOOSE x \in T : TRUE
Fold(k, c, base, S) ==
  MapThenFoldSet(LAMBDA x, t : Step(k, c, t, x), base, LAMBDA x : x, LAMBDA T : LastOf(k, T), S)

(* What a fold takes for its iteration. *)
Iterates(g, k, c, base, S) ==
  g = [T \in SUBSET S |-> IF T = {} THEN base
                          ELSE Step(k, c, g[T \ {LastOf(k, T)}], LastOf(k, T))]
HasLast(k, S) == \A T \in SUBSET S : T # {} => LastOf(k, T) \in T

(* A set of sets that has the empty one, and one if it has it without any of   *)
(* its elements, has every finite set.                                       *)
LEMMA SetInduction ==
  ASSUME NEW S, IsFiniteSet(S), NEW P, {} \in P,
         \A T \in SUBSET S : T # {} /\ (\A x \in T : T \ {x} \in P) => T \in P
  PROVE  S \in P
<1> DEFINE R == StrictSubsetOrdering(S)
           Q == (SUBSET S) \ P
<1>1. IsWellFoundedOn(R, SUBSET S)
  BY FS_StrictSubsetOrderingWellFounded, FS_FiniteSubsetsOfFinite
<1>2. SUFFICES ASSUME Q # {} PROVE FALSE  OBVIOUS
<1>3. \A T, U \in SUBSET S : T \subseteq U /\ T # U => <<T, U>> \in R
  BY DEF StrictSubsetOrdering
<1>4. PICK T \in Q : \A U \in Q : ~ (<<U, T>> \in R)
  <2> Q \subseteq SUBSET S  OBVIOUS
  <2> HIDE DEF R, Q
  <2> QED  BY <1>1, <1>2, WFMin
<1>5. T # {}  OBVIOUS
<1>6. ASSUME NEW x \in T PROVE T \ {x} \in P
  <2>1. T \ {x} \in SUBSET S /\ T \ {x} \subseteq T /\ T \ {x} # T  BY <1>6
  <2>2. <<T \ {x}, T>> \in R  BY <1>3, <2>1
  <2> QED  BY <1>4, <2>1, <2>2
<1> QED  BY <1>5, <1>6

(* Every fold over a finite set has its iteration. *)
LEMMA FoldIterates ==
  ASSUME NEW k, NEW c, NEW base, NEW S, IsFiniteSet(S), HasLast(k, S)
  PROVE  \E g : Iterates(g, k, c, base, S) /\ Fold(k, c, base, S) = g[S]
<1> DEFINE Below(n) == {T \in SUBSET S : Cardinality(T) <= n}
           Upto(g, n) == \A T \in Below(n) :
             g[T] = IF T = {} THEN base ELSE Step(k, c, g[T \ {LastOf(k, T)}], LastOf(k, T))
           P == {n \in Nat : \E g : Upto(g, n)}
<1>1. \A T \in SUBSET S : Cardinality(T) \in Nat /\ (Cardinality(T) = 0 <=> T = {})
  BY FS_Subset, FS_CardinalityType, FS_EmptySet
<1>2. \A T \in SUBSET S : T # {} =>
        /\ T \ {LastOf(k, T)} \in SUBSET S
        /\ Cardinality(T \ {LastOf(k, T)}) = Cardinality(T) - 1
  BY FS_Subset, FS_RemoveElement DEF HasLast
<1>3. 0 \in P
  <2> DEFINE g == [T \in SUBSET S |-> base]
  <2>1. \A T \in Below(0) : T = {} /\ g[T] = base  BY <1>1
  <2>2. Upto(g, 0)  BY <2>1
  <2> QED  BY <2>2
<1>4. ASSUME NEW n \in Nat, n \in P PROVE n + 1 \in P
  <2>1. PICK g : Upto(g, n)  BY <1>4
  <2> DEFINE h == [T \in SUBSET S |->
                     IF Cardinality(T) <= n THEN g[T]
                     ELSE Step(k, c, g[T \ {LastOf(k, T)}], LastOf(k, T))]
  <2>2. ASSUME NEW T \in Below(n + 1)
        PROVE h[T] = IF T = {} THEN base ELSE Step(k, c, h[T \ {LastOf(k, T)}], LastOf(k, T))
    <3>1. CASE T = {}
      <4>1. Cardinality(T) <= n /\ T \in Below(n)  BY <1>1, <3>1
      <4> QED  BY <2>1, <3>1, <4>1
    <3>2. CASE T # {}
      <4> DEFINE U == T \ {LastOf(k, T)}
      <4>1. U \in SUBSET S /\ Cardinality(U) <= n  BY <1>1, <1>2, <3>2
      <4>2. h[U] = g[U]  BY <4>1
      <4>3. CASE Cardinality(T) <= n
        <5>1. h[T] = g[T] /\ T \in Below(n)  BY <4>3
        <5> QED  BY <2>1, <3>2, <4>2, <5>1
      <4>4. CASE ~ (Cardinality(T) <= n)
        <5>1. h[T] = Step(k, c, g[U], LastOf(k, T))  BY <4>4
        <5> QED  BY <3>2, <4>2, <5>1
      <4> QED  BY <4>3, <4>4
    <3> QED  BY <3>1, <3>2
  <2>3. Upto(h, n + 1)
    <3> HIDE DEF h
    <3> QED  BY <2>2
  <2> HIDE DEF Upto, h
  <2> QED  BY <2>3
<1>5. Nat \subseteq P
  <2> DEFINE Q == {n \in Nat : n \notin P}
             R == OpToRel(<, Nat)
  <2>1. SUFFICES ASSUME Q # {} PROVE FALSE  OBVIOUS
  <2>2. IsWellFoundedOn(R, Nat)  BY NatLessThanWellFounded
  <2>3. \A m, n \in Nat : m < n => <<m, n>> \in R  BY DEF OpToRel
  <2> HIDE DEF R, P
  <2>4. PICK n \in Q : \A m \in Q : ~ (<<m, n>> \in R)
    <3>1. Q \subseteq Nat  OBVIOUS
    <3> HIDE DEF Q
    <3> QED  BY <2>1, <2>2, <3>1, WFMin
  <2>5. n # 0  BY <1>3
  <2>6. n - 1 \in Nat /\ n - 1 < n /\ (n - 1) + 1 = n  BY <2>5
  <2>7. n - 1 \in P  BY <2>3, <2>4, <2>6
  <2> QED  BY <1>4, <2>6, <2>7
<1> DEFINE n == Cardinality(S)
<1>6. n \in Nat /\ \A T \in SUBSET S : T \in Below(n)  BY <1>1, FS_Subset
<1>7. PICK g : Upto(g, n)
  <2> HIDE DEF Upto, n
  <2> QED  BY <1>5, <1>6
<1> DEFINE h == [T \in SUBSET S |-> g[T]]
<1>8. Iterates(h, k, c, base, S)
  <2>1. ASSUME NEW T \in SUBSET S
        PROVE h[T] = IF T = {} THEN base ELSE Step(k, c, h[T \ {LastOf(k, T)}], LastOf(k, T))
    <3>1. g[T] = IF T = {} THEN base ELSE Step(k, c, g[T \ {LastOf(k, T)}], LastOf(k, T))
      BY <1>6, <1>7
    <3>2. T # {} => h[T \ {LastOf(k, T)}] = g[T \ {LastOf(k, T)}]  OBVIOUS
    <3> QED  BY <3>1, <3>2
  <2>2. h = [T \in SUBSET S |-> h[T]]  OBVIOUS
  <2> HIDE DEF h
  <2> QED  BY <2>1, <2>2 DEF Iterates
<1> DEFINE f == CHOOSE f : f = [T \in SUBSET S |->
                   IF T = {} THEN base ELSE Step(k, c, f[T \ {LastOf(k, T)}], LastOf(k, T))]
<1>9. Iterates(f, k, c, base, S)
  <2> HIDE DEF h
  <2> QED  BY <1>8 DEF Iterates
<1>10. Fold(k, c, base, S) = f[S]  BY DEF Fold, MapThenFoldSet
<1> HIDE DEF f
<1> QED  BY <1>9, <1>10

(* What an iteration is, of the empty set and of any other. *)
LEMMA Iteration ==
  ASSUME NEW g, NEW k, NEW c, NEW base, NEW S, Iterates(g, k, c, base, S)
  PROVE  /\ g[{}] = base
         /\ \A T \in SUBSET S :
              T # {} => g[T] = Step(k, c, g[T \ {LastOf(k, T)}], LastOf(k, T))
BY DEF Iterates

-----------------------------------------------------------------------------
(* What the folds go over. *)

(* Preferences: each of another attendee. *)
PrefsOK(prefs) ==
  /\ \E n \in Nat : DOMAIN prefs = 1..n /\ prefs = [i \in 1..n |-> prefs[i]]
  /\ \A i \in DOMAIN prefs : prefs[i].priority \in Nat /\ prefs[i].size \in Nat
  /\ \A i, j \in DOMAIN prefs : prefs[i].attendee = prefs[j].attendee => i = j

(* A finite set of numbers has a greatest and a least. *)
LEMMA Extremes ==
  ASSUME NEW S, IsFiniteSet(S), S \subseteq Nat, S # {}
  PROVE  /\ Max(S) \in S /\ \A y \in S : y <= Max(S)
         /\ Min(S) \in S /\ \A y \in S : Min(S) <= y
<1> DEFINE P == {T \in SUBSET S : T # {} => /\ \E x \in T : \A y \in T : x >= y
                                            /\ \E x \in T : \A y \in T : x <= y}
<1>1. {} \in P  OBVIOUS
<1>2. ASSUME NEW T \in SUBSET S, NEW x \in T, T \ {x} \in P PROVE T \in P
  <2>1. CASE T = {x}  BY <2>1
  <2>2. CASE T # {x}
    <3>1. PICK a \in T \ {x} : \A y \in T \ {x} : a >= y  BY <1>2, <2>2
    <3>2. PICK b \in T \ {x} : \A y \in T \ {x} : b <= y  BY <1>2, <2>2
    <3>3. a \in Nat /\ b \in Nat /\ x \in Nat /\ T \subseteq Nat  BY <1>2
    <3>4. \E z \in T : \A y \in T : z >= y
      <4>1. CASE x >= a  BY <3>1, <3>3, <4>1
      <4>2. CASE ~ (x >= a)  BY <3>1, <3>3, <4>2
      <4> QED  BY <4>1, <4>2
    <3>5. \E z \in T : \A y \in T : z <= y
      <4>1. CASE x <= b  BY <3>2, <3>3, <4>1
      <4>2. CASE ~ (x <= b)  BY <3>2, <3>3, <4>2
      <4> QED  BY <4>1, <4>2
    <3> QED  BY <3>4, <3>5
  <2> QED  BY <2>1, <2>2
<1>3. S \in P
  <2> HIDE DEF P
  <2> QED  BY <1>1, <1>2, SetInduction
<1>4. Max(S) \in S /\ \A y \in S : Max(S) >= y  BY <1>3 DEF Max
<1>5. Min(S) \in S /\ \A y \in S : Min(S) <= y  BY <1>3 DEF Min
<1> QED  BY <1>4, <1>5

(* There are finitely many candidates. *)
LEMMA CandidatesFinite ==
  ASSUME NEW prefs, PrefsOK(prefs), NEW infos \in SUBSET Streams, NEW p
  PROVE  IsFiniteSet(Candidates(prefs, infos, p))
<1> DEFINE D == DOMAIN prefs
           A == D \X infos
           B == [at : D, stream : infos]
           f == [a \in A |-> [at |-> a[1], stream |-> a[2]]]
<1>1. IsFiniteSet(A)
  <2>1. IsFiniteSet(D)  BY FS_Interval DEF PrefsOK
  <2>2. IsFiniteSet(infos)  BY PolicyAssumption, FS_Subset
  <2> QED  BY <2>1, <2>2, FS_Product
<1>2. f \in [A -> B]
  <2>1. \A a \in A : [at |-> a[1], stream |-> a[2]] \in B  OBVIOUS
  <2> QED  BY <2>1
<1>3. ASSUME NEW b \in B PROVE \E a \in A : f[a] = b
  <2>1. <<b.at, b.stream>> \in A  OBVIOUS
  <2>2. f[<<b.at, b.stream>>] = b  BY <2>1
  <2> QED  BY <2>1, <2>2
<1>4. IsFiniteSet(B)
  <2> HIDE DEF A, B, f
  <2>1. f \in Surjection(A, B)  BY <1>2, <1>3 DEF Surjection
  <2> QED  BY <1>1, <2>1, FS_Surjection
<1>5. Candidates(prefs, infos, p) \in SUBSET B  BY DEF Candidates
<1> QED  BY <1>4, <1>5, FS_Subset

(* A candidate. *)
LEMMA CandidateIs ==
  ASSUME NEW prefs, NEW infos, NEW p, NEW d \in Candidates(prefs, infos, p)
  PROVE  /\ d.at \in DOMAIN prefs /\ d.stream \in infos
         /\ prefs[d.at].priority = p /\ prefs[d.at].attendee = Attendee[d.stream]
BY DEF Candidates

(* The last of some candidates comes after the others. *)
After(d, e) == d.at < e.at \/ (d.at = e.at /\ Rate[d.stream] <= Rate[e.stream])

(* There is one that comes last. *)
LEMMA LastTriedIs ==
  ASSUME NEW prefs, PrefsOK(prefs), NEW infos \in SUBSET Streams, NEW p,
         NEW C \in SUBSET Candidates(prefs, infos, p), C # {}
  PROVE  LastTried(C) \in C /\ \A d \in C : After(d, LastTried(C))
<1> DEFINE P == {T \in SUBSET C : T # {} => \E e \in T : \A d \in T : After(d, e)}
<1>1. {} \in P  OBVIOUS
<1>2. \A d \in C : d.at \in Nat /\ Rate[d.stream] \in Nat
  <2>1. \A d \in C : d.at \in DOMAIN prefs /\ d.stream \in infos  BY CandidateIs
  <2>2. DOMAIN prefs \subseteq Nat  BY DEF PrefsOK
  <2> QED  BY <2>1, <2>2, PolicyAssumption
<1>3. ASSUME NEW T \in SUBSET C, T # {}, \A x \in T : T \ {x} \in P PROVE T \in P
  <2>0. PICK x \in T : TRUE  BY <1>3
  <2>1. CASE T = {x}
    <3>1. After(x, x)  BY <1>2, <1>3 DEF After
    <3> QED  BY <2>1, <3>1
  <2>2. CASE T # {x}
    <3>1. PICK e \in T \ {x} : \A d \in T \ {x} : After(d, e)  BY <1>3, <2>2
    <3>2. CASE After(x, e)  BY <3>1, <3>2
    <3>3. CASE ~ After(x, e)
      <4>1. After(e, x)  BY <1>2, <1>3, <3>3 DEF After
      <4>2. \A d \in T \ {x} : After(d, x)  BY <1>2, <1>3, <3>1, <4>1 DEF After
      <4>3. After(x, x)  BY <1>2, <1>3 DEF After
      <4> QED  BY <4>2, <4>3
    <3> QED  BY <3>2, <3>3
  <2> QED  BY <2>1, <2>2
<1>4. IsFiniteSet(C)  BY CandidatesFinite, FS_Subset
<1>5. C \in P
  <2> HIDE DEF P
  <2> QED  BY <1>1, <1>3, <1>4, SetInduction
<1>6. \E e \in C : \A d \in C : After(d, e)  BY <1>5
<1> QED  BY <1>6 DEF LastTried, After

(* Hence the folds have their iterations. *)
LEMMA HasLasts ==
  /\ \A prefs, p : \A infos \in SUBSET Streams : PrefsOK(prefs) =>
       LET C == Candidates(prefs, infos, p) IN HasLast(1, C) /\ HasLast(2, C) /\ IsFiniteSet(C)
  /\ \A S \in SUBSET Nat : IsFiniteSet(S) => HasLast(3, S) /\ HasLast(4, S)
  /\ \A S : HasLast(5, S)
<1>1. ASSUME NEW prefs, NEW p, NEW infos \in SUBSET Streams, PrefsOK(prefs)
      PROVE  LET C == Candidates(prefs, infos, p)
             IN  HasLast(1, C) /\ HasLast(2, C) /\ IsFiniteSet(C)
  BY <1>1, LastTriedIs, CandidatesFinite DEF HasLast, LastOf
<1>2. ASSUME NEW S \in SUBSET Nat, IsFiniteSet(S) PROVE HasLast(3, S) /\ HasLast(4, S)
  <2>1. ASSUME NEW T \in SUBSET S, T # {} PROVE Max(T) \in T
    <3>1. IsFiniteSet(T)  BY <1>2, FS_Subset
    <3> QED  BY <2>1, <3>1, Extremes
  <2> QED  BY <2>1 DEF HasLast, LastOf
<1>3. ASSUME NEW S PROVE HasLast(5, S)
  BY DEF HasLast, LastOf
<1> QED  BY <1>1, <1>2, <1>3

-----------------------------------------------------------------------------
(* The sum of bitrates.  In which order it is taken does not matter.         *)
LEMMA SumIs == \A S : Sum(S) = Fold(5, 0, 0, S)
BY DEF Fold, Sum, MapThenSumSet, MapThenFoldSet, Step, LastOf

(* What any summand adds to a sum. *)
LEMMA SumFacts ==
  /\ Sum({}) = 0
  /\ \A T \in SUBSET Streams : Sum(T) \in Nat
  /\ \A T \in SUBSET Streams : \A x \in T : Sum(T) = Sum(T \ {x}) + Rate[x]
<1>1. IsFiniteSet(Streams) /\ \A x \in Streams : Rate[x] \in Nat  BY PolicyAssumption
<1>2. PICK g : Iterates(g, 5, 0, 0, Streams)  BY <1>1, HasLasts, FoldIterates
<1>3. ASSUME NEW T \in SUBSET Streams PROVE Sum(T) = g[T]
  <2>1. IsFiniteSet(T)  BY <1>1, FS_Subset
  <2>2. PICK h : Iterates(h, 5, 0, 0, T) /\ Fold(5, 0, 0, T) = h[T]
    BY <2>1, HasLasts, FoldIterates
  <2> DEFINE P == {U \in SUBSET T : h[U] = g[U]}
  <2>3. {} \in P  BY <1>2, <2>2, Iteration
  <2>4. ASSUME NEW U \in SUBSET T, U # {}, \A x \in U : U \ {x} \in P PROVE U \in P
    <3> DEFINE l == LastOf(5, U)
    <3>1. l \in U  BY <2>4, HasLasts DEF HasLast
    <3>2. h[U \ {l}] = g[U \ {l}]  BY <2>4, <3>1
    <3>3. g[U] = Step(5, 0, g[U \ {l}], l)  BY <1>2, <2>4, Iteration
    <3>4. h[U] = Step(5, 0, h[U \ {l}], l)  BY <2>2, <2>4, Iteration
    <3> QED  BY <3>2, <3>3, <3>4
  <2>5. T \in P
    <3> HIDE DEF P
    <3> QED  BY <2>1, <2>3, <2>4, SetInduction
  <2> QED  BY <2>2, <2>5, SumIs
<1>4. g[{}] = 0  BY <1>2, Iteration
<1>5. ASSUME NEW T \in SUBSET Streams, T # {}
      PROVE  LastOf(5, T) \in T /\ g[T] = Rate[LastOf(5, T)] + g[T \ {LastOf(5, T)}]
  <2> DEFINE l == LastOf(5, T)
  <2>1. l \in T  BY <1>5, HasLasts DEF HasLast
  <2>2. g[T] = Step(5, 0, g[T \ {l}], l)
    <3>1. \A U \in SUBSET Streams :
            U # {} => g[U] = Step(5, 0, g[U \ {LastOf(5, U)}], LastOf(5, U))
      BY <1>2, Iteration
    <3> QED  BY <1>5, <3>1
  <2>3. g[T] = Rate[l] + g[T \ {l}]
    <3> HIDE DEF l
    <3> QED  BY <2>2 DEF Step
  <2> QED  BY <2>1, <2>3
<1>6. ASSUME NEW S \in SUBSET Streams PROVE g[S] \in Nat
  <2> DEFINE P == {T \in SUBSET S : g[T] \in Nat}
  <2>1. {} \in P  BY <1>4
  <2>2. ASSUME NEW T \in SUBSET S, T # {}, \A x \in T : T \ {x} \in P PROVE T \in P
    <3> DEFINE l == LastOf(5, T)
    <3>1. l \in T /\ g[T] = Rate[l] + g[T \ {l}]  BY <1>5, <2>2
    <3> HIDE DEF l
    <3>2. Rate[l] \in Nat /\ g[T \ {l}] \in Nat  BY <1>1, <2>2, <3>1
    <3> QED  BY <3>1, <3>2
  <2>3. IsFiniteSet(S)  BY <1>1, FS_Subset
  <2> HIDE DEF P
  <2>4. S \in P  BY <2>1, <2>2, <2>3, SetInduction
  <2> QED  BY <2>4 DEF P
<1>7. ASSUME NEW S \in SUBSET Streams PROVE \A x \in S : g[S] = g[S \ {x}] + Rate[x]
  <2> DEFINE P == {T \in SUBSET S : \A x \in T : g[T] = g[T \ {x}] + Rate[x]}
  <2>1. {} \in P  OBVIOUS
  <2>2. ASSUME NEW T \in SUBSET S, T # {}, \A x \in T : T \ {x} \in P PROVE T \in P
    <3> DEFINE l == LastOf(5, T)
    <3>1. l \in T /\ g[T] = Rate[l] + g[T \ {l}]  BY <1>5, <2>2
    <3> HIDE DEF l
    <3>2. g[T \ {l}] \in Nat /\ Rate[l] \in Nat  BY <1>1, <1>6, <3>1
    <3>3. ASSUME NEW x \in T, x # l PROVE g[T] = g[T \ {x}] + Rate[x]
      <4>1. g[T \ {l}] = g[(T \ {l}) \ {x}] + Rate[x]  BY <2>2, <3>1, <3>3
      <4>2. g[T \ {x}] = g[(T \ {x}) \ {l}] + Rate[l]  BY <2>2, <3>1, <3>3
      <4>3. (T \ {l}) \ {x} = (T \ {x}) \ {l}  OBVIOUS
      <4>4. g[(T \ {l}) \ {x}] \in Nat  BY <1>6
      <4>5. Rate[x] \in Nat  BY <1>1, <3>3
      <4> QED  BY <3>1, <3>2, <4>1, <4>2, <4>3, <4>4, <4>5
    <3>4. g[T] = g[T \ {l}] + Rate[l]  BY <3>1, <3>2
    <3> QED  BY <3>3, <3>4
  <2>3. IsFiniteSet(S)  BY <1>1, FS_Subset
  <2> HIDE DEF P
  <2>4. S \in P  BY <2>1, <2>2, <2>3, SetInduction
  <2> QED  BY <2>4 DEF P
<1> QED  BY <1>3, <1>4, <1>6, <1>7

-----------------------------------------------------------------------------
(* The choice of streams, one step at a time. *)

Single(S) == \A x, y \in S : Attendee[x] = Attendee[y] => x = y
Selections == [total : Nat, delta : Nat, upgrade : Streams \cup {0}, chosen : SUBSET Streams]

(* What is chosen among infos is within the target; there may be more, which  *)
(* was kept from before, of other attendees.                                 *)
SelectionOK(r, infos, target) ==
  /\ r \in Selections /\ Single(r.chosen)
  /\ r.delta # 0 => r.upgrade \in infos
  /\ \A y \in r.chosen \ infos : Attendee[y] \notin From(infos)
  /\ r.total = Sum(r.chosen \cap infos) /\ r.total <= target

(* What is spent is within the target; the first that is not is remembered. *)
LEMMA SpendOf ==
  ASSUME NEW r \in Selections, NEW target \in Nat, NEW increase \in Nat, NEW x \in Streams,
         NEW chosen \in SUBSET Streams, NEW q, q = Spend(r, target, increase, x, chosen)
  PROVE  /\ q \in Selections
         /\ r.total + increase <= target =>
              /\ q.total = r.total + increase /\ q.chosen = chosen
              /\ q.delta = r.delta /\ q.upgrade = r.upgrade
         /\ ~ (r.total + increase <= target) =>
              /\ q.total = r.total /\ q.chosen = r.chosen
              /\ r.delta # 0 => q = r
              /\ r.delta = 0 => q.delta = increase /\ q.upgrade = x
<1>1. r.total + increase \in Nat /\ r = [f \in DOMAIN r |-> r[f]]
      /\ DOMAIN r = {"total", "delta", "upgrade", "chosen"}
  BY DEF Selections
<1>2. CASE r.total + increase <= target
  <2>1. q = [r EXCEPT !.total = @ + increase, !.chosen = chosen]  BY <1>2 DEF Spend
  <2> QED  BY <1>1, <1>2, <2>1 DEF Selections
<1>3. CASE ~ (r.total + increase <= target) /\ r.delta = 0
  <2>1. q = [r EXCEPT !.delta = increase, !.upgrade = x]  BY <1>3 DEF Spend
  <2> QED  BY <1>1, <1>3, <2>1 DEF Selections
<1>4. CASE ~ (r.total + increase <= target) /\ r.delta # 0
  BY <1>4 DEF Spend
<1> QED  BY <1>2, <1>3, <1>4

(* A stream is chosen for an attendee who has none, if there is room for it.  *)
Subscribed(r, q, x, target) ==
  \/ q = r /\ Of(r.chosen, Attendee[x]) # {}
  \/ /\ Of(r.chosen, Attendee[x]) = {} /\ r.total + Rate[x] > target
     /\ q.chosen = r.chosen /\ q.total = r.total /\ q.delta # 0
  \/ /\ Of(r.chosen, Attendee[x]) = {} /\ q.chosen = r.chosen \cup {x}
     /\ q.total = r.total + Rate[x] /\ q.delta = r.delta

(* Subscribe does one of three things, and the choice stays sound. *)
LEMMA SubscribeOf ==
  ASSUME NEW infos \in SUBSET Streams, NEW target \in Nat, NEW r, SelectionOK(r, infos, target),
         NEW x \in infos, NEW q, q = Subscribe(r, target, x)
  PROVE  SelectionOK(q, infos, target) /\ Subscribed(r, q, x, target)
<1>0. x \in Streams /\ Rate[x] \in Nat \ {0} /\ r \in Selections
  BY PolicyAssumption DEF SelectionOK
<1>1. r.total \in Nat /\ r.delta \in Nat /\ r.chosen \in SUBSET Streams  BY <1>0 DEF Selections
<1>2. CASE Of(r.chosen, Attendee[x]) # {}
  BY <1>2 DEF Subscribe, Subscribed
<1>3. CASE Of(r.chosen, Attendee[x]) = {}
  <2>1. q = Spend(r, target, Rate[x], x, r.chosen \cup {x})  BY <1>3 DEF Subscribe
  <2>2. r.chosen \cup {x} \in SUBSET Streams  BY <1>0, <1>1
  <2>3. CASE r.total + Rate[x] <= target
    <3>1. /\ q \in Selections /\ q.total = r.total + Rate[x] /\ q.chosen = r.chosen \cup {x}
          /\ q.delta = r.delta /\ q.upgrade = r.upgrade
      BY <1>0, <2>1, <2>2, <2>3, SpendOf
    <3>2. Single(q.chosen)  BY <1>3, <3>1 DEF Single, Of, SelectionOK
    <3>3. x \notin r.chosen  BY <1>3 DEF Of
    <3>4. q.total = Sum(q.chosen \cap infos)
      <4> DEFINE T == q.chosen \cap infos
      <4>1. T \in SUBSET Streams /\ x \in T /\ T \ {x} = r.chosen \cap infos  BY <3>1, <3>3
      <4>2. Sum(T) = Sum(T \ {x}) + Rate[x]  BY <4>1, SumFacts
      <4> QED  BY <3>1, <4>1, <4>2 DEF SelectionOK
    <3>5. \A y \in q.chosen \ infos : Attendee[y] \notin From(infos)
      BY <3>1 DEF SelectionOK
    <3>6. SelectionOK(q, infos, target)
      BY <2>3, <3>1, <3>2, <3>4, <3>5 DEF SelectionOK
    <3> QED  BY <1>3, <3>1, <3>6 DEF Subscribed
  <2>4. CASE ~ (r.total + Rate[x] <= target)
    <3>1. /\ q \in Selections /\ q.total = r.total /\ q.chosen = r.chosen
          /\ r.delta # 0 => q = r
          /\ r.delta = 0 => q.delta = Rate[x] /\ q.upgrade = x
      BY <1>0, <2>1, <2>2, <2>4, SpendOf
    <3>2. q.delta # 0 /\ q.upgrade \in infos  BY <1>0, <3>1 DEF SelectionOK
    <3>3. SelectionOK(q, infos, target)  BY <3>1, <3>2 DEF SelectionOK
    <3>4. r.total + Rate[x] > target  BY <1>0, <1>1, <2>4
    <3> QED  BY <1>3, <3>1, <3>2, <3>3, <3>4 DEF Subscribed
  <2> QED  BY <2>3, <2>4
<1> QED  BY <1>2, <1>3

(* Two streams are more than one. *)
LEMMA TwoStreams ==
  ASSUME NEW S \in SUBSET Streams, NEW x \in S, NEW y \in S, x # y
  PROVE  Cardinality(S) > 1
<1>1. IsFiniteSet(S) /\ Cardinality(S) \in Nat  BY PolicyAssumption, FS_Subset, FS_CardinalityType
<1>2. Cardinality(S \ {x}) = Cardinality(S) - 1 /\ IsFiniteSet(S \ {x})
  BY <1>1, FS_RemoveElement
<1>3. S \ {x} # {}  OBVIOUS
<1>4. Cardinality(S \ {x}) # 0 /\ Cardinality(S \ {x}) \in Nat
  BY <1>2, <1>3, FS_EmptySet, FS_CardinalityType
<1> QED  BY <1>1, <1>2, <1>4

(* A stream is replaced by a better one of the same attendee, if the size     *)
(* asked for and the target allow it.                                        *)
Improves(y, x, size) == Attendee[y] = Attendee[x] /\ Rate[y] < Rate[x] /\ Rate[x] <= size
Upgraded(r, q, x, size, target) ==
  \/ q = r /\ \A y \in r.chosen : ~ Improves(y, x, size)
  \/ /\ \E y \in r.chosen : Improves(y, x, size) /\ r.total - Rate[y] + Rate[x] > target
     /\ q.chosen = r.chosen /\ q.total = r.total /\ q.delta # 0
  \/ /\ \E y \in r.chosen :
          /\ Improves(y, x, size) /\ q.chosen = (r.chosen \ {y}) \cup {x}
          /\ q.total = r.total - Rate[y] + Rate[x]
     /\ q.delta = r.delta

(* And so does Upgrade. *)
LEMMA UpgradeOf ==
  ASSUME NEW infos \in SUBSET Streams, NEW target \in Nat, NEW r, SelectionOK(r, infos, target),
         NEW x \in infos, NEW size \in Nat, NEW q, q = Upgrade(r, target, infos, x, size)
  PROVE  SelectionOK(q, infos, target) /\ Upgraded(r, q, x, size, target)
<1> DEFINE lower == {y \in Of(r.chosen, Attendee[x]) : Rate[y] < Rate[x]}
           y == CHOOSE y \in lower : TRUE
<1>0. x \in Streams /\ Rate[x] \in Nat \ {0} /\ r \in Selections
  BY PolicyAssumption DEF SelectionOK
<1>1. r.total \in Nat /\ r.delta \in Nat /\ r.chosen \in SUBSET Streams  BY <1>0 DEF Selections
<1>2. CASE lower = {} \/ Rate[x] > size
  <2>1. q = r  BY <1>2 DEF Upgrade
  <2>2. ASSUME NEW z \in r.chosen, Improves(z, x, size) PROVE FALSE
    <3>1. z \in lower  BY <2>2 DEF Improves, Of
    <3> QED  BY <1>0, <1>2, <2>2, <3>1 DEF Improves
  <2> QED  BY <2>1, <2>2 DEF Upgraded
<1>3. CASE lower # {} /\ ~ (Rate[x] > size)
  <2>1. y \in lower  BY <1>3
  <2> HIDE DEF y
  <2>2. y \in r.chosen /\ Attendee[y] = Attendee[x] /\ Rate[y] < Rate[x] /\ y \in Streams
    BY <1>1, <2>1 DEF Of
  <2>3. Rate[y] \in Nat  BY <2>2, PolicyAssumption
  <2>4. y \in infos /\ x # y
    <3>1. Attendee[y] \in From(infos)  BY <2>2 DEF From
    <3>2. x # y  BY <1>0, <2>2, <2>3
    <3> QED  BY <2>2, <3>1, <3>2 DEF SelectionOK
  <2>5. Improves(y, x, size)  BY <1>0, <1>3, <2>2, <2>3 DEF Improves
  <2> DEFINE better == (r.chosen \ {y}) \cup {x}
             increase == Rate[x] - Rate[y]
  <2>6. q = Spend(r, target, increase, x, better)
    <3>1. Of(infos, Attendee[x]) \in SUBSET Streams  BY DEF Of
    <3>2. x \in Of(infos, Attendee[x]) /\ y \in Of(infos, Attendee[x])  BY <2>2, <2>4 DEF Of
    <3>3. Cardinality(Of(infos, Attendee[x])) > 1  BY <2>4, <3>1, <3>2, TwoStreams
    <3> QED  BY <1>3, <3>3 DEF Upgrade, y
  <2>7. increase \in Nat /\ increase # 0 /\ better \in SUBSET Streams
    BY <1>0, <1>1, <2>2, <2>3
  <2>8. r.total - Rate[y] + Rate[x] = r.total + increase  BY <1>0, <1>1, <2>3
  <2> HIDE DEF increase
  <2>9. CASE r.total + increase <= target
    <3>1. /\ q \in Selections /\ q.total = r.total + increase /\ q.chosen = better
          /\ q.delta = r.delta /\ q.upgrade = r.upgrade
      <4> HIDE DEF better
      <4> QED  BY <1>0, <2>6, <2>7, <2>9, SpendOf
    <3>2. Single(q.chosen)  BY <2>2, <3>1 DEF Single, SelectionOK
    <3>3. x \notin r.chosen  BY <2>2, <2>4 DEF Single, SelectionOK
    <3>4. q.total = Sum(q.chosen \cap infos)
      <4> DEFINE T == q.chosen \cap infos
                 U == r.chosen \cap infos
      <4>1. /\ T \in SUBSET Streams /\ x \in T /\ U \in SUBSET Streams /\ y \in U
            /\ T \ {x} = U \ {y}
        BY <2>2, <2>4, <3>1, <3>3
      <4>2. Sum(T) = Sum(T \ {x}) + Rate[x] /\ Sum(U) = Sum(U \ {y}) + Rate[y]
        BY <4>1, SumFacts
      <4>3. Sum(U \ {y}) \in Nat
        <5> U \ {y} \in SUBSET Streams  BY <4>1
        <5> QED  BY SumFacts
      <4>4. r.total = Sum(U)  BY DEF SelectionOK
      <4> HIDE DEF T, U
      <4>5. Sum(T) = r.total - Rate[y] + Rate[x]
        <5> DEFINE s == Sum(U \ {y})
        <5>1. s \in Nat /\ r.total = s + Rate[y] /\ Sum(T) = s + Rate[x]
          BY <4>1, <4>2, <4>3, <4>4
        <5> HIDE DEF s
        <5>2. Rate[x] \in Nat  BY <1>0
        <5> QED  BY <2>3, <5>1, <5>2
      <4> QED  BY <2>8, <3>1, <4>5 DEF T
    <3>5. \A z \in q.chosen \ infos : Attendee[z] \notin From(infos)
      BY <3>1 DEF SelectionOK
    <3>6. SelectionOK(q, infos, target)
      BY <2>9, <3>1, <3>2, <3>4, <3>5 DEF SelectionOK
    <3> QED  BY <2>2, <2>5, <2>8, <3>1, <3>6 DEF Upgraded
  <2>10. CASE ~ (r.total + increase <= target)
    <3>1. /\ q \in Selections /\ q.total = r.total /\ q.chosen = r.chosen
          /\ r.delta # 0 => q = r
          /\ r.delta = 0 => q.delta = increase /\ q.upgrade = x
      <4> HIDE DEF better
      <4>1. r.delta # 0 => q = r  BY <2>6, <2>10 DEF Spend
      <4>2. r.delta = 0 => q.delta = increase /\ q.upgrade = x
        BY <1>0, <2>6, <2>7, <2>10, SpendOf
      <4> QED  BY <1>0, <2>6, <2>7, <2>10, <4>1, <4>2, SpendOf
    <3>2. q.delta # 0 /\ q.upgrade \in infos  BY <2>7, <3>1 DEF SelectionOK
    <3>3. SelectionOK(q, infos, target)  BY <3>1, <3>2 DEF SelectionOK
    <3>4. r.total - Rate[y] + Rate[x] > target  BY <1>1, <2>7, <2>8, <2>10
    <3> QED  BY <2>2, <2>5, <3>1, <3>2, <3>3, <3>4 DEF Upgraded
  <2> QED  BY <2>9, <2>10
<1> QED  BY <1>2, <1>3

-----------------------------------------------------------------------------
(* The preferences of one priority. *)

(* Attendees and preferences go together. *)
LEMMA SameAttendee ==
  ASSUME NEW prefs, PrefsOK(prefs), NEW infos, NEW p,
         NEW c \in Candidates(prefs, infos, p), NEW d \in Candidates(prefs, infos, p)
  PROVE  Attendee[c.stream] = Attendee[d.stream] <=> c.at = d.at
<1>1. c.at \in DOMAIN prefs /\ prefs[c.at].attendee = Attendee[c.stream]  BY CandidateIs
<1>2. d.at \in DOMAIN prefs /\ prefs[d.at].attendee = Attendee[d.stream]  BY CandidateIs
<1> QED  BY <1>1, <1>2 DEF PrefsOK

(* The last of a set of candidates: a candidate of those before, of the same  *)
(* attendee, has no higher bitrate.                                          *)
LEMMA LastIs ==
  ASSUME NEW prefs, PrefsOK(prefs), NEW infos \in SUBSET Streams, NEW p,
         NEW T \in SUBSET Candidates(prefs, infos, p), T # {}
  PROVE  LET x == LastTried(T) IN
         /\ x \in T /\ x.stream \in infos /\ x.at \in DOMAIN prefs
         /\ \A c \in T : Attendee[c.stream] = Attendee[x.stream]
              => c.at = x.at /\ Rate[c.stream] <= Rate[x.stream]
<1> DEFINE x == LastTried(T)
<1>1. x \in T /\ \A c \in T : After(c, x)  BY LastTriedIs
<1>2. x.stream \in infos /\ x.at \in DOMAIN prefs  BY <1>1, CandidateIs
<1>3. DOMAIN prefs \subseteq Nat  BY DEF PrefsOK
<1>4. ASSUME NEW c \in T, Attendee[c.stream] = Attendee[x.stream]
      PROVE  c.at = x.at /\ Rate[c.stream] <= Rate[x.stream]
  <2> HIDE DEF x
  <2>1. c.at = x.at  BY <1>1, <1>4, SameAttendee
  <2>2. After(c, x) /\ x.at \in Nat  BY <1>1, <1>2, <1>3
  <2> QED  BY <2>1, <2>2 DEF After
<1> QED  BY <1>1, <1>2, <1>4

(* First everybody gets the lowest quality, while there is room. *)
Lowest(q, r, infos, target, T) ==
  /\ SelectionOK(q, infos, target) /\ q.total >= r.total
  /\ \A a : (\A c \in T : Attendee[c.stream] # a) => Of(q.chosen, a) = Of(r.chosen, a)
  /\ \A c \in T : Of(q.chosen, Attendee[c.stream]) = {}
       => q.total + Rate[c.stream] > target /\ q.delta # 0
  /\ \A c \in T : \A y \in q.chosen :
       Attendee[y] = Attendee[c.stream] => Rate[y] <= Rate[c.stream]
  /\ r.delta = 0 /\ q.delta # 0 => \E c \in T : Of(q.chosen, Attendee[c.stream]) = {}

(* One more candidate of a priority has been tried. *)
LEMMA LowestStep ==
  ASSUME NEW prefs, PrefsOK(prefs), NEW infos \in SUBSET Streams, NEW p, NEW target \in Nat,
         NEW r, SelectionOK(r, infos, target),
         \A c \in Candidates(prefs, infos, p) : Of(r.chosen, Attendee[c.stream]) = {},
         NEW T \in SUBSET Candidates(prefs, infos, p), T # {},
         NEW v, Lowest(v, r, infos, target, T \ {LastTried(T)}),
         NEW q, q = Subscribe(v, target, LastTried(T).stream)
  PROVE  Lowest(q, r, infos, target, T)
<1> DEFINE x == LastTried(T)
           U == T \ {x}
           i == x.stream
<1>1. /\ x \in T /\ i \in infos /\ i \in Streams
      /\ \A c \in T : Attendee[c.stream] = Attendee[i] => Rate[c.stream] <= Rate[i]
  BY LastIs
<1>2. \A c \in T : Rate[c.stream] \in Nat
  <2>1. \A c \in T : c.stream \in Streams  BY CandidateIs
  <2> QED  BY <2>1, PolicyAssumption
<1> HIDE DEF x
<1>3. Lowest(v, r, infos, target, U) /\ SelectionOK(v, infos, target)  BY DEF x, Lowest
<1>4. SelectionOK(q, infos, target) /\ Subscribed(v, q, i, target)
  <2> DEFINE j == x.stream
  <2>1. q = Subscribe(v, target, j) /\ j \in infos  BY <1>1 DEF x
  <2> HIDE DEF j
  <2>2. SelectionOK(q, infos, target) /\ Subscribed(v, q, j, target)
    BY <1>3, <2>1, SubscribeOf
  <2> QED  BY <2>2 DEF j
<1>5. v.total \in Nat /\ r.total \in Nat /\ q.total \in Nat /\ Rate[i] \in Nat
      /\ v.chosen \in SUBSET Streams /\ q.total <= target
  BY <1>1, <1>2, <1>3, <1>4 DEF SelectionOK, Selections, Subscribed
<1>6. q.total >= v.total /\ v.chosen \subseteq q.chosen /\ q.chosen \subseteq v.chosen \cup {i}
  BY <1>4, <1>5 DEF Subscribed
<1>7. q.total >= r.total  BY <1>3, <1>5, <1>6 DEF Lowest
<1>8. ASSUME NEW a, \A c \in T : Attendee[c.stream] # a
      PROVE  Of(q.chosen, a) = Of(r.chosen, a)
  <2>1. Of(v.chosen, a) = Of(r.chosen, a)  BY <1>3, <1>8 DEF Lowest
  <2>2. Attendee[i] # a  BY <1>1, <1>8
  <2> QED  BY <1>6, <2>1, <2>2 DEF Of
<1>9. ASSUME NEW c \in T, Of(q.chosen, Attendee[c.stream]) = {}
      PROVE  q.total + Rate[c.stream] > target /\ q.delta # 0
  <2>1. CASE c = x
    <3>1. q.chosen = v.chosen /\ v.total + Rate[i] > target /\ q.delta # 0 /\ q.total = v.total
      BY <1>4, <1>9, <2>1 DEF Of, Subscribed
    <3> QED  BY <2>1, <3>1
  <2>2. CASE c # x
    <3>1. Of(v.chosen, Attendee[c.stream]) = {}  BY <1>6, <1>9 DEF Of
    <3>2. c \in U  BY <2>2
    <3>3. v.total + Rate[c.stream] > target /\ v.delta # 0  BY <1>3, <3>1, <3>2 DEF Lowest
    <3>4. q.delta # 0  BY <1>4, <3>3 DEF Subscribed
    <3> QED  BY <1>2, <1>5, <1>6, <3>3, <3>4
  <2> QED  BY <2>1, <2>2
<1>10. ASSUME NEW c \in T, NEW y \in q.chosen, Attendee[y] = Attendee[c.stream]
       PROVE  Rate[y] <= Rate[c.stream]
  <2>0. Rate[c.stream] \in Nat  BY <1>2
  <2>1. CASE y \in v.chosen /\ c # x
    <3> c \in U  BY <2>1
    <3> QED  BY <1>3, <1>10, <2>1 DEF Lowest
  <2>2. CASE y \in v.chosen /\ c = x
    <3>1. PICK d \in U : Attendee[d.stream] = Attendee[y]
      <4>1. Of(v.chosen, Attendee[y]) # {}  BY <2>2 DEF Of
      <4>2. Of(r.chosen, Attendee[y]) = {}  BY <1>1, <1>10
      <4> QED  BY <1>3, <4>1, <4>2 DEF Lowest
    <3>2. Rate[y] <= Rate[d.stream]  BY <1>3, <2>2, <3>1 DEF Lowest
    <3>3. Rate[d.stream] <= Rate[c.stream]  BY <1>1, <1>10, <2>2, <3>1
    <3>4. Rate[y] \in Nat /\ Rate[d.stream] \in Nat
      BY <1>2, <1>5, <2>2, <3>1, PolicyAssumption
    <3> QED  BY <2>0, <3>2, <3>3, <3>4
  <2>3. CASE y \notin v.chosen
    <3>1. y = i /\ Of(v.chosen, Attendee[i]) = {} /\ q.total = v.total + Rate[i]
      BY <1>4, <1>10, <2>3 DEF Subscribed
    <3>2. CASE c = x  BY <1>5, <3>1, <3>2
    <3>3. CASE c # x
      <4>1. c \in U /\ Of(v.chosen, Attendee[c.stream]) = {}  BY <1>10, <3>1, <3>3
      <4>2. v.total + Rate[c.stream] > target  BY <1>3, <4>1 DEF Lowest
      <4> QED  BY <1>5, <2>0, <3>1, <4>2
    <3> QED  BY <3>2, <3>3
  <2> QED  BY <2>1, <2>2, <2>3
<1>11. ASSUME r.delta = 0, q.delta # 0
       PROVE  \E c \in T : Of(q.chosen, Attendee[c.stream]) = {}
  <2>1. CASE v.delta = 0
    <3>1. Of(v.chosen, Attendee[i]) = {} /\ q.chosen = v.chosen  BY <1>4, <1>11, <2>1 DEF Subscribed
    <3> QED  BY <1>1, <3>1
  <2>2. CASE v.delta # 0
    <3>1. PICK c \in U : Of(v.chosen, Attendee[c.stream]) = {}  BY <1>3, <1>11, <2>2 DEF Lowest
    <3>2. v.total + Rate[c.stream] > target  BY <1>3, <3>1 DEF Lowest
    <3>3. CASE q.chosen = v.chosen  BY <3>1, <3>3
    <3>4. CASE q.chosen # v.chosen
      <4>1. q.chosen = v.chosen \cup {i} /\ q.total = v.total + Rate[i]
        BY <1>4, <3>4 DEF Subscribed
      <4>2. Attendee[c.stream] # Attendee[i]
        <5>1. Rate[c.stream] \in Nat  BY <1>2, <3>1
        <5>2. ~ (Rate[c.stream] <= Rate[i])  BY <1>5, <3>2, <4>1, <5>1
        <5> QED  BY <1>1, <3>1, <5>2
      <4>3. Of(q.chosen, Attendee[c.stream]) = {}  BY <3>1, <4>1, <4>2 DEF Of
      <4> QED  BY <3>1, <4>3
    <3> QED  BY <3>3, <3>4
  <2> QED  BY <2>1, <2>2
<1> QED  BY <1>4, <1>7, <1>8, <1>9, <1>10, <1>11 DEF Lowest, Subscribed

(* Then better qualities, while there is room. *)
SizeOf(prefs, c) == prefs[c.at].size
IsBest(prefs, C, c, y) ==
  /\ Attendee[y] = Attendee[c.stream]
  /\ \A d \in C : d.at = c.at /\ Rate[d.stream] <= SizeOf(prefs, c) => Rate[d.stream] <= Rate[y]
  /\ Rate[y] <= SizeOf(prefs, c) \/ \A d \in C : d.at = c.at => Rate[y] <= Rate[d.stream]

Better(q, low, infos, target, prefs, C, T) ==
  /\ SelectionOK(q, infos, target) /\ q.total >= low.total
  /\ \A a : Of(q.chosen, a) = {} <=> Of(low.chosen, a) = {}
  /\ \A a : (\A c \in C : Attendee[c.stream] # a) => Of(q.chosen, a) = Of(low.chosen, a)
  /\ \A c \in C : \A y \in q.chosen : Attendee[y] = Attendee[c.stream] =>
       Rate[y] <= SizeOf(prefs, c) \/ \A d \in C : d.at = c.at => Rate[y] <= Rate[d.stream]
  /\ q.delta = 0 => \A c \in T : \A y \in q.chosen :
       Attendee[y] = Attendee[c.stream] /\ Rate[c.stream] <= SizeOf(prefs, c)
         => Rate[c.stream] <= Rate[y]
  /\ low.delta # 0 => q.delta # 0
  /\ low.delta = 0 /\ q.delta # 0 => \E c \in T : \E y \in q.chosen :
       Improves(y, c.stream, SizeOf(prefs, c)) /\ q.total - Rate[y] + Rate[c.stream] > target

(* One more candidate of a priority has been tried for an upgrade. *)
LEMMA BetterStep ==
  ASSUME NEW prefs, PrefsOK(prefs), NEW infos \in SUBSET Streams, NEW p, NEW target \in Nat,
         NEW low, SelectionOK(low, infos, target),
         NEW T \in SUBSET Candidates(prefs, infos, p), T # {},
         NEW v, Better(v, low, infos, target, prefs, Candidates(prefs, infos, p),
                       T \ {LastTried(T)}),
         NEW q, q = Upgrade(v, target, infos, LastTried(T).stream, prefs[LastTried(T).at].size)
  PROVE  Better(q, low, infos, target, prefs, Candidates(prefs, infos, p), T)
<1> DEFINE C == Candidates(prefs, infos, p)
           x == LastTried(T)
           U == T \ {x}
           i == x.stream
           size == SizeOf(prefs, x)
<1>1. /\ x \in T /\ i \in infos /\ i \in Streams /\ x.at \in DOMAIN prefs
      /\ \A c \in T : Attendee[c.stream] = Attendee[i]
           => c.at = x.at /\ Rate[c.stream] <= Rate[i]
  BY LastIs
<1>2. \A c \in C : Rate[c.stream] \in Nat /\ SizeOf(prefs, c) \in Nat
  <2>1. \A c \in C : c.stream \in Streams /\ c.at \in DOMAIN prefs  BY CandidateIs
  <2> QED  BY <2>1, PolicyAssumption DEF PrefsOK, SizeOf
<1>3. q = Upgrade(v, target, infos, i, size)  BY DEF SizeOf
<1>4. \A c, d \in C : Attendee[c.stream] = Attendee[d.stream] <=> c.at = d.at  BY SameAttendee
<1> HIDE DEF x
<1>5. Better(v, low, infos, target, prefs, C, U) /\ SelectionOK(v, infos, target)
  BY DEF x, Better
<1>6. size \in Nat /\ x \in C /\ T \subseteq C  BY <1>1, <1>2
<1> HIDE DEF C, size
<1>7. SelectionOK(q, infos, target) /\ Upgraded(v, q, i, size, target)
  <2> DEFINE j == x.stream
  <2>1. q = Upgrade(v, target, infos, j, size) /\ j \in infos  BY <1>1, <1>3
  <2> HIDE DEF j
  <2>2. SelectionOK(q, infos, target) /\ Upgraded(v, q, j, size, target)
    BY <1>5, <1>6, <2>1, UpgradeOf
  <2> QED  BY <2>2 DEF j
<1>8. /\ v.total \in Nat /\ q.total \in Nat /\ low.total \in Nat /\ q.total <= target
      /\ v.chosen \in SUBSET Streams /\ \A y \in v.chosen : Rate[y] \in Nat
      /\ Rate[i] \in Nat /\ v.total >= low.total
  BY <1>1, <1>5, <1>7, PolicyAssumption DEF SelectionOK, Selections, Better, Upgraded
<1>9. CASE q.chosen = v.chosen /\ q.total = v.total /\ (v.delta # 0 => q.delta # 0)
           /\ (q = v \/ q.delta # 0)
           /\ (q # v => \E y \in v.chosen :
                 Improves(y, i, size) /\ v.total - Rate[y] + Rate[i] > target)
           /\ (q.delta = 0 => \A y \in v.chosen : ~ Improves(y, i, size))
  <2>1. ASSUME q.delta = 0, NEW c \in T, NEW y \in q.chosen, Attendee[y] = Attendee[c.stream],
               Rate[c.stream] <= SizeOf(prefs, c)
        PROVE  Rate[c.stream] <= Rate[y]
    <3>1. v.delta = 0  BY <1>9, <2>1
    <3>2. CASE c # x
      <4> c \in U  BY <3>2
      <4> QED  BY <1>5, <1>9, <2>1, <3>1 DEF Better
    <3>3. CASE c = x
      <4>1. ~ Improves(y, i, size)  BY <1>9, <2>1
      <4> QED  BY <1>8, <1>9, <2>1, <3>3, <4>1 DEF Improves, size
    <3> QED  BY <3>2, <3>3
  <2>2. ASSUME low.delta = 0, q.delta # 0
        PROVE  \E c \in T : \E y \in q.chosen :
                 /\ Improves(y, c.stream, SizeOf(prefs, c))
                 /\ q.total - Rate[y] + Rate[c.stream] > target
    <3>1. CASE q = v  BY <1>5, <2>2, <3>1 DEF Better
    <3>2. CASE q # v
      <4>1. PICK y \in v.chosen : Improves(y, i, size) /\ v.total - Rate[y] + Rate[i] > target
        BY <1>9, <3>2
      <4> QED  BY <1>1, <1>9, <4>1 DEF size
    <3> QED  BY <3>1, <3>2
  <2>3. low.delta # 0 => q.delta # 0  BY <1>5, <1>9 DEF Better
  <2> HIDE DEF U
  <2>4. /\ \A a : Of(q.chosen, a) = {} <=> Of(low.chosen, a) = {}
        /\ \A a : (\A c \in C : Attendee[c.stream] # a) => Of(q.chosen, a) = Of(low.chosen, a)
        /\ \A c \in C : \A y \in q.chosen : Attendee[y] = Attendee[c.stream] =>
             Rate[y] <= SizeOf(prefs, c) \/ \A d \in C : d.at = c.at => Rate[y] <= Rate[d.stream]
    BY <1>5, <1>9 DEF Better
  <2>5. q.total >= low.total  BY <1>8, <1>9
  <2>6. Better(q, low, infos, target, prefs, C, T)
    BY <1>7, <2>1, <2>2, <2>3, <2>4, <2>5 DEF Better
  <2> QED  BY <2>6 DEF C
<1>10. ASSUME NEW z \in v.chosen, Improves(z, i, size), q.chosen = (v.chosen \ {z}) \cup {i},
              q.total = v.total - Rate[z] + Rate[i], q.delta = v.delta
       PROVE  Better(q, low, infos, target, prefs, C, T)
  <2>0. Attendee[z] = Attendee[i] /\ Rate[z] < Rate[i] /\ Rate[i] <= size /\ Rate[z] \in Nat
    BY <1>8, <1>10 DEF Improves
  <2>1. ASSUME q.delta = 0, NEW c \in T, NEW y \in q.chosen, Attendee[y] = Attendee[c.stream],
               Rate[c.stream] <= SizeOf(prefs, c)
        PROVE  Rate[c.stream] <= Rate[y]
    <3>0. Rate[c.stream] \in Nat  BY <1>2, <1>6 DEF C
    <3>1. CASE c # x
      <4>1. c \in U  BY <3>1
      <4>2. CASE y \in v.chosen  BY <1>5, <1>10, <2>1, <4>1, <4>2 DEF Better
      <4>3. CASE y = i
        <5>1. Attendee[z] = Attendee[c.stream]  BY <2>0, <2>1, <4>3
        <5>2. Rate[c.stream] <= Rate[z]  BY <1>5, <1>10, <2>1, <4>1, <5>1 DEF Better
        <5> QED  BY <1>8, <2>0, <3>0, <4>3, <5>2
      <4> QED  BY <1>10, <4>2, <4>3
    <3>2. CASE c = x
      <4>1. i \in q.chosen /\ Attendee[y] = Attendee[i]  BY <1>10, <2>1, <3>2
      <4>2. y = i  BY <1>7, <2>1, <4>1 DEF SelectionOK, Single
      <4> QED  BY <3>0, <3>2, <4>2
    <3> QED  BY <3>1, <3>2
  <2>2. ASSUME low.delta = 0, q.delta # 0
        PROVE  \E c \in T : \E y \in q.chosen :
                 /\ Improves(y, c.stream, SizeOf(prefs, c))
                 /\ q.total - Rate[y] + Rate[c.stream] > target
    <3>1. PICK c \in U : \E y \in v.chosen :
            Improves(y, c.stream, SizeOf(prefs, c)) /\ v.total - Rate[y] + Rate[c.stream] > target
      BY <1>5, <1>10, <2>2 DEF Better
    <3>2. PICK y \in v.chosen :
            Improves(y, c.stream, SizeOf(prefs, c)) /\ v.total - Rate[y] + Rate[c.stream] > target
      BY <3>1
    <3>3. Rate[c.stream] \in Nat /\ Rate[y] \in Nat  BY <1>2, <1>6, <1>8, <3>1 DEF C
    <3>4. y # z
      <4>1. SUFFICES ASSUME y = z PROVE FALSE  OBVIOUS
      <4>2. Attendee[c.stream] = Attendee[i]  BY <2>0, <3>2, <4>1 DEF Improves
      <4>3. Rate[c.stream] <= Rate[i]  BY <1>1, <3>1, <4>2
      <4> QED  BY <1>8, <1>10, <3>2, <3>3, <4>1, <4>3
    <3>5. y \in q.chosen  BY <1>10, <3>2, <3>4
    <3>6. q.total >= v.total  BY <1>8, <1>10, <2>0
    <3>7. q.total - Rate[y] + Rate[c.stream] > target  BY <1>8, <3>2, <3>3, <3>6
    <3> QED  BY <3>1, <3>2, <3>5, <3>7
  <2>3. low.delta # 0 => q.delta # 0  BY <1>5, <1>10 DEF Better
  <2>4. ASSUME NEW a PROVE Of(q.chosen, a) = {} <=> Of(low.chosen, a) = {}
    <3>1. Of(q.chosen, a) = {} <=> Of(v.chosen, a) = {}  BY <1>10, <2>0 DEF Of
    <3> QED  BY <1>5, <3>1 DEF Better
  <2>5. ASSUME NEW a, \A c \in C : Attendee[c.stream] # a
        PROVE  Of(q.chosen, a) = Of(low.chosen, a)
    <3>1. Attendee[i] # a  BY <1>6, <2>5
    <3>2. Of(q.chosen, a) = Of(v.chosen, a)  BY <1>10, <2>0, <3>1 DEF Of
    <3> QED  BY <1>5, <2>5, <3>2 DEF Better
  <2>6. ASSUME NEW c \in C, NEW y \in q.chosen, Attendee[y] = Attendee[c.stream]
        PROVE  Rate[y] <= SizeOf(prefs, c) \/ \A d \in C : d.at = c.at => Rate[y] <= Rate[d.stream]
    <3>1. CASE y \in v.chosen  BY <1>5, <2>6, <3>1 DEF Better
    <3>2. CASE y = i
      <4>1. c.at = x.at  BY <1>4, <1>6, <2>6, <3>2 DEF C
      <4> QED  BY <2>0, <3>2, <4>1 DEF size, SizeOf
    <3> QED  BY <1>10, <3>1, <3>2
  <2>7. q.total >= low.total  BY <1>8, <1>10, <2>0
  <2> QED  BY <1>7, <2>1, <2>2, <2>3, <2>4, <2>5, <2>6, <2>7 DEF Better
<1>11. \/ /\ q.chosen = v.chosen /\ q.total = v.total /\ (v.delta # 0 => q.delta # 0)
          /\ (q = v \/ q.delta # 0)
          /\ (q # v => \E y \in v.chosen :
                Improves(y, i, size) /\ v.total - Rate[y] + Rate[i] > target)
          /\ (q.delta = 0 => \A y \in v.chosen : ~ Improves(y, i, size))
       \/ \E z \in v.chosen :
            /\ Improves(z, i, size) /\ q.chosen = (v.chosen \ {z}) \cup {i}
            /\ q.total = v.total - Rate[z] + Rate[i] /\ q.delta = v.delta
  BY <1>7 DEF Upgraded
<1> QED  BY <1>9, <1>10, <1>11 DEF C

(* What a priority has got when it has been served. *)
Served(q, r, infos, target, prefs, C) ==
  /\ SelectionOK(q, infos, target) /\ q.total >= r.total
  /\ \A a : (\A c \in C : Attendee[c.stream] # a) => Of(q.chosen, a) = Of(r.chosen, a)
  /\ \A c \in C : Of(q.chosen, Attendee[c.stream]) = {} => q.total + Rate[c.stream] > target
  /\ q.delta = 0 => \A c \in C : \E y \in q.chosen : IsBest(prefs, C, c, y)
  /\ r.delta = 0 /\ q.delta # 0 => \E c \in C : \A y \in q.chosen : ~ IsBest(prefs, C, c, y)

(* Level serves a priority of which nobody has a stream yet. *)
LEMMA LevelServes ==
  ASSUME NEW prefs, PrefsOK(prefs), NEW infos \in SUBSET Streams, NEW p, NEW target \in Nat,
         NEW r, SelectionOK(r, infos, target),
         \A c \in Candidates(prefs, infos, p) : Of(r.chosen, Attendee[c.stream]) = {}
  PROVE  Served(Level(r, target, prefs, infos, p), r, infos, target, prefs,
                Candidates(prefs, infos, p))
<1> DEFINE C == Candidates(prefs, infos, p)
           c0 == [target |-> target, prefs |-> prefs, infos |-> infos]
           low == Fold(1, c0, r, C)
           q == Fold(2, c0, low, C)
<1>1. Level(r, target, prefs, infos, p) = q
  BY DEF Level, Fold, MapThenFoldSet, Step, LastOf
<1>2. IsFiniteSet(C) /\ HasLast(1, C) /\ HasLast(2, C)  BY HasLasts
<1>3. PICK g : Iterates(g, 1, c0, r, C) /\ low = g[C]
  <2> HIDE DEF C, c0
  <2> QED  BY <1>2, FoldIterates
<1>4. PICK h : Iterates(h, 2, c0, low, C) /\ q = h[C]
  <2> HIDE DEF C, c0, low
  <2> QED  BY <1>2, FoldIterates
<1>5. Lowest(low, r, infos, target, C)
  <2> DEFINE P == {T \in SUBSET C : Lowest(g[T], r, infos, target, T)}
  <2>1. {} \in P
    <3>1. g[{}] = r  BY <1>3, Iteration
    <3>2. r.total \in Nat  BY DEF SelectionOK, Selections
    <3>3. Lowest(r, r, infos, target, {})  BY <3>2 DEF Lowest
    <3> QED  BY <3>1, <3>3
  <2>2. ASSUME NEW T \in SUBSET C, T # {}, \A x \in T : T \ {x} \in P PROVE T \in P
    <3> DEFINE l == LastTried(T)
               v == g[T \ {l}]
               w == g[T]
    <3>1. LastOf(1, T) = l  BY DEF LastOf
    <3>2. l \in T  BY <2>2, LastTriedIs
    <3>3. T \ {l} \in P  BY <2>2, <3>2
    <3>4. Lowest(v, r, infos, target, T \ {l})  BY <3>3
    <3>5. w = Step(1, c0, v, l)
      <4>1. w = Step(1, c0, g[T \ {LastOf(1, T)}], LastOf(1, T))
        <5>1. \A U \in SUBSET C :
                U # {} => g[U] = Step(1, c0, g[U \ {LastOf(1, U)}], LastOf(1, U))
          <6> HIDE DEF c0, C
          <6> QED  BY <1>3, Iteration
        <5> HIDE DEF c0, C
        <5> QED  BY <2>2, <5>1
      <4> QED  BY <3>1, <4>1
    <3>6. w = Subscribe(v, target, l.stream)
      <4> HIDE DEF l, v, w
      <4> QED  BY <3>5 DEF Step
    <3> HIDE DEF v, w
    <3>7. Lowest(w, r, infos, target, T)  BY <2>2, <3>4, <3>6, LowestStep
    <3> QED  BY <3>7 DEF w
  <2> HIDE DEF P
  <2>3. C \in P  BY <1>2, <2>1, <2>2, SetInduction
  <2> QED  BY <1>3, <2>3 DEF P
<1>6. SelectionOK(low, infos, target)  BY <1>5 DEF Lowest
<1> HIDE DEF low
<1>7. Better(q, low, infos, target, prefs, C, C)
  <2> DEFINE P == {T \in SUBSET C : Better(h[T], low, infos, target, prefs, C, T)}
  <2>1. {} \in P
    <3>1. h[{}] = low  BY <1>4, Iteration
    <3>2. low.total \in Nat  BY <1>6 DEF SelectionOK, Selections
    <3>3. ASSUME NEW c \in C, NEW y \in low.chosen, Attendee[y] = Attendee[c.stream],
                 NEW d \in C, d.at = c.at
          PROVE  Rate[y] <= Rate[d.stream]
      <4>1. Attendee[d.stream] = Attendee[c.stream]  BY <3>3, SameAttendee
      <4> HIDE DEF C
      <4> QED  BY <1>5, <3>3, <4>1 DEF Lowest
    <3> HIDE DEF C
    <3>4. Better(low, low, infos, target, prefs, C, {})  BY <1>6, <3>2, <3>3 DEF Better
    <3> QED  BY <3>1, <3>4
  <2>2. ASSUME NEW T \in SUBSET C, T # {}, \A x \in T : T \ {x} \in P PROVE T \in P
    <3> DEFINE l == LastTried(T)
               v == h[T \ {l}]
               w == h[T]
    <3>1. LastOf(2, T) = l  BY DEF LastOf
    <3>2. l \in T  BY <2>2, LastTriedIs
    <3>3. T \ {l} \in P  BY <2>2, <3>2
    <3>4. Better(v, low, infos, target, prefs, C, T \ {l})  BY <3>3
    <3>5. w = Step(2, c0, v, l)
      <4>1. w = Step(2, c0, h[T \ {LastOf(2, T)}], LastOf(2, T))
        <5>1. \A U \in SUBSET C :
                U # {} => h[U] = Step(2, c0, h[U \ {LastOf(2, U)}], LastOf(2, U))
          <6> HIDE DEF c0, C
          <6> QED  BY <1>4, Iteration
        <5> HIDE DEF c0, C
        <5> QED  BY <2>2, <5>1
      <4> QED  BY <3>1, <4>1
    <3>6. w = Upgrade(v, target, infos, l.stream, prefs[l.at].size)
      <4> HIDE DEF l, v, w
      <4> QED  BY <3>5 DEF Step
    <3> HIDE DEF v, w
    <3>7. Better(w, low, infos, target, prefs, C, T)  BY <1>6, <2>2, <3>4, <3>6, BetterStep
    <3> QED  BY <3>7 DEF w
  <2> HIDE DEF P
  <2>3. C \in P  BY <1>2, <2>1, <2>2, SetInduction
  <2> QED  BY <1>4, <2>3 DEF P
<1>8. \A c \in C : Rate[c.stream] \in Nat /\ SizeOf(prefs, c) \in Nat
  <2>1. \A c \in C : c.stream \in Streams /\ c.at \in DOMAIN prefs  BY CandidateIs
  <2> QED  BY <2>1, PolicyAssumption DEF PrefsOK, SizeOf
<1>9. \A c, d \in C : Attendee[c.stream] = Attendee[d.stream] <=> c.at = d.at  BY SameAttendee
<1> HIDE DEF q, C
<1>10. /\ q.total \in Nat /\ low.total \in Nat /\ r.total \in Nat /\ Single(q.chosen)
       /\ \A y \in q.chosen : Rate[y] \in Nat
  BY <1>5, <1>6, <1>7, PolicyAssumption DEF SelectionOK, Selections, Better
<1>11. q.total >= r.total
  <2>1. q.total >= low.total /\ low.total >= r.total  BY <1>5, <1>7 DEF Lowest, Better
  <2> QED  BY <1>10, <2>1
<1>12. ASSUME NEW a, \A c \in C : Attendee[c.stream] # a PROVE Of(q.chosen, a) = Of(r.chosen, a)
  <2>1. Of(q.chosen, a) = Of(low.chosen, a)  BY <1>7, <1>12 DEF Better
  <2>2. Of(low.chosen, a) = Of(r.chosen, a)  BY <1>5, <1>12 DEF Lowest
  <2> QED  BY <2>1, <2>2
<1>13. ASSUME NEW c \in C, Of(q.chosen, Attendee[c.stream]) = {}
       PROVE  q.total + Rate[c.stream] > target
  <2>1. Of(low.chosen, Attendee[c.stream]) = {}  BY <1>7, <1>13 DEF Better
  <2>2. low.total + Rate[c.stream] > target  BY <1>5, <2>1 DEF Lowest
  <2>3. q.total >= low.total  BY <1>7 DEF Better
  <2> QED  BY <1>8, <1>10, <2>2, <2>3
<1>14. ASSUME q.delta = 0, NEW c \in C PROVE \E y \in q.chosen : IsBest(prefs, C, c, y)
  <2>1. low.delta = 0  BY <1>7, <1>14 DEF Better
  <2>2. Of(low.chosen, Attendee[c.stream]) # {}  BY <1>5, <2>1 DEF Lowest
  <2>3. Of(q.chosen, Attendee[c.stream]) # {}  BY <1>7, <2>2 DEF Better
  <2>4. PICK y \in q.chosen : Attendee[y] = Attendee[c.stream]  BY <2>3 DEF Of
  <2>5. Rate[y] <= SizeOf(prefs, c) \/ \A d \in C : d.at = c.at => Rate[y] <= Rate[d.stream]
    BY <1>7, <2>4 DEF Better
  <2>6. ASSUME NEW d \in C, d.at = c.at, Rate[d.stream] <= SizeOf(prefs, c)
        PROVE  Rate[d.stream] <= Rate[y]
    <3>1. Attendee[y] = Attendee[d.stream]  BY <1>9, <2>4, <2>6
    <3>2. SizeOf(prefs, d) = SizeOf(prefs, c)  BY <2>6 DEF SizeOf
    <3> QED  BY <1>7, <1>14, <2>6, <3>1, <3>2 DEF Better
  <2>7. IsBest(prefs, C, c, y)  BY <2>4, <2>5, <2>6 DEF IsBest
  <2> QED  BY <2>7
<1>15. ASSUME r.delta = 0, q.delta # 0
       PROVE  \E c \in C : \A y \in q.chosen : ~ IsBest(prefs, C, c, y)
  <2>1. CASE low.delta # 0
    <3>1. PICK c \in C : Of(low.chosen, Attendee[c.stream]) = {}  BY <1>5, <1>15, <2>1 DEF Lowest
    <3>2. Of(q.chosen, Attendee[c.stream]) = {}  BY <1>7, <3>1 DEF Better
    <3>3. \A y \in q.chosen : ~ IsBest(prefs, C, c, y)  BY <3>2 DEF Of, IsBest
    <3> QED  BY <3>3
  <2>2. CASE low.delta = 0
    <3>1. PICK c \in C : \E y \in q.chosen : Improves(y, c.stream, SizeOf(prefs, c))
      BY <1>7, <1>15, <2>2 DEF Better
    <3>2. PICK y \in q.chosen : Improves(y, c.stream, SizeOf(prefs, c))  BY <3>1
    <3>3. ASSUME NEW z \in q.chosen, IsBest(prefs, C, c, z) PROVE FALSE
      <4>1. Attendee[z] = Attendee[c.stream] /\ Attendee[y] = Attendee[c.stream]
        BY <3>2, <3>3 DEF IsBest, Improves
      <4>2. z = y  BY <1>10, <4>1 DEF Single
      <4>3. Rate[c.stream] <= Rate[z]  BY <3>2, <3>3 DEF IsBest, Improves
      <4> QED  BY <1>8, <1>10, <3>2, <4>2, <4>3 DEF Improves
    <3> QED  BY <3>3
  <2> QED  BY <2>1, <2>2
<1>16. SelectionOK(q, infos, target)  BY <1>7 DEF Better
<1> QED  BY <1>1, <1>11, <1>12, <1>13, <1>14, <1>15, <1>16 DEF Served, C

-----------------------------------------------------------------------------
(* All priorities. *)

(* An attendee has one priority. *)
LEMMA OnePriority ==
  ASSUME NEW prefs, PrefsOK(prefs), NEW infos, NEW p, NEW p2,
         NEW c \in Candidates(prefs, infos, p), NEW d \in Candidates(prefs, infos, p2),
         Attendee[c.stream] = Attendee[d.stream]
  PROVE  p = p2
<1>1. /\ c.at \in DOMAIN prefs /\ prefs[c.at].attendee = Attendee[c.stream]
      /\ prefs[c.at].priority = p
  BY CandidateIs
<1>2. /\ d.at \in DOMAIN prefs /\ prefs[d.at].attendee = Attendee[d.stream]
      /\ prefs[d.at].priority = p2
  BY CandidateIs
<1>3. c.at = d.at  BY <1>1, <1>2 DEF PrefsOK
<1> QED  BY <1>1, <1>2, <1>3

(* Of the priorities of T, nobody is left out for whom there was room. *)
ServedAll(q, first, infos, target, prefs, T) ==
  /\ SelectionOK(q, infos, target) /\ q.total >= first.total
  /\ \A a : (\A p \in T : \A c \in Candidates(prefs, infos, p) : Attendee[c.stream] # a)
       => Of(q.chosen, a) = Of(first.chosen, a)
  /\ \A p \in T : \A c \in Candidates(prefs, infos, p) :
       Of(q.chosen, Attendee[c.stream]) = {} => q.total + Rate[c.stream] > target

(* One more priority has been served. *)
LEMMA ServedStep ==
  ASSUME NEW prefs, PrefsOK(prefs), NEW infos \in SUBSET Streams, NEW target \in Nat,
         NEW first, SelectionOK(first, infos, target), NEW T, NEW p \in T,
         \A c \in Candidates(prefs, infos, p) : Of(first.chosen, Attendee[c.stream]) = {},
         NEW v, ServedAll(v, first, infos, target, prefs, T \ {p}),
         NEW q, q = Level(v, target, prefs, infos, p)
  PROVE  ServedAll(q, first, infos, target, prefs, T)
<1> DEFINE C == Candidates(prefs, infos, p)
<1>1. SelectionOK(v, infos, target)  BY DEF ServedAll
<1>2. ASSUME NEW c \in C PROVE Of(v.chosen, Attendee[c.stream]) = {}
  <2>1. \A p2 \in T \ {p} : \A d \in Candidates(prefs, infos, p2) :
          Attendee[d.stream] # Attendee[c.stream]
    BY OnePriority
  <2>2. Of(v.chosen, Attendee[c.stream]) = Of(first.chosen, Attendee[c.stream])
    <3> HIDE DEF C
    <3> QED  BY <2>1 DEF ServedAll
  <2> QED  BY <2>2
<1>3. Served(q, v, infos, target, prefs, C)  BY <1>1, <1>2, LevelServes
<1>4. q.total \in Nat /\ v.total \in Nat /\ first.total \in Nat
  BY <1>1, <1>3 DEF Served, SelectionOK, Selections
<1>5. q.total >= v.total /\ v.total >= first.total  BY <1>3 DEF Served, ServedAll
<1>6. q.total >= first.total  BY <1>4, <1>5
<1>7. ASSUME NEW a, \A p2 \in T : \A c \in Candidates(prefs, infos, p2) : Attendee[c.stream] # a
      PROVE  Of(q.chosen, a) = Of(first.chosen, a)
  <2>1. Of(q.chosen, a) = Of(v.chosen, a)  BY <1>3, <1>7 DEF Served
  <2>2. Of(v.chosen, a) = Of(first.chosen, a)  BY <1>7 DEF ServedAll
  <2> QED  BY <2>1, <2>2
<1>8. ASSUME NEW p2 \in T, NEW c \in Candidates(prefs, infos, p2),
             Of(q.chosen, Attendee[c.stream]) = {}
      PROVE  q.total + Rate[c.stream] > target
  <2>1. CASE p2 = p  BY <1>3, <1>8, <2>1 DEF Served
  <2>2. CASE p2 # p
    <3>1. \A d \in C : Attendee[d.stream] # Attendee[c.stream]  BY <2>2, OnePriority
    <3>2. Of(v.chosen, Attendee[c.stream]) = {}  BY <1>3, <1>8, <3>1 DEF Served
    <3>3. v.total + Rate[c.stream] > target  BY <2>2, <3>2 DEF ServedAll
    <3>4. Rate[c.stream] \in Nat  BY CandidateIs, PolicyAssumption
    <3> QED  BY <1>4, <1>5, <3>3, <3>4
  <2> QED  BY <2>1, <2>2
<1>9. SelectionOK(q, infos, target)  BY <1>3 DEF Served
<1> HIDE DEF C
<1> QED  BY <1>6, <1>7, <1>8, <1>9 DEF ServedAll

(* The choice of priorityPolicy: nobody is left out for whom there was room,   *)
(* unless the highest priority lacks something, and then nobody else is served. *)
Lacks(q, prefs, infos, p) ==
  \E c \in Candidates(prefs, infos, p) :
    \A y \in q.chosen : ~ IsBest(prefs, Candidates(prefs, infos, p), c, y)
Fair(q, infos, target, prefs) ==
  LET highest == Min(PrioritiesOf(prefs)) IN
  \A p \in PrioritiesOf(prefs) : \A c \in Candidates(prefs, infos, p) :
    /\ Of(q.chosen, Attendee[c.stream]) = {} =>
         \/ q.total + Rate[c.stream] > target
         \/ p # highest /\ Lacks(q, prefs, infos, highest)
    /\ Of(q.chosen, Attendee[c.stream]) # {} => p = highest \/ ~ Lacks(q, prefs, infos, highest)

(* The policy keeps within the rate, chooses what is there, and is fair. *)
LEMMA PolicyIsFair ==
  ASSUME NEW prefs, PrefsOK(prefs), NEW infos \in SUBSET Streams, NEW target \in Nat,
         NEW kept \in SUBSET Streams, Single(kept), \A y \in kept : Attendee[y] \notin From(infos),
         NEW q, q = priorityPolicy(target, prefs, infos, kept)
  PROVE  /\ SelectionOK(q, infos, target) /\ q.chosen \subseteq infos \cup kept
         /\ Fair(q, infos, target, prefs)
<1> DEFINE base == Chosen(kept)
           Cand(p) == Candidates(prefs, infos, p)
           highest == Min(PrioritiesOf(prefs))
           first == Level(base, target, prefs, infos, highest)
           S == PrioritiesOf(prefs) \ {highest}
           c0 == [target |-> target, prefs |-> prefs, infos |-> infos]
           Kept(r) == \A a : (\A p : \A c \in Cand(p) : Attendee[c.stream] # a)
                        => Of(r.chosen, a) = Of(kept, a)
<1>1. SelectionOK(base, infos, target) /\ base.chosen = kept /\ base.delta = 0
  <2>1. kept \cap infos = {}  BY DEF From
  <2>2. base \in Selections  BY DEF Chosen, Selections
  <2>3. base.chosen = kept /\ base.delta = 0 /\ base.total = 0  BY DEF Chosen
  <2> HIDE DEF base
  <2> QED  BY <2>1, <2>2, <2>3, SumFacts DEF SelectionOK
<1>2. \A p : \A c \in Cand(p) :
        Attendee[c.stream] \in From(infos) /\ Of(kept, Attendee[c.stream]) = {}
  <2>1. \A p : \A c \in Cand(p) : c.stream \in infos  BY CandidateIs
  <2> QED  BY <2>1 DEF From, Of
<1>3. ASSUME NEW r, SelectionOK(r, infos, target), Kept(r) PROVE r.chosen \subseteq infos \cup kept
  <2>1. ASSUME NEW y \in r.chosen, y \notin infos PROVE y \in kept
    <3>1. Attendee[y] \notin From(infos)  BY <1>3, <2>1 DEF SelectionOK
    <3>2. Of(r.chosen, Attendee[y]) = Of(kept, Attendee[y])  BY <1>2, <1>3, <3>1
    <3> QED  BY <3>2 DEF Of
  <2> QED  BY <2>1
<1>4. CASE prefs = <<>>
  <2>1. q = base  BY <1>4 DEF priorityPolicy
  <2>2. PrioritiesOf(prefs) = {}  BY <1>4 DEF PrioritiesOf
  <2> QED  BY <1>1, <2>1, <2>2 DEF Fair
<1>5. CASE prefs # <<>>
  <2>1. /\ PrioritiesOf(prefs) # {} /\ PrioritiesOf(prefs) \subseteq Nat
        /\ IsFiniteSet(PrioritiesOf(prefs))
    <3>1. PICK n \in Nat : DOMAIN prefs = 1..n /\ prefs = [i \in 1..n |-> prefs[i]]
      BY DEF PrefsOK
    <3>2. n # 0
      <4>1. SUFFICES ASSUME n = 0 PROVE FALSE  OBVIOUS
      <4>2. 1..n = {}  BY <4>1
      <4>3. prefs = <<>>  BY <3>1, <4>2
      <4> QED  BY <1>5, <4>3
    <3>3. 1 \in DOMAIN prefs  BY <3>1, <3>2
    <3> DEFINE f == [i \in 1..n |-> prefs[i].priority]
    <3>4. PrioritiesOf(prefs) \subseteq Nat  BY DEF PrefsOK, PrioritiesOf
    <3>5. f \in Surjection(1..n, PrioritiesOf(prefs))
      <4>1. f \in [1..n -> PrioritiesOf(prefs)]  BY <3>1 DEF PrioritiesOf
      <4>2. \A p \in PrioritiesOf(prefs) : \E i \in 1..n : f[i] = p  BY <3>1 DEF PrioritiesOf
      <4> QED  BY <4>1, <4>2 DEF Surjection
    <3>6. IsFiniteSet(1..n)  BY FS_Interval
    <3> HIDE DEF f
    <3>7. IsFiniteSet(PrioritiesOf(prefs))  BY <3>5, <3>6, FS_Surjection
    <3> QED  BY <3>3, <3>4, <3>7 DEF PrioritiesOf
  <2>2. highest \in PrioritiesOf(prefs)  BY <2>1, Extremes
  <2> HIDE DEF highest, base
  <2>3. Served(first, base, infos, target, prefs, Cand(highest))
    <3>1. \A c \in Candidates(prefs, infos, highest) : Of(base.chosen, Attendee[c.stream]) = {}
      BY <1>1, <1>2
    <3> QED  BY <1>1, <3>1, LevelServes
  <2>4. SelectionOK(first, infos, target) /\ Kept(first)
    BY <1>1, <2>3 DEF Served
  <2>5. \A p \in S : \A c \in Cand(p) : Of(first.chosen, Attendee[c.stream]) = {}
    <3>1. ASSUME NEW p \in S, NEW c \in Cand(p) PROVE Of(first.chosen, Attendee[c.stream]) = {}
      <4>1. \A d \in Cand(highest) : Attendee[d.stream] # Attendee[c.stream]  BY OnePriority
      <4>2. Of(first.chosen, Attendee[c.stream]) = Of(kept, Attendee[c.stream])
        <5> HIDE DEF Cand, first
        <5> QED  BY <1>1, <2>3, <4>1 DEF Served
      <4> QED  BY <1>2, <4>2
    <3> QED  BY <3>1
  <2>6. /\ first.delta # 0 => Lacks(first, prefs, infos, highest)
        /\ first.delta = 0 => ~ Lacks(first, prefs, infos, highest)
        /\ \A c \in Cand(highest) :
             Of(first.chosen, Attendee[c.stream]) = {} => first.total + Rate[c.stream] > target
    <3> HIDE DEF first
    <3> QED  BY <1>1, <2>3 DEF Served, Lacks
  <2>7. CASE first.delta # 0
    <3>1. q = first  BY <1>5, <2>7 DEF priorityPolicy, base, highest
    <3> HIDE DEF first
    <3>2. q.chosen \subseteq infos \cup kept  BY <1>3, <2>4, <3>1
    <3>3. Fair(q, infos, target, prefs)
      <4>1. ASSUME NEW p \in PrioritiesOf(prefs), NEW c \in Cand(p)
            PROVE  /\ Of(q.chosen, Attendee[c.stream]) = {} =>
                        \/ q.total + Rate[c.stream] > target
                        \/ p # highest /\ Lacks(q, prefs, infos, highest)
                   /\ Of(q.chosen, Attendee[c.stream]) # {} =>
                        p = highest \/ ~ Lacks(q, prefs, infos, highest)
        <5>1. CASE p = highest  BY <2>6, <3>1, <5>1
        <5>2. CASE p # highest  BY <2>5, <2>6, <2>7, <3>1, <5>2
        <5> QED  BY <5>1, <5>2
      <4> QED  BY <4>1 DEF Fair, highest
    <3> QED  BY <2>4, <3>1, <3>2, <3>3
  <2>8. CASE first.delta = 0
    <3> HIDE DEF first
    <3>1. q = Fold(3, c0, first, S)
      BY <1>5, <2>8 DEF priorityPolicy, first, base, highest, Fold, MapThenFoldSet, Step, LastOf
    <3>2. IsFiniteSet(S) /\ S \subseteq Nat /\ HasLast(3, S)
      <4>1. S \in SUBSET PrioritiesOf(prefs) /\ S \in SUBSET Nat  BY <2>1
      <4>2. IsFiniteSet(S)  BY <2>1, <4>1, FS_Subset
      <4> QED  BY <4>1, <4>2, HasLasts
    <3>3. PICK g : Iterates(g, 3, c0, first, S) /\ q = g[S]
      <4> HIDE DEF c0, S
      <4> QED  BY <3>1, <3>2, FoldIterates
    <3>4. ServedAll(q, first, infos, target, prefs, S)
      <4> DEFINE P == {T \in SUBSET S : ServedAll(g[T], first, infos, target, prefs, T)}
      <4>1. {} \in P
        <5>1. g[{}] = first
          <6> HIDE DEF c0, S
          <6> QED  BY <3>3, Iteration
        <5>2. first.total \in Nat  BY <2>4 DEF SelectionOK, Selections
        <5>3. ServedAll(first, first, infos, target, prefs, {})  BY <2>4, <5>2 DEF ServedAll
        <5> QED  BY <5>1, <5>3
      <4>2. ASSUME NEW T \in SUBSET S, T # {}, \A p \in T : T \ {p} \in P PROVE T \in P
        <5> DEFINE l == Max(T)
                   v == g[T \ {l}]
                   w == g[T]
        <5>1. LastOf(3, T) = l  BY DEF LastOf
        <5>2. l \in T
          <6>1. IsFiniteSet(T) /\ T \subseteq Nat  BY <3>2, FS_Subset
          <6> QED  BY <4>2, <6>1, Extremes
        <5>3. ServedAll(v, first, infos, target, prefs, T \ {l})  BY <4>2, <5>2
        <5>4. w = Step(3, c0, v, l)
          <6>1. \A U \in SUBSET S :
                  U # {} => g[U] = Step(3, c0, g[U \ {LastOf(3, U)}], LastOf(3, U))
            <7> HIDE DEF c0, S
            <7> QED  BY <3>3, Iteration
          <6> HIDE DEF c0, S
          <6> QED  BY <4>2, <5>1, <6>1
        <5>5. w = Level(v, target, prefs, infos, l)
          <6> HIDE DEF l, v, w
          <6> QED  BY <5>4 DEF Step
        <5>6. \A c \in Candidates(prefs, infos, l) : Of(first.chosen, Attendee[c.stream]) = {}
          BY <2>5, <5>2
        <5> HIDE DEF v, w, l
        <5>7. ServedAll(w, first, infos, target, prefs, T)
          BY <2>4, <5>2, <5>3, <5>5, <5>6, ServedStep
        <5> QED  BY <5>7 DEF w
      <4> HIDE DEF P, S
      <4>3. S \in P  BY <3>2, <4>1, <4>2, SetInduction
      <4> QED  BY <3>3, <4>3 DEF P
    <3>5. ASSUME NEW c \in Cand(highest)
          PROVE  Of(q.chosen, Attendee[c.stream]) = Of(first.chosen, Attendee[c.stream])
      <4>1. \A p \in S : \A d \in Candidates(prefs, infos, p) :
              Attendee[d.stream] # Attendee[c.stream]
        BY OnePriority
      <4> HIDE DEF S, Cand
      <4> QED  BY <3>4, <4>1 DEF ServedAll
    <3>6. ~ Lacks(q, prefs, infos, highest)
      <4>1. ASSUME NEW c \in Cand(highest)
            PROVE  \E y \in q.chosen : IsBest(prefs, Cand(highest), c, y)
        <5>1. PICK y \in first.chosen : IsBest(prefs, Cand(highest), c, y)  BY <2>6, <2>8 DEF Lacks
        <5>2. Attendee[y] = Attendee[c.stream]  BY <5>1 DEF IsBest
        <5>3. y \in q.chosen  BY <3>5, <5>2 DEF Of
        <5> QED  BY <5>1, <5>3
      <4> QED  BY <4>1 DEF Lacks
    <3>7. Kept(q)
      <4> HIDE DEF S
      <4> QED  BY <2>4, <3>4 DEF ServedAll
    <3>8. SelectionOK(q, infos, target)  BY <3>4 DEF ServedAll
    <3>9. q.chosen \subseteq infos \cup kept  BY <1>3, <3>7, <3>8
    <3>10. Fair(q, infos, target, prefs)
      <4>1. ASSUME NEW p \in PrioritiesOf(prefs), NEW c \in Cand(p),
                   Of(q.chosen, Attendee[c.stream]) = {}
            PROVE  q.total + Rate[c.stream] > target
        <5>1. CASE p = highest
          <6>1. first.total + Rate[c.stream] > target  BY <2>6, <3>5, <4>1, <5>1
          <6>2. q.total >= first.total /\ q.total \in Nat /\ first.total \in Nat
            BY <2>4, <3>4 DEF ServedAll, SelectionOK, Selections
          <6>3. Rate[c.stream] \in Nat  BY CandidateIs, PolicyAssumption
          <6> QED  BY <6>1, <6>2, <6>3
        <5>2. CASE p # highest
          <6> p \in S  BY <5>2
          <6> HIDE DEF S
          <6> QED  BY <3>4, <4>1 DEF ServedAll
        <5> QED  BY <5>1, <5>2
      <4> QED  BY <3>6, <4>1 DEF Fair, highest
    <3> QED  BY <3>8, <3>9, <3>10
  <2> QED  BY <2>7, <2>8
<1> QED  BY <1>4, <1>5

-----------------------------------------------------------------------------
(* The best selection, for the preferences of the application and the default *)
(* ones.                                                                     *)

(* Every attendee of an index frame has a default preference, and one only.   *)
LEMMA DefaultPreferences ==
  ASSUME NEW S \in SUBSET Streams, NEW prefs, prefs = updateDefaultVideoPreferences(S)
  PROVE  PrefsOK(prefs) /\ {prefs[i].attendee : i \in DOMAIN prefs} = From(S)
<1> DEFINE F == From(S)
           n == Cardinality(F)
           q == SetToSeq(F)
           size == IF n > 8 THEN 3 ELSE IF n > 4 THEN 6 ELSE 12
           f == [x \in S |-> Attendee[x]]
<1>1. IsFiniteSet(F)
  <2>1. IsFiniteSet(S)  BY PolicyAssumption, FS_Subset
  <2>2. f \in [S -> F] /\ \A a \in F : \E x \in S : f[x] = a  BY DEF From
  <2>3. f \in Surjection(S, F)  BY <2>2 DEF Surjection
  <2> HIDE DEF f, F
  <2> QED  BY <2>1, <2>3, FS_Surjection
<1>2. n \in Nat /\ \E h : h \in Bijection(1..n, F)
  BY <1>1, FS_CardinalityType DEF ExistsBijection
<1>3. q \in [1..n -> F] /\ IsInjective(q)
  <2>1. \E h : h \in [1..n -> F] /\ IsInjective(h)  BY <1>2 DEF Bijection, Injection
  <2> QED  BY <2>1 DEF SetToSeq
<1>4. q \in Injection(1..n, F)  BY <1>3 DEF Injection
<1>5. q \in Surjection(1..n, F)
  <2>1. IsFiniteSet(1..n) /\ Cardinality(1..n) = n
    BY <1>2, FS_Interval
  <2>2. Cardinality(1..n) = Cardinality(F)  BY <2>1
  <2> HIDE DEF q, F, n
  <2> QED  BY <1>1, <1>4, <2>2, FS_Injection
<1>6. prefs = [i \in 1..n |-> [attendee |-> q[i], priority |-> 1, size |-> size]]
  BY DEF updateDefaultVideoPreferences
<1>7. size \in Nat  OBVIOUS
<1> HIDE DEF size, q, n, F
<1>8. DOMAIN prefs = 1..n /\ prefs = [i \in 1..n |-> prefs[i]]  BY <1>6
<1>9. \A i \in DOMAIN prefs :
        prefs[i].attendee = q[i] /\ prefs[i].priority = 1 /\ prefs[i].size = size
  BY <1>6
<1>10. \A i, j \in DOMAIN prefs : prefs[i].attendee = prefs[j].attendee => i = j
  <2>1. DOMAIN q = 1..n  BY <1>3
  <2> QED  BY <1>3, <1>8, <1>9, <2>1 DEF IsInjective
<1>11. {prefs[i].attendee : i \in DOMAIN prefs} = F
  <2>1. \A i \in DOMAIN prefs : prefs[i].attendee \in F  BY <1>3, <1>8, <1>9
  <2>2. \A a \in F : \E i \in DOMAIN prefs : prefs[i].attendee = a
    <3>1. \A a \in F : \E i \in 1..n : q[i] = a  BY <1>5 DEF Surjection
    <3> QED  BY <1>8, <1>9, <3>1
  <2> QED  BY <2>1, <2>2
<1>12. PrefsOK(prefs)  BY <1>2, <1>7, <1>8, <1>9, <1>10 DEF PrefsOK
<1> QED  BY <1>11, <1>12 DEF F

(* The preferences the policy goes by. *)
LEMMA CurrentPreferences ==
  ASSUME NEW s, s.preferences \in Preferences \cup {NoPreferences}, s.index \in SUBSET Streams,
         NEW prefs, prefs = getCurrentVideoPreferences(s)
  PROVE  /\ PrefsOK(prefs)
         /\ s.preferences = NoPreferences =>
              {prefs[i].attendee : i \in DOMAIN prefs} = From(s.index)
         /\ s.preferences # NoPreferences => prefs = s.preferences
<1>1. CASE s.preferences = NoPreferences
  <2> DEFINE S == s.index
  <2>1. prefs = updateDefaultVideoPreferences(S)  BY <1>1 DEF getCurrentVideoPreferences
  <2> HIDE DEF S
  <2>2. S \in SUBSET Streams  BY DEF S
  <2>3. PrefsOK(prefs) /\ {prefs[i].attendee : i \in DOMAIN prefs} = From(S)
    BY <2>1, <2>2, DefaultPreferences
  <2> QED  BY <1>1, <2>3 DEF S
<1>2. CASE s.preferences # NoPreferences
  <2>1. prefs = s.preferences /\ prefs \in Preferences
    BY <1>2 DEF getCurrentVideoPreferences
  <2>2. Len(prefs) \in Nat /\ prefs = [i \in 1..Len(prefs) |-> prefs[i]]
    BY <2>1, PreferredOnce
  <2>3. DOMAIN prefs = 1..Len(prefs)  BY <2>2
  <2>4. PrefsOK(prefs)  BY <2>1, <2>2, <2>3, PreferredOnce DEF PrefsOK
  <2> QED  BY <1>2, <2>1, <2>4
<1> QED  BY <1>1, <1>2

(* Among some streams there is one of the least bitrate, and one of the        *)
(* greatest.                                                                 *)
LEMMA RateExtremes ==
  ASSUME NEW S \in SUBSET Streams, S # {}
  PROVE  /\ \E x \in S : \A y \in S : Rate[x] <= Rate[y]
         /\ \E x \in S : \A y \in S : Rate[y] <= Rate[x]
<1> DEFINE P == {T \in SUBSET S : T # {} => /\ \E x \in T : \A y \in T : Rate[y] <= Rate[x]
                                            /\ \E x \in T : \A y \in T : Rate[x] <= Rate[y]}
<1>0. \A x \in S : Rate[x] \in Nat  BY PolicyAssumption
<1>1. {} \in P  OBVIOUS
<1>2. ASSUME NEW T \in SUBSET S, T # {}, \A x \in T : T \ {x} \in P PROVE T \in P
  <2>0. PICK x \in T : TRUE  BY <1>2
  <2>1. CASE T = {x}  BY <1>0, <2>1
  <2>2. CASE T # {x}
    <3>1. PICK a \in T \ {x} : \A y \in T \ {x} : Rate[y] <= Rate[a]  BY <1>2, <2>2
    <3>2. PICK b \in T \ {x} : \A y \in T \ {x} : Rate[b] <= Rate[y]  BY <1>2, <2>2
    <3>3. \A y \in T : Rate[y] \in Nat  BY <1>0
    <3>4. \E z \in T : \A y \in T : Rate[y] <= Rate[z]
      <4>1. CASE Rate[a] <= Rate[x]  BY <3>1, <3>3, <4>1
      <4>2. CASE ~ (Rate[a] <= Rate[x])  BY <3>1, <3>3, <4>2
      <4> QED  BY <4>1, <4>2
    <3>5. \E z \in T : \A y \in T : Rate[z] <= Rate[y]
      <4>1. CASE Rate[x] <= Rate[b]  BY <3>2, <3>3, <4>1
      <4>2. CASE ~ (Rate[x] <= Rate[b])  BY <3>2, <3>3, <4>2
      <4> QED  BY <4>1, <4>2
    <3> QED  BY <3>4, <3>5
  <2> QED  BY <2>1, <2>2
<1>3. IsFiniteSet(S)  BY PolicyAssumption, FS_Subset
<1>4. S \in P
  <2> HIDE DEF P
  <2> QED  BY <1>1, <1>2, <1>3, SetInduction
<1> QED  BY <1>4

(* Best is the one stream that IsBest is about. *)
BestOf(O, size, y) ==
  /\ \A x \in O : Rate[x] <= size => Rate[x] <= Rate[y]
  /\ Rate[y] <= size \/ \A x \in O : Rate[y] <= Rate[x]

(* Best is chosen from an attendee's streams, and is as its definition says. *)
LEMMA BestIs ==
  ASSUME Available \in SUBSET Streams, NEW a \in From(Available), NEW size \in Nat
  PROVE  /\ Best(a, size) \in Of(Available, a)
         /\ \A y \in Of(Available, a) : BestOf(Of(Available, a), size, y) <=> y = Best(a, size)
<1> DEFINE O == Of(Available, a)
           low == CHOOSE x \in O : \A y \in O : Rate[x] <= Rate[y]
           may == {x \in O : Rate[x] <= size} \cup {low}
           b == CHOOSE x \in may : \A y \in may : Rate[y] <= Rate[x]
<1>1. O \in SUBSET Streams /\ O # {}  BY DEF Of, From
<1>2. \A x \in O : Rate[x] \in Nat  BY <1>1, PolicyAssumption
<1>3. \A x, y \in O : Rate[x] = Rate[y] => x = y  BY <1>1, PolicyAssumption DEF Of
<1>4. low \in O /\ \A y \in O : Rate[low] <= Rate[y]
  <2>1. \E x \in O : \A y \in O : Rate[x] <= Rate[y]
    <3> HIDE DEF O
    <3> QED  BY <1>1, RateExtremes
  <2> QED  BY <2>1
<1>5. b \in may /\ \A y \in may : Rate[y] <= Rate[b]
  <2>1. may \in SUBSET Streams /\ may # {}  BY <1>1, <1>4
  <2>2. \E x \in may : \A y \in may : Rate[y] <= Rate[x]
    <3> HIDE DEF may
    <3> QED  BY <2>1, RateExtremes
  <2> QED  BY <2>2
<1>6. Best(a, size) = b  BY DEF Best
<1> HIDE DEF low, b, O
<1>7. b \in O  BY <1>4, <1>5
<1>8. BestOf(O, size, b)
  <2>1. \A x \in O : Rate[x] <= size => Rate[x] <= Rate[b]  BY <1>5
  <2>2. Rate[b] <= size \/ b = low  BY <1>5
  <2> QED  BY <1>4, <2>1, <2>2 DEF BestOf
<1>9. ASSUME NEW y \in O, BestOf(O, size, y) PROVE y = b
  <2>1. y \in may
    <3>1. CASE Rate[y] <= size  BY <3>1
    <3>2. CASE \A x \in O : Rate[y] <= Rate[x]
      <4>1. Rate[y] = Rate[low]  BY <1>2, <1>4, <3>2
      <4> QED  BY <1>3, <1>4, <4>1
    <3> QED  BY <1>9, <3>1, <3>2 DEF BestOf
  <2>2. Rate[y] <= Rate[b]  BY <1>5, <2>1
  <2>3. Rate[b] <= Rate[y]
    <3>1. CASE Rate[b] <= size  BY <1>7, <1>9, <3>1 DEF BestOf
    <3>2. CASE b = low  BY <1>4, <3>2
    <3> QED  BY <1>5, <3>1, <3>2
  <2> QED  BY <1>2, <1>3, <1>7, <2>2, <2>3
<1> QED  BY <1>6, <1>7, <1>8, <1>9 DEF O

(* Whatever the target, the policy selects the best there is. *)
LEMMA PolicySelectsBest ==
  ASSUME index \in SUBSET Streams, preferences \in Preferences \cup {NoPreferences}
  PROVE  SelectionIsBest
<1> SUFFICES ASSUME NEW target \in Targets
    PROVE  LET prefs == getCurrentVideoPreferences(Now)
               r == priorityPolicy(target, prefs, Available, {})
               served == {i \in DOMAIN prefs : prefs[i].attendee \in From(Available)}
               Has(i) == Of(r.chosen, prefs[i].attendee)
               Top(i) == \A j \in DOMAIN prefs : prefs[i].priority <= prefs[j].priority
               full == \A i \in served : Top(i) => Has(i) = {Best(prefs[i].attendee, prefs[i].size)}
           IN  /\ Sum(r.chosen) <= target
               /\ \A i \in served : Has(i) = {} =>
                    \/ ~Top(i) /\ ~full
                    \/ \A x \in Of(Available, prefs[i].attendee) : Sum(r.chosen) + Rate[x] > target
               /\ \A i \in served : Has(i) # {} => Top(i) \/ full
  BY DEF SelectionIsBest
<1> DEFINE prefs == getCurrentVideoPreferences(Now)
           r == priorityPolicy(target, prefs, Available, {})
           served == {i \in DOMAIN prefs : prefs[i].attendee \in From(Available)}
           Has(i) == Of(r.chosen, prefs[i].attendee)
           Top(i) == \A j \in DOMAIN prefs : prefs[i].priority <= prefs[j].priority
           full == \A i \in served : Top(i) => Has(i) = {Best(prefs[i].attendee, prefs[i].size)}
           highest == Min(PrioritiesOf(prefs))
           Cand(p) == Candidates(prefs, Available, p)
<1>1. PrefsOK(prefs)
  <2> DEFINE s == Now
  <2>1. s.preferences = preferences /\ s.index = index  BY DEF Now
  <2>2. prefs = getCurrentVideoPreferences(s)  OBVIOUS
  <2> HIDE DEF s, prefs
  <2> QED  BY <2>1, <2>2, CurrentPreferences
<1>2. Available \in SUBSET Streams  BY DEF Available
<1>3. /\ SelectionOK(r, Available, target) /\ r.chosen \subseteq Available
      /\ Fair(r, Available, target, prefs)
  <2>1. target \in Nat /\ Single({}) /\ \A y \in {} : Attendee[y] \notin From(Available)
    BY PolicyAssumption DEF Single
  <2>2. r = priorityPolicy(target, prefs, Available, {})  OBVIOUS
  <2> HIDE DEF r, prefs
  <2>3. /\ SelectionOK(r, Available, target) /\ r.chosen \subseteq Available \cup {}
        /\ Fair(r, Available, target, prefs)
    BY <1>1, <1>2, <2>1, <2>2, PolicyIsFair
  <2> QED  BY <2>3
<1> HIDE DEF r, prefs
<1>4. r.total = Sum(r.chosen) /\ r.total <= target /\ r.total \in Nat /\ Single(r.chosen)
  <2>1. r.chosen \cap Available = r.chosen  BY <1>3
  <2> QED  BY <1>3, <2>1 DEF SelectionOK, Selections
<1>5. \A i \in DOMAIN prefs : Top(i) <=> prefs[i].priority = highest
  <2>1. ASSUME NEW i \in DOMAIN prefs PROVE Top(i) <=> prefs[i].priority = highest
    <3> DEFINE S == PrioritiesOf(prefs)
    <3>1. S # {} /\ S \subseteq Nat  BY <1>1 DEF PrioritiesOf, PrefsOK
    <3>2. IsFiniteSet(S)
      <4>1. PICK n \in Nat : DOMAIN prefs = 1..n  BY <1>1 DEF PrefsOK
      <4> DEFINE f == [k \in 1..n |-> prefs[k].priority]
      <4>2. f \in [1..n -> S] /\ \A p \in S : \E k \in 1..n : f[k] = p
        BY <4>1 DEF PrioritiesOf
      <4>3. f \in Surjection(1..n, S)  BY <4>2 DEF Surjection
      <4>4. IsFiniteSet(1..n)  BY FS_Interval
      <4> HIDE DEF f, S
      <4> QED  BY <4>3, <4>4, FS_Surjection
    <3>3. highest \in S /\ \A y \in S : highest <= y
      <4> HIDE DEF S
      <4>1. Min(S) \in S /\ \A y \in S : Min(S) <= y  BY <3>1, <3>2, Extremes
      <4> QED  BY <4>1 DEF S
    <3> HIDE DEF highest
    <3>4. \A k \in DOMAIN prefs : prefs[k].priority \in S  BY DEF PrioritiesOf
    <3>5. PICK k \in DOMAIN prefs : highest = prefs[k].priority  BY <3>3 DEF PrioritiesOf
    <3>6. Top(i) => prefs[i].priority = highest
      <4>1. prefs[i].priority \in Nat /\ highest \in Nat  BY <3>1, <3>3, <3>4
      <4>2. highest <= prefs[i].priority  BY <3>3, <3>4
      <4>3. Top(i) => prefs[i].priority <= highest  BY <3>5
      <4> QED  BY <4>1, <4>2, <4>3
    <3>7. prefs[i].priority = highest => Top(i)
      <4>1. \A k2 \in DOMAIN prefs : highest <= prefs[k2].priority  BY <3>3, <3>4
      <4> QED  BY <4>1
    <3> QED  BY <3>6, <3>7
  <2> QED  BY <2>1
<1> HIDE DEF highest
<1>6. ASSUME NEW i \in DOMAIN prefs
      PROVE  /\ prefs[i].priority \in PrioritiesOf(prefs)
             /\ \A x \in Of(Available, prefs[i].attendee) :
                  [at |-> i, stream |-> x] \in Cand(prefs[i].priority)
             /\ \A c \in Cand(prefs[i].priority) :
                  c.at = i => c.stream \in Of(Available, prefs[i].attendee)
  BY DEF PrioritiesOf, Candidates, Of
<1>7. ASSUME NEW i \in served, NEW c \in Cand(prefs[i].priority), c.at = i
      PROVE  (\E y \in r.chosen : IsBest(prefs, Cand(prefs[i].priority), c, y))
               <=> Has(i) = {Best(prefs[i].attendee, prefs[i].size)}
  <2> DEFINE a == prefs[i].attendee
             O == Of(Available, a)
             size == prefs[i].size
             C == Cand(prefs[i].priority)
             b == Best(a, size)
  <2>0. i \in DOMAIN prefs /\ a \in From(Available) /\ size \in Nat
    BY <1>1 DEF PrefsOK
  <2>1. b \in O /\ \A y \in O : BestOf(O, size, y) <=> y = b
    <3> HIDE DEF a, size
    <3> QED  BY <1>2, <2>0, BestIs
  <2>2. \A d \in C : d.at = c.at <=> d.at = i  BY <1>7
  <2>3. Attendee[c.stream] = a /\ SizeOf(prefs, c) = size
    BY <1>6, <1>7, <2>0 DEF Of, SizeOf
  <2>4. ASSUME NEW y \in O PROVE IsBest(prefs, C, c, y) <=> BestOf(O, size, y)
    <3>1. \A d \in C : d.at = i => d.stream \in O  BY <1>6, <2>0
    <3>2. ASSUME NEW x \in O PROVE \E d \in C : d.at = i /\ d.stream = x
      <4>1. [at |-> i, stream |-> x] \in C  BY <1>6, <2>0
      <4> QED  BY <4>1
    <3>3. Attendee[y] = a  BY DEF Of
    <3> HIDE DEF a, size, C, O
    <3>4. ASSUME IsBest(prefs, C, c, y) PROVE BestOf(O, size, y)
      BY <2>2, <2>3, <3>2, <3>4 DEF IsBest, BestOf
    <3>5. ASSUME BestOf(O, size, y) PROVE IsBest(prefs, C, c, y)
      BY <2>2, <2>3, <3>1, <3>3, <3>5 DEF IsBest, BestOf
    <3> QED  BY <3>4, <3>5
  <2>5. \A y \in r.chosen : Attendee[y] = a => y \in O  BY <1>3 DEF Of
  <2>6. ASSUME NEW y \in r.chosen, IsBest(prefs, C, c, y) PROVE Has(i) = {b}
    <3>1. Attendee[y] = a  BY <2>3, <2>6 DEF IsBest
    <3>2. y = b  BY <2>1, <2>4, <2>5, <2>6, <3>1
    <3>3. \A z \in r.chosen : Attendee[z] = a => z = y  BY <1>4, <3>1 DEF Single
    <3> QED  BY <2>6, <3>1, <3>2, <3>3 DEF Of
  <2>7. ASSUME Has(i) = {b} PROVE \E y \in r.chosen : IsBest(prefs, C, c, y)
    <3>1. b \in r.chosen  BY <2>7 DEF Of
    <3>2. IsBest(prefs, C, c, b)  BY <2>1, <2>4
    <3> QED  BY <3>1, <3>2
  <2> QED  BY <2>6, <2>7
<1>8. full <=> ~ Lacks(r, prefs, Available, highest)
  <2>1. ASSUME Lacks(r, prefs, Available, highest) PROVE ~full
    <3>1. PICK c \in Cand(highest) : \A y \in r.chosen : ~ IsBest(prefs, Cand(highest), c, y)
      BY <2>1 DEF Lacks
    <3> DEFINE i == c.at
    <3>2. /\ i \in DOMAIN prefs /\ prefs[i].priority = highest /\ c.stream \in Available
          /\ prefs[i].attendee = Attendee[c.stream]
      BY CandidateIs
    <3>3. i \in served  BY <3>2 DEF From
    <3>4. Has(i) # {Best(prefs[i].attendee, prefs[i].size)}
      <4> c \in Cand(prefs[i].priority)  BY <3>2
      <4> QED  BY <1>7, <3>1, <3>2, <3>3
    <3>5. Top(i)  BY <1>5, <3>2
    <3> HIDE DEF i, served, Has, Top
    <3> QED  BY <3>3, <3>4, <3>5
  <2>2. ASSUME ~Lacks(r, prefs, Available, highest), NEW i \in served, Top(i)
        PROVE  Has(i) = {Best(prefs[i].attendee, prefs[i].size)}
    <3>1. i \in DOMAIN prefs /\ prefs[i].priority = highest  BY <1>5, <2>2
    <3>2. PICK x \in Available : Attendee[x] = prefs[i].attendee  BY DEF From
    <3> DEFINE c == [at |-> i, stream |-> x]
    <3>3. c \in Cand(highest) /\ c.at = i  BY <1>6, <3>1, <3>2 DEF Of
    <3> HIDE DEF c
    <3>4. \E y \in r.chosen : IsBest(prefs, Cand(highest), c, y)  BY <2>2, <3>3 DEF Lacks
    <3> QED  BY <1>7, <3>1, <3>3, <3>4
  <2> QED  BY <2>1, <2>2
<1> HIDE DEF full
<1>9. ASSUME NEW i \in served
      PROVE  /\ Has(i) = {} =>
                  \/ ~Top(i) /\ ~full
                  \/ \A x \in Of(Available, prefs[i].attendee) : Sum(r.chosen) + Rate[x] > target
             /\ Has(i) # {} => Top(i) \/ full
  <2> DEFINE p == prefs[i].priority
  <2>1. i \in DOMAIN prefs /\ p \in PrioritiesOf(prefs)  BY <1>6
  <2>2. \A c \in Cand(p) :
          /\ Of(r.chosen, Attendee[c.stream]) = {} =>
               \/ r.total + Rate[c.stream] > target
               \/ p # highest /\ Lacks(r, prefs, Available, highest)
          /\ Of(r.chosen, Attendee[c.stream]) # {} =>
               p = highest \/ ~ Lacks(r, prefs, Available, highest)
    <3> HIDE DEF p
    <3> QED  BY <1>3, <2>1 DEF Fair, highest
  <2>3. ASSUME NEW x \in Of(Available, prefs[i].attendee)
        PROVE  /\ Of(r.chosen, prefs[i].attendee) = {} =>
                    \/ r.total + Rate[x] > target
                    \/ p # highest /\ Lacks(r, prefs, Available, highest)
               /\ Of(r.chosen, prefs[i].attendee) # {} =>
                    p = highest \/ ~ Lacks(r, prefs, Available, highest)
    <3> DEFINE c == [at |-> i, stream |-> x]
    <3>1. c \in Cand(p)  BY <1>6, <2>1
    <3>2. c.stream = x /\ Attendee[x] = prefs[i].attendee  BY DEF Of
    <3> HIDE DEF c, p
    <3> QED  BY <2>2, <3>1, <3>2
  <2>4. Of(Available, prefs[i].attendee) # {}  BY DEF Of, From
  <2>5. Top(i) <=> p = highest  BY <1>5, <2>1
  <2> HIDE DEF p, Top
  <2> QED  BY <1>4, <1>8, <2>3, <2>4, <2>5
<1>10. /\ Sum(r.chosen) <= target
       /\ \A i \in served : Has(i) = {} =>
            \/ ~Top(i) /\ ~full
            \/ \A x \in Of(Available, prefs[i].attendee) : Sum(r.chosen) + Rate[x] > target
       /\ \A i \in served : Has(i) # {} => Top(i) \/ full
  BY <1>4, <1>9
<1> QED  BY <1>10 DEF full, r, prefs

-----------------------------------------------------------------------------
(* The state of the policy, the tiles and the server.                        *)
Fields == {"index", "preferences", "updated", "tiles", "serverPaused", "pausedBw", "optimal",
           "nonPaused", "subscribed", "preProbe", "preProbeNonPaused", "prevInfos", "startup",
           "estimated", "usingPrev", "prevTarget", "baseline", "probe", "probeFailed", "report",
           "lossGrew", "negotiating", "uncounted", "byApp", "forgotten", "leftBehind",
           "failures", "events"}
IsState(s) == DOMAIN s = Fields /\ s = [f \in Fields |-> s[f]]
(* t differs from s in the fields of F only. *)
Differs(s, t, F) == IsState(t) /\ \A f \in Fields \ F : t[f] = s[f]

(* States that agree on the tiles; on what is chosen and what it is chosen     *)
(* from; on the rest of what the invariant is about.                         *)
SameTiles(s, t) ==
  /\ t.tiles = s.tiles /\ t.serverPaused = s.serverPaused /\ t.pausedBw = s.pausedBw
  /\ t.byApp = s.byApp /\ t.forgotten = s.forgotten /\ t.leftBehind = s.leftBehind
SameInput(s, t) ==
  /\ t.index = s.index /\ t.preferences = s.preferences /\ t.uncounted = s.uncounted
  /\ t.failures = s.failures /\ t.subscribed = s.subscribed
SameChoice(s, t) == t.optimal = s.optimal /\ t.nonPaused = s.nonPaused
SameMemory(s, t) == t.prevInfos = s.prevInfos /\ t.updated = s.updated
SameProbe(s, t) ==
  t.probe = s.probe /\ t.preProbe = s.preProbe /\ t.preProbeNonPaused = s.preProbeNonPaused
SameRates(s, t) ==
  t.report = s.report /\ t.prevTarget = s.prevTarget /\ t.baseline = s.baseline

(* Tiles.  A stream is held back for a tile that is paused and shows it, but   *)
(* for those left behind; every paused tile has someone to unpause it.        *)
TileTypes == [kind : {"none", "unbound", "bound"}, paused : BOOLEAN, held : BOOLEAN,
              stream : Streams \cup {0}]
TileOK(a, t) ==
  /\ t.kind = "none" => t = NoTile
  /\ t.kind = "unbound" => t.stream = 0
  /\ t.kind = "bound" => t.stream # 0
  /\ t.stream # 0 => Attendee[t.stream] = a
  /\ t.held => t.paused
TilesOK(s) == s.tiles \in [Attendees -> TileTypes] /\ \A a \in Attendees : TileOK(a, s.tiles[a])
PausedOK(s) ==
  /\ s.byApp \subseteq Attendees /\ s.forgotten \subseteq Attendees
  /\ s.pausedBw \subseteq Attendees
  /\ \A a \in s.byApp \cup s.forgotten : s.tiles[a].kind # "none"
  /\ \A a \in Attendees : s.tiles[a].paused => a \in s.byApp \cup s.pausedBw \cup s.forgotten
HeldOK(s) ==
  /\ s.serverPaused \subseteq Streams \cup {0}
  /\ \A x \in s.serverPaused \ s.leftBehind :
       x # 0 => s.tiles[Attendee[x]].held /\ s.tiles[Attendee[x]].stream = x
TileInv(s) == TilesOK(s) /\ PausedOK(s) /\ HeldOK(s)

(* What is subscribed to has one stream of an attendee.                       *)
Choice(S) == S \subseteq Streams /\ Single(S)
ChoiceInv(s) == Choice(s.optimal) /\ Choice(s.nonPaused) /\ Choice(s.subscribed)
ProbeInv(s) ==
  /\ s.probe \in {"Not Probing", "Probe Pending", "Probing"}
  /\ Choice(s.preProbe) /\ Choice(s.preProbeNonPaused)
InputInv(s) ==
  /\ s.index \in Indexes \cup {{}} /\ s.preferences \in Preferences \cup {NoPreferences}
  /\ s.failures \in {0, 1, 2}
RateInv(s) ==
  s.report \in [est : Nat, loss : Nat, used : Nat] /\ s.prevTarget \in Nat /\ s.baseline \in Nat
TypeInv(s) ==
  /\ IsState(s) /\ TileInv(s) /\ ChoiceInv(s) /\ ProbeInv(s) /\ InputInv(s) /\ RateInv(s)
  /\ s.prevInfos \subseteq Streams

(* Streams that are there, or were when they were last counted.               *)
Known(s, x) == x \in s.index \cup s.prevInfos \cup s.uncounted
(* What is subscribed to and what is not paused of it.                        *)
Agree(s, O, N) == \A x \in O : /\ \A z \in N : Attendee[x] = Attendee[z] => x = z
                               /\ x \in N => Known(s, x)
(* The application has, or will have at the next calculation, a preference.    *)
Wanted(s, a) ==
  s.preferences = NoPreferences \/ \E i \in DOMAIN s.preferences : s.preferences[i].attendee = a
(* A stream that a fallback may return to: it is there, or its attendee will   *)
(* be among those who are paused.                                            *)
Recalled(s, x) ==
  \/ Known(s, x) \/ Attendee[x] \in s.pausedBw
  \/ /\ Of(s.preProbeNonPaused, Attendee[x]) = {} /\ Attendee[x] \in From(s.prevInfos)
     /\ s.updated \/ Wanted(s, Attendee[x])
Exists(s, x) == Known(s, x) \/ Attendee[x] \in s.pausedBw
ExistInv(s) ==
  /\ s.failures < 2 => \A x \in s.optimal : Exists(s, x)
  /\ s.failures = 0 /\ s.probe # "Probing" => Agree(s, s.optimal, s.nonPaused)
  /\ s.failures = 0 /\ s.probe = "Probing" =>
       /\ Agree(s, s.preProbe, s.preProbeNonPaused)
       /\ \A x \in s.preProbe : Recalled(s, x)
(* Nothing is received, or what was last counted is all there.                *)
Counted(s) == s.optimal = {} \/ s.prevInfos \subseteq s.index

(* The invariant. *)
Inv(s) == TypeInv(s) /\ ExistInv(s) /\ Counted(s) /\ s.subscribed = s.optimal

(* The variables make a state. *)
LEMMA NowIsState == IsState(Now)
BY DEF IsState, Fields, Now

(* What the state becomes is the next state. *)
LEMMA BecomesIs ==
  ASSUME NEW s, IsState(s), Becomes(s)
  PROVE  Now' = s
BY DEF Becomes, Now, IsState, Fields

(* A step that tiles and what they are paused for do not notice. *)
LEMMA TileFrame ==
  ASSUME NEW s, NEW t, SameTiles(s, t), TileInv(s)
  PROVE  TileInv(t)
BY DEF SameTiles, TileInv, TilesOK, PausedOK, HeldOK

-----------------------------------------------------------------------------
(* Tiles. *)

(* What the invariant says of one tile. *)
LEMMA TileIs ==
  ASSUME NEW s, TilesOK(s), NEW a \in Attendees
  PROVE  /\ s.tiles[a] \in TileTypes /\ TileOK(a, s.tiles[a])
         /\ s.tiles[a].kind # "none" <=> s.tiles[a] # NoTile
         /\ s.tiles[a].paused => s.tiles[a].kind # "none"
         /\ s.tiles[a].held => s.tiles[a].paused
BY DEF TilesOK, TileOK, NoTile

(* Every stream has an attendee. *)
LEMMA AttendeeOf == \A x \in Streams : Attendee[x] \in Attendees
BY DEF Attendees

(* The server holds a stream back for a tile that is paused. *)
LEMMA PauseOf ==
  ASSUME NEW s, IsState(s), TilesOK(s), HeldOK(s), NEW a \in Attendees, s.tiles[a].kind # "none",
         NEW t, t = pauseVideoTile(s, a)
  PROVE  /\ IsState(t) /\ TilesOK(t) /\ HeldOK(t)
         /\ t.tiles[a].kind = s.tiles[a].kind /\ t.tiles[a].paused
         /\ \A d \in Attendees : d # a => t.tiles[d] = s.tiles[d]
         /\ Differs(s, t, {"tiles", "serverPaused"})
<1> DEFINE b == [s.tiles[a] EXCEPT !.paused = TRUE, !.held = TRUE]
           P == IF s.tiles[a].held THEN s.serverPaused ELSE s.serverPaused \cup {s.tiles[a].stream}
           f == [s.tiles EXCEPT ![a] = b]
<1>1. t = [s EXCEPT !.serverPaused = P, !.tiles = f]
  <2>1. t = [s EXCEPT !.serverPaused = P, !.tiles[a] = b]  BY DEF pauseVideoTile
  <2> HIDE DEF b, P
  <2> QED  BY <2>1 DEF IsState, Fields, Differs
<1>2. s.tiles[a] \in TileTypes /\ TileOK(a, s.tiles[a])  BY TileIs
<1>3. /\ b \in TileTypes /\ TileOK(a, b) /\ b.kind = s.tiles[a].kind /\ b.paused /\ b.held
      /\ b.stream = s.tiles[a].stream
  BY <1>2 DEF TileTypes, TileOK
<1> HIDE DEF b
<1>4. t.tiles = f /\ t.serverPaused = P /\ t.leftBehind = s.leftBehind /\ IsState(t)
      /\ Differs(s, t, {"tiles", "serverPaused"})
  <2> HIDE DEF P, f
  <2> QED  BY <1>1 DEF IsState, Fields, Differs
<1>5. /\ TilesOK(t) /\ t.tiles[a] = b
      /\ \A d \in Attendees : d # a => t.tiles[d] = s.tiles[d]
  <2>1. s.tiles \in [Attendees -> TileTypes]  BY DEF TilesOK
  <2>2. /\ f \in [Attendees -> TileTypes] /\ f[a] = b
        /\ \A d \in Attendees : d # a => f[d] = s.tiles[d]
    BY <1>3, <2>1
  <2> HIDE DEF f
  <2>3. \A d \in Attendees : TileOK(d, f[d])  BY <1>3, <2>2, TileIs
  <2> QED  BY <1>4, <2>2, <2>3 DEF TilesOK
<1>6. HeldOK(t)
  <2>1. P \subseteq Streams \cup {0}  BY <1>2 DEF HeldOK, TileTypes
  <2>2. ASSUME NEW x \in P \ s.leftBehind, x # 0
        PROVE  t.tiles[Attendee[x]].held /\ t.tiles[Attendee[x]].stream = x
    <3>1. Attendee[x] \in Attendees  BY <2>1, <2>2, AttendeeOf
    <3>2. CASE x \in s.serverPaused
      <4>1. s.tiles[Attendee[x]].held /\ s.tiles[Attendee[x]].stream = x
        BY <2>2, <3>2 DEF HeldOK
      <4> QED  BY <1>3, <1>5, <3>1, <4>1
    <3>3. CASE x \notin s.serverPaused
      <4>1. x = s.tiles[a].stream  BY <2>2, <3>3
      <4>2. Attendee[x] = a  BY <1>2, <2>2, <4>1 DEF TileOK
      <4> QED  BY <1>3, <1>5, <4>1, <4>2
    <3> QED  BY <3>2, <3>3
  <2> QED  BY <1>4, <2>1, <2>2 DEF HeldOK
<1> QED  BY <1>3, <1>4, <1>5, <1>6

(* And no longer for one that is not. *)
LEMMA UnpauseOf ==
  ASSUME NEW s, IsState(s), TilesOK(s), HeldOK(s), NEW a \in Attendees,
         NEW t, t = unpauseVideoTile(s, a)
  PROVE  /\ IsState(t) /\ TilesOK(t) /\ HeldOK(t)
         /\ t.tiles[a].kind = s.tiles[a].kind /\ ~t.tiles[a].paused
         /\ \A d \in Attendees : d # a => t.tiles[d] = s.tiles[d]
         /\ Differs(s, t, {"tiles", "serverPaused"})
<1> DEFINE b == [s.tiles[a] EXCEPT !.paused = FALSE, !.held = FALSE]
           P == IF s.tiles[a].held THEN s.serverPaused \ {s.tiles[a].stream} ELSE s.serverPaused
           f == [s.tiles EXCEPT ![a] = b]
<1>1. t = [s EXCEPT !.serverPaused = P, !.tiles = f]
  <2>1. t = [s EXCEPT !.serverPaused = P, !.tiles[a] = b]  BY DEF unpauseVideoTile
  <2> HIDE DEF b, P
  <2> QED  BY <2>1 DEF IsState, Fields, Differs
<1>2. s.tiles[a] \in TileTypes /\ TileOK(a, s.tiles[a])  BY TileIs
<1>3. /\ b \in TileTypes /\ TileOK(a, b) /\ b.kind = s.tiles[a].kind /\ ~b.paused /\ ~b.held
      /\ b.stream = s.tiles[a].stream
  <2>1. /\ b \in TileTypes /\ b.kind = s.tiles[a].kind /\ ~b.paused /\ ~b.held
        /\ b.stream = s.tiles[a].stream
    BY <1>2 DEF TileTypes
  <2>2. s.tiles[a] = NoTile => b = NoTile
    <3>1. b = [kind |-> b.kind, paused |-> b.paused, held |-> b.held, stream |-> b.stream]
      <4> HIDE DEF b
      <4> QED  BY <2>1 DEF TileTypes
    <3> HIDE DEF b
    <3> QED  BY <2>1, <3>1 DEF NoTile
  <2> HIDE DEF b
  <2> QED  BY <1>2, <2>1, <2>2 DEF TileOK
<1> HIDE DEF b
<1>4. t.tiles = f /\ t.serverPaused = P /\ t.leftBehind = s.leftBehind /\ IsState(t)
      /\ Differs(s, t, {"tiles", "serverPaused"})
  <2> HIDE DEF P, f
  <2> QED  BY <1>1 DEF IsState, Fields, Differs
<1>5. /\ TilesOK(t) /\ t.tiles[a] = b
      /\ \A d \in Attendees : d # a => t.tiles[d] = s.tiles[d]
  <2>1. s.tiles \in [Attendees -> TileTypes]  BY DEF TilesOK
  <2>2. /\ f \in [Attendees -> TileTypes] /\ f[a] = b
        /\ \A d \in Attendees : d # a => f[d] = s.tiles[d]
    BY <1>3, <2>1
  <2> HIDE DEF f
  <2>3. \A d \in Attendees : TileOK(d, f[d])  BY <1>3, <2>2, TileIs
  <2> QED  BY <1>4, <2>2, <2>3 DEF TilesOK
<1>6. HeldOK(t)
  <2>1. P \subseteq Streams \cup {0} /\ P \subseteq s.serverPaused  BY DEF HeldOK
  <2>2. ASSUME NEW x \in P \ s.leftBehind, x # 0
        PROVE  t.tiles[Attendee[x]].held /\ t.tiles[Attendee[x]].stream = x
    <3>1. Attendee[x] \in Attendees  BY <2>1, <2>2, AttendeeOf
    <3>2. s.tiles[Attendee[x]].held /\ s.tiles[Attendee[x]].stream = x
      BY <2>1, <2>2 DEF HeldOK
    <3>3. Attendee[x] # a
      <4>1. SUFFICES ASSUME Attendee[x] = a PROVE FALSE  OBVIOUS
      <4>2. s.tiles[a].held /\ s.tiles[a].stream = x  BY <3>2, <4>1
      <4> QED  BY <2>2, <4>2
    <3> QED  BY <1>5, <3>1, <3>2, <3>3
  <2> QED  BY <1>4, <2>1, <2>2 DEF HeldOK
<1> QED  BY <1>3, <1>4, <1>5, <1>6

(* Tiles that show nothing are removed. *)
LEMMA RemoveOf ==
  ASSUME NEW s, IsState(s), TileInv(s), NEW gone \in SUBSET Attendees,
         \A a \in gone : s.tiles[a].kind = "unbound",
         NEW t, t = removeVideoTiles(s, gone)
  PROVE  /\ IsState(t) /\ TileInv(t) /\ t.pausedBw = s.pausedBw
         /\ Differs(s, t, {"tiles", "byApp", "forgotten"})
<1> DEFINE f == [a \in Attendees |-> IF a \in gone THEN NoTile ELSE s.tiles[a]]
           B == s.byApp \ gone
           G == s.forgotten \ gone
<1>1. t = [s EXCEPT !.tiles = f, !.byApp = B, !.forgotten = G]
  BY DEF removeVideoTiles, IsState, Fields
<1>2. /\ t.tiles = f /\ t.byApp = B /\ t.forgotten = G /\ t.leftBehind = s.leftBehind
      /\ t.serverPaused = s.serverPaused /\ t.pausedBw = s.pausedBw /\ IsState(t)
      /\ Differs(s, t, {"tiles", "byApp", "forgotten"})
  <2> HIDE DEF f, B, G
  <2> QED  BY <1>1 DEF IsState, Fields, Differs
<1>3. NoTile \in TileTypes /\ NoTile.kind = "none" /\ ~NoTile.paused /\ ~NoTile.held
      /\ \A a : TileOK(a, NoTile)
  BY DEF NoTile, TileTypes, TileOK
<1>4. TilesOK(t)
  <2>1. \A a \in Attendees : s.tiles[a] \in TileTypes /\ TileOK(a, s.tiles[a])
    BY TileIs DEF TileInv
  <2>2. \A a \in Attendees : f[a] \in TileTypes /\ TileOK(a, f[a])
    <3> HIDE DEF NoTile
    <3> QED  BY <1>3, <2>1
  <2>3. f \in [Attendees -> TileTypes]
    <3>1. f = [a \in Attendees |-> f[a]]  OBVIOUS
    <3> HIDE DEF f
    <3> QED  BY <2>2, <3>1
  <2> HIDE DEF f
  <2> QED  BY <1>2, <2>2, <2>3 DEF TilesOK
<1>5. PausedOK(t)
  <2>1. \A a \in Attendees : f[a].paused => s.tiles[a].paused /\ a \notin gone  BY <1>3
  <2>2. \A a \in Attendees : a \notin gone => f[a] = s.tiles[a]  OBVIOUS
  <2> HIDE DEF f
  <2>3. \A a \in Attendees :
          t.tiles[a].paused => a \in t.byApp \cup t.pausedBw \cup t.forgotten
    BY <1>2, <2>1 DEF TileInv, PausedOK
  <2>4. \A a \in t.byApp \cup t.forgotten : t.tiles[a].kind # "none"
    BY <1>2, <2>2 DEF TileInv, PausedOK
  <2> QED  BY <1>2, <2>3, <2>4 DEF TileInv, PausedOK
<1>6. HeldOK(t)
  <2>1. s.serverPaused \subseteq Streams \cup {0}  BY DEF TileInv, HeldOK
  <2>2. ASSUME NEW x \in s.serverPaused \ s.leftBehind, x # 0
        PROVE  f[Attendee[x]].held /\ f[Attendee[x]].stream = x
    <3>1. Attendee[x] \in Attendees  BY <2>1, <2>2, AttendeeOf
    <3>2. s.tiles[Attendee[x]].held /\ s.tiles[Attendee[x]].stream = x
      BY <2>2 DEF TileInv, HeldOK
    <3>3. Attendee[x] \notin gone
      <4>1. TileOK(Attendee[x], s.tiles[Attendee[x]])  BY <3>1 DEF TileInv, TilesOK
      <4> QED  BY <2>2, <3>2, <4>1 DEF TileOK
    <3> QED  BY <3>1, <3>2, <3>3
  <2> QED  BY <1>2, <2>1, <2>2 DEF HeldOK
<1> QED  BY <1>2, <1>4, <1>5, <1>6 DEF TileInv

(* Cleaning removes none but tiles that show nothing. *)
LEMMA CleanOf ==
  ASSUME NEW s, IsState(s), TileInv(s), NEW t, t = cleanBwPausedTiles(s)
  PROVE  /\ IsState(t) /\ TileInv(t) /\ t.pausedBw = s.pausedBw
         /\ Differs(s, t, {"tiles", "byApp", "forgotten"})
<1> DEFINE prefs == getCurrentVideoPreferences(s)
           wanted == {prefs[i].attendee : i \in DOMAIN prefs}
           gone == {a \in Attendees :
                      s.tiles[a].kind = "unbound" /\ a \notin From(s.index) \cap wanted}
<1>1. t = removeVideoTiles(s, gone)  BY DEF cleanBwPausedTiles
<1>2. gone \in SUBSET Attendees /\ \A a \in gone : s.tiles[a].kind = "unbound"  OBVIOUS
<1> HIDE DEF gone
<1> QED  BY <1>1, <1>2, RemoveOf

-----------------------------------------------------------------------------
(* Pauses for want of bandwidth. *)

(* Somebody's tile is paused, or was already; the policy will unpause it. *)
LEMMA BwPauseOf ==
  ASSUME NEW s, IsState(s), TileInv(s), NEW a \in Attendees, s.tiles[a].kind # "none",
         NEW u \in {s, pauseVideoTile(s, a)},
         NEW t, t = [u EXCEPT !.pausedBw = @ \cup {a}]
  PROVE  /\ Differs(s, t, {"tiles", "serverPaused", "pausedBw"}) /\ TileInv(t)
         /\ t.pausedBw = s.pausedBw \cup {a}
<1>1. /\ IsState(u) /\ TilesOK(u) /\ HeldOK(u) /\ Differs(s, u, {"tiles", "serverPaused"})
      /\ u.tiles[a].kind # "none" /\ \A d \in Attendees : d # a => u.tiles[d] = s.tiles[d]
  <2>1. CASE u = s  BY <2>1 DEF TileInv, Differs
  <2>2. CASE u = pauseVideoTile(s, a)  BY <2>2, PauseOf DEF TileInv
  <2> QED  BY <2>1, <2>2
<1>2. /\ u.pausedBw = s.pausedBw /\ u.byApp = s.byApp /\ u.forgotten = s.forgotten
      /\ u.leftBehind = s.leftBehind
  BY <1>1 DEF Differs, Fields
<1>3. /\ IsState(t) /\ t.pausedBw = s.pausedBw \cup {a} /\ t.byApp = s.byApp
      /\ t.forgotten = s.forgotten /\ t.tiles = u.tiles /\ t.leftBehind = u.leftBehind
      /\ t.serverPaused = u.serverPaused /\ Differs(u, t, {"pausedBw"})
  BY <1>1, <1>2 DEF IsState, Fields, Differs
<1>4. PausedOK(t)
  <2>1. PausedOK(s) /\ s.pausedBw \subseteq Attendees  BY DEF TileInv, PausedOK
  <2>2. /\ t.pausedBw \subseteq Attendees /\ t.tiles[a].kind # "none" /\ a \in t.pausedBw
        /\ \A d : d # a => (d \in t.pausedBw <=> d \in s.pausedBw)
        /\ \A d \in Attendees : d # a => t.tiles[d] = s.tiles[d]
    BY <1>1, <1>3, <2>1
  <2> QED  BY <1>3, <2>1, <2>2 DEF PausedOK
<1>5. TilesOK(t) /\ HeldOK(t)  BY <1>1, <1>3 DEF TilesOK, HeldOK
<1>6. Differs(s, t, {"tiles", "serverPaused", "pausedBw"})  BY <1>1, <1>3 DEF Differs
<1> QED  BY <1>3, <1>4, <1>5, <1>6 DEF TileInv

(* A tile is made for somebody who is not received. *)
LEMMA BwTileOf ==
  ASSUME NEW s, IsState(s), TileInv(s), NEW a \in Attendees, s.tiles[a].kind = "none",
         NEW t, t = [s EXCEPT !.tiles[a] = [kind |-> "unbound", paused |-> TRUE, held |-> FALSE,
                                            stream |-> 0],
                              !.pausedBw = @ \cup {a}]
  PROVE  /\ Differs(s, t, {"tiles", "serverPaused", "pausedBw"}) /\ TileInv(t)
         /\ t.pausedBw = s.pausedBw \cup {a}
<1> DEFINE b == [kind |-> "unbound", paused |-> TRUE, held |-> FALSE, stream |-> 0]
           f == [s.tiles EXCEPT ![a] = b]
<1>1. t = [s EXCEPT !.tiles = f, !.pausedBw = s.pausedBw \cup {a}]
  <2> HIDE DEF b
  <2> QED  BY DEF b, IsState, Fields
<1>2. /\ b \in TileTypes /\ TileOK(a, b) /\ b.kind # "none" /\ ~b.held
  BY DEF TileTypes, TileOK
<1> HIDE DEF b
<1>3. /\ IsState(t) /\ t.pausedBw = s.pausedBw \cup {a} /\ t.byApp = s.byApp
      /\ t.forgotten = s.forgotten /\ t.tiles = f /\ t.leftBehind = s.leftBehind
      /\ t.serverPaused = s.serverPaused
      /\ Differs(s, t, {"tiles", "serverPaused", "pausedBw"})
  <2> HIDE DEF f
  <2> QED  BY <1>1 DEF IsState, Fields, Differs
<1>4. /\ f \in [Attendees -> TileTypes] /\ f[a] = b
      /\ \A d \in Attendees : d # a => f[d] = s.tiles[d]
  <2>1. s.tiles \in [Attendees -> TileTypes]  BY DEF TileInv, TilesOK
  <2> QED  BY <1>2, <2>1
<1> HIDE DEF f
<1>5. TilesOK(t)
  <2>1. \A d \in Attendees : TileOK(d, f[d])  BY <1>2, <1>4, TileIs DEF TileInv
  <2> QED  BY <1>3, <1>4, <2>1 DEF TilesOK
<1>6. PausedOK(t)
  <2>1. PausedOK(s) /\ s.pausedBw \subseteq Attendees  BY DEF TileInv, PausedOK
  <2>2. /\ t.pausedBw \subseteq Attendees /\ t.tiles[a].kind # "none" /\ a \in t.pausedBw
        /\ \A d : d # a => (d \in t.pausedBw <=> d \in s.pausedBw)
        /\ \A d \in Attendees : d # a => t.tiles[d] = s.tiles[d]
    BY <1>2, <1>3, <1>4, <2>1
  <2> QED  BY <1>3, <2>1, <2>2 DEF PausedOK
<1>7. HeldOK(t)
  <2>1. ASSUME NEW x \in s.serverPaused \ s.leftBehind, x # 0
        PROVE  f[Attendee[x]].held /\ f[Attendee[x]].stream = x
    <3>1. s.tiles[Attendee[x]].held /\ s.tiles[Attendee[x]].stream = x /\ Attendee[x] \in Attendees
      BY <2>1, AttendeeOf DEF TileInv, HeldOK
    <3>2. Attendee[x] # a
      <4>1. ~s.tiles[a].held  BY TileIs DEF TileInv
      <4> QED  BY <3>1, <4>1
    <3> QED  BY <1>4, <3>1, <3>2
  <2> QED  BY <1>3, <2>1 DEF TileInv, HeldOK
<1> QED  BY <1>3, <1>5, <1>6, <1>7 DEF TileInv

(* A tile that the policy paused it unpauses. *)
LEMMA BwResumeOf ==
  ASSUME NEW s, IsState(s), TileInv(s), NEW a \in Attendees, s.tiles[a].paused,
         NEW t, t = [unpauseVideoTile(s, a) EXCEPT !.pausedBw = @ \ {a}]
  PROVE  /\ Differs(s, t, {"tiles", "serverPaused", "pausedBw"}) /\ TileInv(t)
         /\ t.pausedBw = s.pausedBw \ {a}
<1> DEFINE u == unpauseVideoTile(s, a)
<1>1. /\ IsState(u) /\ TilesOK(u) /\ HeldOK(u) /\ Differs(s, u, {"tiles", "serverPaused"})
      /\ u.tiles[a].kind = s.tiles[a].kind /\ ~u.tiles[a].paused
      /\ \A d \in Attendees : d # a => u.tiles[d] = s.tiles[d]
  <2>1. TilesOK(s) /\ HeldOK(s)  BY DEF TileInv
  <2>2. u = unpauseVideoTile(s, a)  OBVIOUS
  <2> HIDE DEF u
  <2> QED  BY <2>1, <2>2, UnpauseOf
<1> HIDE DEF u
<1>2. /\ u.pausedBw = s.pausedBw /\ u.byApp = s.byApp /\ u.forgotten = s.forgotten
      /\ u.leftBehind = s.leftBehind
  BY <1>1 DEF Differs, Fields
<1>3. /\ IsState(t) /\ t.pausedBw = s.pausedBw \ {a} /\ t.byApp = s.byApp
      /\ t.forgotten = s.forgotten /\ t.tiles = u.tiles /\ t.leftBehind = u.leftBehind
      /\ t.serverPaused = u.serverPaused /\ Differs(u, t, {"pausedBw"})
  <2> DEFINE P == s.pausedBw \ {a}
  <2>1. t = [u EXCEPT !.pausedBw = P]  BY <1>2 DEF u
  <2> HIDE DEF P
  <2>2. Differs(u, t, {"pausedBw"}) /\ t.pausedBw = P
    BY <1>1, <2>1 DEF IsState, Fields, Differs
  <2> QED  BY <1>2, <2>2 DEF Fields, Differs, P
<1>4. PausedOK(t)
  <2>1. PausedOK(s) /\ s.pausedBw \subseteq Attendees /\ s.tiles[a].kind # "none"
    BY TileIs DEF TileInv, PausedOK
  <2>2. /\ t.pausedBw \subseteq Attendees /\ t.tiles[a].kind # "none" /\ ~t.tiles[a].paused
        /\ \A d : d # a => (d \in t.pausedBw <=> d \in s.pausedBw)
        /\ \A d \in Attendees : d # a => t.tiles[d] = s.tiles[d]
    BY <1>1, <1>3, <2>1
  <2> QED  BY <1>3, <2>1, <2>2 DEF PausedOK
<1>5. TilesOK(t) /\ HeldOK(t)  BY <1>1, <1>3 DEF TilesOK, HeldOK
<1>6. Differs(s, t, {"tiles", "serverPaused", "pausedBw"})  BY <1>1, <1>3 DEF Differs
<1> QED  BY <1>3, <1>4, <1>5, <1>6 DEF TileInv

(* What has become of s, and of what was chosen, once the attendees of W have   *)
(* been looked at.                                                           *)
Pausing(r, s, infos, chosen, W) ==
  /\ DOMAIN r = {"state", "chosen"} /\ r = [f \in {"state", "chosen"} |-> r[f]]
  /\ Differs(s, r.state, {"tiles", "serverPaused", "pausedBw"}) /\ TileInv(r.state)
  /\ chosen \subseteq r.chosen /\ r.chosen \subseteq chosen \cup s.optimal /\ Single(r.chosen)
  /\ \A x \in r.chosen \ chosen : Attendee[x] \in W /\ Attendee[x] \in r.state.pausedBw
  /\ \A a : a \notin W => (a \in r.state.pausedBw <=> a \in s.pausedBw)
  /\ \A a \in W : Of(chosen, a) = {} /\ (a \in From(infos) \/ a \in s.pausedBw)
                    => a \in r.state.pausedBw

(* One more preference has been gone through. *)
LEMMA PausingStep ==
  ASSUME NEW s, Choice(s.optimal), NEW infos \in SUBSET Streams, NEW chosen, Choice(chosen),
         NEW W, NEW a, a \notin W, NEW r, Pausing(r, s, infos, chosen, W),
         NEW q, q = PauseOrResume(r, infos, a)
  PROVE  Pausing(q, s, infos, chosen, W \cup {a})
<1> DEFINE u == r.state
           t == q.state
<1>1. /\ IsState(u) /\ TileInv(u) /\ Differs(s, u, {"tiles", "serverPaused", "pausedBw"})
      /\ u.optimal = s.optimal
  BY DEF Pausing, Differs, Fields
<1>2. \A x \in r.chosen : Attendee[x] = a => x \in chosen  BY DEF Pausing
<1>3. Of(r.chosen, a) = Of(chosen, a)  BY <1>2 DEF Of, Pausing
<1>4. r.chosen \subseteq Streams /\ From(infos) \subseteq Attendees
  BY DEF Choice, Pausing, From, Attendees
<1>5. CASE q = r
  <2>1. CASE Of(chosen, a) # {}
    <3> HIDE DEF u, t
    <3> QED  BY <1>5, <2>1 DEF Pausing
  <2>2. CASE Of(chosen, a) = {} /\ a \notin From(infos)
    <3>1. a \in u.pausedBw <=> a \in s.pausedBw  BY DEF Pausing
    <3> QED  BY <1>5, <2>2, <3>1 DEF Pausing
  <2>3. CASE Of(chosen, a) = {} /\ a \in From(infos)
    <3>1. q = PauseForBandwidth(r, infos, a)  BY <1>3, <2>3 DEF PauseOrResume
    <3>2. a \in u.pausedBw
      <4>1. CASE u.tiles[a].kind = "none"
        <5>1. q = [r EXCEPT !.state.tiles[a] = [kind |-> "unbound", paused |-> TRUE,
                                                held |-> FALSE, stream |-> 0],
                            !.state.pausedBw = @ \cup {a}]
          BY <2>3, <3>1, <4>1 DEF PauseForBandwidth
        <5> DEFINE b == [kind |-> "unbound", paused |-> TRUE, held |-> FALSE, stream |-> 0]
        <5>2. DOMAIN r = {"state", "chosen"} /\ r = [f \in {"state", "chosen"} |-> r[f]]
          BY DEF Pausing
        <5>3. t = [u EXCEPT !.tiles[a] = b, !.pausedBw = @ \cup {a}]
          <6>1. q = [r EXCEPT !.state.tiles[a] = b, !.state.pausedBw = @ \cup {a}]  BY <5>1
          <6> HIDE DEF b
          <6> QED  BY <1>1, <5>2, <6>1 DEF IsState, Fields
        <5>4. t.pausedBw = u.pausedBw \cup {a}
          <6> HIDE DEF u, t
          <6> QED  BY <1>1, <1>4, <2>3, <4>1, <5>3, BwTileOf
        <5> QED  BY <1>5, <5>4
      <4>2. CASE u.tiles[a].kind # "none"
        <5> DEFINE v == IF Of(u.optimal, a) # {} /\ ~u.tiles[a].paused
                        THEN pauseVideoTile(u, a) ELSE u
        <5>1. q = [chosen |-> r.chosen \cup Of(u.optimal, a),
                   state |-> [v EXCEPT !.pausedBw = @ \cup {a}]]
          BY <2>3, <3>1, <4>2 DEF PauseForBandwidth
        <5>2. v \in {u, pauseVideoTile(u, a)}  OBVIOUS
        <5> HIDE DEF v
        <5>3. t = [v EXCEPT !.pausedBw = @ \cup {a}]  BY <5>1
        <5>4. t.pausedBw = u.pausedBw \cup {a}
          <6> HIDE DEF u, t
          <6> QED  BY <1>1, <1>4, <2>3, <4>2, <5>2, <5>3, BwPauseOf
        <5> QED  BY <1>5, <5>4
      <4> QED  BY <4>1, <4>2
    <3> QED  BY <1>5, <2>3, <3>2 DEF Pausing
  <2> QED  BY <2>1, <2>2, <2>3
(* The state changes for a. *)
<1>6. ASSUME Differs(u, t, {"tiles", "serverPaused", "pausedBw"}), TileInv(t),
             DOMAIN q = {"state", "chosen"}, q = [f \in {"state", "chosen"} |-> q[f]],
             \/ /\ Of(chosen, a) = {} /\ t.pausedBw = u.pausedBw \cup {a}
                /\ q.chosen = r.chosen \/ q.chosen = r.chosen \cup Of(u.optimal, a)
             \/ Of(chosen, a) # {} /\ q.chosen = r.chosen /\ t.pausedBw = u.pausedBw \ {a}
      PROVE  Pausing(q, s, infos, chosen, W \cup {a})
  <2>1. Differs(s, t, {"tiles", "serverPaused", "pausedBw"})  BY <1>1, <1>6 DEF Differs
  <2>2. chosen \subseteq q.chosen /\ q.chosen \subseteq chosen \cup s.optimal
    BY <1>1, <1>6 DEF Pausing, Of
  <2>3. Single(q.chosen)
    <3>1. Single(r.chosen)  BY DEF Pausing
    <3>2. CASE q.chosen = r.chosen  BY <3>1, <3>2
    <3>3. CASE q.chosen = r.chosen \cup Of(u.optimal, a) /\ Of(chosen, a) = {}
      <4>1. \A x \in r.chosen : Attendee[x] # a  BY <1>3, <3>3 DEF Of
      <4>2. \A x \in Of(u.optimal, a) : Attendee[x] = a /\ x \in s.optimal  BY <1>1 DEF Of
      <4>3. Single(s.optimal)  BY DEF Choice
      <4> QED  BY <3>1, <3>3, <4>1, <4>2, <4>3 DEF Single
    <3> QED  BY <1>6, <3>2, <3>3
  <2>4. \A x \in q.chosen \ chosen : Attendee[x] \in W \cup {a} /\ Attendee[x] \in t.pausedBw
    <3>1. ASSUME NEW x \in q.chosen, x \notin chosen
          PROVE  Attendee[x] \in W \cup {a} /\ Attendee[x] \in t.pausedBw
      <4>1. CASE x \in r.chosen
        <5>1. Attendee[x] \in W /\ Attendee[x] \in u.pausedBw  BY <3>1, <4>1 DEF Pausing
        <5>2. Attendee[x] # a  BY <5>1
        <5> HIDE DEF t, u
        <5> QED  BY <1>6, <5>1, <5>2
      <4>2. CASE x \notin r.chosen
        <5>1. Attendee[x] = a /\ t.pausedBw = u.pausedBw \cup {a}  BY <1>6, <3>1, <4>2 DEF Of
        <5> QED  BY <5>1
      <4> QED  BY <4>1, <4>2
    <3> QED  BY <3>1
  <2>5. \A d : d \notin W \cup {a} => (d \in t.pausedBw <=> d \in s.pausedBw)
    <3>1. \A d : d \notin W => (d \in u.pausedBw <=> d \in s.pausedBw)  BY DEF Pausing
    <3> HIDE DEF t, u
    <3> QED  BY <1>6, <3>1
  <2>6. \A d \in W \cup {a} : Of(chosen, d) = {} /\ (d \in From(infos) \/ d \in s.pausedBw)
                                => d \in t.pausedBw
    <3>1. \A d \in W : Of(chosen, d) = {} /\ (d \in From(infos) \/ d \in s.pausedBw)
                         => d \in u.pausedBw
      BY DEF Pausing
    <3> HIDE DEF t, u
    <3> QED  BY <1>6, <3>1
  <2> QED  BY <1>6, <2>1, <2>2, <2>3, <2>4, <2>5, <2>6 DEF Pausing
<1>7. DOMAIN r = {"state", "chosen"} /\ r = [f \in {"state", "chosen"} |-> r[f]]  BY DEF Pausing
<1>8. CASE Of(chosen, a) = {} /\ a \in From(infos)
  <2>1. q = PauseForBandwidth(r, infos, a)  BY <1>3, <1>8 DEF PauseOrResume
  <2>2. CASE u.tiles[a].kind = "none"
    <3> DEFINE b == [kind |-> "unbound", paused |-> TRUE, held |-> FALSE, stream |-> 0]
    <3>1. q = [r EXCEPT !.state.tiles[a] = b, !.state.pausedBw = @ \cup {a}]
      BY <1>8, <2>1, <2>2 DEF PauseForBandwidth
    <3>2. /\ q.chosen = r.chosen /\ DOMAIN q = {"state", "chosen"}
          /\ q = [f \in {"state", "chosen"} |-> q[f]]
      <4> HIDE DEF b
      <4> QED  BY <1>7, <3>1
    <3>3. t = [u EXCEPT !.tiles[a] = b, !.pausedBw = @ \cup {a}]
      <4> HIDE DEF b
      <4> QED  BY <1>1, <1>7, <3>1 DEF IsState, Fields
    <3>4. /\ Differs(u, t, {"tiles", "serverPaused", "pausedBw"}) /\ TileInv(t)
          /\ t.pausedBw = u.pausedBw \cup {a}
      <4> HIDE DEF t, u
      <4> QED  BY <1>1, <1>4, <1>8, <2>2, <3>3, BwTileOf
    <3> QED  BY <1>6, <1>8, <3>2, <3>4
  <2>3. CASE u.tiles[a].kind # "none"
    <3> DEFINE v == IF Of(u.optimal, a) # {} /\ ~u.tiles[a].paused
                    THEN pauseVideoTile(u, a) ELSE u
    <3>1. q = [chosen |-> r.chosen \cup Of(u.optimal, a),
               state |-> [v EXCEPT !.pausedBw = @ \cup {a}]]
      BY <1>8, <2>1, <2>3 DEF PauseForBandwidth
    <3>2. v \in {u, pauseVideoTile(u, a)}  OBVIOUS
    <3> HIDE DEF v
    <3>3. t = [v EXCEPT !.pausedBw = @ \cup {a}] /\ q.chosen = r.chosen \cup Of(u.optimal, a)
      BY <3>1
    <3>4. /\ Differs(u, t, {"tiles", "serverPaused", "pausedBw"}) /\ TileInv(t)
          /\ t.pausedBw = u.pausedBw \cup {a}
      <4> HIDE DEF u, t
      <4> QED  BY <1>1, <1>4, <1>8, <2>3, <3>2, <3>3, BwPauseOf
    <3>5. DOMAIN q = {"state", "chosen"} /\ q = [f \in {"state", "chosen"} |-> q[f]]
      BY <3>1
    <3> QED  BY <1>6, <1>8, <3>3, <3>4, <3>5
  <2> QED  BY <2>2, <2>3
<1>9. CASE Of(chosen, a) = {} /\ a \notin From(infos)
  <2>1. q = r  BY <1>3, <1>9 DEF PauseOrResume, PauseForBandwidth
  <2> QED  BY <1>5, <2>1
<1>10. CASE Of(chosen, a) # {}
  <2>1. CASE ~ (u.tiles[a].paused /\ a \in u.pausedBw)
    <3>1. q = r  BY <1>3, <1>10, <2>1 DEF PauseOrResume
    <3> QED  BY <1>5, <3>1
  <2>2. CASE u.tiles[a].paused /\ a \in u.pausedBw
    <3>1. q = [r EXCEPT !.state = [unpauseVideoTile(u, a) EXCEPT !.pausedBw = @ \ {a}]]
      BY <1>3, <1>10, <2>2 DEF PauseOrResume
    <3> DEFINE w == [unpauseVideoTile(u, a) EXCEPT !.pausedBw = @ \ {a}]
    <3>2. /\ q.chosen = r.chosen /\ DOMAIN q = {"state", "chosen"} /\ t = w
          /\ q = [f \in {"state", "chosen"} |-> q[f]]
      <4> HIDE DEF w
      <4> QED  BY <1>7, <3>1 DEF w
    <3>3. a \in Attendees  BY <1>4, <1>10 DEF Of, Attendees, Choice
    <3>4. /\ Differs(u, t, {"tiles", "serverPaused", "pausedBw"}) /\ TileInv(t)
          /\ t.pausedBw = u.pausedBw \ {a}
      <4>1. t = [unpauseVideoTile(u, a) EXCEPT !.pausedBw = @ \ {a}]  BY <3>2
      <4> HIDE DEF u, t
      <4> QED  BY <1>1, <2>2, <3>3, <4>1, BwResumeOf
    <3> QED  BY <1>6, <1>10, <3>2, <3>4
  <2> QED  BY <2>1, <2>2
<1> QED  BY <1>8, <1>9, <1>10

(* The pauses of one calculation. *)
LEMMA PausesOf ==
  ASSUME NEW s, IsState(s), TileInv(s), Choice(s.optimal), s.index \in SUBSET Streams,
         s.preferences \in Preferences \cup {NoPreferences},
         NEW infos \in SUBSET Streams, NEW chosen, Choice(chosen),
         NEW prefs, prefs = getCurrentVideoPreferences(s),
         NEW r, r = processBwPausedStreams(s, infos, chosen)
  PROVE  Pausing(r, s, infos, chosen, {prefs[i].attendee : i \in DOMAIN prefs})
<1> DEFINE c0 == [infos |-> infos, prefs |-> prefs]
           base == [state |-> s, chosen |-> chosen]
           D == DOMAIN prefs
           W(T) == {prefs[i].attendee : i \in T}
<1>1. PrefsOK(prefs)  BY CurrentPreferences
<1>2. r = Fold(4, c0, base, D)
  BY DEF processBwPausedStreams, FoldLeft, Fold, MapThenFoldSet, Step, LastOf
<1>3. D \in SUBSET Nat /\ IsFiniteSet(D) /\ HasLast(4, D)
  <2>1. PICK n \in Nat : D = 1..n  BY <1>1 DEF PrefsOK
  <2>2. IsFiniteSet(1..n)  BY FS_Interval
  <2> HIDE DEF D
  <2> QED  BY <2>1, <2>2, HasLasts
<1>4. PICK g : Iterates(g, 4, c0, base, D) /\ r = g[D]
  <2> HIDE DEF c0, D, base
  <2> QED  BY <1>2, <1>3, FoldIterates
<1>5. \A V \in SUBSET D : V # {} => g[V] = Step(4, c0, g[V \ {LastOf(4, V)}], LastOf(4, V))
  <2>1. Iterates(g, 4, c0, base, D)  BY <1>4
  <2> HIDE DEF c0, D, base, W
  <2> QED  BY <2>1, Iteration
<1>6. Pausing(base, s, infos, chosen, {})
  <2>1. /\ DOMAIN base = {"state", "chosen"} /\ base = [f \in {"state", "chosen"} |-> base[f]]
        /\ base.state = s /\ base.chosen = chosen
    OBVIOUS
  <2>2. Differs(s, s, {"tiles", "serverPaused", "pausedBw"})  BY DEF Differs
  <2> HIDE DEF base
  <2> QED  BY <2>1, <2>2 DEF Pausing, Choice
<1> DEFINE P == {T \in SUBSET D : Pausing(g[T], s, infos, chosen, W(T))}
<1>7. {} \in P
  <2>1. g[{}] = base
    <3> HIDE DEF c0, D, base
    <3> QED  BY <1>4, Iteration
  <2>2. W({}) = {}  OBVIOUS
  <2> HIDE DEF W, base
  <2> QED  BY <1>6, <2>1, <2>2
<1>8. ASSUME NEW T \in SUBSET D, T # {}, \A i \in T : T \ {i} \in P PROVE T \in P
  <2> DEFINE l == Max(T)
             a == prefs[l].attendee
             v == g[T \ {l}]
             q == g[T]
             U == W(T \ {l})
  <2>1. LastOf(4, T) = l  BY DEF LastOf
  <2>2. l \in T
    <3>1. IsFiniteSet(T) /\ T \subseteq Nat  BY <1>3, FS_Subset
    <3> QED  BY <1>8, <3>1, Extremes
  <2>3. Pausing(v, s, infos, chosen, U)  BY <1>8, <2>2
  <2>4. q = Step(4, c0, v, l)
    <3> HIDE DEF c0, D
    <3> QED  BY <1>8, <1>5, <2>1
  <2>5. q = PauseOrResume(v, infos, a)
    <3> HIDE DEF l, v, q
    <3> QED  BY <2>4 DEF Step
  <2>6. a \notin U /\ W(T) = U \cup {a}
    <3> HIDE DEF l
    <3>1. \A i \in T \ {l} : prefs[i].attendee # prefs[l].attendee
      BY <1>1, <2>2 DEF PrefsOK
    <3>2. a \notin U  BY <3>1
    <3>3. W(T) = U \cup {a}  BY <2>2
    <3> QED  BY <3>2, <3>3
  <2> HIDE DEF a, v, q, U, W, l
  <2>7. Pausing(q, s, infos, chosen, U \cup {a})
    BY <2>3, <2>5, <2>6, PausingStep
  <2> QED  BY <2>6, <2>7 DEF q
<1>9. D \in P
  <2> HIDE DEF P, D
  <2> QED  BY <1>3, <1>7, <1>8, SetInduction
<1> QED  BY <1>4, <1>9

-----------------------------------------------------------------------------
(* Subscribing: tiles show what is received.                                 *)
LEMMA ChooseOf ==
  ASSUME NEW s, IsState(s), TileInv(s), Choice(s.optimal), NEW t, t = chooseSubscriptions(s)
  PROVE  /\ Differs(s, t, {"subscribed", "negotiating", "tiles", "leftBehind"}) /\ TileInv(t)
         /\ t.subscribed = t.optimal
<1> DEFINE switched == {a \in Attendees : s.tiles[a].held /\ Shown(s, a) # s.tiles[a].stream}
           f == [a \in Attendees |-> [s.tiles[a] EXCEPT !.stream = Shown(s, a)]]
           L == s.leftBehind \cup {s.tiles[a].stream : a \in switched}
           n == From(s.optimal) # From(s.subscribed)
<1>1. CASE s.optimal = s.subscribed
  <2>1. t = s  BY <1>1 DEF chooseSubscriptions
  <2> QED  BY <1>1, <2>1 DEF Differs
<1>2. CASE s.optimal # s.subscribed
  <2>1. t = [s EXCEPT !.subscribed = s.optimal, !.negotiating = n, !.tiles = f, !.leftBehind = L]
    BY <1>2 DEF chooseSubscriptions, IsState, Fields
  <2>2. /\ Differs(s, t, {"subscribed", "negotiating", "tiles", "leftBehind"})
        /\ t.subscribed = s.optimal /\ t.optimal = s.optimal /\ t.tiles = f /\ t.leftBehind = L
        /\ t.serverPaused = s.serverPaused /\ t.byApp = s.byApp /\ t.forgotten = s.forgotten
        /\ t.pausedBw = s.pausedBw
    <3> HIDE DEF f, L, n
    <3> QED  BY <2>1 DEF Differs, IsState, Fields
  <2>3. ASSUME NEW a \in Attendees
        PROVE  /\ f[a] \in TileTypes /\ TileOK(a, f[a]) /\ f[a].kind = s.tiles[a].kind
               /\ f[a].held = s.tiles[a].held /\ f[a].paused = s.tiles[a].paused
               /\ f[a].stream = Shown(s, a)
    <3> DEFINE k == Shown(s, a)
               b == [s.tiles[a] EXCEPT !.stream = k]
    <3>1. f[a] = b  OBVIOUS
    <3>2. s.tiles[a] \in TileTypes /\ TileOK(a, s.tiles[a])  BY TileIs DEF TileInv
    <3>3. CASE s.tiles[a].kind = "bound" /\ Of(s.optimal, a) # {}
      <4>1. k \in Of(s.optimal, a)  BY <3>3 DEF Shown
      <4>2. k \in Streams /\ k # 0 /\ Attendee[k] = a
        BY <4>1, PolicyAssumption DEF Of, Choice
      <4> HIDE DEF k
      <4>3. b \in TileTypes /\ b.stream = k /\ b.kind = "bound" /\ b.held = s.tiles[a].held
            /\ b.paused = s.tiles[a].paused
        BY <3>2, <3>3, <4>2 DEF TileTypes
      <4> HIDE DEF b
      <4>4. TileOK(a, b)  BY <3>2, <4>2, <4>3 DEF TileOK
      <4> HIDE DEF f
      <4> QED  BY <3>1, <3>3, <4>3, <4>4 DEF k
    <3>4. CASE ~ (s.tiles[a].kind = "bound" /\ Of(s.optimal, a) # {})
      <4>1. k = s.tiles[a].stream  BY <3>4 DEF Shown
      <4>2. b = s.tiles[a]
        <5> HIDE DEF k
        <5> QED  BY <3>2, <4>1 DEF TileTypes
      <4> HIDE DEF b, f
      <4> QED  BY <3>1, <3>2, <4>1, <4>2
    <3> QED  BY <3>3, <3>4
  <2>4. TilesOK(t)
    <3>1. f = [a \in Attendees |-> f[a]]  OBVIOUS
    <3> HIDE DEF f
    <3>2. f \in [Attendees -> TileTypes]  BY <2>3, <3>1
    <3> QED  BY <2>2, <2>3, <3>2 DEF TilesOK
  <2>5. PausedOK(t)
    <3> HIDE DEF f
    <3> QED  BY <2>2, <2>3 DEF TileInv, PausedOK
  <2>6. HeldOK(t)
    <3>1. s.serverPaused \subseteq Streams \cup {0}  BY DEF TileInv, HeldOK
    <3>2. ASSUME NEW x \in s.serverPaused \ L, x # 0
          PROVE  f[Attendee[x]].held /\ f[Attendee[x]].stream = x
      <4> DEFINE a == Attendee[x]
      <4>1. a \in Attendees  BY <3>1, <3>2, AttendeeOf
      <4>2. s.tiles[a].held /\ s.tiles[a].stream = x  BY <3>2 DEF TileInv, HeldOK
      <4>3. Shown(s, a) = x
        <5>1. SUFFICES ASSUME Shown(s, a) # x PROVE FALSE  OBVIOUS
        <5>2. a \in switched  BY <4>1, <4>2, <5>1
        <5> QED  BY <3>2, <4>2, <5>2
      <4> HIDE DEF f, a
      <4>4. f[a].held /\ f[a].stream = x  BY <2>3, <4>1, <4>2, <4>3
      <4> QED  BY <4>4 DEF a
    <3> HIDE DEF f, L
    <3> QED  BY <2>2, <3>1, <3>2 DEF HeldOK
  <2> QED  BY <2>2, <2>4, <2>5, <2>6 DEF TileInv
<1> QED  BY <1>1, <1>2

-----------------------------------------------------------------------------
(* Rates and probes. *)

(* The target rate is a rate. *)
LEMMA RateOf ==
  ASSUME NEW s, IsState(s), RateInv(s), NEW late, NEW r, r = determineTargetRate(s, late)
  PROVE  /\ r.target \in Nat /\ RateInv(r.state)
         /\ Differs(s, r.state, {"startup", "estimated", "prevTarget", "usingPrev"})
<1> DEFINE est == s.report.est
           ends == /\ s.startup /\ est # 0
                   /\ \/ est > DEFAULT_BANDWIDTH_KBPS \/ s.report.loss > 0
                      \/ s.estimated /\ late
           starting == s.startup /\ ~ends
           prev == IF ends THEN est ELSE s.prevTarget
           measured ==
             IF est = 0 THEN IF s.estimated THEN prev ELSE DEFAULT_BANDWIDTH_KBPS
             ELSE IF starting THEN DEFAULT_BANDWIDTH_KBPS
             ELSE IF s.probe = "Probing" /\ s.report.used > est /\ s.report.loss < 2
                  THEN s.report.used + 1
             ELSE est
           keep == /\ ~starting /\ s.report.loss = 0
                   /\ \/ s.usingPrev /\ est < prev
                      \/ 100 * est < 80 * prev \/ 100 * est < 20 * s.report.used
           E == s.estimated \/ est # 0
           t == r.state
<1>1. /\ est \in Nat /\ s.report.used + 1 \in Nat /\ s.prevTarget \in Nat
      /\ DEFAULT_BANDWIDTH_KBPS \in Nat
  BY DEF RateInv, DEFAULT_BANDWIDTH_KBPS
<1>2. prev \in Nat /\ measured \in Nat
  <2> HIDE DEF est, ends, starting
  <2> QED  BY <1>1
<1>3. r.target = IF keep THEN prev ELSE measured
  BY DEF determineTargetRate
<1>4. t = [s EXCEPT !.startup = starting, !.estimated = E, !.prevTarget = prev, !.usingPrev = keep]
  BY DEF determineTargetRate, IsState, Fields
<1>5. /\ Differs(s, t, {"startup", "estimated", "prevTarget", "usingPrev"})
      /\ t.prevTarget = prev /\ t.report = s.report /\ t.baseline = s.baseline
  <2> HIDE DEF starting, E, prev, keep, t
  <2> QED  BY <1>4 DEF Differs, IsState, Fields
<1>6. r.target \in Nat
  <2> HIDE DEF keep, prev, measured
  <2> QED  BY <1>2, <1>3
<1> HIDE DEF prev, t
<1>7. RateInv(t)  BY <1>2, <1>5 DEF RateInv
<1> QED  BY <1>5, <1>6, <1>7 DEF t

(* A probe is not entered twice; what is received before it is remembered.     *)
LEMMA ProbeStateOf ==
  ASSUME NEW s, IsState(s), ProbeInv(s), ChoiceInv(s), NEW late,
         NEW new \in {"Not Probing", "Probe Pending", "Probing"},
         s.probe # "Probing" \/ new = "Not Probing",
         NEW t, t = ProbeState(s, new, late)
  PROVE  /\ Differs(s, t, {"probe", "preProbe", "preProbeNonPaused"}) /\ ProbeInv(t)
         /\ t.probe = "Probing" =>
              t.preProbe = s.subscribed /\ t.preProbeNonPaused = s.nonPaused
         /\ new = "Not Probing" => t.probe = "Not Probing"
<1>1. CASE new = "Not Probing"
  <2>1. t = [s EXCEPT !.probe = new]  BY <1>1 DEF ProbeState
  <2>2. /\ Differs(s, t, {"probe", "preProbe", "preProbeNonPaused"}) /\ t.probe = new
        /\ t.preProbe = s.preProbe /\ t.preProbeNonPaused = s.preProbeNonPaused
    BY <2>1 DEF Differs, IsState, Fields
  <2> QED  BY <1>1, <2>2 DEF ProbeInv
<1>2. CASE new = "Probe Pending" /\ late
  <2>1. t = [s EXCEPT !.probe = new]  BY <1>2 DEF ProbeState
  <2>2. /\ Differs(s, t, {"probe", "preProbe", "preProbeNonPaused"}) /\ t.probe = new
        /\ t.preProbe = s.preProbe /\ t.preProbeNonPaused = s.preProbeNonPaused
    BY <2>1 DEF Differs, IsState, Fields
  <2> QED  BY <1>2, <2>2 DEF ProbeInv
<1>3. CASE new = "Probing" /\ late
  <2>1. t = [s EXCEPT !.probe = new, !.preProbe = s.subscribed, !.preProbeNonPaused = s.nonPaused]
    BY <1>3 DEF ProbeState
  <2>2. /\ Differs(s, t, {"probe", "preProbe", "preProbeNonPaused"}) /\ t.probe = new
        /\ t.preProbe = s.subscribed /\ t.preProbeNonPaused = s.nonPaused
    BY <2>1 DEF Differs, IsState, Fields
  <2> QED  BY <1>3, <2>2 DEF ProbeInv, ChoiceInv
<1>4. CASE new # "Not Probing" /\ ~late
  <2>1. t = s  BY <1>4 DEF ProbeState
  <2> QED  BY <1>4, <2>1 DEF Differs
<1> QED  BY <1>1, <1>2, <1>3, <1>4

(* What a calculation comes to: a new choice, which may start a probe; what    *)
(* was received, where a probe goes on or there is none; or, after a probe,    *)
(* what was received before it.                                              *)
Rest == {"startup", "estimated", "prevTarget", "usingPrev", "baseline", "probeFailed",
         "probe", "preProbe", "preProbeNonPaused"}
NewChoice(s, t, chosen, there, same) ==
  /\ chosen \subseteq there /\ Choice(chosen)
  /\ t.probe = "Probing" => /\ same /\ s.probe # "Probing"
                            /\ t.preProbe = s.subscribed /\ t.preProbeNonPaused = s.nonPaused
OldChoice(s, t, same) == same /\ (SameProbe(s, t) \/ (s.probe # "Probing" /\ t.probe # "Probing"))
Fallback(s, t, same) ==
  /\ same /\ s.probe = "Probing" /\ t.probe = "Not Probing"
  /\ t.preProbe = s.preProbe /\ t.preProbeNonPaused = s.preProbeNonPaused
ChoiceOK(s, t, use, chosen, there, same) ==
  /\ Differs(s, t, Rest) /\ ProbeInv(t) /\ RateInv(t)
  /\ \/ use = "NewOptimal" /\ NewChoice(s, t, chosen, there, same)
     \/ use = "PreviousOptimal" /\ OldChoice(s, t, same)
     \/ use = "PreProbe" /\ Fallback(s, t, same)

(* While a probe is on. *)
LEMMA HandleProbeOf ==
  ASSUME NEW s, IsState(s), ProbeInv(s), RateInv(s), s.probe = "Probing",
         NEW r, NEW there, r.chosen \subseteq there, Choice(r.chosen),
         NEW target, NEW paused, NEW timeout, NEW c, c = handleProbe(s, r, target, paused, timeout)
  PROVE  ChoiceOK(s, c.state, c.use, c.chosen, there, TRUE)
<1> DEFINE over == [s EXCEPT !.probe = "Not Probing"]
           failed == [over EXCEPT !.probeFailed = TRUE]
<1>1. /\ Differs(s, over, Rest) /\ RateInv(over) /\ over.probe = "Not Probing"
      /\ over.preProbe = s.preProbe /\ over.preProbeNonPaused = s.preProbeNonPaused
  BY DEF Differs, IsState, Fields, Rest, RateInv
<1>2. IsState(over)  BY <1>1 DEF Differs
<1> HIDE DEF over
<1>3. /\ Differs(over, failed, Rest) /\ RateInv(failed) /\ failed.probe = "Not Probing"
      /\ failed.preProbe = s.preProbe /\ failed.preProbeNonPaused = s.preProbeNonPaused
  BY <1>1, <1>2 DEF Differs, IsState, Fields, Rest, RateInv
<1> HIDE DEF failed
<1>4. Differs(s, failed, Rest) /\ ProbeInv(failed) /\ ProbeInv(over)
  BY <1>1, <1>3 DEF Differs, ProbeInv
<1>5. \/ c = [use |-> "NewOptimal", state |-> over, chosen |-> r.chosen]
      \/ c = [use |-> "PreProbe", state |-> failed, chosen |-> r.chosen]
      \/ c = [use |-> "PreviousOptimal", state |-> s, chosen |-> r.chosen]
  BY DEF handleProbe, over, failed
<1>6. CASE c = [use |-> "NewOptimal", state |-> over, chosen |-> r.chosen]
  <2>1. c.use = "NewOptimal" /\ c.state = over /\ c.chosen = r.chosen  BY <1>6
  <2>2. NewChoice(s, over, r.chosen, there, TRUE)  BY <1>1 DEF NewChoice
  <2> QED  BY <1>1, <1>4, <2>1, <2>2 DEF ChoiceOK
<1>7. CASE c = [use |-> "PreProbe", state |-> failed, chosen |-> r.chosen]
  <2>1. c.use = "PreProbe" /\ c.state = failed  BY <1>7
  <2>2. Fallback(s, failed, TRUE)  BY <1>3 DEF Fallback
  <2> QED  BY <1>3, <1>4, <2>1, <2>2 DEF ChoiceOK
<1>8. CASE c = [use |-> "PreviousOptimal", state |-> s, chosen |-> r.chosen]
  <2>1. c.use = "PreviousOptimal" /\ c.state = s  BY <1>8
  <2>2. OldChoice(s, s, TRUE) /\ Differs(s, s, Rest)  BY DEF OldChoice, SameProbe, Differs
  <2> QED  BY <2>1, <2>2 DEF ChoiceOK
<1> QED  BY <1>5, <1>6, <1>7, <1>8

(* While there is none, and an upgrade could not be afforded. *)
LEMMA MaybeProbeOf ==
  ASSUME NEW s, IsState(s), ProbeInv(s), ChoiceInv(s), RateInv(s), s.probe # "Probing",
         NEW r, NEW there, there \subseteq Streams, r.chosen \subseteq there, Choice(r.chosen),
         r.upgrade \in there, NEW target \in Nat, NEW late,
         NEW c, c = maybeOverrideOrProbe(s, r, target, late)
  PROVE  ChoiceOK(s, c.state, c.use, c.chosen, there, TRUE)
<1> DEFINE same == r.chosen = s.nonPaused
           base == IF s.baseline = 0 THEN s.prevTarget ELSE s.baseline
           distance == IF target > base THEN target - base ELSE base - target
           keep == ~same /\ 100 * distance < target * (IF target > 3 THEN 15 ELSE 30)
           use == IF keep THEN "PreviousOptimal" ELSE "NewOptimal"
           b == IF keep THEN base ELSE target
           t == [s EXCEPT !.baseline = b]
           upgraded == {y \in r.chosen : Attendee[y] # Attendee[r.upgrade]} \cup {r.upgrade}
           next == IF ~(same \/ keep) \/ s.lossGrew THEN "Not Probing"
                   ELSE IF s.probe = "Not Probing" THEN "Probe Pending" ELSE "Probing"
           u == ProbeState(t, next, late)
<1>1. c = IF u.probe = "Probing"
          THEN [use |-> "NewOptimal", state |-> u, chosen |-> upgraded]
          ELSE [use |-> use, state |-> u, chosen |-> r.chosen]
  BY DEF maybeOverrideOrProbe
<1>2. b \in Nat
  <2>1. base \in Nat  BY DEF RateInv
  <2> HIDE DEF base, keep
  <2> QED  BY <2>1
<1>3. Choice(upgraded) /\ upgraded \subseteq there
  BY DEF Choice, Single
<1>4. /\ next \in {"Not Probing", "Probe Pending", "Probing"}
      /\ use \in {"PreviousOptimal", "NewOptimal"}
  OBVIOUS
<1> HIDE DEF b, upgraded, next, use
<1>5. /\ Differs(s, t, {"baseline"}) /\ t.baseline = b /\ t.report = s.report
      /\ t.prevTarget = s.prevTarget /\ t.optimal = s.optimal /\ t.nonPaused = s.nonPaused
      /\ t.subscribed = s.subscribed /\ SameProbe(s, t) /\ IsState(t)
  BY DEF Differs, IsState, Fields, SameProbe
<1> HIDE DEF t
<1>6. RateInv(t) /\ ProbeInv(t) /\ ChoiceInv(t) /\ t.probe # "Probing"
  BY <1>2, <1>5 DEF RateInv, ProbeInv, ChoiceInv, SameProbe
<1>7. /\ Differs(t, u, {"probe", "preProbe", "preProbeNonPaused"}) /\ ProbeInv(u)
      /\ u.probe = "Probing" => u.preProbe = t.subscribed /\ u.preProbeNonPaused = t.nonPaused
  <2>1. u = ProbeState(t, next, late)  OBVIOUS
  <2>2. IsState(t) /\ ProbeInv(t) /\ ChoiceInv(t) /\ t.probe # "Probing"  BY <1>5, <1>6
  <2>3. next \in {"Not Probing", "Probe Pending", "Probing"}  BY <1>4
  <2> HIDE DEF u, same, base, distance, keep
  <2> QED  BY <2>1, <2>2, <2>3, ProbeStateOf
<1> HIDE DEF u
<1>8. Differs(s, u, Rest)  BY <1>5, <1>7 DEF Differs, Rest
<1>9. RateInv(u)
  <2>1. u.report = t.report /\ u.prevTarget = t.prevTarget /\ u.baseline = t.baseline
    BY <1>7 DEF Differs, Fields
  <2> QED  BY <1>6, <2>1 DEF RateInv
<1>10. CASE u.probe = "Probing"
  <2>1. c.use = "NewOptimal" /\ c.state = u /\ c.chosen = upgraded  BY <1>1, <1>10
  <2>2. NewChoice(s, u, upgraded, there, TRUE)  BY <1>3, <1>5, <1>7, <1>10 DEF NewChoice
  <2> QED  BY <1>7, <1>8, <1>9, <2>1, <2>2 DEF ChoiceOK
<1>11. CASE u.probe # "Probing"
  <2>1. c.use = use /\ c.state = u /\ c.chosen = r.chosen  BY <1>1, <1>11
  <2>2. NewChoice(s, u, r.chosen, there, TRUE)  BY <1>11 DEF NewChoice
  <2>3. OldChoice(s, u, TRUE)  BY <1>11 DEF OldChoice
  <2> QED  BY <1>4, <1>7, <1>8, <1>9, <2>1, <2>2, <2>3 DEF ChoiceOK
<1> QED  BY <1>10, <1>11

-----------------------------------------------------------------------------
(* What comes of a choice. *)

(* A step that only changes what the invariant is not about, but for rates.    *)
LEMMA ExistFrame ==
  ASSUME NEW s, NEW t, SameInput(s, t), SameChoice(s, t), SameMemory(s, t), SameProbe(s, t),
         t.pausedBw = s.pausedBw, ExistInv(s)
  PROVE  ExistInv(t) /\ (Counted(s) => Counted(t))
<1>1. \A x : /\ Known(t, x) <=> Known(s, x)
             /\ Exists(t, x) <=> Exists(s, x)
             /\ Recalled(t, x) <=> Recalled(s, x)
  BY DEF Known, Exists, Recalled, Wanted, SameInput, SameMemory, SameProbe
<1>2. \A O, N : Agree(t, O, N) <=> Agree(s, O, N)  BY <1>1 DEF Agree
<1> QED  BY <1>1, <1>2 DEF ExistInv, Counted, SameInput, SameChoice, SameMemory, SameProbe

(* Types do not notice it either. *)
LEMMA TypeFrame ==
  ASSUME NEW s, NEW t, IsState(t), SameTiles(s, t), SameInput(s, t), SameChoice(s, t),
         t.prevInfos = s.prevInfos, SameProbe(s, t), RateInv(t), TypeInv(s)
  PROVE  TypeInv(t)
<1>1. TileInv(t)  BY TileFrame DEF TypeInv
<1>2. ChoiceInv(t) /\ ProbeInv(t) /\ InputInv(t)
  BY DEF TypeInv, ChoiceInv, ProbeInv, InputInv, SameInput, SameChoice, SameProbe
<1> QED  BY <1>1, <1>2 DEF TypeInv

(* The index has streams. *)
LEMMA IndexIs == \A s : InputInv(s) => s.index \in SUBSET Streams
BY PolicyAssumption DEF InputInv

(* What was received before a probe does not matter once it is over. *)
LEMMA ForgetOf ==
  ASSUME NEW s, TypeInv(s), ExistInv(s), Counted(s), NEW t, t = ForgetProbe(s)
  PROVE  TypeInv(t) /\ ExistInv(t) /\ Counted(t)
<1>1. CASE s.probe = "Probing"  BY <1>1 DEF ForgetProbe
<1>2. CASE s.probe # "Probing"
  <2>1. t = [s EXCEPT !.preProbe = {}, !.preProbeNonPaused = {}]  BY <1>2 DEF ForgetProbe
  <2>2. /\ Differs(s, t, {"preProbe", "preProbeNonPaused"}) /\ t.preProbe = {}
        /\ t.preProbeNonPaused = {}
    BY <2>1 DEF Differs, IsState, Fields, TypeInv
  <2>3. /\ SameTiles(s, t) /\ SameInput(s, t) /\ SameChoice(s, t) /\ SameMemory(s, t)
        /\ SameRates(s, t) /\ IsState(t) /\ t.probe = s.probe
    BY <2>2 DEF Differs, Fields, SameTiles, SameInput, SameChoice, SameMemory, SameRates
  <2>4. TileInv(t)  BY <2>3, TileFrame DEF TypeInv
  <2>5. ChoiceInv(t) /\ InputInv(t) /\ RateInv(t)
    BY <2>3 DEF TypeInv, ChoiceInv, InputInv, RateInv, SameInput, SameChoice, SameRates
  <2>6. ProbeInv(t)  BY <2>2, <2>3 DEF TypeInv, ProbeInv, Choice, Single
  <2>7. TypeInv(t)
    <3>1. t.prevInfos = s.prevInfos  BY <2>3 DEF SameMemory
    <3> QED  BY <2>3, <2>4, <2>5, <2>6, <3>1 DEF TypeInv
  <2>8. \A x : Known(t, x) <=> Known(s, x)  BY <2>3 DEF Known, SameInput, SameMemory
  <2>9. \A O, N : Agree(t, O, N) <=> Agree(s, O, N)  BY <2>8 DEF Agree
  <2>10. \A x : Exists(t, x) <=> Exists(s, x)  BY <2>3, <2>8 DEF Exists, SameTiles
  <2>11. ExistInv(t)  BY <1>2, <2>3, <2>9, <2>10 DEF ExistInv, SameInput, SameChoice
  <2>12. Counted(t)  BY <2>3 DEF Counted, SameInput, SameChoice, SameMemory
  <2> QED  BY <2>7, <2>11, <2>12
<1> QED  BY <1>1, <1>2

(* Where a calculation is when it has got its choice: what it counted is        *)
(* remembered.                                                               *)
Ready(s, d, infos) ==
  /\ TypeInv(d) /\ SameTiles(s, d) /\ SameInput(s, d) /\ SameChoice(s, d)
  /\ d.prevInfos = infos /\ d.updated = FALSE /\ infos \subseteq d.index
(* Nothing has changed since the calculation before. *)
Unchanged(s, infos) == s.prevInfos = infos /\ ~s.updated

(* When nothing has changed the same is known as before. *)
LEMMA KnownAgain ==
  ASSUME NEW s, NEW d, NEW infos, Ready(s, d, infos), Unchanged(s, infos)
  PROVE  /\ \A x : (Known(d, x) <=> Known(s, x)) /\ (Exists(d, x) <=> Exists(s, x))
         /\ \A O, N : Agree(d, O, N) <=> Agree(s, O, N)
         /\ \A x : SameProbe(s, d) => (Recalled(d, x) <=> Recalled(s, x))
<1>1. \A x : Known(d, x) <=> Known(s, x)
  BY DEF Ready, Unchanged, Known, SameInput
<1>2. \A x : Exists(d, x) <=> Exists(s, x)  BY <1>1 DEF Exists, Ready, SameTiles
<1>3. \A O, N : Agree(d, O, N) <=> Agree(s, O, N)  BY <1>1 DEF Agree
<1>4. ASSUME SameProbe(s, d), NEW x PROVE Recalled(d, x) <=> Recalled(s, x)
  <2>1. \A a : Wanted(d, a) <=> Wanted(s, a)  BY DEF Wanted, Ready, SameInput
  <2>2. d.prevInfos = s.prevInfos /\ d.updated = FALSE /\ ~s.updated /\ d.pausedBw = s.pausedBw
    BY DEF Ready, Unchanged, SameTiles
  <2> QED  BY <1>1, <1>4, <2>1, <2>2 DEF Recalled, SameProbe
<1> QED  BY <1>1, <1>2, <1>3, <1>4

(* What was received stays. *)
LEMMA OldOf ==
  ASSUME NEW s, ExistInv(s), NEW d, NEW infos, Ready(s, d, infos), Unchanged(s, infos),
         OldChoice(s, d, TRUE), NEW target \in Nat,
         NEW t, t = [d EXCEPT !.prevTarget = target]
  PROVE  TypeInv(t) /\ ExistInv(t) /\ Counted(t)
<1>1. ExistInv(d)
  <2>1. d.failures = s.failures /\ d.optimal = s.optimal /\ d.nonPaused = s.nonPaused
    BY DEF Ready, SameInput, SameChoice
  <2>2. CASE SameProbe(s, d)
    <3>1. /\ d.probe = s.probe /\ d.preProbe = s.preProbe
          /\ d.preProbeNonPaused = s.preProbeNonPaused
      BY <2>2 DEF SameProbe
    <3> QED  BY <2>1, <2>2, <3>1, KnownAgain DEF ExistInv
  <2>3. CASE s.probe # "Probing" /\ d.probe # "Probing"
    BY <2>1, <2>3, KnownAgain DEF ExistInv
  <2> QED  BY <2>2, <2>3 DEF OldChoice
<1>2. Counted(d)  BY DEF Ready, Counted
<1>3. Differs(d, t, {"prevTarget"}) /\ t.prevTarget = target
  BY DEF Differs, IsState, Fields, Ready, TypeInv
<1>4. /\ SameTiles(d, t) /\ SameInput(d, t) /\ SameChoice(d, t) /\ SameMemory(d, t)
      /\ SameProbe(d, t) /\ IsState(t) /\ t.report = d.report /\ t.baseline = d.baseline
      /\ t.prevInfos = d.prevInfos /\ t.pausedBw = d.pausedBw
  BY <1>3 DEF Differs, Fields, SameTiles, SameInput, SameChoice, SameMemory, SameProbe
<1>5. RateInv(t)  BY <1>3, <1>4 DEF RateInv, Ready, TypeInv
<1>6. TypeInv(t)  BY <1>4, <1>5, TypeFrame DEF Ready
<1>7. ExistInv(t) /\ Counted(t)  BY <1>1, <1>2, <1>4, ExistFrame
<1> QED  BY <1>6, <1>7

(* After a failed probe: what is received again is there, or its attendee is    *)
(* among those who are paused.                                               *)
PausesAfterProbe(d, infos) ==
  processBwPausedStreams([d EXCEPT !.optimal = d.preProbe], infos, d.preProbeNonPaused)
AfterProbe(s) == [s EXCEPT !.failures = IF @ < 2 THEN @ + 1 ELSE @]

(* The fallback keeps the invariant. *)
LEMMA FallbackOf ==
  ASSUME NEW s, ExistInv(s), NEW d, NEW infos, Ready(s, d, infos), Unchanged(s, infos),
         Fallback(s, d, TRUE), NEW r, r = PausesAfterProbe(d, infos),
         NEW t, t = AfterProbe(r.state)
  PROVE  TypeInv(t) /\ ExistInv(t) /\ Counted(t)
<1> DEFINE e == [d EXCEPT !.optimal = d.preProbe]
           u == r.state
           prefs == getCurrentVideoPreferences(e)
           N == d.preProbeNonPaused
           W == {prefs[i].attendee : i \in DOMAIN prefs}
<1>1. Differs(d, e, {"optimal"}) /\ e.optimal = d.preProbe
  BY DEF Differs, IsState, Fields, Ready, TypeInv
<1>2. /\ SameTiles(d, e) /\ SameInput(d, e) /\ SameMemory(d, e) /\ SameProbe(d, e)
      /\ SameRates(d, e) /\ IsState(e) /\ e.nonPaused = d.nonPaused
  BY <1>1 DEF Differs, Fields, SameTiles, SameInput, SameMemory, SameProbe, SameRates
<1>3. /\ TileInv(e) /\ Choice(e.optimal) /\ e.index \in SUBSET Streams /\ Choice(N)
      /\ e.preferences \in Preferences \cup {NoPreferences} /\ infos \in SUBSET Streams
  <2>1. TileInv(e)  BY <1>2, TileFrame DEF Ready, TypeInv
  <2>2. Choice(e.optimal) /\ Choice(N)  BY <1>1 DEF Ready, TypeInv, ProbeInv
  <2>3. d.index \in SUBSET Streams  BY IndexIs DEF Ready, TypeInv
  <2>4. /\ e.index \in SUBSET Streams /\ infos \in SUBSET Streams
        /\ e.preferences \in Preferences \cup {NoPreferences}
    BY <1>2, <2>3 DEF SameInput, Ready, TypeInv, InputInv
  <2> QED  BY <2>1, <2>2, <2>4
<1>4. Pausing(r, e, infos, N, W)
  <2>1. r = processBwPausedStreams(e, infos, N)  BY DEF PausesAfterProbe
  <2> HIDE DEF e, N
  <2> QED  BY <1>2, <1>3, <2>1, PausesOf
<1> HIDE DEF e
<1>5. Differs(e, u, {"tiles", "serverPaused", "pausedBw"}) /\ TileInv(u)
  BY <1>4 DEF Pausing
<1>6. /\ SameInput(e, u) /\ SameMemory(e, u) /\ SameProbe(e, u) /\ SameRates(e, u)
      /\ SameChoice(e, u) /\ IsState(u)
  BY <1>5 DEF Differs, Fields, SameInput, SameMemory, SameProbe, SameRates, SameChoice
<1>7. d.failures \in {0, 1, 2} /\ u.failures = d.failures
  BY <1>2, <1>6 DEF Ready, TypeInv, InputInv, SameInput
<1>8. /\ Differs(u, t, {"failures"})
      /\ t.failures = IF d.failures < 2 THEN d.failures + 1 ELSE d.failures
  <2>1. t = [u EXCEPT !.failures = IF u.failures < 2 THEN u.failures + 1 ELSE u.failures]
    BY <1>6 DEF IsState, Fields, AfterProbe
  <2> DEFINE k == IF u.failures < 2 THEN u.failures + 1 ELSE u.failures
  <2>2. t = [u EXCEPT !.failures = k]  BY <2>1
  <2> HIDE DEF k, u
  <2>3. Differs(u, t, {"failures"}) /\ t.failures = k
    BY <1>6, <2>2 DEF Differs, IsState, Fields
  <2> QED  BY <1>7, <2>3 DEF k
<1>9. t.failures # 0 /\ (t.failures < 2 => d.failures = 0)
  <2> DEFINE f == d.failures
             g == t.failures
  <2>1. f \in {0, 1, 2} /\ g = IF f < 2 THEN f + 1 ELSE f  BY <1>7, <1>8
  <2> HIDE DEF f, g
  <2>2. g # 0 /\ (g < 2 => f = 0)  BY <2>1
  <2> QED  BY <2>2 DEF f, g
<1> HIDE DEF u
<1>10. /\ SameTiles(u, t) /\ SameMemory(u, t) /\ SameProbe(u, t) /\ SameRates(u, t)
      /\ SameChoice(u, t) /\ IsState(t) /\ t.index = u.index /\ t.preferences = u.preferences
      /\ t.uncounted = u.uncounted /\ t.subscribed = u.subscribed
  BY <1>8 DEF Differs, Fields, SameTiles, SameMemory, SameProbe, SameRates, SameChoice
<1>11. /\ t.index = d.index /\ t.preferences = d.preferences /\ t.uncounted = d.uncounted
       /\ t.subscribed = d.subscribed /\ t.optimal = d.preProbe /\ t.nonPaused = d.nonPaused
       /\ t.probe = d.probe /\ t.preProbe = d.preProbe
       /\ t.preProbeNonPaused = d.preProbeNonPaused /\ t.prevInfos = infos
       /\ t.report = d.report /\ t.prevTarget = d.prevTarget /\ t.baseline = d.baseline
       /\ t.pausedBw = u.pausedBw
  BY <1>1, <1>2, <1>6, <1>10
     DEF SameInput, SameMemory, SameProbe, SameRates, SameChoice, SameTiles, Ready
<1>12. TypeInv(t)
  <2>1. TileInv(t)  BY <1>5, <1>10, TileFrame
  <2>2. t.failures \in {0, 1, 2}  BY <1>7, <1>8
  <2>3. ChoiceInv(t) /\ ProbeInv(t) /\ InputInv(t) /\ RateInv(t)
    BY <1>11, <2>2 DEF Ready, TypeInv, ChoiceInv, ProbeInv, InputInv, RateInv
  <2> QED  BY <1>3, <1>10, <1>11, <2>1, <2>3 DEF TypeInv
<1>13. Counted(t)  BY <1>11 DEF Counted, Ready
<1>14. ASSUME t.failures < 2, NEW x \in t.optimal PROVE Exists(t, x)
  <2> DEFINE a == Attendee[x]
  <2>1. s.failures = 0 /\ s.probe = "Probing"
    BY <1>14, <1>9 DEF Ready, SameInput, Fallback
  <2>2. Agree(s, d.preProbe, N) /\ x \in d.preProbe /\ Recalled(s, x)
    BY <1>11, <1>14, <2>1 DEF ExistInv, Fallback
  <2>3. \A y : Known(s, y) => Known(t, y)
    BY <1>11 DEF Known, Unchanged, Ready, SameInput
  <2>4. CASE Known(s, x)  BY <2>3, <2>4 DEF Exists
  <2>5. CASE Of(N, a) # {}
    <3>1. PICK z \in N : Attendee[z] = a  BY <2>5 DEF Of
    <3>2. x \in N  BY <2>2, <3>1 DEF Agree
    <3>3. Known(s, x)  BY <2>2, <3>2 DEF Agree
    <3> QED  BY <2>3, <3>3 DEF Exists
  <2>6. CASE a \in s.pausedBw /\ Of(N, a) = {}
    <3>1. a \in e.pausedBw  BY <1>2, <2>6 DEF Ready, SameTiles
    <3>2. a \in u.pausedBw
      <4>1. CASE a \in W  BY <1>4, <2>6, <3>1, <4>1 DEF Pausing, u
      <4>2. CASE a \notin W  BY <1>4, <3>1, <4>2 DEF Pausing, u
      <4> QED  BY <4>1, <4>2
    <3> QED  BY <1>11, <3>2 DEF Exists
  <2>7. CASE Of(N, a) = {} /\ a \in From(s.prevInfos) /\ (s.updated \/ Wanted(s, a))
    <3>1. a \in From(infos) /\ Wanted(s, a)  BY <2>7 DEF Unchanged
    <3>2. a \in W
      <4>1. e.preferences = s.preferences /\ e.index = d.index
        BY <1>2 DEF SameInput, Ready
      <4>2. CASE s.preferences = NoPreferences
        <5>1. W = From(e.index)
          <6>1. \A q : q = getCurrentVideoPreferences(e) =>
                  {q[i].attendee : i \in DOMAIN q} = From(e.index)
            BY <1>3, <4>1, <4>2, CurrentPreferences
          <6> QED  BY <6>1
        <5>2. a \in From(d.index)  BY <3>1 DEF From, Ready
        <5> QED  BY <4>1, <5>1, <5>2
      <4>3. CASE s.preferences # NoPreferences
        <5>1. prefs = s.preferences  BY <4>1, <4>3 DEF getCurrentVideoPreferences
        <5>2. \E i \in DOMAIN s.preferences : s.preferences[i].attendee = a
          BY <3>1, <4>3 DEF Wanted
        <5> HIDE DEF prefs, a
        <5> QED  BY <5>1, <5>2
      <4> QED  BY <4>2, <4>3
    <3>3. a \in u.pausedBw  BY <1>4, <2>7, <3>1, <3>2 DEF Pausing, u
    <3> QED  BY <1>11, <3>3 DEF Exists
  <2>8. N = s.preProbeNonPaused  BY DEF Fallback
  <2> QED  BY <2>2, <2>4, <2>5, <2>6, <2>7, <2>8 DEF Recalled
<1>15. t.failures # 0 /\ t.probe # "Probing"
  <2>1. t.probe = "Not Probing"  BY <1>11 DEF Fallback
  <2> QED  BY <1>9, <2>1
<1>16. ExistInv(t)  BY <1>14, <1>15 DEF ExistInv
<1> QED  BY <1>12, <1>13, <1>16

(* A new choice: it is there, and what is kept beside it for the tiles is of     *)
(* attendees who are paused.                                                 *)
PausesOfNew(d, infos, chosen) ==
  processBwPausedStreams([d EXCEPT !.nonPaused = chosen], infos, chosen)
NewState(d, r, target) ==
  [r.state EXCEPT !.optimal = r.chosen, !.prevTarget = target,
                  !.failures = IF d.probe = "Probing" THEN @ ELSE 0]

(* The new choice keeps the invariant. *)
LEMMA NewOf ==
  ASSUME NEW s, TypeInv(s), ExistInv(s), s.subscribed = s.optimal,
         NEW infos, NEW kept, \A y \in kept : Attendee[y] \notin s.pausedBw,
         NEW d, Ready(s, d, infos), kept \subseteq d.index, NEW same, same => Unchanged(s, infos),
         NEW chosen, NewChoice(s, d, chosen, infos \cup kept, same), NEW target \in Nat,
         NEW r, r = PausesOfNew(d, infos, chosen), NEW t, t = NewState(d, r, target)
  PROVE  TypeInv(t) /\ ExistInv(t) /\ Counted(t)
<1> DEFINE e == [d EXCEPT !.nonPaused = chosen]
           u == r.state
           prefs == getCurrentVideoPreferences(e)
           W == {prefs[i].attendee : i \in DOMAIN prefs}
           k == IF d.probe = "Probing" THEN u.failures ELSE 0
<1>1. Differs(d, e, {"nonPaused"}) /\ e.nonPaused = chosen
  BY DEF Differs, IsState, Fields, Ready, TypeInv
<1>2. /\ SameTiles(d, e) /\ SameInput(d, e) /\ SameMemory(d, e) /\ SameProbe(d, e)
      /\ SameRates(d, e) /\ IsState(e) /\ e.optimal = d.optimal
  BY <1>1 DEF Differs, Fields, SameTiles, SameInput, SameMemory, SameProbe, SameRates
<1>3. /\ TileInv(e) /\ Choice(e.optimal) /\ e.index \in SUBSET Streams /\ Choice(chosen)
      /\ e.preferences \in Preferences \cup {NoPreferences} /\ infos \in SUBSET Streams
  <2>1. TileInv(e)  BY <1>2, TileFrame DEF Ready, TypeInv
  <2>2. Choice(e.optimal) /\ Choice(chosen)  BY <1>2 DEF Ready, TypeInv, ChoiceInv, NewChoice
  <2>3. d.index \in SUBSET Streams  BY IndexIs DEF Ready, TypeInv
  <2>4. /\ e.index \in SUBSET Streams /\ infos \in SUBSET Streams
        /\ e.preferences \in Preferences \cup {NoPreferences}
    BY <1>2, <2>3 DEF SameInput, Ready, TypeInv, InputInv
  <2> QED  BY <2>1, <2>2, <2>4
<1>4. Pausing(r, e, infos, chosen, W)
  <2>1. r = processBwPausedStreams(e, infos, chosen)  BY DEF PausesOfNew
  <2> HIDE DEF e
  <2> QED  BY <1>2, <1>3, <2>1, PausesOf
<1> HIDE DEF e
<1>5. Differs(e, u, {"tiles", "serverPaused", "pausedBw"}) /\ TileInv(u)
  BY <1>4 DEF Pausing
<1>6. /\ SameInput(e, u) /\ SameMemory(e, u) /\ SameProbe(e, u) /\ SameRates(e, u)
      /\ SameChoice(e, u) /\ IsState(u)
  BY <1>5 DEF Differs, Fields, SameInput, SameMemory, SameProbe, SameRates, SameChoice
<1>7. Differs(u, t, {"optimal", "prevTarget", "failures"}) /\ t.optimal = r.chosen
      /\ t.prevTarget = target /\ t.failures = k
  <2>1. t = [u EXCEPT !.optimal = r.chosen, !.prevTarget = target, !.failures = k]
    BY <1>6 DEF IsState, Fields, NewState
  <2> HIDE DEF k, u
  <2> QED  BY <1>6, <2>1 DEF Differs, IsState, Fields
<1>8. d.failures \in {0, 1, 2} /\ u.failures = d.failures /\ d.failures = s.failures
  BY <1>2, <1>6 DEF Ready, TypeInv, InputInv, SameInput
<1>9. t.failures = IF d.probe = "Probing" THEN s.failures ELSE 0  BY <1>7, <1>8
<1> HIDE DEF u, k
<1>10. /\ SameTiles(u, t) /\ SameMemory(u, t) /\ SameProbe(u, t) /\ IsState(t)
       /\ t.nonPaused = u.nonPaused /\ t.report = u.report /\ t.baseline = u.baseline
       /\ t.index = u.index /\ t.preferences = u.preferences
       /\ t.uncounted = u.uncounted /\ t.subscribed = u.subscribed
  BY <1>7 DEF Differs, Fields, SameTiles, SameMemory, SameProbe
<1>11. /\ t.index = d.index /\ t.preferences = d.preferences /\ t.uncounted = d.uncounted
       /\ t.subscribed = d.subscribed /\ t.nonPaused = chosen
       /\ t.probe = d.probe /\ t.preProbe = d.preProbe
       /\ t.preProbeNonPaused = d.preProbeNonPaused /\ t.prevInfos = infos
       /\ t.report = d.report /\ t.baseline = d.baseline
       /\ t.pausedBw = u.pausedBw
  BY <1>1, <1>2, <1>6, <1>10
     DEF SameInput, SameMemory, SameProbe, SameRates, SameChoice, SameTiles, Ready
<1>12. /\ chosen \subseteq r.chosen /\ r.chosen \subseteq chosen \cup d.optimal
       /\ Single(r.chosen) /\ \A x \in r.chosen \ chosen : Attendee[x] \in u.pausedBw
  BY <1>2, <1>4 DEF Pausing, u
<1>13. TypeInv(t)
  <2>1. TileInv(t)  BY <1>5, <1>10, TileFrame
  <2>2. t.failures \in {0, 1, 2}  BY <1>8, <1>9
  <2>3. Choice(t.optimal)
    <3>1. chosen \subseteq Streams /\ d.optimal \subseteq Streams
      BY <1>2, <1>3 DEF Choice
    <3> QED  BY <1>7, <1>12, <3>1 DEF Choice
  <2>4. ChoiceInv(t) /\ ProbeInv(t) /\ InputInv(t) /\ RateInv(t)
    BY <1>3, <1>7, <1>11, <2>2, <2>3
       DEF Ready, TypeInv, ChoiceInv, ProbeInv, InputInv, RateInv
  <2> QED  BY <1>3, <1>10, <1>11, <2>1, <2>4 DEF TypeInv
<1>14. Counted(t)  BY <1>11 DEF Counted, Ready
<1>15. \A x \in chosen : Known(t, x)
  BY <1>11 DEF NewChoice, Known, Ready
<1>16. \A x \in t.optimal : Exists(t, x)
  BY <1>7, <1>11, <1>12, <1>15 DEF Exists
<1>17. Agree(t, t.optimal, t.nonPaused)
  BY <1>7, <1>11, <1>12, <1>15 DEF Agree, Single
<1>18. ASSUME t.failures = 0, t.probe = "Probing"
       PROVE  Agree(t, t.preProbe, t.preProbeNonPaused) /\ \A x \in t.preProbe : Recalled(t, x)
  <2>1. /\ d.probe = "Probing" /\ s.failures = 0 /\ s.probe # "Probing" /\ Unchanged(s, infos)
        /\ t.preProbe = s.optimal /\ t.preProbeNonPaused = s.nonPaused
    BY <1>9, <1>11, <1>18 DEF NewChoice
  <2>2. Agree(s, s.optimal, s.nonPaused) /\ \A x \in s.optimal : Exists(s, x)
    BY <2>1 DEF ExistInv
  <2>3. \A x : Known(t, x) <=> Known(s, x)
    BY <1>11, <2>1 DEF Known, Unchanged, Ready, SameInput
  <2>4. Agree(t, t.preProbe, t.preProbeNonPaused)  BY <2>1, <2>2, <2>3 DEF Agree
  <2>5. ASSUME NEW x \in s.optimal PROVE Recalled(t, x)
    <3> DEFINE a == Attendee[x]
    <3>1. CASE Known(s, x)  BY <2>3, <3>1 DEF Recalled
    <3>2. CASE a \in t.pausedBw  BY <3>2 DEF Recalled
    <3>3. CASE ~Known(s, x) /\ a \notin t.pausedBw
      <4>1. a \in s.pausedBw  BY <2>2, <3>3 DEF Exists
      <4>2. a \in e.pausedBw /\ a \notin u.pausedBw
        BY <1>2, <1>11, <3>3, <4>1 DEF Ready, SameTiles
      <4>3. a \in W /\ Of(chosen, a) # {}
        <5> HIDE DEF W
        <5> QED  BY <1>4, <4>2 DEF Pausing, u
      <4>4. PICK z \in chosen : Attendee[z] = a  BY <4>3 DEF Of
      <4>5. z \in infos  BY <4>1, <4>4 DEF NewChoice
      <4>6. a \in From(t.prevInfos)  BY <1>11, <4>4, <4>5 DEF From
      <4>7. Of(t.preProbeNonPaused, a) = {}
        <5>1. SUFFICES ASSUME NEW y \in s.nonPaused, Attendee[y] = a PROVE FALSE
          BY <2>1 DEF Of
        <5>2. x \in s.nonPaused  BY <2>2, <5>1 DEF Agree
        <5> QED  BY <2>2, <3>3, <5>2 DEF Agree
      <4>8. Wanted(t, a)
        <5>1. e.preferences = t.preferences  BY <1>2, <1>11 DEF SameInput
        <5>2. CASE t.preferences = NoPreferences  BY <5>2 DEF Wanted
        <5>3. CASE t.preferences # NoPreferences
          <6>1. prefs = t.preferences  BY <5>1, <5>3 DEF getCurrentVideoPreferences
          <6> HIDE DEF prefs, a
          <6>2. \E i \in DOMAIN prefs : prefs[i].attendee = a  BY <4>3
          <6> QED  BY <6>1, <6>2 DEF Wanted
        <5> QED  BY <5>2, <5>3
      <4> QED  BY <4>6, <4>7, <4>8 DEF Recalled
    <3> QED  BY <3>1, <3>2, <3>3
  <2> QED  BY <2>1, <2>4, <2>5
<1>19. ExistInv(t)  BY <1>16, <1>17, <1>18 DEF ExistInv
<1> QED  BY <1>13, <1>14, <1>19

(* Whatever the choice. *)
LEMMA ApplyOf ==
  ASSUME NEW s, TypeInv(s), ExistInv(s), s.subscribed = s.optimal,
         NEW infos, NEW kept, infos \cup kept \subseteq s.index,
         \A y \in kept : Attendee[y] \notin s.pausedBw,
         NEW same, same => Unchanged(s, infos), NEW target \in Nat,
         NEW c, ChoiceOK(s, c.state, c.use, c.chosen, infos \cup kept, same),
         NEW d, d = [c.state EXCEPT !.prevInfos = infos, !.updated = FALSE],
         NEW u, u = ForgetProbe(Apply(d, c, target, infos))
  PROVE  TypeInv(u) /\ ExistInv(u) /\ Counted(u)
<1> DEFINE t == c.state
           v == Apply(d, c, target, infos)
<1>1. Differs(s, t, Rest) /\ ProbeInv(t) /\ RateInv(t)  BY DEF ChoiceOK
<1>2. /\ Differs(t, d, {"prevInfos", "updated"}) /\ d.prevInfos = infos /\ d.updated = FALSE
  BY <1>1 DEF Differs, IsState, Fields
<1> HIDE DEF t
<1>3. /\ SameTiles(t, d) /\ SameInput(t, d) /\ SameChoice(t, d) /\ SameProbe(t, d)
      /\ SameRates(t, d) /\ IsState(d)
  BY <1>2 DEF Differs, Fields, SameTiles, SameInput, SameChoice, SameProbe, SameRates
<1>4. SameTiles(s, t) /\ SameInput(s, t) /\ SameChoice(s, t)
  BY <1>1 DEF Differs, Fields, Rest, SameTiles, SameInput, SameChoice
<1>5. Ready(s, d, infos)
  <2>1. SameTiles(s, d) /\ SameInput(s, d) /\ SameChoice(s, d)
    BY <1>3, <1>4 DEF SameTiles, SameInput, SameChoice
  <2>2. TileInv(d)  BY <2>1, TileFrame DEF TypeInv
  <2>3. ProbeInv(d) /\ RateInv(d)
    BY <1>1, <1>3 DEF ProbeInv, RateInv, SameProbe, SameRates
  <2>4. ChoiceInv(d) /\ InputInv(d)
    BY <2>1 DEF TypeInv, ChoiceInv, InputInv, SameInput, SameChoice
  <2>5. infos \subseteq d.index  BY <2>1 DEF SameInput
  <2>6. infos \subseteq Streams  BY IndexIs DEF TypeInv
  <2>7. TypeInv(d)  BY <1>2, <1>3, <2>2, <2>3, <2>4, <2>6 DEF TypeInv
  <2> QED  BY <1>2, <2>1, <2>5, <2>7 DEF Ready
<1>6. d.probe = t.probe /\ d.preProbe = t.preProbe /\ d.preProbeNonPaused = t.preProbeNonPaused
  BY <1>3 DEF SameProbe
<1>7. TypeInv(v) /\ ExistInv(v) /\ Counted(v)
  <2>1. CASE c.use = "NewOptimal" /\ NewChoice(s, t, c.chosen, infos \cup kept, same)
    <3> DEFINE chosen == c.chosen
               r == PausesOfNew(d, infos, chosen)
    <3>1. v = NewState(d, r, target)  BY <2>1 DEF Apply, NewState, PausesOfNew
    <3>2. NewChoice(s, d, chosen, infos \cup kept, same)  BY <1>6, <2>1 DEF NewChoice
    <3>3. kept \subseteq d.index  BY <1>5 DEF Ready, SameInput
    <3>4. r = PausesOfNew(d, infos, chosen)  OBVIOUS
    <3> HIDE DEF chosen, r, v
    <3> QED  BY <1>5, <3>1, <3>2, <3>3, <3>4, NewOf
  <2>2. CASE c.use = "PreviousOptimal" /\ OldChoice(s, t, same)
    <3>1. v = [d EXCEPT !.prevTarget = target]  BY <2>2 DEF Apply
    <3>2. OldChoice(s, d, TRUE) /\ Unchanged(s, infos)
      BY <1>6, <2>2 DEF OldChoice, SameProbe
    <3> HIDE DEF v
    <3> QED  BY <1>5, <3>1, <3>2, OldOf
  <2>3. CASE c.use = "PreProbe" /\ Fallback(s, t, same)
    <3> DEFINE r == PausesAfterProbe(d, infos)
    <3>1. v = AfterProbe(r.state)  BY <2>3 DEF Apply, AfterProbe, PausesAfterProbe
    <3>2. Fallback(s, d, TRUE) /\ Unchanged(s, infos)  BY <1>6, <2>3 DEF Fallback
    <3>3. r = PausesAfterProbe(d, infos)  OBVIOUS
    <3> HIDE DEF r, v
    <3> QED  BY <1>5, <3>1, <3>2, <3>3, FallbackOf
  <2> QED  BY <2>1, <2>2, <2>3 DEF ChoiceOK, t
<1>8. u = ForgetProbe(v)  OBVIOUS
<1> HIDE DEF v
<1> QED  BY <1>7, <1>8, ForgetOf

-----------------------------------------------------------------------------
(* One calculation. *)

(* What is kept is of attendees who have no other stream to choose from. *)
Kept(s, kept, infos) ==
  /\ kept \subseteq s.subscribed
  /\ \A y \in kept : Attendee[y] \notin s.pausedBw /\ Attendee[y] \notin From(infos)

(* The choice is made of streams that are there. *)
LEMMA ChosenOf ==
  ASSUME NEW s, TypeInv(s), NEW infos, NEW kept, infos \cup kept \subseteq s.index,
         Kept(s, kept, infos), NEW target \in Nat,
         NEW r, r = priorityPolicy(target, getCurrentVideoPreferences(s), infos, kept)
  PROVE  /\ r.chosen \subseteq infos \cup kept /\ Choice(r.chosen)
         /\ r.delta # 0 => r.upgrade \in infos
<1> DEFINE prefs == getCurrentVideoPreferences(s)
<1>1. s.index \in SUBSET Streams  BY IndexIs DEF TypeInv
<1>2. infos \in SUBSET Streams /\ kept \in SUBSET Streams  BY <1>1
<1>3. Single(kept)  BY DEF Kept, TypeInv, ChoiceInv, Choice, Single
<1>4. PrefsOK(prefs)
  <2>1. prefs = getCurrentVideoPreferences(s)  OBVIOUS
  <2>2. s.preferences \in Preferences \cup {NoPreferences}  BY DEF TypeInv, InputInv
  <2> HIDE DEF prefs
  <2> QED  BY <1>1, <2>1, <2>2, CurrentPreferences
<1> HIDE DEF prefs
<1>5. r = priorityPolicy(target, prefs, infos, kept)  BY DEF prefs
<1>6. SelectionOK(r, infos, target) /\ r.chosen \subseteq infos \cup kept
  <2>1. \A y \in kept : Attendee[y] \notin From(infos)  BY DEF Kept
  <2> QED  BY <1>2, <1>3, <1>4, <1>5, <2>1, PolicyIsFair
<1> QED  BY <1>2, <1>6 DEF SelectionOK, Choice

(* A choice from a state that differs in what does not matter to it. *)
LEMMA ChoiceFrom ==
  ASSUME NEW s, NEW t, Differs(s, t, {"startup", "estimated", "prevTarget", "usingPrev",
                                      "probeFailed"}),
         NEW v, NEW use, NEW chosen, NEW there, NEW same, same,
         ChoiceOK(t, v, use, chosen, there, TRUE)
  PROVE  ChoiceOK(s, v, use, chosen, there, same)
<1>1. Differs(s, v, Rest)  BY DEF ChoiceOK, Differs, Rest
<1>2. SameProbe(s, t) /\ t.subscribed = s.subscribed /\ t.nonPaused = s.nonPaused
  BY DEF Differs, Fields, SameProbe
<1>3. NewChoice(t, v, chosen, there, TRUE) => NewChoice(s, v, chosen, there, same)
  BY <1>2 DEF NewChoice, SameProbe
<1>4. OldChoice(t, v, TRUE) => OldChoice(s, v, same)  BY <1>2 DEF OldChoice, SameProbe
<1>5. Fallback(t, v, TRUE) => Fallback(s, v, same)  BY <1>2 DEF Fallback, SameProbe
<1> QED  BY <1>1, <1>3, <1>4, <1>5 DEF ChoiceOK

(* A calculation that makes a choice keeps the invariant. *)
LEMMA DecideOf ==
  ASSUME NEW s, TypeInv(s), ExistInv(s), s.subscribed = s.optimal,
         NEW infos, NEW kept, infos \cup kept \subseteq s.index, Kept(s, kept, infos),
         NEW same, same => Unchanged(s, infos), NEW paused, NEW time,
         NEW u, u = Decide(s, kept, infos, paused, same, time)
  PROVE  TypeInv(u) /\ ExistInv(u) /\ Counted(u)
<1> DEFINE late == time \in {"late", "too late"}
           rate == determineTargetRate(s, late)
           m == rate.state
           t == [rate.state EXCEPT !.probeFailed = FALSE]
           target == rate.target
           r == priorityPolicy(target, getCurrentVideoPreferences(s), infos, kept)
           there == infos \cup kept
           new == [use |-> "NewOptimal", state |-> t, chosen |-> r.chosen]
           p == ProbeState(t, "Not Probing", FALSE)
           begun == [new EXCEPT !.state = p]
           timeout == time = "too late"
           probed == handleProbe(t, r, target, paused, timeout)
           maybe == maybeOverrideOrProbe(t, r, target, late)
           c == IF t.startup \/ ~same THEN begun
                ELSE IF t.probe = "Probing" THEN probed
                ELSE IF r.delta # 0 THEN maybe
                ELSE new
           d == [c.state EXCEPT !.prevInfos = infos, !.updated = FALSE]
<1>1. u = ForgetProbe(Apply(d, c, target, infos))  BY DEF Decide
<1>2. /\ target \in Nat /\ RateInv(m)
      /\ Differs(s, m, {"startup", "estimated", "prevTarget", "usingPrev"})
  <2>1. IsState(s) /\ RateInv(s)  BY DEF TypeInv
  <2>2. rate = determineTargetRate(s, late)  OBVIOUS
  <2> HIDE DEF rate, late
  <2> QED  BY <2>1, <2>2, RateOf
<1> HIDE DEF rate, late, timeout
<1>3. /\ r.chosen \subseteq there /\ Choice(r.chosen)
      /\ r.delta # 0 => r.upgrade \in infos
  <2>1. r = priorityPolicy(target, getCurrentVideoPreferences(s), infos, kept)  OBVIOUS
  <2> HIDE DEF r, target
  <2> QED  BY <1>2, <2>1, ChosenOf
<1> HIDE DEF r, target
<1>4. there \subseteq Streams  BY IndexIs DEF TypeInv
<1> HIDE DEF there
<1>5. Differs(m, t, {"probeFailed"})
  BY <1>2 DEF Differs, IsState, Fields
<1>6. Differs(s, t, {"startup", "estimated", "prevTarget", "usingPrev", "probeFailed"})
  <2> HIDE DEF m, t
  <2> QED  BY <1>2, <1>5 DEF Differs
<1>7. /\ IsState(t) /\ RateInv(t) /\ SameProbe(s, t) /\ SameChoice(s, t)
      /\ t.subscribed = s.subscribed
  <2> HIDE DEF t
  <2>1. SameRates(m, t)  BY <1>5 DEF Differs, Fields, SameRates
  <2>2. RateInv(t)  BY <1>2, <2>1 DEF RateInv, SameRates
  <2> QED  BY <1>6, <2>2 DEF Differs, Fields, SameProbe, SameChoice
<1>8. ProbeInv(t) /\ ChoiceInv(t)
  <2> HIDE DEF t
  <2> QED  BY <1>7 DEF TypeInv, ProbeInv, ChoiceInv, SameProbe, SameChoice
<1>9. new.use = "NewOptimal" /\ new.state = t /\ new.chosen = r.chosen
  <2> HIDE DEF t
  <2> QED  OBVIOUS
<1>10. begun.use = "NewOptimal" /\ begun.state = p /\ begun.chosen = r.chosen
  <2> HIDE DEF t, p
  <2> QED  OBVIOUS
<1> HIDE DEF t, new, begun
<1>11. ChoiceOK(s, c.state, c.use, c.chosen, there, same)
  <2>1. CASE t.startup \/ ~same
    <3>1. c.use = "NewOptimal" /\ c.state = p /\ c.chosen = r.chosen  BY <1>10, <2>1
    <3>2. /\ Differs(t, p, {"probe", "preProbe", "preProbeNonPaused"}) /\ ProbeInv(p)
          /\ p.probe = "Not Probing"
      <4>1. p = ProbeState(t, "Not Probing", FALSE)  OBVIOUS
      <4> HIDE DEF p
      <4> QED  BY <1>7, <1>8, <4>1, ProbeStateOf
    <3> HIDE DEF p, c
    <3>3. Differs(s, p, Rest)  BY <1>6, <3>2 DEF Differs, Rest
    <3>4. RateInv(p)
      <4>1. SameRates(t, p)  BY <3>2 DEF Differs, Fields, SameRates
      <4> QED  BY <1>7, <4>1 DEF RateInv, SameRates
    <3>5. NewChoice(s, p, r.chosen, there, same)  BY <1>3, <3>2 DEF NewChoice
    <3> QED  BY <3>1, <3>2, <3>3, <3>4, <3>5 DEF ChoiceOK
  <2>2. CASE ~ (t.startup \/ ~same) /\ t.probe = "Probing"
    <3>1. c = probed  BY <2>2
    <3>2. probed = handleProbe(t, r, target, paused, timeout)  OBVIOUS
    <3> HIDE DEF probed, c
    <3>3. ChoiceOK(t, probed.state, probed.use, probed.chosen, there, TRUE)
      BY <1>3, <1>7, <1>8, <2>2, <3>2, HandleProbeOf
    <3> QED  BY <1>6, <2>2, <3>1, <3>3, ChoiceFrom
  <2>3. CASE ~ (t.startup \/ ~same) /\ t.probe # "Probing" /\ r.delta # 0
    <3>1. c = maybe  BY <2>3
    <3>2. maybe = maybeOverrideOrProbe(t, r, target, late)  OBVIOUS
    <3>3. r.upgrade \in there  BY <1>3, <2>3 DEF there
    <3> HIDE DEF maybe, c
    <3>4. ChoiceOK(t, maybe.state, maybe.use, maybe.chosen, there, TRUE)
      BY <1>2, <1>3, <1>4, <1>7, <1>8, <2>3, <3>2, <3>3, MaybeProbeOf
    <3> QED  BY <1>6, <2>3, <3>1, <3>4, ChoiceFrom
  <2>4. CASE ~ (t.startup \/ ~same) /\ t.probe # "Probing" /\ r.delta = 0
    <3>1. c = new  BY <2>4
    <3> HIDE DEF c
    <3>2. Differs(t, t, Rest)  BY <1>7 DEF Differs
    <3>3. NewChoice(t, t, r.chosen, there, TRUE)  BY <1>3, <2>4 DEF NewChoice
    <3>4. ChoiceOK(t, t, "NewOptimal", r.chosen, there, TRUE)
      BY <1>7, <1>8, <3>2, <3>3 DEF ChoiceOK
    <3>5. ChoiceOK(s, t, "NewOptimal", r.chosen, there, same)  BY <1>6, <2>4, <3>4, ChoiceFrom
    <3> QED  BY <1>9, <3>1, <3>5
  <2> QED  BY <2>1, <2>2, <2>3, <2>4
<1>12. d = [c.state EXCEPT !.prevInfos = infos, !.updated = FALSE]  OBVIOUS
<1>13. \A y \in kept : Attendee[y] \notin s.pausedBw  BY DEF Kept
<1> HIDE DEF c, d
<1> QED  BY <1>1, <1>2, <1>11, <1>12, <1>13, ApplyOf DEF there

(* Whenever it is made. *)
LEMMA CalculateOf ==
  ASSUME NEW s, TypeInv(s), ExistInv(s), s.subscribed = s.optimal, NEW time,
         NEW u, u = calculateOptimalReceiveStreams(s, time)
  PROVE  TypeInv(u) /\ ExistInv(u) /\ Counted(u)
<1> DEFINE c == cleanBwPausedTiles(s)
           paused == {x \in s.index : c.tiles[Attendee[x]].paused /\ Attendee[x] \notin c.pausedBw}
           infos == s.index \ paused
           same == s.prevInfos = infos /\ ~s.updated
           kept == paused \cap s.subscribed
<1>1. CASE s.index = {} \/ s.preferences = <<>>
  <2>1. u = [s EXCEPT !.optimal = {}]  BY <1>1 DEF calculateOptimalReceiveStreams
  <2>2. Differs(s, u, {"optimal"}) /\ u.optimal = {}
    BY <2>1 DEF Differs, IsState, Fields, TypeInv
  <2>3. /\ SameTiles(s, u) /\ SameInput(s, u) /\ SameMemory(s, u) /\ SameProbe(s, u)
        /\ SameRates(s, u) /\ IsState(u) /\ u.nonPaused = s.nonPaused
    BY <2>2 DEF Differs, Fields, SameTiles, SameInput, SameMemory, SameProbe, SameRates
  <2>4. TileInv(u)  BY <2>3, TileFrame DEF TypeInv
  <2>5. ChoiceInv(u)
    BY <2>2, <2>3 DEF TypeInv, ChoiceInv, SameInput, Choice, Single
  <2>6. InputInv(u) /\ RateInv(u) /\ ProbeInv(u) /\ u.prevInfos \subseteq Streams
    BY <2>3 DEF TypeInv, InputInv, RateInv, ProbeInv, SameInput, SameRates, SameProbe, SameMemory
  <2>7. TypeInv(u)  BY <2>3, <2>4, <2>5, <2>6 DEF TypeInv
  <2>8. \A x : (Known(u, x) <=> Known(s, x)) /\ (Recalled(u, x) <=> Recalled(s, x))
    BY <2>3 DEF Known, Recalled, Wanted, SameInput, SameMemory, SameProbe, SameTiles
  <2>9. \A O, N : Agree(u, O, N) <=> Agree(s, O, N)  BY <2>8 DEF Agree
  <2>10. Agree(u, {}, u.nonPaused)  BY DEF Agree
  <2>11. ExistInv(u)
    BY <2>2, <2>3, <2>8, <2>9, <2>10 DEF ExistInv, SameInput, SameProbe
  <2> QED  BY <2>2, <2>7, <2>11 DEF Counted
<1>2. CASE ~ (s.index = {} \/ s.preferences = <<>>)
  <2>1. IsState(c) /\ TileInv(c) /\ c.pausedBw = s.pausedBw
        /\ Differs(s, c, {"tiles", "byApp", "forgotten"})
    <3>1. c = cleanBwPausedTiles(s)  OBVIOUS
    <3> HIDE DEF c
    <3> QED  BY <3>1, CleanOf DEF TypeInv
  <2> HIDE DEF c
  <2>2. /\ SameInput(s, c) /\ SameMemory(s, c) /\ SameProbe(s, c) /\ SameRates(s, c)
        /\ SameChoice(s, c)
    BY <2>1 DEF Differs, Fields, SameInput, SameMemory, SameProbe, SameRates, SameChoice
  <2>3. TypeInv(c) /\ ExistInv(c) /\ c.subscribed = c.optimal
    <3>1. ChoiceInv(c) /\ InputInv(c) /\ RateInv(c) /\ ProbeInv(c) /\ c.prevInfos \subseteq Streams
      BY <2>2 DEF TypeInv, ChoiceInv, InputInv, RateInv, ProbeInv, SameInput, SameChoice,
                  SameRates, SameProbe, SameMemory
    <3>2. ExistInv(c)  BY <2>1, <2>2, ExistFrame
    <3> QED  BY <2>1, <2>2, <3>1, <3>2 DEF TypeInv, SameInput, SameChoice
  <2>4. infos \cup kept \subseteq c.index /\ infos \subseteq s.index
    BY <2>2 DEF SameInput
  <2>5. Kept(c, kept, infos)
    <3>1. kept \subseteq c.subscribed  BY <2>2 DEF SameInput
    <3>2. \A y \in kept : Attendee[y] \notin c.pausedBw  OBVIOUS
    <3>3. \A y \in kept : Attendee[y] \notin From(infos)  BY DEF From
    <3> QED  BY <3>1, <3>2, <3>3 DEF Kept
  <2>6. same => Unchanged(c, infos)  BY <2>2 DEF Unchanged, SameMemory
  <2> DEFINE unchanged == ~s.startup /\ same
             rate == determineTargetRate(c, FALSE)
             n == [rate.state EXCEPT !.probeFailed = FALSE]
  <2>7. /\ unchanged /\ time = "soon" => u = c
        /\ ~ (unchanged /\ time = "soon") /\ s.probeFailed /\ unchanged /\ time = "early" => u = n
        /\ ~ (unchanged /\ time = "soon") /\ ~ (s.probeFailed /\ unchanged /\ time = "early")
             => u = Decide(c, kept, infos, paused, same, time)
    BY <1>2 DEF calculateOptimalReceiveStreams, c
  <2>8. CASE unchanged /\ time = "soon"
    <3>1. u = c  BY <2>7, <2>8
    <3>2. Counted(c)
      <4>1. s.prevInfos = infos  BY <2>8
      <4> HIDE DEF infos
      <4> QED  BY <2>2, <2>4, <4>1 DEF Counted, SameInput, SameMemory
    <3> QED  BY <2>3, <3>1, <3>2
  <2>9. CASE ~ (unchanged /\ time = "soon") /\ s.probeFailed /\ unchanged /\ time = "early"
    <3>1. u = n  BY <2>7, <2>9
    <3> DEFINE m == rate.state
    <3>2. RateInv(m) /\ Differs(c, m, {"startup", "estimated", "prevTarget", "usingPrev"})
      <4>1. IsState(c) /\ RateInv(c)  BY <2>3 DEF TypeInv
      <4>2. rate = determineTargetRate(c, FALSE)  OBVIOUS
      <4> HIDE DEF rate
      <4> QED  BY <4>1, <4>2, RateOf
    <3>3. n = [m EXCEPT !.probeFailed = FALSE]  OBVIOUS
    <3> HIDE DEF m, n
    <3>4. Differs(m, n, {"probeFailed"})
      BY <3>2, <3>3 DEF Differs, IsState, Fields
    <3>5. /\ SameTiles(c, n) /\ SameInput(c, n) /\ SameMemory(c, n) /\ SameProbe(c, n)
          /\ SameChoice(c, n) /\ SameRates(m, n) /\ IsState(n)
      <4>1. Differs(c, n, {"startup", "estimated", "prevTarget", "usingPrev", "probeFailed"})
        BY <3>2, <3>4 DEF Differs
      <4>2. SameRates(m, n)  BY <3>4 DEF Differs, Fields, SameRates
      <4> QED  BY <4>1, <4>2
               DEF Differs, Fields, SameTiles, SameInput, SameMemory, SameProbe, SameChoice
    <3>6. RateInv(n)  BY <3>2, <3>5 DEF RateInv, SameRates
    <3>7. n.prevInfos = c.prevInfos /\ n.pausedBw = c.pausedBw
      BY <3>5 DEF SameMemory, SameTiles
    <3>8. TypeInv(n)  BY <2>3, <3>5, <3>6, <3>7, TypeFrame
    <3>9. Counted(c)
      <4>1. s.prevInfos = infos  BY <2>9
      <4> HIDE DEF infos
      <4> QED  BY <2>2, <2>4, <4>1 DEF Counted, SameInput, SameMemory
    <3>10. ExistInv(n) /\ Counted(n)  BY <2>3, <3>5, <3>7, <3>9, ExistFrame
    <3> QED  BY <3>1, <3>8, <3>10
  <2>10. CASE ~ (unchanged /\ time = "soon") /\ ~ (s.probeFailed /\ unchanged /\ time = "early")
    <3>1. u = Decide(c, kept, infos, paused, same, time)  BY <2>7, <2>10
    <3> HIDE DEF infos, kept, paused, same
    <3> QED  BY <2>3, <2>4, <2>5, <2>6, <3>1, DecideOf
  <2> QED  BY <2>8, <2>9, <2>10
<1> QED  BY <1>1, <1>2

(* And subscribed to. *)
LEMMA ResubscribeOf ==
  ASSUME NEW s, TypeInv(s), ExistInv(s), s.subscribed = s.optimal, NEW time,
         NEW u, u = wantsResubscribe(s, time)
  PROVE  Inv(u)
<1> DEFINE c == calculateOptimalReceiveStreams(s, time)
<1>1. TypeInv(c) /\ ExistInv(c) /\ Counted(c)
  <2>1. c = calculateOptimalReceiveStreams(s, time)  OBVIOUS
  <2> HIDE DEF c
  <2> QED  BY <2>1, CalculateOf
<1>2. u = chooseSubscriptions(c)  BY DEF wantsResubscribe
<1> HIDE DEF c
<1>3. /\ Differs(c, u, {"subscribed", "negotiating", "tiles", "leftBehind"}) /\ TileInv(u)
      /\ u.subscribed = u.optimal
  BY <1>1, <1>2, ChooseOf DEF TypeInv, ChoiceInv
<1>4. /\ SameMemory(c, u) /\ SameProbe(c, u) /\ SameRates(c, u) /\ SameChoice(c, u) /\ IsState(u)
      /\ u.index = c.index /\ u.preferences = c.preferences /\ u.uncounted = c.uncounted
      /\ u.failures = c.failures /\ u.pausedBw = c.pausedBw
  BY <1>3 DEF Differs, Fields, SameMemory, SameProbe, SameRates, SameChoice
<1>5. TypeInv(u)
  <2>1. ChoiceInv(u)  BY <1>1, <1>3, <1>4 DEF TypeInv, ChoiceInv, SameChoice
  <2>2. InputInv(u) /\ RateInv(u) /\ ProbeInv(u) /\ u.prevInfos \subseteq Streams
    BY <1>1, <1>4 DEF TypeInv, InputInv, RateInv, ProbeInv, SameRates, SameProbe, SameMemory
  <2> QED  BY <1>3, <1>4, <2>1, <2>2 DEF TypeInv
<1>6. \A x : /\ Known(u, x) <=> Known(c, x)
             /\ Exists(u, x) <=> Exists(c, x)
             /\ Recalled(u, x) <=> Recalled(c, x)
  BY <1>4 DEF Known, Exists, Recalled, Wanted, SameMemory, SameProbe
<1>7. \A O, N : Agree(u, O, N) <=> Agree(c, O, N)  BY <1>6 DEF Agree
<1>8. ExistInv(u)  BY <1>1, <1>4, <1>6, <1>7 DEF ExistInv, SameChoice, SameProbe
<1>9. Counted(u)  BY <1>1, <1>4 DEF Counted, SameChoice, SameMemory
<1> QED  BY <1>3, <1>5, <1>8, <1>9 DEF Inv

-----------------------------------------------------------------------------
(* The steps. *)

(* Where an action leads, its invariant holds of the next state.              *)
LEMMA Renewed ==
  ASSUME NEW t, Inv(t), Now' = t
  PROVE  Inv(Now)'
<1>1. TileInv(Now)'
  BY DEF Inv, TypeInv, TileInv, TilesOK, TileOK, TileTypes, PausedOK, HeldOK, NoTile, Attendees
<1>2. ChoiceInv(Now)' /\ ProbeInv(Now)' /\ InputInv(Now)' /\ RateInv(Now)'
  BY DEF Inv, TypeInv, ChoiceInv, ProbeInv, InputInv, RateInv, Choice, Single
<1>3. IsState(Now)' /\ (Now.prevInfos \subseteq Streams)'
  BY DEF Inv, TypeInv, IsState, Fields
<1>4. ExistInv(Now)'
  BY DEF Inv, ExistInv, Exists, Agree, Recalled, Known, Wanted, Of, From
<1>5. Counted(Now)' /\ (Now.subscribed = Now.optimal)'  BY DEF Inv, Counted
<1> QED  BY <1>1, <1>2, <1>3, <1>4, <1>5 DEF Inv, TypeInv

(* And of what the state becomes. *)
LEMMA BecomesInv ==
  ASSUME NEW t, Inv(t), Becomes(t)
  PROVE  Inv(Now)'
<1>1. Now' = t  BY BecomesIs DEF Inv, TypeInv
<1> QED  BY <1>1, Renewed

(* What was known stays known, and what may be returned to.                   *)
LEMMA ExistGrows ==
  ASSUME NEW s, NEW t, SameChoice(s, t), SameProbe(s, t), t.pausedBw = s.pausedBw,
         t.failures = s.failures, t.prevInfos = s.prevInfos,
         \A x : Known(s, x) => Known(t, x),
         t.updated \/ (t.updated = s.updated /\ t.preferences = s.preferences),
         ExistInv(s)
  PROVE  ExistInv(t)
<1>1. \A x : Exists(s, x) => Exists(t, x)  BY DEF Exists
<1>2. \A O, N : Agree(s, O, N) => Agree(t, O, N)  BY DEF Agree
<1>3. \A x : Recalled(s, x) => Recalled(t, x)  BY DEF Recalled, Wanted, SameProbe
<1> QED  BY <1>1, <1>2, <1>3 DEF ExistInv, SameChoice, SameProbe

(* It holds at the start. *)
LEMMA InitInv == Init => Inv(Now)
<1> SUFFICES ASSUME Init PROVE Inv(Now)  OBVIOUS
<1>1. /\ Now.tiles = [a \in Attendees |-> NoTile] /\ Now.serverPaused = {} /\ Now.pausedBw = {}
      /\ Now.byApp = {} /\ Now.forgotten = {}
      /\ Now.index = {} /\ Now.preferences = NoPreferences
      /\ Now.optimal = {} /\ Now.nonPaused = {} /\ Now.subscribed = {} /\ Now.preProbe = {}
      /\ Now.preProbeNonPaused = {} /\ Now.prevInfos = {} /\ Now.prevTarget = 0
      /\ Now.baseline = 0 /\ Now.probe = "Not Probing" /\ Now.report = NoStats
      /\ Now.failures = 0
  BY DEF Init, Now
<1>2. TileInv(Now)
  <2>1. NoTile \in TileTypes /\ ~NoTile.paused /\ \A a : TileOK(a, NoTile)
    BY DEF NoTile, TileTypes, TileOK
  <2> HIDE DEF Now, NoTile
  <2> QED  BY <1>1, <2>1 DEF TileInv, TilesOK, PausedOK, HeldOK
<1>3. ChoiceInv(Now) /\ ProbeInv(Now) /\ InputInv(Now) /\ RateInv(Now)
  <2>1. NoStats \in [est : Nat, loss : Nat, used : Nat] /\ Choice({})
    BY DEF NoStats, Choice, Single
  <2> HIDE DEF Now, NoStats
  <2>2. ChoiceInv(Now) /\ ProbeInv(Now)  BY <1>1, <2>1 DEF ChoiceInv, ProbeInv
  <2>3. InputInv(Now)  BY <1>1 DEF InputInv
  <2>4. RateInv(Now)
    <3>1. Now.prevTarget \in Nat /\ Now.baseline \in Nat
      <4>1. prevTarget = 0 /\ baseline = 0  BY DEF Init
      <4> QED  BY <4>1 DEF Now
    <3>2. Now.report \in [est : Nat, loss : Nat, used : Nat]  BY <1>1, <2>1
    <3> QED  BY <3>1, <3>2 DEF RateInv
  <2> QED  BY <2>2, <2>3, <2>4
<1>4. ExistInv(Now) /\ Counted(Now) /\ Now.subscribed = Now.optimal
  BY <1>1 DEF ExistInv, Agree, Counted
<1> QED  BY <1>1, <1>2, <1>3, <1>4, NowIsState DEF Inv, TypeInv

(* Something that is bounded happens. *)
LEMMA EventIs ==
  ASSUME Inv(Now)
  PROVE  Inv(Event) /\ Differs(Now, Event, {"events"})
<1>1. Differs(Now, Event, {"events"})  BY DEF Event, Now, Differs, IsState, Fields
<1>2. /\ SameTiles(Now, Event) /\ SameInput(Now, Event) /\ SameChoice(Now, Event)
      /\ SameMemory(Now, Event) /\ SameProbe(Now, Event) /\ SameRates(Now, Event)
  BY <1>1 DEF Differs, Fields, SameTiles, SameInput, SameChoice, SameMemory, SameProbe, SameRates
<1> HIDE DEF Event, Now
<1>3. IsState(Event)  BY <1>1 DEF Differs
<1>4. RateInv(Event) /\ Event.prevInfos = Now.prevInfos /\ Event.pausedBw = Now.pausedBw
  BY <1>2 DEF RateInv, SameRates, SameMemory, SameTiles, Inv, TypeInv
<1>5. TypeInv(Event)  BY <1>2, <1>3, <1>4, TypeFrame DEF Inv
<1>6. ExistInv(Event) /\ Counted(Event)  BY <1>2, <1>4, ExistFrame DEF Inv
<1>7. Event.subscribed = Event.optimal  BY <1>2 DEF Inv, SameInput, SameChoice
<1> QED  BY <1>1, <1>5, <1>6, <1>7 DEF Inv

(* An index frame: what left the index uncounted is remembered.               *)
LEMMA IndexFrameKeeps ==
  ASSUME Inv(Now), NEW frame \in Indexes, NEW time, IndexFrame(frame, time)
  PROVE  Inv(Now)'
<1> DEFINE U == (Event.uncounted \cup (index \ prevRemoteInfos)) \ frame
           t == [Event EXCEPT !.index = frame, !.uncounted = U]
           u == wantsResubscribe(t, time)
<1>1. Becomes(u)  BY DEF IndexFrame, Event, Now
<1>2. Inv(Event) /\ Event.index = index /\ Event.prevInfos = prevRemoteInfos
  BY EventIs DEF Event, Now
<1>3. t.index = frame /\ t.uncounted = U /\ Differs(Event, t, {"index", "uncounted"})
  <2> HIDE DEF U, Event
  <2> QED  BY <1>2 DEF Inv, TypeInv, Differs, IsState, Fields
<1> HIDE DEF Event, t
<1>4. /\ SameTiles(Event, t) /\ SameChoice(Event, t) /\ SameMemory(Event, t)
      /\ SameProbe(Event, t) /\ SameRates(Event, t) /\ IsState(t)
      /\ t.subscribed = Event.subscribed
      /\ t.preferences = Event.preferences /\ t.failures = Event.failures
  BY <1>3 DEF Differs, Fields, SameTiles, SameChoice, SameMemory, SameProbe, SameRates
<1>5. TypeInv(t)
  <2>1. TileInv(t)  BY <1>2, <1>4, TileFrame DEF Inv, TypeInv
  <2>2. ChoiceInv(t) /\ ProbeInv(t) /\ InputInv(t) /\ RateInv(t) /\ t.prevInfos \subseteq Streams
    BY <1>2, <1>3, <1>4 DEF Inv, TypeInv, ChoiceInv, ProbeInv, InputInv, RateInv, SameChoice,
       SameProbe, SameRates, SameMemory
  <2> QED  BY <1>4, <2>1, <2>2 DEF TypeInv
<1>6. ExistInv(t)
  <2>1. \A x : Known(Event, x) => Known(t, x)
    BY <1>2, <1>3, <1>4 DEF Known, SameMemory
  <2>2. t.pausedBw = Event.pausedBw /\ t.prevInfos = Event.prevInfos /\ t.updated = Event.updated
    BY <1>4 DEF SameTiles, SameMemory
  <2>3. ExistInv(Event)  BY <1>2 DEF Inv
  <2> QED  BY <1>4, <2>1, <2>2, <2>3, ExistGrows
<1>7. t.subscribed = t.optimal  BY <1>2, <1>4 DEF Inv, SameChoice
<1>8. Inv(u)
  <2>1. u = wantsResubscribe(t, time)  OBVIOUS
  <2> HIDE DEF u
  <2> QED  BY <1>5, <1>6, <1>7, <2>1, ResubscribeOf
<1> HIDE DEF u
<1> QED  BY <1>1, <1>8, BecomesInv

(* A report. *)
LEMMA MetricsKeep ==
  ASSUME Inv(Now), NEW r \in Reports, NEW time, metricsDidReceive(r, time)
  PROVE  Inv(Now)'
<1> DEFINE t == updateMetrics(Now, r)
           u == wantsResubscribe(t, time)
<1>1. Becomes(u)  BY DEF metricsDidReceive
<1>2. /\ Differs(Now, t, {"report", "lossGrew"})
      /\ t.report \in [est : Nat, loss : Nat, used : Nat]
  <2>1. /\ Now.report \in [est : Nat, loss : Nat, used : Nat] /\ IsState(Now)
        /\ r \in [est : Nat, loss : Nat, used : Nat]
    BY PolicyAssumption DEF Inv, TypeInv, RateInv
  <2> HIDE DEF Now
  <2> QED  BY <2>1 DEF updateMetrics, Differs, IsState, Fields
<1> HIDE DEF t
<1>3. /\ SameTiles(Now, t) /\ SameInput(Now, t) /\ SameChoice(Now, t) /\ SameMemory(Now, t)
      /\ SameProbe(Now, t) /\ IsState(t) /\ t.prevTarget = Now.prevTarget
      /\ t.baseline = Now.baseline
  <2> HIDE DEF Now
  <2> QED  BY <1>2 DEF Differs, Fields, SameTiles, SameInput, SameChoice, SameMemory, SameProbe
<1> HIDE DEF Now
<1>4. RateInv(t) /\ t.prevInfos = Now.prevInfos /\ t.pausedBw = Now.pausedBw
  BY <1>2, <1>3 DEF RateInv, SameMemory, SameTiles, Inv, TypeInv
<1>5. TypeInv(t)  BY <1>3, <1>4, TypeFrame DEF Inv
<1>6. ExistInv(t)  BY <1>3, <1>4, ExistFrame DEF Inv
<1>7. t.subscribed = t.optimal  BY <1>3 DEF Inv, SameInput, SameChoice
<1>8. Inv(u)
  <2>1. u = wantsResubscribe(t, time)  OBVIOUS
  <2> HIDE DEF u
  <2> QED  BY <1>5, <1>6, <1>7, <2>1, ResubscribeOf
<1> HIDE DEF u
<1> QED  BY <1>1, <1>8, BecomesInv

(* New preferences are taken up by the next calculation.                      *)
LEMMA PreferencesKeep ==
  ASSUME Inv(Now), NEW prefs \in Preferences, chooseRemoteVideoSources(prefs)
  PROVE  Inv(Now)'
<1> DEFINE t == [Event EXCEPT !.preferences = prefs, !.updated = TRUE]
<1>1. Becomes(t)  BY DEF chooseRemoteVideoSources
<1>2. Inv(Event)  BY EventIs
<1> HIDE DEF Event
<1>3. t.preferences = prefs /\ t.updated /\ Differs(Event, t, {"preferences", "updated"})
  BY <1>2 DEF Inv, TypeInv, Differs, IsState, Fields
<1> HIDE DEF t
<1>4. /\ SameTiles(Event, t) /\ SameChoice(Event, t) /\ t.prevInfos = Event.prevInfos
      /\ SameProbe(Event, t) /\ SameRates(Event, t) /\ IsState(t)
      /\ t.subscribed = Event.subscribed /\ t.index = Event.index
      /\ t.uncounted = Event.uncounted /\ t.failures = Event.failures
  BY <1>3 DEF Differs, Fields, SameTiles, SameChoice, SameProbe, SameRates
<1>5. TypeInv(t)
  <2>1. TileInv(t)  BY <1>2, <1>4, TileFrame DEF Inv, TypeInv
  <2>2. ChoiceInv(t) /\ ProbeInv(t) /\ InputInv(t) /\ RateInv(t) /\ t.prevInfos \subseteq Streams
    BY <1>2, <1>3, <1>4 DEF Inv, TypeInv, ChoiceInv, ProbeInv, InputInv, RateInv, SameChoice,
       SameProbe, SameRates
  <2> QED  BY <1>4, <2>1, <2>2 DEF TypeInv
<1>6. ExistInv(t)
  <2>1. \A x : Known(Event, x) => Known(t, x)  BY <1>4 DEF Known
  <2>2. t.pausedBw = Event.pausedBw  BY <1>4 DEF SameTiles
  <2>3. ExistInv(Event)  BY <1>2 DEF Inv
  <2> QED  BY <1>3, <1>4, <2>1, <2>2, <2>3, ExistGrows
<1>7. t.subscribed = t.optimal /\ Counted(t)
  BY <1>2, <1>4 DEF Inv, SameChoice, Counted
<1>8. Inv(t)  BY <1>5, <1>6, <1>7 DEF Inv
<1> QED  BY <1>1, <1>8, BecomesInv

(* A step that only changes the tiles, and them well.                         *)
LEMMA OtherTiles ==
  ASSUME NEW s, NEW t, Inv(s), TileInv(t), IsState(t), SameChoice(s, t), SameInput(s, t),
         SameMemory(s, t), SameProbe(s, t), SameRates(s, t), t.pausedBw = s.pausedBw
  PROVE  Inv(t)
<1>1. ChoiceInv(t) /\ ProbeInv(t) /\ InputInv(t) /\ RateInv(t) /\ t.prevInfos \subseteq Streams
  BY DEF Inv, TypeInv, ChoiceInv, ProbeInv, InputInv, RateInv, SameChoice, SameInput, SameMemory,
     SameProbe, SameRates
<1>2. ExistInv(t) /\ Counted(t)  BY ExistFrame DEF Inv
<1>3. t.subscribed = t.optimal  BY DEF Inv, SameInput, SameChoice
<1> QED  BY <1>1, <1>2, <1>3 DEF Inv, TypeInv

(* The application pauses a tile, or resumes it.                              *)
LEMMA AppPauseKeeps ==
  ASSUME Inv(Now), NEW a \in Attendees, AppPause(a)
  PROVE  Inv(Now)'
<1> DEFINE p == pauseVideoTile(Event, a)
           B == Event.byApp \cup {a}
           t == [p EXCEPT !.byApp = B]
<1>1. Becomes(t)
  <2>1. Becomes([pauseVideoTile(Event, a) EXCEPT !.byApp = @ \cup {a}])  BY DEF AppPause
  <2>2. p.byApp = Event.byApp  BY DEF pauseVideoTile, Event, Now
  <2>3. [p EXCEPT !.byApp = @ \cup {a}] = [p EXCEPT !.byApp = B]
    <3> HIDE DEF p
    <3> QED  BY <2>2
  <2> QED  BY <2>1, <2>3
<1>2. Inv(Event) /\ Event.tiles[a].kind # "none"
  BY EventIs DEF AppPause, Event, Now
<1> HIDE DEF Event, B
<1>3. /\ IsState(p) /\ TilesOK(p) /\ HeldOK(p) /\ Differs(Event, p, {"tiles", "serverPaused"})
      /\ p.tiles[a].kind = Event.tiles[a].kind
      /\ \A d \in Attendees : d # a => p.tiles[d] = Event.tiles[d]
  <2>1. p = pauseVideoTile(Event, a)  OBVIOUS
  <2> HIDE DEF p
  <2> QED  BY <1>2, <2>1, PauseOf DEF Inv, TypeInv, TileInv
<1> HIDE DEF p
<1>4. /\ Differs(Event, t, {"tiles", "serverPaused", "byApp"}) /\ t.byApp = B
      /\ t.tiles = p.tiles /\ t.serverPaused = p.serverPaused /\ t.leftBehind = p.leftBehind
  BY <1>3 DEF Differs, IsState, Fields
<1> HIDE DEF t
<1>5. TileInv(t)
  <2>1. TilesOK(t) /\ HeldOK(t)  BY <1>3, <1>4 DEF TilesOK, HeldOK
  <2>2. t.forgotten = Event.forgotten /\ t.pausedBw = Event.pausedBw
    BY <1>4 DEF Differs, Fields
  <2>3. PausedOK(Event)  BY <1>2 DEF Inv, TypeInv, TileInv
  <2>4. PausedOK(t)  BY <1>2, <1>3, <1>4, <2>2, <2>3 DEF PausedOK, B
  <2> QED  BY <2>1, <2>4 DEF TileInv
<1>6. Inv(t)
  <2>1. /\ SameChoice(Event, t) /\ SameInput(Event, t) /\ SameMemory(Event, t)
        /\ SameProbe(Event, t) /\ SameRates(Event, t) /\ IsState(t)
        /\ t.pausedBw = Event.pausedBw
    BY <1>4 DEF Differs, Fields, SameInput, SameChoice, SameMemory, SameProbe, SameRates
  <2> QED  BY <1>2, <1>5, <2>1, OtherTiles
<1> QED  BY <1>1, <1>6, BecomesInv

(* Then nobody need remember that it was paused. *)
LEMMA AppUnpauseKeeps ==
  ASSUME Inv(Now), NEW a \in Attendees, AppUnpause(a)
  PROVE  Inv(Now)'
<1> DEFINE p == unpauseVideoTile(Event, a)
           B == Event.byApp \ {a}
           G == Event.forgotten \ {a}
           t == [p EXCEPT !.byApp = B, !.forgotten = G]
<1>1. Becomes(t)
  <2>1. Becomes([unpauseVideoTile(Event, a) EXCEPT !.byApp = @ \ {a}, !.forgotten = @ \ {a}])
    BY DEF AppUnpause
  <2>2. p.byApp = Event.byApp /\ p.forgotten = Event.forgotten
    BY DEF unpauseVideoTile, Event, Now
  <2>3. [p EXCEPT !.byApp = @ \ {a}, !.forgotten = @ \ {a}] = t
    <3> HIDE DEF p
    <3> QED  BY <2>2
  <2> QED  BY <2>1, <2>3
<1>2. Inv(Event)  BY EventIs
<1> HIDE DEF Event, B, G
<1>3. /\ IsState(p) /\ TilesOK(p) /\ HeldOK(p) /\ Differs(Event, p, {"tiles", "serverPaused"})
      /\ p.tiles[a].kind = Event.tiles[a].kind /\ ~p.tiles[a].paused
      /\ \A d \in Attendees : d # a => p.tiles[d] = Event.tiles[d]
  <2>1. p = unpauseVideoTile(Event, a)  OBVIOUS
  <2> HIDE DEF p
  <2> QED  BY <1>2, <2>1, UnpauseOf DEF Inv, TypeInv, TileInv
<1> HIDE DEF p
<1>4. /\ Differs(Event, t, {"tiles", "serverPaused", "byApp", "forgotten"})
      /\ t.byApp = B /\ t.forgotten = G
      /\ t.tiles = p.tiles /\ t.serverPaused = p.serverPaused /\ t.leftBehind = p.leftBehind
  BY <1>3 DEF Differs, IsState, Fields
<1> HIDE DEF t
<1>5. TileInv(t)
  <2>1. TilesOK(t) /\ HeldOK(t)  BY <1>3, <1>4 DEF TilesOK, HeldOK
  <2>2. t.pausedBw = Event.pausedBw  BY <1>4 DEF Differs, Fields
  <2>3. PausedOK(Event)  BY <1>2 DEF Inv, TypeInv, TileInv
  <2>4. PausedOK(t)  BY <1>2, <1>3, <1>4, <2>2, <2>3 DEF PausedOK, B, G
  <2> QED  BY <2>1, <2>4 DEF TileInv
<1>6. Inv(t)
  <2>1. /\ SameChoice(Event, t) /\ SameInput(Event, t) /\ SameMemory(Event, t)
        /\ SameProbe(Event, t) /\ SameRates(Event, t) /\ IsState(t)
        /\ t.pausedBw = Event.pausedBw
    BY <1>4 DEF Differs, Fields, SameInput, SameChoice, SameMemory, SameProbe, SameRates
  <2> QED  BY <1>2, <1>5, <2>1, OtherTiles
<1> QED  BY <1>1, <1>6, BecomesInv

(* What a tile shows after a negotiation, and who has none then.              *)
BoundTo(s, R, a) ==
  IF Of(R, a) = {} THEN IF s.tiles[a].kind = "bound" THEN NoTile ELSE s.tiles[a]
  ELSE [s.tiles[a] EXCEPT !.kind = "bound", !.stream = CHOOSE x \in Of(R, a) : TRUE]
Removed(s, R) == {a \in Attendees : s.tiles[a] # NoTile /\ BoundTo(s, R, a) = NoTile}

(* The tile of who is not received goes; that of who is shows the stream.     *)
LEMMA BoundIs ==
  ASSUME NEW s, TilesOK(s), NEW R \in SUBSET Streams, Single(R), NEW a \in Attendees
  PROVE  /\ BoundTo(s, R, a) \in TileTypes /\ TileOK(a, BoundTo(s, R, a))
         /\ BoundTo(s, R, a).paused => s.tiles[a].paused
         /\ BoundTo(s, R, a).paused => BoundTo(s, R, a) # NoTile
         /\ \A x \in R : Attendee[x] = a =>
              BoundTo(s, R, a).stream = x /\ BoundTo(s, R, a).held = s.tiles[a].held
<1> DEFINE x == CHOOSE x \in Of(R, a) : TRUE
           b == [s.tiles[a] EXCEPT !.kind = "bound", !.stream = x]
<1>1. s.tiles[a] \in TileTypes /\ TileOK(a, s.tiles[a])  BY TileIs
<1>2. /\ NoTile \in TileTypes /\ ~NoTile.paused /\ NoTile.kind = "none" /\ TileOK(a, NoTile)
  BY DEF NoTile, TileTypes, TileOK
<1>3. CASE Of(R, a) = {}
  <2>1. BoundTo(s, R, a) \in {NoTile, s.tiles[a]}  BY <1>3 DEF BoundTo
  <2>2. \A y \in R : Attendee[y] # a  BY <1>3 DEF Of
  <2> QED  BY <1>1, <1>2, <2>1, <2>2
<1>4. CASE Of(R, a) # {}
  <2>1. BoundTo(s, R, a) = b  BY <1>4 DEF BoundTo
  <2>2. x \in Of(R, a)  BY <1>4
  <2>3. x \in Streams /\ Attendee[x] = a /\ x # 0 /\ x \in R
    BY <2>2, PolicyAssumption DEF Of
  <2>4. \A y \in R : Attendee[y] = a => y = x  BY <2>3 DEF Single
  <2> HIDE DEF x
  <2>5. /\ b \in TileTypes /\ b.kind = "bound" /\ b.stream = x /\ b.paused = s.tiles[a].paused
        /\ b.held = s.tiles[a].held
    BY <1>1, <2>3 DEF TileTypes
  <2> HIDE DEF b
  <2>6. TileOK(a, b) /\ b # NoTile  BY <1>1, <1>2, <2>3, <2>5 DEF TileOK
  <2> QED  BY <2>1, <2>4, <2>5, <2>6
<1> QED  BY <1>3, <1>4

(* A negotiation: tiles show what is received, which the server holds back or not. *)
LEMMA NegotiatedKeeps ==
  ASSUME Inv(Now), Negotiated
  PROVE  Inv(Now)'
<1> DEFINE R == Now.subscribed \cap Now.index
           f == [a \in Attendees |-> BoundTo(Now, R, a)]
           gone == Removed(Now, R)
           P == Now.serverPaused \cap R
           L == Now.leftBehind \cap R
           B == Now.byApp \ gone
           G == Now.forgotten \ gone
           t == [Now EXCEPT !.negotiating = FALSE, !.tiles = f, !.serverPaused = P,
                            !.leftBehind = L, !.byApp = B, !.forgotten = G]
<1>1. Becomes(t)  BY DEF Negotiated, Now, BoundTo, Removed
<1> HIDE DEF Now
<1>2. /\ Differs(Now, t, {"negotiating", "tiles", "serverPaused", "leftBehind", "byApp",
                          "forgotten"})
      /\ t.tiles = f /\ t.serverPaused = P /\ t.leftBehind = L /\ t.byApp = B /\ t.forgotten = G
  <2> HIDE DEF f, P, L, B, G
  <2> QED  BY DEF Inv, TypeInv, Differs, IsState, Fields
<1> HIDE DEF t
<1>3. R \in SUBSET Streams /\ Single(R)
  BY DEF Inv, TypeInv, ChoiceInv, Choice, Single
<1>4. TilesOK(Now) /\ PausedOK(Now) /\ HeldOK(Now)  BY DEF Inv, TypeInv, TileInv
<1> HIDE DEF R
<1>5. \A a \in Attendees :
        /\ f[a] = BoundTo(Now, R, a)
        /\ f[a] \in TileTypes /\ TileOK(a, f[a])
        /\ f[a].paused => Now.tiles[a].paused /\ f[a] # NoTile
        /\ \A x \in R : Attendee[x] = a => f[a].stream = x /\ f[a].held = Now.tiles[a].held
  <2> SUFFICES ASSUME NEW a \in Attendees
        PROVE  LET b == BoundTo(Now, R, a)
               IN /\ b \in TileTypes /\ TileOK(a, b)
                  /\ b.paused => Now.tiles[a].paused /\ b # NoTile
                  /\ \A x \in R : Attendee[x] = a => b.stream = x /\ b.held = Now.tiles[a].held
    OBVIOUS
  <2> QED  BY <1>3, <1>4, BoundIs
<1>6. f \in [Attendees -> TileTypes]
  <2>1. f = [a \in Attendees |-> f[a]]  OBVIOUS
  <2> HIDE DEF f
  <2> QED  BY <1>5, <2>1
<1>7. \A a \in Attendees : a \in gone <=> Now.tiles[a] # NoTile /\ f[a] = NoTile
  BY <1>5 DEF Removed
<1> HIDE DEF f, gone
<1>8. TilesOK(t)  BY <1>2, <1>5, <1>6 DEF TilesOK
<1>9. PausedOK(t)
  <2>1. t.pausedBw = Now.pausedBw  BY <1>2 DEF Differs, Fields
  <2>2. \A a \in Attendees : f[a].paused => a \notin gone  BY <1>5, <1>7
  <2>3. \A a \in Attendees :
          t.tiles[a].paused => a \in t.byApp \cup t.pausedBw \cup t.forgotten
    BY <1>2, <1>4, <1>5, <2>1, <2>2 DEF PausedOK
  <2>4. ASSUME NEW a \in t.byApp \cup t.forgotten PROVE t.tiles[a].kind # "none"
    <3>1. a \in Attendees /\ a \notin gone /\ Now.tiles[a].kind # "none"
      BY <1>2, <1>4, <2>4 DEF PausedOK
    <3>2. Now.tiles[a] # NoTile  BY <3>1 DEF NoTile
    <3>3. f[a] # NoTile  BY <1>7, <3>1, <3>2
    <3> QED  BY <1>2, <1>5, <3>1, <3>3 DEF TileOK
  <2> QED  BY <1>2, <1>4, <2>1, <2>3, <2>4 DEF PausedOK
<1>10. HeldOK(t)
  <2>1. \A x \in P \ L : x # 0 =>
          /\ Now.tiles[Attendee[x]].held /\ x \in R /\ Attendee[x] \in Attendees
    BY <1>3, <1>4, AttendeeOf DEF HeldOK
  <2>2. P \subseteq Streams \cup {0}  BY <1>3
  <2> HIDE DEF P, L
  <2>3. \A x \in P \ L : x # 0 => f[Attendee[x]].held /\ f[Attendee[x]].stream = x
    BY <1>5, <2>1
  <2> QED  BY <1>2, <2>2, <2>3 DEF HeldOK
<1>11. /\ SameChoice(Now, t) /\ SameInput(Now, t) /\ SameMemory(Now, t)
       /\ SameProbe(Now, t) /\ SameRates(Now, t) /\ IsState(t) /\ t.pausedBw = Now.pausedBw
  BY <1>2 DEF Differs, Fields, SameInput, SameChoice, SameMemory, SameProbe, SameRates
<1>12. TileInv(t)  BY <1>8, <1>9, <1>10 DEF TileInv
<1>13. Inv(t)  BY <1>11, <1>12, OtherTiles
<1> QED  BY <1>1, <1>13, BecomesInv

(* What reset() leaves of the state. *)
LEMMA ResetOf ==
  ASSUME NEW s, IsState(s)
  PROVE  LET r == Reset(s)
         IN /\ IsState(r) /\ r.optimal = {} /\ r.nonPaused = {} /\ r.subscribed = {}
            /\ r.preProbe = {} /\ r.preProbeNonPaused = {} /\ r.pausedBw = {}
            /\ r.preferences = NoPreferences /\ r.probe = "Not Probing" /\ r.report = NoStats
            /\ r.prevInfos = s.prevInfos /\ r.prevTarget = s.prevTarget
            /\ r.baseline = s.baseline
<1> DEFINE p == [s EXCEPT !.optimal = {}, !.nonPaused = {}, !.subscribed = {},
                          !.preferences = NoPreferences, !.pausedBw = {}]
           q == [p EXCEPT !.updated = FALSE, !.startup = TRUE, !.usingPrev = FALSE,
                          !.probe = "Not Probing", !.preProbe = {}]
           r == [q EXCEPT !.preProbeNonPaused = {}, !.estimated = FALSE, !.report = NoStats,
                          !.lossGrew = FALSE, !.probeFailed = FALSE]
<1>1. Reset(s) = r  BY DEF Reset
<1>2. /\ Differs(s, p, {"optimal", "nonPaused", "subscribed", "preferences", "pausedBw"})
      /\ p.optimal = {} /\ p.nonPaused = {} /\ p.subscribed = {} /\ p.pausedBw = {}
      /\ p.preferences = NoPreferences
  BY DEF Differs, IsState, Fields
<1> HIDE DEF p
<1>3. /\ Differs(p, q, {"updated", "startup", "usingPrev", "probe", "preProbe"})
      /\ q.probe = "Not Probing" /\ q.preProbe = {}
  BY <1>2 DEF Differs, IsState, Fields
<1> HIDE DEF q, NoStats
<1>4. /\ Differs(q, r, {"preProbeNonPaused", "estimated", "report", "lossGrew", "probeFailed"})
      /\ r.preProbeNonPaused = {} /\ r.report = NoStats
  BY <1>3 DEF Differs, IsState, Fields
<1> HIDE DEF r
<1> QED  BY <1>1, <1>2, <1>3, <1>4 DEF Differs, Fields

(* A reconnection removes the tiles that show something, and all that the      *)
(* policy knew; those it had paused stay paused.                             *)
LEMMA ReconnectKeeps ==
  ASSUME Inv(Now), Reconnect
  PROVE  Inv(Now)'
<1> DEFINE bound == {a \in Attendees : Now.tiles[a].kind = "bound"}
           f == [a \in Attendees |-> IF a \in bound THEN NoTile ELSE Now.tiles[a]]
           B == Now.byApp \ bound
           G == {a \in Now.forgotten \cup Now.pausedBw : Now.tiles[a].kind = "unbound"}
           r == Reset(Event)
           t == [r EXCEPT
                   !.tiles = f, !.negotiating = FALSE, !.serverPaused = {}, !.index = {},
                   !.uncounted = {}, !.leftBehind = {}, !.failures = 0, !.byApp = B,
                   !.forgotten = G]
<1>1. Becomes(t)  BY DEF Reconnect, Now, Event, Reset
<1>2. IsState(Event)  BY EventIs DEF Inv, TypeInv
<1>3. Event.prevInfos = Now.prevInfos /\ Event.prevTarget = Now.prevTarget
      /\ Event.baseline = Now.baseline
  BY DEF Event, Now
<1> HIDE DEF Event, Now, f, B, G
<1>4. /\ IsState(t) /\ t.tiles = f /\ t.byApp = B /\ t.forgotten = G /\ t.pausedBw = {}
      /\ t.serverPaused = {} /\ t.leftBehind = {} /\ t.index = {}
      /\ t.preferences = NoPreferences
      /\ t.optimal = {} /\ t.nonPaused = {} /\ t.subscribed = {} /\ t.preProbe = {}
      /\ t.preProbeNonPaused = {} /\ t.prevInfos = Now.prevInfos
      /\ t.prevTarget = Now.prevTarget /\ t.baseline = Now.baseline
      /\ t.probe = "Not Probing" /\ t.report = NoStats /\ t.failures = 0
  <2>1. /\ IsState(r) /\ r.optimal = {} /\ r.nonPaused = {} /\ r.subscribed = {}
        /\ r.preProbe = {} /\ r.preProbeNonPaused = {} /\ r.pausedBw = {}
        /\ r.preferences = NoPreferences /\ r.probe = "Not Probing" /\ r.report = NoStats
        /\ r.prevInfos = Event.prevInfos /\ r.prevTarget = Event.prevTarget
        /\ r.baseline = Event.baseline
    BY <1>2, ResetOf
  <2> HIDE DEF r, NoStats
  <2> DEFINE q == [r EXCEPT !.tiles = f, !.negotiating = FALSE, !.serverPaused = {},
                            !.index = {}, !.uncounted = {}]
  <2>2. t = [q EXCEPT !.leftBehind = {}, !.failures = 0, !.byApp = B, !.forgotten = G]
    OBVIOUS
  <2>3. /\ Differs(r, q, {"tiles", "negotiating", "serverPaused", "index", "uncounted"})
        /\ q.tiles = f /\ q.serverPaused = {} /\ q.index = {}
    BY <2>1 DEF Differs, IsState, Fields
  <2> HIDE DEF q, t
  <2>4. /\ Differs(q, t, {"leftBehind", "failures", "byApp", "forgotten"})
        /\ t.leftBehind = {} /\ t.failures = 0 /\ t.byApp = B /\ t.forgotten = G
    BY <2>2, <2>3 DEF Differs, IsState, Fields
  <2> QED  BY <1>3, <2>1, <2>3, <2>4 DEF Differs, Fields
<1> HIDE DEF t
<1>5. TileInv(t)
  <2>1. TilesOK(Now) /\ PausedOK(Now)  BY DEF Inv, TypeInv, TileInv
  <2>2. NoTile \in TileTypes /\ ~NoTile.paused /\ \A a : TileOK(a, NoTile)
    BY DEF NoTile, TileTypes, TileOK
  <2>3. \A a \in Attendees :
          /\ f[a] = IF Now.tiles[a].kind = "bound" THEN NoTile ELSE Now.tiles[a]
          /\ Now.tiles[a] \in TileTypes /\ TileOK(a, Now.tiles[a])
          /\ Now.tiles[a].paused => Now.tiles[a].kind # "none"
    BY <2>1, TileIs DEF f
  <2>4. \A a \in Attendees : f[a] \in TileTypes /\ TileOK(a, f[a])
    <3> HIDE DEF NoTile
    <3> QED  BY <2>2, <2>3
  <2>5. f \in [Attendees -> TileTypes]
    <3>1. f = [a \in Attendees |-> f[a]]  BY DEF f
    <3> QED  BY <2>4, <3>1
  <2>6. PausedOK(t)
    <3>1. B \subseteq Attendees /\ G \subseteq Attendees  BY <2>1 DEF PausedOK, B, G
    <3>2. \A a \in B \cup G : f[a].kind # "none"
      BY <2>1, <2>3, <3>1 DEF PausedOK, B, G
    <3>3. ASSUME NEW a \in Attendees, f[a].paused PROVE a \in B \cup G
      <4>1. Now.tiles[a].kind # "bound" /\ Now.tiles[a].paused  BY <2>2, <2>3, <3>3
      <4>2. Now.tiles[a].kind = "unbound"  BY <2>3, <4>1 DEF TileTypes
      <4>3. a \in Now.byApp \cup Now.pausedBw \cup Now.forgotten
        BY <2>1, <4>1 DEF PausedOK
      <4> QED  BY <4>1, <4>2, <4>3 DEF B, G
    <3> QED  BY <1>4, <3>1, <3>2, <3>3 DEF PausedOK
  <2> QED  BY <1>4, <2>4, <2>5, <2>6 DEF TileInv, TilesOK, HeldOK
<1>6. ChoiceInv(t) /\ ProbeInv(t)  BY <1>4 DEF ChoiceInv, ProbeInv, Choice, Single
<1>7. InputInv(t) /\ RateInv(t) /\ t.prevInfos \subseteq Streams
  <2>1. NoStats \in [est : Nat, loss : Nat, used : Nat]  BY DEF NoStats
  <2> HIDE DEF NoStats
  <2> QED  BY <1>4, <2>1 DEF InputInv, RateInv, Inv, TypeInv
<1>8. ExistInv(t) /\ Counted(t) /\ t.subscribed = t.optimal
  BY <1>4 DEF ExistInv, Agree, Counted
<1>9. Inv(t)  BY <1>4, <1>5, <1>6, <1>7, <1>8 DEF Inv, TypeInv
<1> QED  BY <1>1, <1>9, BecomesInv

-----------------------------------------------------------------------------
(* The results. *)

(* Whatever happens, the invariant holds.                                     *)
LEMMA InvAlways == Spec => []Inv(Now)
<1>1. Init => Inv(Now)  BY InitInv
<1>2. Inv(Now) /\ [Next]_vars => Inv(Now)'
  <2> SUFFICES ASSUME Inv(Now), [Next]_vars PROVE Inv(Now)'  OBVIOUS
  <2>1. ASSUME NEW time \in Times, NEW frame \in Indexes, IndexFrame(frame, time)
        PROVE  Inv(Now)'
    BY <2>1, IndexFrameKeeps
  <2>2. ASSUME NEW time \in Times, NEW r \in Reports, metricsDidReceive(r, time)
        PROVE  Inv(Now)'
    BY <2>2, MetricsKeep
  <2>3. ASSUME NEW prefs \in Preferences, chooseRemoteVideoSources(prefs) PROVE Inv(Now)'
    BY <2>3, PreferencesKeep
  <2>4. CASE Negotiated  BY <2>4, NegotiatedKeeps
  <2>5. CASE Reconnect  BY <2>5, ReconnectKeeps
  <2>6. ASSUME NEW a \in Attendees, AppPause(a) PROVE Inv(Now)'  BY <2>6, AppPauseKeeps
  <2>7. ASSUME NEW a \in Attendees, AppUnpause(a) PROVE Inv(Now)'  BY <2>7, AppUnpauseKeeps
  <2>8. CASE UNCHANGED vars
    <3>1. Now' = Now  BY <2>8 DEF vars, Now
    <3> HIDE DEF Now
    <3>2. PICK t : t = Now  OBVIOUS
    <3> QED  BY <3>1, <3>2, Renewed
  <2> QED  BY <2>1, <2>2, <2>3, <2>4, <2>5, <2>6, <2>7, <2>8 DEF Next
<1> QED  BY <1>1, <1>2, PTL DEF Spec

(* Of what is subscribed to, received or to be returned to an attendee has at  *)
(* most one stream, and what the application paused is a tile.                *)
THEOREM TypeCorrect == Spec => []TypeOK
<1>1. Inv(Now) => TypeOK
  <2> SUFFICES ASSUME Inv(Now) PROVE TypeOK  OBVIOUS
  <2>1. ASSUME NEW S, Choice(S), NEW a PROVE Cardinality(Of(S, a)) <= 1
    <3>1. CASE Of(S, a) = {}  BY <3>1, FS_EmptySet
    <3>2. CASE Of(S, a) # {}
      <4>1. PICK x : x \in Of(S, a)  BY <3>2
      <4>2. Of(S, a) = {x}  BY <2>1, <4>1 DEF Of, Choice, Single
      <4>3. Cardinality({x}) = 1  BY FS_Singleton
      <4> QED  BY <4>2, <4>3
    <3> QED  BY <3>1, <3>2
  <2>2. /\ Choice(optimal) /\ Choice(nonPaused) /\ Choice(subscribed) /\ Choice(preProbe)
        /\ Choice(preProbeNonPaused)
    BY DEF Inv, TypeInv, ChoiceInv, ProbeInv, Now
  <2>3. \A S \in {optimal, nonPaused, subscribed, preProbe, preProbeNonPaused} :
          S \subseteq Streams /\ \A a \in Attendees : Cardinality(Of(S, a)) <= 1
    BY <2>1, <2>2 DEF Choice
  <2>4. /\ index \in Indexes \cup {{}} /\ preferences \in Preferences \cup {NoPreferences}
        /\ probe \in {"Not Probing", "Probe Pending", "Probing"}
    BY DEF Inv, TypeInv, InputInv, ProbeInv, Now
  <2>5. \A a \in Attendees : tiles[a] \in TileTypes /\ TileOK(a, tiles[a])
    BY TileIs DEF Inv, TypeInv, TileInv, Now
  <2>6. /\ byApp \subseteq Attendees /\ forgotten \subseteq Attendees
        /\ \A a \in byApp \cup forgotten : tiles[a].kind # "none"
    BY DEF Inv, TypeInv, TileInv, PausedOK, Now
  <2>7. \A a \in Attendees : /\ tiles[a].kind \in {"none", "unbound", "bound"}
                             /\ tiles[a].kind = "none" => tiles[a] = NoTile
    BY <2>5 DEF TileTypes, TileOK
  <2> QED  BY <2>3, <2>4, <2>6, <2>7 DEF TypeOK
<1> QED  BY <1>1, InvAlways, PTL

(* Whatever rate it is given, the selection stays within it, leaves nobody    *)
(* out who could still be served, and serves lower priorities only when the   *)
(* highest has all it may have.                                              *)
THEOREM SelectionBest == Spec => []SelectionIsBest
<1>1. Inv(Now) => SelectionIsBest
  <2> SUFFICES ASSUME Inv(Now) PROVE SelectionIsBest  OBVIOUS
  <2>1. Now.index = index /\ Now.preferences = preferences  BY DEF Now
  <2>2. index \in SUBSET Streams  BY <2>1, IndexIs DEF Inv, TypeInv
  <2>3. preferences \in Preferences \cup {NoPreferences}
    BY <2>1 DEF Inv, TypeInv, InputInv
  <2> QED  BY <2>2, <2>3, PolicySelectsBest
<1> QED  BY <1>1, InvAlways, PTL

(* What the policy subscribes to is there or its attendee paused for want of   *)
(* bandwidth, a paused tile has someone to unpause it, and what is not paused  *)
(* is sent.                                                                  *)
THEOREM PolicyAgreed == Spec => []PolicyAgrees
<1>1. Inv(Now) => PolicyAgrees
  <2> SUFFICES ASSUME Inv(Now) PROVE PolicyAgrees  OBVIOUS
  <2>1. SubscriptionsExist
    <3> SUFFICES ASSUME failures < 2, NEW x \in optimal
          PROVE  x \in index \cup uncounted \/ Attendee[x] \in pausedBwAttendeeIds
      BY DEF SubscriptionsExist
    <3>1. Exists(Now, x)  BY DEF Inv, ExistInv, Now
    <3>2. prevRemoteInfos \subseteq index  BY DEF Inv, Counted, Now
    <3> QED  BY <3>1, <3>2 DEF Exists, Known, Now
  <2>2. PausedHasOwner
    BY DEF Inv, TypeInv, TileInv, PausedOK, PausedHasOwner, Now
  <2>3. VisibleIsSent
    <3> SUFFICES ASSUME NEW a \in Attendees, tiles[a].kind = "bound", ~tiles[a].paused,
                        tiles[a].stream \in serverPaused \ leftBehind
          PROVE  FALSE
      BY DEF VisibleIsSent
    <3>1. TileOK(a, tiles[a])  BY TileIs DEF Inv, TypeInv, TileInv, Now
    <3>2. tiles[a].stream # 0 /\ Attendee[tiles[a].stream] = a  BY <3>1 DEF TileOK
    <3>3. tiles[a].held  BY <3>2 DEF Inv, TypeInv, TileInv, HeldOK, Now
    <3> QED  BY <3>1, <3>3 DEF TileOK
  <2> QED  BY <2>1, <2>2, <2>3 DEF PolicyAgrees
<1> QED  BY <1>1, InvAlways, PTL
=============================================================================
