-------------------------- MODULE UsageDaysProofs ---------------------------
(***************************************************************************)
(* Every request is counted once, in the day it belongs to, and no day is  *)
(* settled too early or emptied: for every length of a day, of the log's   *)
(* retention and of the story, and every number of faults.                 *)
(*                                                                         *)
(* The argument: between two samples with no restart in between the        *)
(* counter grew by the units that passed, and the sample after a restart   *)
(* that was scraped on both sides is 0, so the fold over the samples of a  *)
(* window is the number of units its server was running, and it covers     *)
(* the window in one stretch.  What the log adds lies outside that         *)
(* stretch.  A window ends in the past, so nothing that comes later        *)
(* changes what was true of it when it was read.                           *)
(***************************************************************************)
EXTENDS MCScheduler, Integers, FiniteSetTheorems, WellFoundedInduction, TLAPS

-----------------------------------------------------------------------------
(* The constants and the days. *)

LEMMA Constants ==
    /\ FreshLen \in Nat \ {0} /\ GapLen \in Nat \ {0} /\ TailLen \in Nat
    /\ DayLen \in Nat \ {0} /\ Settle \in Nat \ {0} /\ LogDays \in Nat \ {0}
    /\ MaxNow \in Nat \ {0} /\ LowSkip \in Nat /\ FirstValue \in Nat /\ MaxFaults \in Nat
  BY DaysConstants DEF D!WindowAssumption, D!DaysAssumption

LEMMA DivMod ==
    ASSUME NEW t \in Nat, NEW b \in Nat \ {0}
    PROVE  /\ t \div b \in Nat
           /\ (t \div b) * b <= t
           /\ t < (t \div b) * b + b
  BY SMTT(30)

\* An instant lies in its day.
LEMMA InItsDay ==
    ASSUME NEW t \in Nat
    PROVE  /\ D!dayOf(t) \in Nat /\ D!dayStart(D!dayOf(t)) <= t
           /\ t < D!dayEnd(D!dayOf(t))
  BY Constants, DivMod DEF D!dayOf, D!dayStart, D!dayEnd

LEMMA DayTypes ==
    ASSUME NEW d \in Nat
    PROVE  /\ D!dayStart(d) \in Nat /\ D!dayEnd(d) \in Nat
           /\ D!dayEnd(d) = D!dayStart(d) + DayLen /\ D!dayStart(d) < D!dayEnd(d)
  BY Constants, SMTT(30) DEF D!dayStart, D!dayEnd

\* Days follow one another.
LEMMA DaysInOrder ==
    ASSUME NEW d \in Nat, NEW e \in Nat, d < e
    PROVE  D!dayEnd(d) <= D!dayStart(e)
  <1>1. PICK k \in Nat : e = d + 1 + k
    <2>1. e - d - 1 \in Nat /\ e = d + 1 + (e - d - 1)
      OBVIOUS
    <2> QED
      BY <2>1
  <1>2. k * DayLen \in Nat
    BY Constants, SMTT(30)
  <1>3. (d + 1 + k) * DayLen = d * DayLen + DayLen + k * DayLen
    BY Constants, SMTT(30)
  <1>4. d * DayLen \in Nat
    BY Constants, SMTT(30)
  <1> QED
    BY <1>1, <1>2, <1>3, <1>4, Constants DEF D!dayStart, D!dayEnd

LEMMA DayIs ==
    ASSUME NEW t \in Nat, NEW d \in Nat, D!dayStart(d) <= t, t < D!dayEnd(d)
    PROVE  D!dayOf(t) = d
  <1> DEFINE e == D!dayOf(t)
  <1>1. e \in Nat /\ D!dayStart(e) <= t /\ t < D!dayEnd(e)
    BY InItsDay
  <1>2. D!dayStart(d) \in Nat /\ D!dayEnd(d) \in Nat /\ D!dayStart(e) \in Nat /\ D!dayEnd(e) \in Nat
    BY <1>1, DayTypes
  <1> HIDE DEF e
  <1>3. ~(d < e)
    BY <1>1, <1>2, DaysInOrder
  <1>4. ~(e < d)
    BY <1>1, <1>2, DaysInOrder
  <1>5. e = d
    BY <1>1, <1>3, <1>4
  <1> QED
    BY <1>5 DEF e

\* A later instant is in the same day or a later one.
LEMMA DaysAdvance ==
    ASSUME NEW t \in Nat, NEW u \in Nat, t <= u
    PROVE  D!dayOf(t) <= D!dayOf(u)
  <1> DEFINE d == D!dayOf(t)
             e == D!dayOf(u)
  <1>1. d \in Nat /\ e \in Nat /\ D!dayStart(d) <= t /\ u < D!dayEnd(e)
    BY InItsDay
  <1>2. D!dayStart(d) \in Nat /\ D!dayEnd(e) \in Nat
    BY <1>1, DayTypes
  <1> HIDE DEF d, e
  <1>3. ~(e < d)
    BY <1>1, <1>2, DaysInOrder
  <1>4. d <= e
    BY <1>1, <1>3
  <1> QED
    BY <1>4 DEF d, e

\* The story is over in the last of its days.
LEMMA InTheDays ==
    /\ D!Days \subseteq Nat
    /\ \A t \in 0..MaxNow : D!dayOf(t) \in D!Days
    /\ \A d \in D!Days : \A e \in 0..d : e \in D!Days
  <1>1. D!Days = 0..D!dayOf(MaxNow)
    BY DEF D!Days, D!dayOf
  <1>2. D!dayOf(MaxNow) \in Nat
    BY Constants, InItsDay
  <1>3. \A t \in 0..MaxNow : D!dayOf(t) \in Nat /\ D!dayOf(t) <= D!dayOf(MaxNow)
    BY Constants, InItsDay, DaysAdvance
  <1> QED
    BY <1>1, <1>2, <1>3

-----------------------------------------------------------------------------
(* Sets of numbers. *)

LEMMA SmallestSubset ==
    ASSUME NEW S, IsFiniteSet(S), NEW C, C \subseteq SUBSET S, C # {}
    PROVE  \E T \in C : \A U \in C : ~(U \subseteq T /\ U # T)
  <1>1. IsWellFoundedOn(StrictSubsetOrdering(S), SUBSET S)
    BY FS_StrictSubsetOrderingWellFounded, FS_FiniteSubsetsOfFinite
  <1>2. PICK T \in C : \A U \in C : ~(<<U, T>> \in StrictSubsetOrdering(S))
    BY <1>1, WFMin
  <1> QED
    BY <1>2 DEF StrictSubsetOrdering

LEMMA Smallest ==
    ASSUME NEW T, T \subseteq Nat, T # {}
    PROVE  \E t \in T : \A u \in T : t <= u
  <1>1. PICK top \in T : TRUE
    OBVIOUS
  <1> DEFINE upTo == 0..top
             C == {0..t : t \in {u \in T : u <= top}}
  <1>2. C \subseteq SUBSET upTo /\ C # {}
    BY <1>1
  <1>3. IsFiniteSet(upTo)
    BY <1>1, FS_Interval
  <1>4. PICK I \in C : \A J \in C : ~(J \subseteq I /\ J # I)
    <2> HIDE DEF C, upTo
    <2> QED
      BY <1>2, <1>3, SmallestSubset
  <1>5. PICK t \in T : t <= top /\ I = 0..t
    BY <1>4
  <1>6. ASSUME NEW u \in T, ~(t <= u)
        PROVE  FALSE
    <2>1. u \in Nat /\ t \in Nat /\ top \in Nat /\ u < t
      BY <1>1, <1>5, <1>6
    <2>2. 0..u \in C /\ 0..u \subseteq I /\ t \in I /\ t \notin 0..u
      BY <1>5, <2>1
    <2> HIDE DEF C
    <2> QED
      BY <1>4, <2>2
  <1> QED
    BY <1>6

LEMMA MinIs ==
    ASSUME NEW T, T \subseteq {-1} \cup Nat, T # {}
    PROVE  D!Min(T) \in T /\ \A u \in T : D!Min(T) <= u
  <1>1. \E t \in T : \A u \in T : t <= u
    <2>1. CASE -1 \in T
      BY <2>1
    <2>2. CASE -1 \notin T
      BY <2>2, Smallest
    <2> QED
      BY <2>1, <2>2
  <1> QED
    BY <1>1 DEF D!Min

LEMMA MaxIs ==
    ASSUME NEW n \in Nat, NEW T, T \subseteq 0..n, T # {}
    PROVE  D!Max(T) \in T /\ \A u \in T : u <= D!Max(T)
  <1> DEFINE M == {n - t : t \in T}
  <1>1. M \subseteq Nat /\ M # {}
    <2>1. \A t \in T : n - t \in Nat
      OBVIOUS
    <2> QED
      BY <2>1
  <1>2. PICK m \in M : \A v \in M : m <= v
    <2> HIDE DEF M
    <2> QED
      BY <1>1, Smallest
  <1>3. PICK t \in T : m = n - t
    BY <1>2
  <1>4. \A u \in T : t >= u
    <2>1. SUFFICES ASSUME NEW u \in T PROVE t >= u
      OBVIOUS
    <2>2. n - u \in M
      <3>1. \E v \in T : n - u = n - v
        OBVIOUS
      <3> QED
        BY <3>1
    <2>3. t \in Int /\ u \in Int
      OBVIOUS
    <2> HIDE DEF M
    <2>4. n - t <= n - u
      BY <1>2, <1>3, <2>2
    <2> QED
      BY <2>3, <2>4
  <1>5. \E x \in T : \A y \in T : x >= y
    BY <1>4
  <1>6. D!Max(T) \in T /\ \A y \in T : D!Max(T) >= y
    BY <1>5 DEF D!Max
  <1> QED
    BY <1>6

LEMMA MaxOfTwo ==
    ASSUME NEW a \in Nat, NEW b \in Nat
    PROVE  D!Max({a, b}) = IF a >= b THEN a ELSE b
  <1> DEFINE n == IF a >= b THEN a ELSE b
  <1>1. n \in Nat /\ {a, b} \subseteq 0..n /\ n \in {a, b}
    OBVIOUS
  <1>2. D!Max({a, b}) \in {a, b} /\ \A u \in {a, b} : u <= D!Max({a, b})
    BY <1>1, MaxIs
  <1> QED
    BY <1>2

LEMMA SameCardinality ==
    ASSUME NEW S
    PROVE  D!Cardinality(S) = Cardinality(S)
  BY Zenon DEF D!Cardinality, Cardinality

LEMMA CardinalityOfPart ==
    ASSUME NEW a \in Int, NEW b \in Int, a <= b, NEW S, S \subseteq a..(b - 1)
    PROVE  IsFiniteSet(S) /\ Cardinality(S) \in Nat /\ Cardinality(S) <= b - a
  <1> DEFINE last == b - 1
  <1>1. last \in Int /\ b - a = (IF a > last THEN 0 ELSE last - a + 1)
    OBVIOUS
  <1>3. S \subseteq a..last
    OBVIOUS
  <1> HIDE DEF last
  <1>2. IsFiniteSet(a..last) /\ Cardinality(a..last) = b - a
    BY <1>1, FS_Interval
  <1> QED
    BY <1>2, <1>3, FS_Subset, FS_CardinalityType

\* Two parts that do not meet count as much as both together.
LEMMA Disjoint ==
    ASSUME NEW S, NEW T, IsFiniteSet(S), IsFiniteSet(T), S \cap T = {}
    PROVE  /\ IsFiniteSet(S \cup T) /\ Cardinality(S \cup T) = Cardinality(S) + Cardinality(T)
           /\ Cardinality(S) \in Nat /\ Cardinality(T) \in Nat
  <1>1. Cardinality(S \cap T) = 0
    BY FS_EmptySet
  <1>2. IsFiniteSet(S \cup T)
        /\ Cardinality(S \cup T) = Cardinality(S) + Cardinality(T) - Cardinality(S \cap T)
    BY FS_Union
  <1>3. Cardinality(S) \in Nat /\ Cardinality(T) \in Nat
    BY FS_CardinalityType
  <1> QED
    BY <1>1, <1>2, <1>3

-----------------------------------------------------------------------------
(* The fold over the samples of a window, one sample at a time. *)

FoldIs(ser, st, S, f) ==
    f = [T \in SUBSET S |->
           IF T = {} THEN st ELSE D!Step(ser, f[T \ {D!Max(T)}], D!Max(T))]

Fold(ser, st, S) == CHOOSE f : FoldIs(ser, st, S, f)
After(ser, st, S) == Fold(ser, st, S)[S]

LEMMA WindowFolds ==
    ASSUME NEW ser, NEW s0, NEW s1, NEW start
    PROVE  D!Window(ser, s0, s1, start) =
             LET ts == D!Times(ser, s0, s1)
                 w == After(ser, D!Start(D!From(ser, s0, s1, start), D!Base(ser, s0, start)), ts)
             IN  [value |-> w.inc,
                  cover |-> IF ts = {} THEN {}
                            ELSE w.closed \cup
                                   {<<w.open, IF s1 - w.at <= TailLen THEN s1 ELSE w.at>>}]
  BY DEF D!Window, D!MapThenFoldSet, After, Fold, FoldIs

LEMMA FoldUnfold ==
    ASSUME NEW ser, NEW st, NEW S, NEW f, FoldIs(ser, st, S, f), NEW T, T \subseteq S
    PROVE  f[T] = IF T = {} THEN st ELSE D!Step(ser, f[T \ {D!Max(T)}], D!Max(T))
  <1> DEFINE g == [U \in SUBSET S |->
                     IF U = {} THEN st ELSE D!Step(ser, f[U \ {D!Max(U)}], D!Max(U))]
  <1>1. f = g
    BY DEF FoldIs
  <1>2. g[T] = IF T = {} THEN st ELSE D!Step(ser, f[T \ {D!Max(T)}], D!Max(T))
    OBVIOUS
  <1> QED
    BY <1>1, <1>2

\* A set of instants: none is later than some n.
Instants(S) == \E n \in Nat : S \subseteq 0..n

LEMMA InstantsFacts ==
    ASSUME NEW S, Instants(S)
    PROVE  /\ IsFiniteSet(S)
           /\ \A T \in SUBSET S : Instants(T)
           /\ S # {} => D!Max(S) \in S /\ \A t \in S : t <= D!Max(S)
  <1>1. PICK n \in Nat : S \subseteq 0..n
    BY DEF Instants
  <1>2. IsFiniteSet(0..n)
    BY FS_Interval
  <1>3. \A T \in SUBSET S : Instants(T)
    BY <1>1 DEF Instants
  <1>4. S # {} => D!Max(S) \in S /\ \A t \in S : t <= D!Max(S)
    BY <1>1, MaxIs
  <1> QED
    BY <1>1, <1>2, <1>3, <1>4, FS_Subset

LEMMA MaxIn ==
    ASSUME NEW S, Instants(S), NEW T \in SUBSET S, T # {}
    PROVE  D!Max(T) \in T
  BY InstantsFacts

\* Two such functions agree wherever both speak.
LEMMA FoldsAgree ==
    ASSUME NEW ser, NEW st,
           NEW A, NEW f, FoldIs(ser, st, A, f), NEW B, NEW g, FoldIs(ser, st, B, g),
           NEW S, S \subseteq A, S \subseteq B, Instants(S)
    PROVE  f[S] = g[S]
  <1> DEFINE Bad == {T \in SUBSET S : f[T] # g[T]}
  <1>1. SUFFICES ASSUME Bad # {} PROVE FALSE
    OBVIOUS
  <1>2. PICK T \in Bad : \A U \in Bad : ~(U \subseteq T /\ U # T)
    <2>1. Bad \subseteq SUBSET S
      OBVIOUS
    <2>2. IsFiniteSet(S)
      BY InstantsFacts
    <2> HIDE DEF Bad
    <2> QED
      BY <1>1, <2>1, <2>2, SmallestSubset
  <1>3. T \subseteq A /\ T \subseteq B /\ T \subseteq S /\ f[T] # g[T]
    BY <1>2
  <1>4. T # {}
    BY <1>3, FoldUnfold
  <1>5. D!Max(T) \in T
    BY <1>3, <1>4, MaxIn
  <1> DEFINE U == T \ {D!Max(T)}
  <1>6. U \subseteq T /\ U # T /\ U \subseteq S
    BY <1>3, <1>5
  <1>7. f[U] = g[U]
    BY <1>2, <1>6
  <1>8. f[T] = D!Step(ser, f[U], D!Max(T))
    BY <1>3, <1>4, FoldUnfold
  <1>9. g[T] = D!Step(ser, g[U], D!Max(T))
    BY <1>3, <1>4, FoldUnfold
  <1> QED
    BY <1>3, <1>7, <1>8, <1>9

\* There is such a function for every set of instants.
LEMMA FoldExists ==
    ASSUME NEW ser, NEW st, NEW S, Instants(S)
    PROVE  FoldIs(ser, st, S, Fold(ser, st, S))
  <1> DEFINE Has(T) == \E f : FoldIs(ser, st, T, f)
             Bad == {T \in SUBSET S : ~Has(T)}
             The(T) == Fold(ser, st, T)
  <1>1. Bad = {}
    <2>1. SUFFICES ASSUME Bad # {} PROVE FALSE
      OBVIOUS
    <2>2. PICK T \in Bad : \A U \in Bad : ~(U \subseteq T /\ U # T)
      <3>1. Bad \subseteq SUBSET S
        OBVIOUS
      <3>2. IsFiniteSet(S)
        BY InstantsFacts
      <3> HIDE DEF Bad
      <3> QED
        BY <2>1, <3>1, <3>2, SmallestSubset
    <2>3. \A U \in SUBSET T : U # T => FoldIs(ser, st, U, The(U))
      <3>1. SUFFICES ASSUME NEW U \in SUBSET T, U # T PROVE \E f : FoldIs(ser, st, U, f)
        BY DEF Fold
      <3> QED
        BY <2>2, <3>1
    <2> DEFINE part0 == [U \in SUBSET T |-> The(U)[U]]
               rest == T \ {D!Max(T)}
               whole == IF T = {} THEN st ELSE D!Step(ser, part0[rest], D!Max(T))
               f == [U \in SUBSET T |-> IF U = T THEN whole ELSE part0[U]]
               Next1(U) == IF U = {} THEN st ELSE D!Step(ser, f[U \ {D!Max(U)}], D!Max(U))
    <2>4. ASSUME NEW U \in SUBSET T PROVE f[U] = Next1(U)
      <3>1. CASE U = {} /\ U = T
        BY <3>1
      <3>2. CASE U = T /\ U # {}
        <4>1. D!Max(T) \in T
          BY <2>2, <3>2, MaxIn
        <4>2. rest \in SUBSET T /\ rest # T
          BY <4>1
        <4>3. f[rest] = part0[rest]
          BY <4>2
        <4> QED
          BY <3>2, <4>3
      <3>3. CASE U # T /\ U = {}
        <4>1. The(U)[U] = st
          BY <2>3, <3>3, FoldUnfold
        <4> QED
          BY <3>3, <4>1
      <3>4. CASE U # T /\ U # {}
        <4> DEFINE W == U \ {D!Max(U)}
        <4>1. D!Max(U) \in U
          BY <2>2, <3>4, MaxIn
        <4>2. W \in SUBSET T /\ W # T /\ W \subseteq U /\ Instants(W)
          BY <2>2, <4>1, InstantsFacts
        <4>3. The(U)[U] = D!Step(ser, The(U)[W], D!Max(U))
          BY <2>3, <3>4, FoldUnfold
        <4>4. The(U)[W] = The(W)[W]
          <5>1. FoldIs(ser, st, U, The(U)) /\ FoldIs(ser, st, W, The(W))
            BY <2>3, <3>4, <4>2
          <5> HIDE DEF W
          <5> QED
            BY <4>2, <5>1, FoldsAgree
        <4>5. f[W] = The(W)[W] /\ f[U] = The(U)[U]
          BY <3>4, <4>2
        <4> QED
          BY <3>4, <4>3, <4>4, <4>5
      <3> QED
        BY <3>1, <3>2, <3>3, <3>4
    <2>5. f = [U \in SUBSET T |-> Next1(U)]
      <3> HIDE DEF Next1
      <3> QED
        BY <2>4
    <2>6. FoldIs(ser, st, T, f)
      BY <2>5 DEF FoldIs
    <2> QED
      BY <2>2, <2>6
  <1>2. \E f : FoldIs(ser, st, S, f)
    BY <1>1
  <1> QED
    BY <1>2 DEF Fold

\* So the fold takes the samples one after the other.
LEMMA AfterNone ==
    ASSUME NEW ser, NEW st
    PROVE  After(ser, st, {}) = st
  <1>1. FoldIs(ser, st, {}, Fold(ser, st, {}))
    <2>1. Instants({})
      BY DEF Instants
    <2> QED
      BY <2>1, FoldExists
  <1> QED
    BY <1>1, FoldUnfold DEF After

LEMMA AfterLast ==
    ASSUME NEW ser, NEW st, NEW S, Instants(S), S # {}
    PROVE  After(ser, st, S) = D!Step(ser, After(ser, st, S \ {D!Max(S)}), D!Max(S))
  <1> DEFINE R == S \ {D!Max(S)}
  <1>1. R \subseteq S /\ Instants(R)
    BY InstantsFacts
  <1>2. FoldIs(ser, st, S, Fold(ser, st, S)) /\ FoldIs(ser, st, R, Fold(ser, st, R))
    <2> HIDE DEF R
    <2> QED
      BY <1>1, FoldExists
  <1>3. Fold(ser, st, S)[S] = D!Step(ser, Fold(ser, st, S)[R], D!Max(S))
    BY <1>2, FoldUnfold
  <1>4. Fold(ser, st, S)[R] = Fold(ser, st, R)[R]
    <2> HIDE DEF R
    <2> QED
      BY <1>1, <1>2, FoldsAgree
  <1> QED
    BY <1>3, <1>4 DEF After

-----------------------------------------------------------------------------
(* The inductive invariant. *)

\* The units of [a, b) in which the machine was up.
Units(a, b) == {u \in a..(b - 1) : u \notin D!OffUnits}
NoOff(a, b) == \A o \in D!OffUnits : ~(a <= o /\ o < b)

WorldOK ==
    /\ traffic \in [0..(now - 1) -> {"ll", "direct", "off"}]
    /\ series \in Seq({D!NoSample} \cup Nat) /\ Len(series) = now
    /\ now \in 0..MaxNow /\ lag \in {0, 1} /\ faults \in 0..MaxFaults
    /\ boot \in D!Before..now
    /\ pruned \in 0..MaxNow /\ (pruned = 0 \/ pruned <= now - LogDays * DayLen - 1)

Sampled == {t \in 1..now : series[t] # D!NoSample}
ValueAt(t) == IF boot = D!Before THEN FirstValue + t ELSE t - boot

\* The counter counts the units of the server that runs, from 0 at its start.
SeriesRight ==
    /\ \A t \in Sampled : NoOff(t, now) => series[t] = ValueAt(t)
    /\ \A t, v \in Sampled : t < v /\ NoOff(t, v) => series[v] = series[t] + (v - t)
    /\ \A o \in D!OffUnits : o + 1 \in Sampled => series[o + 1] = 0

\* The switch instant is the first sample.
SavedRight == saved # D!NoSample => saved \in Sampled /\ \A t \in Sampled : saved <= t

RunOK ==
    \/ run = D!Idle
    \/ /\ run \in [pc : {"counters", "rows", "today"}, nowSec : 0..now, T : {saved},
                   skip : SUBSET D!Days, day : D!Days]
       /\ now <= run.nowSec + 1
       /\ IF run.pc = "today" THEN run.day = D!dayOf(run.nowSec)
                              ELSE run.day < D!dayOf(run.nowSec)

DayOK(d, day) ==
    /\ day \in D!DayRecord
    /\ day.cov \subseteq day.rows /\ day.rows \subseteq D!UnitsOf(d)
    /\ day.ctr = D!NoSample => day.cov = {}

\* The counter of day d is asked for from the day's start or the switch on, and tells
\* everything when it was scraped at both ends and around every restart.
FromOf(d) == IF D!dayStart(d) >= saved THEN D!dayStart(d) ELSE saved
Whole(d) ==
    /\ D!Scraped(FromOf(d)) /\ D!Scraped(D!dayEnd(d))
    /\ D!SeenRestarts(FromOf(d), D!dayEnd(d))
CounterAsked(d) == saved # D!NoSample /\ saved < D!dayEnd(d) /\ D!dayEnd(d) <= now

\* What was stored of a day counts its units, and covers its rows, from there on.
StoredRight ==
    \A d \in D!Days :
        /\ DayOK(d, stored[d])
        /\ stored[d].ctr # D!NoSample =>
             /\ CounterAsked(d)
             /\ Whole(d) => /\ stored[d].ctr = Cardinality(Units(FromOf(d), D!dayEnd(d)))
                            /\ stored[d].cov = {u \in stored[d].rows : u >= saved}

DaysTyped ==
    /\ stored \in [D!Days -> D!DayRecord] /\ live \in [D!Days -> D!DayRecord]
    /\ \A d \in D!Days : DayOK(d, live[d])

DoneRight ==
    /\ done \subseteq D!Days
    /\ \A d \in done : D!dayEnd(d) <= now
    /\ D!SettledDaysKeepTheirRows

\* A window of today counts at most the units of the one stretch it covers, which begins
\* at a sample.
Reads(s0, at, cover, ctr) ==
    \/ cover = {} /\ ctr = 0
    \/ \E f \in Sampled : \E e \in f..at :
         s0 <= f /\ cover = {<<f, e>>} /\ ctr <= e - f

TodayRight(at, cover, ctr) ==
    LET s0 == D!dayStart(D!dayOf(at))
    IN  /\ at \in 0..now /\ ctr \in Nat
        /\ at = s0 \/ (D!Scraped(s0) /\ D!SeenRestarts(s0, at)) => Reads(s0, at, cover, ctr)

SnapRight ==
    \/ snap = D!NoSnap
    \/ /\ snap.at \in 0..now
       /\ snap.raw = D!NoSample \/ TodayRight(snap.at, snap.cover, snap.raw)

GotRight ==
    \/ got = D!NoReading
    \/ /\ run.pc = "rows" /\ got.ctr \in Nat /\ CounterAsked(run.day)
       /\ Whole(run.day) =>
            /\ got.ctr = Cardinality(Units(FromOf(run.day), D!dayEnd(run.day)))
            /\ got.cover = {<<FromOf(run.day), D!dayEnd(run.day)>>}
    \/ run.pc = "today" /\ saved # D!NoSample /\ TodayRight(got.at, got.cover, got.ctr)

DaysInv ==
    /\ WorldOK /\ SeriesRight /\ SavedRight /\ RunOK /\ DaysTyped /\ StoredRight /\ DoneRight
    /\ SnapRight /\ GotRight

-----------------------------------------------------------------------------
(* What a window tells. *)

LEMMA WorldTypes ==
    ASSUME WorldOK
    PROVE  /\ now \in Nat /\ Sampled \subseteq 1..now /\ Instants(Sampled)
           /\ \A t \in 1..now : series[t] \in {-1} \cup Nat
           /\ \A t \in Sampled : series[t] \in Nat
           /\ DOMAIN series = 1..now
           /\ D!OffUnits = {u \in 0..(now - 1) : traffic[u] = "off"}
  <1>1. now \in Nat /\ Len(series) = now /\ series \in Seq({-1} \cup Nat)
    BY Constants DEF WorldOK, D!NoSample
  <1>2. DOMAIN series = 1..now /\ \A t \in 1..now : series[t] \in {-1} \cup Nat
    BY <1>1
  <1>3. \A t \in Sampled : series[t] \in Nat
    BY <1>2 DEF Sampled, D!NoSample
  <1>4. Sampled \subseteq 1..now
    BY DEF Sampled
  <1>5. Instants(Sampled)
    <2>1. Sampled \subseteq 0..now
      BY <1>1, <1>4
    <2> QED
      BY <1>1, <2>1 DEF Instants
  <1>6. D!OffUnits = {u \in 0..(now - 1) : traffic[u] = "off"}
    BY DEF WorldOK, D!OffUnits, D!Carried
  <1> QED
    BY <1>1, <1>2, <1>3, <1>4, <1>5, <1>6

LEMMA TimesAre ==
    ASSUME WorldOK, NEW a, NEW b
    PROVE  D!Times(series, a, b) = {t \in Sampled : a < t /\ t <= b}
  <1>1. DOMAIN series = 1..now
    BY WorldTypes
  <1> QED
    BY <1>1 DEF D!Times, Sampled

LEMMA ScrapedIs ==
    ASSUME WorldOK, NEW t \in 0..now
    PROVE  D!Scraped(t) <=> t = 0 \/ t \in Sampled
  BY WorldTypes DEF D!Scraped, Sampled

\* Whatever the samples, a window counts nothing negative.
FoldTyped(w) == w.inc \in Nat /\ w.prev \in {-1} \cup Nat

LEMMA StepTyped ==
    ASSUME NEW x \in Nat, NEW w, FoldTyped(w), NEW t, series[t] = x
    PROVE  FoldTyped(D!Step(series, w, t))
  <1>1. D!Increase(x, w.prev) \in Nat
    BY DEF D!Increase, FoldTyped, D!NoSample
  <1>2. D!Step(series, w, t).inc = w.inc + D!Increase(x, w.prev) /\ D!Step(series, w, t).prev = x
    BY DEF D!Step
  <1> QED
    BY <1>1, <1>2 DEF FoldTyped

LEMMA AfterTyped ==
    ASSUME WorldOK, NEW st, FoldTyped(st), NEW S, S \subseteq Sampled
    PROVE  FoldTyped(After(series, st, S))
  <1> DEFINE Bad == {T \in SUBSET S : ~FoldTyped(After(series, st, T))}
  <1>1. SUFFICES ASSUME Bad # {} PROVE FALSE
    OBVIOUS
  <1>2. Instants(S) /\ IsFiniteSet(S)
    BY WorldTypes, InstantsFacts
  <1>3. PICK T \in Bad : \A U \in Bad : ~(U \subseteq T /\ U # T)
    <2>1. Bad \subseteq SUBSET S
      OBVIOUS
    <2> HIDE DEF Bad
    <2> QED
      BY <1>1, <1>2, <2>1, SmallestSubset
  <1>4. T \subseteq S /\ T # {} /\ Instants(T)
    BY <1>2, <1>3, AfterNone, InstantsFacts
  <1> DEFINE m == D!Max(T)
             U == T \ {m}
  <1>5. m \in T /\ m \in Sampled
    BY <1>4, InstantsFacts
  <1>6. FoldTyped(After(series, st, U))
    <2>1. U \subseteq T /\ U # T /\ U \in SUBSET S
      BY <1>4, <1>5
    <2> QED
      BY <1>3, <2>1
  <1>7. After(series, st, T) = D!Step(series, After(series, st, U), m)
    BY <1>4, AfterLast
  <1>8. series[m] \in Nat
    BY <1>5, WorldTypes
  <1>9. FoldTyped(After(series, st, T))
    <2> HIDE DEF m, U
    <2> QED
      BY <1>6, <1>7, <1>8, StepTyped
  <1> QED
    BY <1>3, <1>9

LEMMA WindowTyped ==
    ASSUME WorldOK, NEW s0 \in Nat, NEW s1 \in Nat, NEW start
    PROVE  D!Window(series, s0, s1, start).value \in Nat
  <1> DEFINE ts == D!Times(series, s0, s1)
             fresh == D!Times(series, s0 - FreshLen, s0)
             b == D!Base(series, s0, start)
             st == D!Start(D!From(series, s0, s1, start), b)
  <1>1. ts \subseteq Sampled /\ fresh \subseteq Sampled
    BY TimesAre
  <1>2. fresh # {} => D!Max(fresh) \in Sampled
    BY <1>1, WorldTypes, MaxIn
  <1>3. b \in {-1} \cup Nat
    BY <1>2, WorldTypes DEF D!Base, D!NoSample
  <1>4. FoldTyped(st)
    BY <1>3 DEF FoldTyped, D!Start
  <1>5. After(series, st, ts).inc \in Nat
    <2> HIDE DEF ts, st
    <2> QED
      BY <1>1, <1>4, AfterTyped DEF FoldTyped
  <1>6. D!Window(series, s0, s1, start).value = After(series, st, ts).inc
    BY WindowFolds
  <1> QED
    BY <1>5, <1>6

LEMMA UnitsTyped ==
    ASSUME NEW a \in Nat, NEW b \in Nat, a <= b
    PROVE  /\ IsFiniteSet(Units(a, b)) /\ Cardinality(Units(a, b)) \in Nat
           /\ Cardinality(Units(a, b)) <= b - a
  <1> DEFINE S == Units(a, b)
  <1>1. S \subseteq a..(b - 1)
    BY DEF Units
  <1>2. a \in Int /\ b \in Int
    OBVIOUS
  <1>3. IsFiniteSet(S) /\ Cardinality(S) \in Nat /\ Cardinality(S) <= b - a
    <2> HIDE DEF S
    <2> QED
      BY <1>1, <1>2, CardinalityOfPart
  <1> QED
    BY <1>3

LEMMA NoUnits ==
    ASSUME NEW a \in Nat
    PROVE  Cardinality(Units(a, a)) = 0
  <1>1. Units(a, a) = {}
    BY DEF Units
  <1> QED
    BY <1>1, FS_EmptySet

\* Without a restart every unit counts.
LEMMA UnitsGrow ==
    ASSUME NEW a \in Nat, NEW p \in Nat, NEW t \in Nat, a <= p, p <= t, NoOff(p, t)
    PROVE  Cardinality(Units(a, t)) = Cardinality(Units(a, p)) + (t - p)
  <1> DEFINE last == t - 1
             more == p..last
  <1>1. Units(a, t) = Units(a, p) \cup more /\ Units(a, p) \cap more = {}
    BY DEF Units, NoOff
  <1>2. p \in Int /\ last \in Int /\ t - p = IF p > last THEN 0 ELSE last - p + 1
    OBVIOUS
  <1>3. IsFiniteSet(more) /\ Cardinality(more) = t - p
    <2> HIDE DEF last
    <2>1. IsFiniteSet(p..last) /\ Cardinality(p..last) = IF p > last THEN 0 ELSE last - p + 1
      BY <1>2, FS_Interval
    <2> QED
      BY <1>2, <2>1
  <1>4. IsFiniteSet(Units(a, p))
    BY UnitsTyped
  <1> HIDE DEF more
  <1> QED
    BY <1>1, <1>3, <1>4, Disjoint

\* The fold after the sample p, when the window began at the sample f.
Ran(f, p) ==
    [inc |-> Cardinality(Units(f, p)), at |-> p, prev |-> series[p], open |-> f, closed |-> {}]

\* No sample lies between the two.
Follows(p, t) == p < t /\ \A v \in Sampled : v < t => v <= p

LEMMA OneMoreSample ==
    ASSUME WorldOK, SeriesRight, NEW f \in Sampled, NEW p \in Sampled, NEW t \in Sampled,
           f <= p, Follows(p, t), D!SeenRestarts(f, t)
    PROVE  D!Step(series, Ran(f, p), t) = Ran(f, t)
  <1> DEFINE x == series[t]
             y == series[p]
  <1>1. x \in Nat /\ y \in Nat /\ now \in Nat /\ Sampled \subseteq 1..now
    BY WorldTypes
  <1>2. f \in Nat /\ p \in Nat /\ t \in Nat /\ p < t /\ 1 <= f /\ t <= now
    BY <1>1 DEF Follows
  <1>3. Cardinality(Units(f, p)) \in Nat
    BY <1>2, UnitsTyped
  <1>4. /\ Cardinality(Units(f, t)) = Cardinality(Units(f, p)) + D!Increase(x, y)
        /\ x < y => t - p = 1
    <2>1. CASE NoOff(p, t)
      <3>1. x = y + (t - p)
        BY <1>2, <2>1 DEF SeriesRight
      <3>2. Cardinality(Units(f, t)) = Cardinality(Units(f, p)) + (t - p)
        BY <1>2, <2>1, UnitsGrow
      <3>3. D!Increase(x, y) = t - p /\ ~(x < y)
        BY <1>1, <1>2, <3>1 DEF D!Increase, D!NoSample
      <3> QED
        BY <3>2, <3>3
    <2>2. CASE ~NoOff(p, t)
      <3>1. PICK o \in D!OffUnits : p <= o /\ o < t
        BY <2>2 DEF NoOff
      <3>2. o \in 0..(now - 1)
        BY WorldTypes
      <3>3. D!Scraped(o) /\ D!Scraped(o + 1)
        BY <1>2, <3>1, <3>2 DEF D!SeenRestarts
      <3>4. o \in Sampled /\ o + 1 \in Sampled
        BY <1>1, <1>2, <3>1, <3>2, <3>3, ScrapedIs
      <3>5. o = p /\ o + 1 = t
        BY <1>2, <3>1, <3>2, <3>4 DEF Follows
      <3>6. x = 0
        BY <3>4, <3>5 DEF SeriesRight
      <3>7. D!Increase(x, y) = 0
        BY <1>1, <3>6 DEF D!Increase, D!NoSample
      <3>8. Units(f, t) = Units(f, p)
        BY <1>2, <3>1, <3>5 DEF Units
      <3> QED
        BY <1>2, <1>3, <3>5, <3>7, <3>8
    <2> QED
      BY <2>1, <2>2
  <1>5. ~D!Hole(Ran(f, p), t, x)
    BY <1>4, Constants DEF D!Hole, Ran
  <1> QED
    BY <1>4, <1>5 DEF D!Step, Ran

SampledIn(s0, s1) == {t \in Sampled : s0 < t /\ t <= s1}

LEMMA NextSample ==
    ASSUME WorldOK, NEW s0 \in Nat, NEW k \in Nat, NEW n \in Nat, n = k + 1, s0 <= k
    PROVE  /\ n \notin Sampled => SampledIn(s0, n) = SampledIn(s0, k)
           /\ n \in Sampled => /\ SampledIn(s0, n) \ {n} = SampledIn(s0, k)
                               /\ D!Max(SampledIn(s0, n)) = n
                               /\ SampledIn(s0, n) # {} /\ Instants(SampledIn(s0, n))
  <1>1. Sampled \subseteq Nat /\ Instants(Sampled)
    BY WorldTypes
  <1>2. \A t \in Sampled : t <= n <=> t <= k \/ t = n
    BY <1>1
  <1>3. ~(n <= k) /\ s0 < n /\ n <= n
    OBVIOUS
  <1>4. n \notin Sampled => SampledIn(s0, n) = SampledIn(s0, k)
    BY <1>2 DEF SampledIn
  <1>5. ASSUME n \in Sampled
        PROVE  /\ SampledIn(s0, n) \ {n} = SampledIn(s0, k)
               /\ n \in SampledIn(s0, n) /\ SampledIn(s0, n) \subseteq Sampled
               /\ \A t \in SampledIn(s0, n) : t <= n
    BY <1>2, <1>3, <1>5 DEF SampledIn
  <1>6. ASSUME n \in Sampled, NEW S, S = SampledIn(s0, n)
        PROVE  D!Max(S) = n /\ Instants(S)
    <2>1. Instants(S) /\ D!Max(S) \in S /\ n <= D!Max(S)
      BY <1>1, <1>5, <1>6, InstantsFacts
    <2>2. D!Max(S) \in Nat /\ D!Max(S) <= n
      BY <1>1, <1>5, <1>6, <2>1
    <2> QED
      BY <2>1, <2>2
  <1> QED
    BY <1>4, <1>5, <1>6

\* After all samples up to s1 the fold stands at the last of them.
LastSample(f, p, s1) == p \in Sampled /\ f <= p /\ p <= s1 /\ \A t \in Sampled : t <= s1 => t <= p

LEMMA FoldRuns ==
    ASSUME WorldOK, SeriesRight, NEW st, NEW s0 \in Nat, NEW f \in Sampled, s0 <= f,
           After(series, st, SampledIn(s0, f)) = Ran(f, f),
           NEW s1 \in f..now, D!SeenRestarts(f, s1)
    PROVE  \E p \in Sampled : LastSample(f, p, s1) /\ After(series, st, SampledIn(s0, s1)) = Ran(f, p)
  <1> DEFINE Good(n) == \E p \in Sampled : LastSample(f, p, n)
                            /\ After(series, st, SampledIn(s0, n)) = Ran(f, p)
             Bad == {n \in f..s1 : ~Good(n)}
  <1>1. SUFFICES ASSUME Bad # {} PROVE FALSE
    <2>1. f \in Nat /\ s1 \in f..s1
      BY WorldTypes
    <2> QED
      BY <2>1
  <1>2. f \in Nat /\ now \in Nat /\ s1 \in Nat /\ Sampled \subseteq 1..now
    BY WorldTypes
  <1>3. PICK n \in Bad : \A k \in Bad : n <= k
    <2>1. Bad \subseteq Nat
      BY <1>2
    <2> HIDE DEF Bad
    <2> QED
      BY <1>1, <2>1, Smallest
  <1>4. n \in f..s1 /\ n \in Nat /\ ~Good(n)
    BY <1>2, <1>3
  <1>5. Good(f)
    <2>1. LastSample(f, f, f)
      BY <1>2 DEF LastSample
    <2> QED
      BY <2>1
  <1>6. n # f
    <2> HIDE DEF Good
    <2> QED
      BY <1>4, <1>5
  <1> DEFINE k == n - 1
  <1>7. k \in f..s1 /\ k \in Nat /\ n = k + 1 /\ k < n
    BY <1>2, <1>4, <1>6
  <1>8. Good(k)
    <2>1. k \notin Bad
      BY <1>3, <1>7
    <2> HIDE DEF Good, k
    <2> QED
      BY <1>7, <2>1
  <1>9. PICK p \in Sampled : LastSample(f, p, k) /\ After(series, st, SampledIn(s0, k)) = Ran(f, p)
    BY <1>8
  <1> HIDE DEF k, Bad
  <1>10. p \in Nat /\ f <= p /\ p <= k /\ \A t \in Sampled : t <= k => t <= p
    BY <1>2, <1>9 DEF LastSample
  <1>11. s0 <= k
    BY <1>2, <1>7
  <1>12. CASE n \notin Sampled
    <2>1. SampledIn(s0, n) = SampledIn(s0, k)
      BY <1>4, <1>7, <1>12, <1>11, NextSample
    <2>2. LastSample(f, p, n)
      BY <1>2, <1>4, <1>7, <1>10, <1>12 DEF LastSample
    <2>3. Good(n)
      BY <1>9, <2>1, <2>2
    <2> QED
      BY <1>4, <2>3
  <1>13. CASE n \in Sampled
    <2> DEFINE S == SampledIn(s0, n)
    <2>1. S \ {n} = SampledIn(s0, k) /\ D!Max(S) = n /\ S # {} /\ Instants(S)
      BY <1>4, <1>7, <1>13, <1>11, NextSample
    <2>2. After(series, st, S) = D!Step(series, Ran(f, p), n)
      <3> HIDE DEF S
      <3> QED
        BY <1>9, <2>1, AfterLast
    <2>3. Follows(p, n)
      BY <1>2, <1>7, <1>10 DEF Follows
    <2>4. D!SeenRestarts(f, n)
      <3>1. \A o \in D!OffUnits : o \in Nat
        BY <1>2, WorldTypes
      <3> QED
        BY <1>2, <1>4, <3>1 DEF D!SeenRestarts
    <2>5. After(series, st, S) = Ran(f, n)
      BY <1>10, <1>13, <2>2, <2>3, <2>4, OneMoreSample
    <2>6. LastSample(f, n, n)
      BY <1>2, <1>4, <1>13 DEF LastSample
    <2>7. Good(n)
      BY <1>13, <2>5, <2>6
    <2> QED
      BY <1>4, <2>7
  <1> QED
    BY <1>12, <1>13

\* The window of promCounterWindow, in these terms.
Opened(s0, s1, start) == D!Start(D!From(series, s0, s1, start), D!Base(series, s0, start))

Folded(s0, s1, start) == After(series, Opened(s0, s1, start), SampledIn(s0, s1))

LEMMA WindowIs ==
    ASSUME WorldOK, NEW s0 \in Nat, NEW s1 \in Nat, NEW start
    PROVE  /\ D!Window(series, s0, s1, start).value = Folded(s0, s1, start).inc
           /\ D!Window(series, s0, s1, start).cover =
                IF SampledIn(s0, s1) = {} THEN {}
                ELSE Folded(s0, s1, start).closed \cup
                       {<<Folded(s0, s1, start).open,
                          IF s1 - Folded(s0, s1, start).at <= TailLen
                          THEN s1 ELSE Folded(s0, s1, start).at>>}
  <1>1. D!Times(series, s0, s1) = SampledIn(s0, s1)
    BY TimesAre DEF SampledIn
  <1> QED
    BY <1>1, WindowFolds DEF Folded, Opened

\* What the fold tells once it stands at the sample p: the units from f to p, in one
\* stretch that ends at p or with the window.
LEMMA RanTells ==
    ASSUME WorldOK, NEW s0 \in Nat, NEW s1 \in Nat, NEW start, NEW f, NEW p,
           Folded(s0, s1, start) = Ran(f, p)
    PROVE  /\ D!Window(series, s0, s1, start).value = Cardinality(Units(f, p))
           /\ D!Window(series, s0, s1, start).cover =
                IF SampledIn(s0, s1) = {} THEN {}
                ELSE {<<f, IF s1 - p <= TailLen THEN s1 ELSE p>>}
  <1> DEFINE w == Folded(s0, s1, start)
  <1>1. w.inc = Cardinality(Units(f, p)) /\ w.closed = {} /\ w.open = f /\ w.at = p
    BY DEF Ran
  <1>2. \A X : {} \cup X = X
    OBVIOUS
  <1>3. D!Window(series, s0, s1, start).value = w.inc
    BY WindowIs
  <1>4. D!Window(series, s0, s1, start).cover =
          IF SampledIn(s0, s1) = {} THEN {}
          ELSE w.closed \cup {<<w.open, IF s1 - w.at <= TailLen THEN s1 ELSE w.at>>}
    BY WindowIs
  <1> HIDE DEF w
  <1> QED
    BY <1>1, <1>2, <1>3, <1>4

LEMMA RanWhole ==
    ASSUME WorldOK, NEW s0 \in Nat, NEW s1 \in Nat, NEW start, NEW f,
           Folded(s0, s1, start) = Ran(f, s1), SampledIn(s0, s1) # {}
    PROVE  /\ D!Window(series, s0, s1, start).value = Cardinality(Units(f, s1))
           /\ D!Window(series, s0, s1, start).cover = {<<f, s1>>}
  <1>1. /\ D!Window(series, s0, s1, start).value = Cardinality(Units(f, s1))
        /\ D!Window(series, s0, s1, start).cover =
             IF SampledIn(s0, s1) = {} THEN {}
             ELSE {<<f, IF s1 - s1 <= TailLen THEN s1 ELSE s1>>}
    BY RanTells
  <1> QED
    BY <1>1

\* A window that begins at a sample opens with its value.
LEMMA OpensAtSample ==
    ASSUME WorldOK, NEW s0 \in Sampled, NEW s1 \in s0..now, NEW start
    PROVE  After(series, Opened(s0, s1, start), SampledIn(s0, s0)) = Ran(s0, s0)
  <1>1. s0 \in Nat /\ Sampled \subseteq Nat /\ 0 < s0 /\ now \in Nat
    BY WorldTypes
  <1> DEFINE fresh == D!Times(series, s0 - FreshLen, s0)
  <1>2. s0 \in fresh /\ fresh \subseteq Sampled /\ \A t \in fresh : t <= s0
    BY <1>1, TimesAre, Constants
  <1>3. D!Max(fresh) \in fresh /\ s0 <= D!Max(fresh)
    <2>1. Instants(fresh)
      BY <1>2, WorldTypes, InstantsFacts
    <2> HIDE DEF fresh
    <2> QED
      BY <1>2, <2>1, InstantsFacts
  <1>4. D!Max(fresh) = s0
    <2> HIDE DEF fresh
    <2>1. D!Max(fresh) \in Nat /\ D!Max(fresh) <= s0
      BY <1>1, <1>2, <1>3
    <2> QED
      BY <1>1, <1>3, <2>1
  <1>5. D!Base(series, s0, start) = series[s0]
    BY <1>2, <1>4 DEF D!Base
  <1>6. D!Times(series, 0, s0) # {}
    <2>1. s0 \in D!Times(series, 0, s0)
      BY <1>1, TimesAre
    <2> QED
      BY <2>1
  <1>7. D!From(series, s0, s1, start) = s0
    BY <1>6 DEF D!From
  <1>8. SampledIn(s0, s0) = {}
    <2>1. \A t \in Sampled : ~(s0 < t /\ t <= s0)
      BY <1>1
    <2> QED
      BY <2>1 DEF SampledIn
  <1>9. Cardinality(Units(s0, s0)) = 0
    BY <1>1, NoUnits
  <1> QED
    BY <1>5, <1>7, <1>8, <1>9, AfterNone DEF Opened, D!Start, Ran

\* A window from one sample to another counts every unit between them and covers it all.
LEMMA WholeWindow ==
    ASSUME WorldOK, SeriesRight, NEW s0 \in Sampled, NEW s1 \in Sampled, s0 < s1,
           D!SeenRestarts(s0, s1), NEW start
    PROVE  /\ D!Window(series, s0, s1, start).value = Cardinality(Units(s0, s1))
           /\ D!Window(series, s0, s1, start).cover = {<<s0, s1>>}
  <1>1. s0 \in Nat /\ s1 \in Nat /\ Sampled \subseteq 1..now /\ now \in Nat /\ s1 \in s0..now
    BY WorldTypes
  <1> DEFINE st == Opened(s0, s1, start)
  <1>2. PICK p \in Sampled : LastSample(s0, p, s1) /\ Folded(s0, s1, start) = Ran(s0, p)
    <2>1. After(series, st, SampledIn(s0, s0)) = Ran(s0, s0)
      BY <1>1, OpensAtSample
    <2>2. \E p \in Sampled :
            LastSample(s0, p, s1) /\ After(series, st, SampledIn(s0, s1)) = Ran(s0, p)
      <3> HIDE DEF st
      <3> QED
        BY <1>1, <2>1, FoldRuns
    <2> QED
      BY <2>2 DEF Folded
  <1>3. p = s1
    BY <1>1, <1>2 DEF LastSample
  <1>4. s1 \in SampledIn(s0, s1)
    BY <1>1 DEF SampledIn
  <1>5. SampledIn(s0, s1) # {}
    BY <1>4
  <1>6. Folded(s0, s1, start) = Ran(s0, s1)
    BY <1>2, <1>3
  <1> QED
    BY <1>1, <1>5, <1>6, RanWhole

\* A window whose fold stands at p counts at most the stretch it covers.
LEMMA RanReads ==
    ASSUME WorldOK, NEW s0 \in Nat, NEW s1 \in 0..now, NEW start, NEW f \in Sampled, NEW p \in Sampled,
           s0 <= f, LastSample(f, p, s1), SampledIn(s0, s1) # {},
           Folded(s0, s1, start) = Ran(f, p)
    PROVE  Reads(s0, s1, D!Window(series, s0, s1, start).cover, D!Window(series, s0, s1, start).value)
  <1>1. f \in Nat /\ p \in Nat /\ s1 \in Nat /\ f <= p /\ p <= s1
    BY WorldTypes DEF LastSample
  <1> DEFINE e == IF s1 - p <= TailLen THEN s1 ELSE p
  <1>2. e \in f..s1 /\ p <= e
    BY <1>1
  <1>3. Cardinality(Units(f, p)) \in Nat /\ Cardinality(Units(f, p)) <= p - f
    BY <1>1, UnitsTyped
  <1>4. Cardinality(Units(f, p)) <= e - f
    BY <1>1, <1>2, <1>3
  <1>5. /\ D!Window(series, s0, s1, start).value = Cardinality(Units(f, p))
        /\ D!Window(series, s0, s1, start).cover = {<<f, e>>}
    <2>1. /\ D!Window(series, s0, s1, start).value = Cardinality(Units(f, p))
          /\ D!Window(series, s0, s1, start).cover =
               IF SampledIn(s0, s1) = {} THEN {}
               ELSE {<<f, IF s1 - p <= TailLen THEN s1 ELSE p>>}
      BY <1>1, RanTells
    <2> QED
      BY <2>1
  <1> HIDE DEF e
  <1> QED
    BY <1>2, <1>4, <1>5 DEF Reads

LEMMA NothingRead ==
    ASSUME WorldOK, NEW s0 \in Nat, NEW s1 \in Nat, NEW start, SampledIn(s0, s1) = {}
    PROVE  Reads(s0, s1, D!Window(series, s0, s1, start).cover, D!Window(series, s0, s1, start).value)
  <1>1. Folded(s0, s1, start).inc = 0
    BY AfterNone DEF Folded, Opened, D!Start
  <1>2. /\ D!Window(series, s0, s1, start).value = Folded(s0, s1, start).inc
        /\ D!Window(series, s0, s1, start).cover = {}
    BY WindowIs
  <1> QED
    BY <1>1, <1>2 DEF Reads

\* The start a sample shows is after the last restart before it.
LEMMA StartAtIs ==
    ASSUME WorldOK, NEW t \in Nat
    PROVE  \/ D!StartAt(t) = -1
           \/ \E o \in D!OffUnits : o < t /\ D!StartAt(t) = o + 1
  <1> DEFINE offs == {o \in D!OffUnits : o < t}
  <1>1. offs \subseteq 0..t
    BY WorldTypes
  <1>2. offs # {} => D!Max(offs) \in offs
    <2> HIDE DEF offs
    <2> QED
      BY <1>1, MaxIs
  <1>3. D!StartAt(t) = IF offs = {} THEN -1 ELSE D!Max(offs) + 1
    BY DEF D!StartAt, D!Before, D!OffUnits
  <1> HIDE DEF offs
  <1>4. CASE offs = {}
    BY <1>3, <1>4
  <1>5. CASE offs # {}
    <2>1. D!Max(offs) \in D!OffUnits /\ D!Max(offs) < t
      BY <1>2, <1>5 DEF offs
    <2> QED
      BY <1>3, <1>5, <2>1
  <1> QED
    BY <1>4, <1>5

\* The first sample of all shows a start only when it is the one right after a restart in
\* the first unit.
LEMMA StartSeen ==
    ASSUME WorldOK, NEW f \in Sampled, \A t \in Sampled : f <= t, NEW s1 \in f..now,
           D!SeenRestarts(0, s1)
    PROVE  \/ D!serverStarts(0, s1) = -1
           \/ D!serverStarts(0, s1) = 1 /\ f = 1 /\ 0 \in D!OffUnits
  <1> DEFINE seen == {D!StartAt(t) : t \in D!Times(series, 0, s1)}
             start == D!serverStarts(0, s1)
  <1>1. Sampled \subseteq Nat /\ f \in Nat /\ now \in Nat /\ s1 \in Nat /\ 0 < f /\ f <= s1
    BY WorldTypes
  <1>2. D!StartAt(f) \in seen
    <2>1. f \in D!Times(series, 0, s1)
      BY <1>1, TimesAre
    <2> QED
      BY <2>1
  <1>3. \A x \in seen : x = -1 \/ x \in Nat \ {0}
    <2>1. SUFFICES ASSUME NEW t \in D!Times(series, 0, s1)
                   PROVE  D!StartAt(t) = -1 \/ D!StartAt(t) \in Nat \ {0}
      OBVIOUS
    <2>2. t \in Nat
      BY <1>1, TimesAre
    <2> QED
      BY <2>2, StartAtIs, WorldTypes
  <1>4. start = IF seen = {} THEN -1 ELSE D!Min(seen)
    BY DEF D!serverStarts, D!Before
  <1> HIDE DEF seen
  <1>5. start \in seen /\ start <= D!StartAt(f)
    <2>1. seen \subseteq {-1} \cup Nat /\ seen # {}
      BY <1>2, <1>3
    <2>2. D!Min(seen) \in seen /\ \A u \in seen : D!Min(seen) <= u
      BY <2>1, MinIs
    <2> QED
      BY <1>2, <1>4, <2>1, <2>2
  <1>6. CASE start = -1
    BY <1>6
  <1>7. CASE start # -1
    <2>1. start \in Nat \ {0}
      BY <1>3, <1>5, <1>7
    <2>2. D!StartAt(f) # -1
      <3>1. ~(start <= -1)
        BY <2>1
      <3> QED
        BY <1>5, <3>1
    <2>3. PICK o \in D!OffUnits : o < f /\ D!StartAt(f) = o + 1
      BY <1>1, <2>2, StartAtIs
    <2>4. o \in 0..(now - 1)
      BY WorldTypes
    <2>5. D!Scraped(o) /\ D!Scraped(o + 1)
      BY <1>1, <2>3, <2>4 DEF D!SeenRestarts
    <2>6. (o = 0 \/ o \in Sampled) /\ o + 1 \in Sampled
      BY <1>1, <2>4, <2>5, ScrapedIs
    <2>7. o = 0 /\ f = 1
      BY <1>1, <2>3, <2>4, <2>6
    <2>8. start = 1
      BY <1>5, <2>1, <2>3, <2>7
    <2> QED
      BY <2>3, <2>7, <2>8
  <1> QED
    BY <1>6, <1>7

\* The first window of all opens at the first sample.
LEMMA OpensAtStart ==
    ASSUME WorldOK, SeriesRight, NEW f \in Sampled, \A t \in Sampled : f <= t, NEW s1 \in f..now,
           D!SeenRestarts(0, s1)
    PROVE  After(series, Opened(0, s1, D!serverStarts(0, s1)), SampledIn(0, f)) = Ran(f, f)
  <1> DEFINE start == D!serverStarts(0, s1)
             st == Opened(0, s1, start)
             inside == D!Times(series, 0, s1)
  <1>1. Sampled \subseteq Nat /\ f \in Nat /\ now \in Nat /\ s1 \in Nat /\ 0 < f /\ f <= s1
    BY WorldTypes
  <1>2. \/ start = -1
        \/ start = 1 /\ f = 1 /\ 0 \in D!OffUnits
    BY StartSeen
  <1>3. D!Times(series, 0, 0) = {} /\ D!Times(series, 0 - FreshLen, 0) = {}
    <2>1. \A t \in Sampled : ~(t <= 0)
      BY <1>1, WorldTypes
    <2> QED
      BY <2>1, TimesAre
  <1>4. D!Min(inside) = f
    <2>1. f \in inside /\ inside \subseteq Sampled
      BY <1>1, TimesAre
    <2> HIDE DEF inside
    <2>2. inside \subseteq {-1} \cup Nat /\ inside # {}
      BY <1>1, <2>1
    <2>3. D!Min(inside) \in inside /\ D!Min(inside) <= f
      BY <2>1, <2>2, MinIs
    <2>4. D!Min(inside) \in Nat /\ f <= D!Min(inside)
      BY <1>1, <2>1, <2>3
    <2> QED
      BY <1>1, <2>3, <2>4
  <1>5. inside # {}
    <2>1. f \in inside
      BY <1>1, TimesAre
    <2> QED
      BY <2>1
  <1>6. D!From(series, 0, s1, start) = f
    <2> HIDE DEF start, inside
    <2>1. D!From(series, 0, s1, start) =
            IF start >= 0 THEN start ELSE IF inside = {} THEN s1 ELSE D!Min(inside)
      BY <1>3 DEF D!From, inside
    <2> QED
      BY <1>2, <1>4, <1>5, <2>1
  <1>7. \/ D!Base(series, 0, start) = -1
        \/ D!Base(series, 0, start) = 0 /\ series[f] = 0
    <2> HIDE DEF start
    <2>1. D!Base(series, 0, start) = IF start >= 0 THEN 0 ELSE -1
      BY <1>3 DEF D!Base, D!NoSample
    <2>2. start = 1 => series[f] = 0
      <3>1. 0 \in D!OffUnits /\ 0 + 1 \in Sampled => series[0 + 1] = 0
        BY DEF SeriesRight
      <3> QED
        BY <1>2, <3>1
    <2> QED
      BY <1>2, <2>1, <2>2
  <1> HIDE DEF start
  <1>8. st.at = f /\ st.open = f /\ st.inc = 0 /\ st.closed = {}
    BY <1>6 DEF Opened, D!Start
  <1>9. st.prev = -1 \/ (st.prev = 0 /\ series[f] = 0)
    BY <1>7 DEF Opened, D!Start
  <1> HIDE DEF st
  <1>10. SampledIn(0, f) = {f} /\ D!Max({f}) = f
    <2>1. \A t \in Sampled : 0 < t /\ t <= f <=> t = f
      BY <1>1
    <2>2. {f} \subseteq 0..f /\ {f} # {}
      BY <1>1
    <2>3. D!Max({f}) \in {f}
      BY <1>1, <2>2, MaxIs
    <2> QED
      BY <2>1, <2>3 DEF SampledIn
  <1>11. After(series, st, {f}) = D!Step(series, st, f)
    <2>1. Instants({f}) /\ {f} # {} /\ {f} \ {f} = {}
      BY <1>1 DEF Instants
    <2>2. After(series, st, {f}) = D!Step(series, After(series, st, {f} \ {D!Max({f})}), D!Max({f}))
      BY <2>1, AfterLast
    <2> QED
      BY <1>10, <2>1, <2>2, AfterNone
  <1>12. D!Increase(series[f], st.prev) = 0 /\ ~D!Hole(st, f, series[f])
    BY <1>9 DEF D!Increase, D!Hole, D!NoSample
  <1>13. Cardinality(Units(f, f)) = 0
    BY <1>1, NoUnits
  <1>14. D!Step(series, st, f) = Ran(f, f)
    BY <1>8, <1>12, <1>13 DEF D!Step, Ran
  <1>15. After(series, st, SampledIn(0, f)) = Ran(f, f)
    BY <1>10, <1>11, <1>14
  <1> QED
    BY <1>15 DEF st, start

LEMMA SeenLater ==
    ASSUME WorldOK, NEW a \in Nat, NEW b \in Nat, a <= b, NEW c, D!SeenRestarts(a, c)
    PROVE  D!SeenRestarts(b, c)
  <1>1. \A o \in D!OffUnits : o \in Nat
    BY WorldTypes
  <1> QED
    BY <1>1 DEF D!SeenRestarts

\* The counter of a window that begins where it was scraped, or with the story, and ends in
\* the past.
LEMMA WindowReads ==
    ASSUME WorldOK, SeriesRight, NEW at \in 0..now, NEW s0 \in 0..at,
           at = s0 \/ (D!Scraped(s0) /\ D!SeenRestarts(s0, at)),
           NEW start, start = D!serverStarts(s0, at)
    PROVE  Reads(s0, at, D!Window(series, s0, at, start).cover, D!Window(series, s0, at, start).value)
  <1>1. Sampled \subseteq Nat /\ now \in Nat /\ at \in Nat /\ s0 \in Nat /\ s0 <= at
    BY WorldTypes
  <1>2. CASE SampledIn(s0, at) = {}
    BY <1>1, <1>2, NothingRead
  <1>3. ASSUME SampledIn(s0, at) # {}, NEW f \in Sampled, s0 <= f, f <= at, D!SeenRestarts(f, at),
               After(series, Opened(s0, at, start), SampledIn(s0, f)) = Ran(f, f)
        PROVE  Reads(s0, at, D!Window(series, s0, at, start).cover, D!Window(series, s0, at, start).value)
    <2> DEFINE st == Opened(s0, at, start)
    <2>1. at \in f..now
      BY <1>1, <1>3
    <2>2. PICK p \in Sampled : LastSample(f, p, at) /\ After(series, st, SampledIn(s0, at)) = Ran(f, p)
      <3> HIDE DEF st
      <3> QED
        BY <1>1, <1>3, <2>1, FoldRuns DEF st
    <2>3. Folded(s0, at, start) = Ran(f, p)
      BY <2>2 DEF Folded
    <2> QED
      BY <1>1, <1>3, <2>2, <2>3, RanReads
  <1>4. CASE SampledIn(s0, at) # {}
    <2>1. PICK v \in Sampled : s0 < v /\ v <= at
      BY <1>4 DEF SampledIn
    <2>2. D!Scraped(s0) /\ D!SeenRestarts(s0, at)
      BY <1>1, <2>1
    <2>3. CASE s0 = 0
      <3>1. PICK f \in Sampled : \A t \in Sampled : f <= t
        BY <1>1, <2>1, Smallest
      <3>2. f <= at /\ 0 <= f /\ f \in Nat /\ at \in f..now
        BY <1>1, <2>1, <3>1
      <3>3. After(series, Opened(0, at, D!serverStarts(0, at)), SampledIn(0, f)) = Ran(f, f)
        BY <2>2, <2>3, <3>1, <3>2, OpensAtStart
      <3>4. D!SeenRestarts(f, at)
        BY <1>1, <2>2, <2>3, <3>2, SeenLater
      <3> QED
        BY <1>3, <1>4, <2>3, <3>2, <3>3, <3>4
    <2>4. CASE s0 # 0
      <3>1. s0 \in Sampled
        BY <1>1, <2>2, <2>4, ScrapedIs
      <3>2. at \in s0..now
        BY <1>1
      <3>3. After(series, Opened(s0, at, start), SampledIn(s0, s0)) = Ran(s0, s0)
        BY <3>1, <3>2, OpensAtSample
      <3> QED
        BY <1>1, <1>3, <1>4, <2>2, <3>1, <3>3
    <2> QED
      BY <2>3, <2>4
  <1> QED
    BY <1>2, <1>4

-----------------------------------------------------------------------------
(* What time does not change. *)

\* The world goes on, and its past stays.
Later ==
    /\ WorldOK /\ WorldOK' /\ now <= now'
    /\ \A t \in 1..now : series'[t] = series[t]
    /\ \A u \in 0..(now - 1) : traffic'[u] = traffic[u]

LEMMA PastSamples ==
    ASSUME Later
    PROVE  /\ now \in Nat /\ now' \in Nat /\ now <= now' /\ now' <= MaxNow
           /\ \A t \in 1..now : t \in Sampled' <=> t \in Sampled
           /\ Sampled \subseteq Sampled' /\ Sampled \subseteq 1..now /\ Sampled' \subseteq 1..now'
  <1>1. now \in Nat /\ now' \in Nat /\ now' <= MaxNow
    BY Constants DEF Later, WorldOK
  <1> QED
    BY <1>1 DEF Later, Sampled

LEMMA PastUnits ==
    ASSUME Later
    PROVE  /\ D!OffUnits \subseteq 0..(now - 1) /\ D!OffUnits' \subseteq 0..(now' - 1)
           /\ \A u \in 0..(now - 1) : u \in D!OffUnits' <=> u \in D!OffUnits
           /\ \A u \in 0..(now - 1) : u \in D!Carried("ll")' <=> u \in D!Carried("ll")
           /\ D!Carried("ll") \subseteq 0..(now - 1) /\ D!Carried("ll")' \subseteq 0..(now' - 1)
  <1>1. now \in Nat /\ now' \in Nat /\ now <= now'
    BY PastSamples
  <1>2. DOMAIN traffic = 0..(now - 1) /\ DOMAIN traffic' = 0..(now' - 1)
    BY DEF Later, WorldOK
  <1> QED
    BY <1>1, <1>2 DEF Later, D!OffUnits, D!Carried

LEMMA PastScraped ==
    ASSUME Later, NEW t \in Nat, t <= now
    PROVE  D!Scraped(t)' <=> D!Scraped(t)
  <1>1. now \in Nat
    BY PastSamples
  <1>2. t = 0 \/ t \in 1..now
    BY <1>1
  <1> QED
    BY <1>2 DEF D!Scraped, Later

LEMMA PastRestarts ==
    ASSUME Later, NEW a \in Nat, NEW b \in Nat, b <= now
    PROVE  D!SeenRestarts(a, b)' <=> D!SeenRestarts(a, b)
  <1>1. now \in Nat /\ now' \in Nat /\ now <= now'
    BY PastSamples
  <1>2. \A o \in D!OffUnits : o \in 0..(now - 1) /\ o \in D!OffUnits'
    BY PastUnits
  <1>3. \A o \in D!OffUnits' : o \in Nat /\ (o < b => o \in D!OffUnits)
    BY <1>1, PastUnits
  <1>4. ASSUME NEW o \in Nat, o < b
        PROVE  (D!Scraped(o)' <=> D!Scraped(o)) /\ (D!Scraped(o + 1)' <=> D!Scraped(o + 1))
    <2>1. o + 1 \in Nat /\ o <= now /\ o + 1 <= now
      BY <1>1, <1>4
    <2> QED
      BY <2>1, PastScraped
  <1>5. D!SeenRestarts(a, b) <=>
          \A o \in D!OffUnits : a <= o /\ o < b => D!Scraped(o) /\ D!Scraped(o + 1)
    BY DEF D!SeenRestarts
  <1>6. D!SeenRestarts(a, b)' <=>
          \A o \in D!OffUnits' : a <= o /\ o < b => D!Scraped(o)' /\ D!Scraped(o + 1)'
    BY DEF D!SeenRestarts
  <1> QED
    BY <1>2, <1>3, <1>4, <1>5, <1>6

LEMMA PastCount ==
    ASSUME Later, NEW a \in Nat, NEW b \in Nat, b <= now
    PROVE  Units(a, b)' = Units(a, b)
  <1>1. now \in Nat
    BY PastSamples
  <1>2. \A u \in a..(b - 1) : u \in 0..(now - 1)
    BY <1>1
  <1> QED
    BY <1>2, PastUnits DEF Units

\* What a window of the past told stays true.
LEMMA ReadsStay ==
    ASSUME Later, NEW s0, NEW at, NEW cover, NEW ctr, Reads(s0, at, cover, ctr)
    PROVE  Reads(s0, at, cover, ctr)'
  BY PastSamples DEF Reads

LEMMA TodayStays ==
    ASSUME Later, NEW at, NEW cover, NEW ctr, TodayRight(at, cover, ctr)
    PROVE  TodayRight(at, cover, ctr)'
  <1> DEFINE s0 == D!dayStart(D!dayOf(at))
  <1>1. at \in Nat /\ at <= now /\ at \in 0..now' /\ ctr \in Nat
    BY PastSamples DEF TodayRight
  <1>2. s0 \in Nat /\ s0 <= at
    BY <1>1, InItsDay, DayTypes
  <1>3. at = s0 \/ (D!Scraped(s0) /\ D!SeenRestarts(s0, at)) => Reads(s0, at, cover, ctr)
    BY DEF TodayRight
  <1>4. at = s0 \/ (D!Scraped(s0)' /\ D!SeenRestarts(s0, at)') => Reads(s0, at, cover, ctr)'
    <2> HIDE DEF s0
    <2>1. s0 <= now
      BY <1>1, <1>2, PastSamples
    <2> QED
      BY <1>1, <1>2, <1>3, <2>1, PastScraped, PastRestarts, ReadsStay
  <1> QED
    BY <1>1, <1>4 DEF TodayRight, D!dayStart, D!dayOf

LEMMA SavedStays ==
    ASSUME Later, SavedRight, saved' = saved
    PROVE  SavedRight'
  <1>1. \A t \in Sampled' : t \in Sampled \/ t > now
    BY PastSamples
  <1>2. \A t \in Sampled : t \in Nat /\ t <= now
    BY PastSamples
  <1> QED
    BY <1>1, <1>2, PastSamples DEF SavedRight

LEMMA FromTyped ==
    ASSUME Later, SavedRight, NEW d \in Nat, CounterAsked(d)
    PROVE  /\ saved \in Nat /\ FromOf(d) \in Nat /\ FromOf(d) < D!dayEnd(d)
           /\ D!dayEnd(d) \in Nat /\ D!dayEnd(d) <= now
  BY PastSamples, DayTypes DEF SavedRight, CounterAsked, FromOf

LEMMA WholeStays ==
    ASSUME Later, SavedRight, saved' = saved, NEW d \in Nat, CounterAsked(d)
    PROVE  /\ CounterAsked(d)'
           /\ Whole(d)' => Whole(d)
           /\ Units(FromOf(d), D!dayEnd(d))' = Units(FromOf(d), D!dayEnd(d))
           /\ FromOf(d)' = FromOf(d) /\ D!dayEnd(d)' = D!dayEnd(d)
  <1> DEFINE a == FromOf(d)
             b == D!dayEnd(d)
  <1>1. a \in Nat /\ b \in Nat /\ a <= now /\ b <= now
    BY FromTyped, PastSamples
  <1>2. a' = a /\ b' = b
    BY DEF FromOf, D!dayStart, D!dayEnd
  <1>3. CounterAsked(d)'
    BY <1>1, PastSamples DEF CounterAsked, D!dayEnd, D!dayStart
  <1>4. ASSUME NEW x \in Nat, NEW y \in Nat, x <= now, y <= now
        PROVE  /\ D!Scraped(x)' <=> D!Scraped(x)
               /\ D!Scraped(y)' <=> D!Scraped(y)
               /\ D!SeenRestarts(x, y)' <=> D!SeenRestarts(x, y)
               /\ Units(x, y)' = Units(x, y)
    BY <1>4, PastScraped, PastRestarts, PastCount
  <1>5. Whole(d)' => Whole(d)
    BY <1>1, <1>2, <1>4 DEF Whole
  <1>6. Units(FromOf(d), D!dayEnd(d))' = Units(FromOf(d), D!dayEnd(d))
    BY <1>1, <1>2, <1>4
  <1> QED
    BY <1>2, <1>3, <1>5, <1>6

LEMMA StoredStays ==
    ASSUME Later, SavedRight, StoredRight, stored' = stored, saved # D!NoSample => saved' = saved
    PROVE  StoredRight'
  <1>1. SUFFICES ASSUME NEW d \in D!Days
                 PROVE  /\ DayOK(d, stored[d])'
                        /\ stored'[d].ctr # D!NoSample =>
                             /\ CounterAsked(d)'
                             /\ Whole(d)' => /\ stored'[d].ctr = Cardinality(Units(FromOf(d), D!dayEnd(d)))'
                                             /\ stored'[d].cov = {u \in stored'[d].rows : u >= saved'}
    BY DEF StoredRight, D!Days, D!NoSample
  <1>2. d \in Nat
    BY InTheDays
  <1>3. DayOK(d, stored[d])'
    BY DEF StoredRight, DayOK, D!DayRecord, D!UnitsOf, D!dayStart, D!dayEnd, D!NoSample
  <1>4. CASE stored[d].ctr # D!NoSample
    <2>1. CounterAsked(d) /\ (Whole(d) => /\ stored[d].ctr = Cardinality(Units(FromOf(d), D!dayEnd(d)))
                                          /\ stored[d].cov = {u \in stored[d].rows : u >= saved})
      BY <1>4 DEF StoredRight
    <2>2. saved' = saved
      BY <2>1 DEF CounterAsked
    <2>3. CounterAsked(d)' /\ (Whole(d)' => Whole(d))
      BY <1>2, <2>1, <2>2, WholeStays
    <2>4. Units(FromOf(d), D!dayEnd(d))' = Units(FromOf(d), D!dayEnd(d))
      BY <1>2, <2>1, <2>2, WholeStays
    <2>5. Cardinality(Units(FromOf(d), D!dayEnd(d)))' = Cardinality(Units(FromOf(d), D!dayEnd(d)))
      BY <2>4
    <2> QED
      BY <1>3, <2>1, <2>2, <2>3, <2>5
  <1> QED
    BY <1>3, <1>4 DEF D!NoSample

LEMMA DoneStays ==
    ASSUME Later, DoneRight, done' = done, stored' = stored
    PROVE  DoneRight'
  <1>1. done' \subseteq D!Days /\ \A d \in done : d \in Nat /\ D!dayEnd(d) <= now
    BY InTheDays DEF DoneRight
  <1>2. \A d \in done : D!dayEnd(d) <= now'
    BY <1>1, PastSamples, DayTypes
  <1>3. ASSUME NEW d \in done
        PROVE  (D!Carried("ll") \cap D!UnitsOf(d))' = D!Carried("ll") \cap D!UnitsOf(d)
    <2>1. D!UnitsOf(d) \subseteq 0..(now - 1) /\ D!UnitsOf(d)' = D!UnitsOf(d)
      BY <1>1, DayTypes, PastSamples DEF D!UnitsOf, D!dayStart, D!dayEnd
    <2> QED
      BY <2>1, PastUnits
  <1>4. D!SettledDaysKeepTheirRows'
    BY <1>3 DEF DoneRight, D!SettledDaysKeepTheirRows
  <1> QED
    BY <1>1, <1>2, <1>4 DEF DoneRight, D!Days, D!dayStart, D!dayEnd

LEMMA SnapStays ==
    ASSUME Later, SnapRight, snap' = snap
    PROVE  SnapRight'
  <1>1. CASE snap = D!NoSnap
    BY <1>1 DEF SnapRight, D!NoSnap, D!NoSample
  <1>2. CASE snap.at \in 0..now /\ (snap.raw = D!NoSample \/ TodayRight(snap.at, snap.cover, snap.raw))
    <2>1. snap'.at \in 0..now'
      BY <1>2, PastSamples
    <2>2. CASE snap.raw = D!NoSample
      BY <2>1, <2>2 DEF SnapRight, D!NoSample
    <2>3. CASE TodayRight(snap.at, snap.cover, snap.raw)
      <3> DEFINE a == snap.at
                 c == snap.cover
                 r == snap.raw
      <3>1. TodayRight(a, c, r)' /\ a' = a /\ c' = c /\ r' = r
        BY <2>3, TodayStays
      <3> QED
        BY <2>1, <3>1 DEF SnapRight
    <2> QED
      BY <1>2, <2>2, <2>3
  <1> QED
    BY <1>1, <1>2 DEF SnapRight

LEMMA GotStays ==
    ASSUME Later, SavedRight, RunOK, GotRight, got' = got, run' = run, saved' = saved
    PROVE  GotRight'
  <1>1. CASE got = D!NoReading
    BY <1>1 DEF GotRight, D!NoReading, D!NoSample
  <1>2. CASE /\ run.pc = "rows" /\ got.ctr \in Nat /\ CounterAsked(run.day)
             /\ Whole(run.day) =>
                  /\ got.ctr = Cardinality(Units(FromOf(run.day), D!dayEnd(run.day)))
                  /\ got.cover = {<<FromOf(run.day), D!dayEnd(run.day)>>}
    <2>1. PICK d \in D!Days : d = run.day
      BY <1>2 DEF RunOK, D!Idle
    <2>2. d \in Nat /\ CounterAsked(d) /\ run'.day = d
      BY <1>2, <2>1, InTheDays
    <2>3. CounterAsked(d)' /\ (Whole(d)' => Whole(d))
      BY <2>2, WholeStays
    <2>4. /\ Units(FromOf(d), D!dayEnd(d))' = Units(FromOf(d), D!dayEnd(d))
          /\ FromOf(d)' = FromOf(d) /\ D!dayEnd(d)' = D!dayEnd(d)
      BY <2>2, WholeStays
    <2>5. Whole(d)' =>
            /\ got'.ctr = Cardinality(Units(FromOf(d), D!dayEnd(d)))'
            /\ got'.cover = {<<FromOf(d)', D!dayEnd(d)'>>}
      BY <1>2, <2>1, <2>3, <2>4
    <2> QED
      BY <1>2, <2>2, <2>3, <2>5 DEF GotRight
  <1>3. CASE run.pc = "today" /\ saved # D!NoSample /\ TodayRight(got.at, got.cover, got.ctr)
    <2> DEFINE a == got.at
               c == got.cover
               r == got.ctr
    <2>1. TodayRight(a, c, r)' /\ a' = a /\ c' = c /\ r' = r
      BY <1>3, TodayStays
    <2> QED
      BY <1>3, <2>1 DEF GotRight, D!NoSample
  <1> QED
    BY <1>1, <1>2, <1>3 DEF GotRight

\* The world stands still but for the log's retention and the faults.
LEMMA SameWorld ==
    ASSUME WorldOK, UNCHANGED <<now, traffic, series, boot, lag>>, faults' \in 0..MaxFaults,
           pruned' = pruned \/ (pruned' \in 0..MaxNow /\ pruned' <= now - LogDays * DayLen - 1)
    PROVE  Later /\ (SeriesRight => SeriesRight')
  <1>1. WorldOK'
    BY DEF WorldOK, D!NoSample, D!Before
  <1>2. now \in Int
    BY DEF WorldOK
  <1>3. Later
    BY <1>1, <1>2 DEF Later
  <1>4. Sampled' = Sampled /\ D!OffUnits' = D!OffUnits
    BY DEF Sampled, D!OffUnits, D!Carried, D!NoSample
  <1>5. SeriesRight => SeriesRight'
    BY <1>4 DEF SeriesRight, ValueAt, NoOff, D!Before
  <1> QED
    BY <1>3, <1>5

LEMMA SameRun ==
    ASSUME RunOK, UNCHANGED <<now, run, saved>>
    PROVE  RunOK'
  BY DEF RunOK, D!Idle, D!dayOf, D!Days

LEMMA SameLive ==
    ASSUME DaysTyped, UNCHANGED <<stored, live>>
    PROVE  DaysTyped'
  BY DEF DaysTyped, DayOK, D!DayRecord, D!Days, D!UnitsOf, D!dayStart, D!dayEnd, D!NoSample

\* A refresh begins its next day, or reads the snapshot for today.
LEMMA ContinueRun ==
    ASSUME Later, now' = now,
           NEW r, r \in [pc : {"idle", "counters", "rows", "today"}, nowSec : 0..now, T : {saved'},
                       skip : SUBSET D!Days, day : D!Days],
           now <= r.nowSec + 1, NEW d, D!Continue(r, d)
    PROVE  RunOK'
  <1> DEFINE left == {e \in D!Days \ r.skip : e > d /\ e < D!dayOf(r.nowSec)}
  <1>1. now \in Nat /\ r.nowSec \in 0..MaxNow
    <2>1. now \in Nat /\ now <= MaxNow /\ MaxNow \in Nat
      BY PastSamples, Constants
    <2>2. r.nowSec \in 0..now
      OBVIOUS
    <2> QED
      BY <2>1, <2>2
  <1>2. D!dayOf(r.nowSec) \in D!Days
    BY <1>1, InTheDays
  <1>3. left # {} => D!Min(left) \in left
    <2>1. left \subseteq Nat
      BY InTheDays
    <2> HIDE DEF left
    <2> QED
      BY <2>1, MinIs
  <1>4. run' = [r EXCEPT !.pc = IF left = {} THEN "today" ELSE "counters",
                         !.day = IF left = {} THEN D!dayOf(r.nowSec) ELSE D!Min(left)]
    BY DEF D!Continue
  <1>5. left # {} => D!Min(left) \in D!Days /\ D!Min(left) < D!dayOf(r.nowSec)
    BY <1>3
  <1> HIDE DEF left
  <1>6. /\ run' \in [pc : {"counters", "rows", "today"}, nowSec : 0..now, T : {saved'},
                     skip : SUBSET D!Days, day : D!Days]
        /\ run'.nowSec = r.nowSec
        /\ run'.pc = IF left = {} THEN "today" ELSE "counters"
        /\ run'.day = IF left = {} THEN D!dayOf(r.nowSec) ELSE D!Min(left)
    BY <1>2, <1>4, <1>5
  <1>7. IF run'.pc = "today" THEN run'.day = D!dayOf(run'.nowSec)
                             ELSE run'.day < D!dayOf(run'.nowSec)
    BY <1>5, <1>6
  <1> QED
    BY <1>6, <1>7 DEF RunOK, D!dayOf, D!Days

LEMMA ContinueGot ==
    ASSUME Later, SnapRight,
           NEW r, r \in [pc : {"idle", "counters", "rows", "today"}, nowSec : 0..now, T : {saved'},
                       skip : SUBSET D!Days, day : D!Days],
           NEW d, D!Continue(r, d)
    PROVE  GotRight'
  <1>1. CASE got' = D!NoReading
    BY <1>1 DEF GotRight, D!NoReading, D!NoSample
  <1>2. CASE got' # D!NoReading
    <2>1. /\ snap.raw # D!NoSample /\ got' = [ctr |-> snap.raw, cover |-> snap.cover, at |-> snap.at]
          /\ r.T # D!NoSample
      BY <1>2 DEF D!Continue, D!ctrToday
    <2>2. TodayRight(snap.at, snap.cover, snap.raw)
      BY <2>1 DEF SnapRight, D!NoSnap
    <2>3. run'.pc = "today"
      <3> DEFINE left == {e \in D!Days \ r.skip : e > d /\ e < D!dayOf(r.nowSec)}
      <3>1. left = {}
        BY <1>2 DEF D!Continue
      <3>2. run' = [r EXCEPT !.pc = "today", !.day = D!dayOf(r.nowSec)]
        BY <3>1 DEF D!Continue
      <3> QED
        BY <3>2
    <2>4. PICK a, c, x : a = snap.at /\ c = snap.cover /\ x = snap.raw
      OBVIOUS
    <2>5. TodayRight(a, c, x)'
      BY <2>2, <2>4, TodayStays
    <2>6. saved' # D!NoSample
      BY <2>1
    <2> QED
      BY <2>1, <2>3, <2>4, <2>5, <2>6 DEF GotRight, D!NoSample
  <1> QED
    BY <1>1, <1>2

-----------------------------------------------------------------------------
(* The steps of the world. *)

LEMMA DaysStart == D!Init => DaysInv
  <1>1. SUFFICES ASSUME D!Init PROVE DaysInv
    OBVIOUS
  <1>2. /\ now = 0 /\ boot = -1 /\ lag = 0 /\ pruned = 0 /\ faults = 0
        /\ traffic = [u \in {} |-> "ll"] /\ series = <<>> /\ snap = D!NoSnap /\ saved = -1
        /\ done = {} /\ stored = D!NoDays /\ run = D!Idle /\ got = D!NoReading /\ live = D!NoDays
    BY <1>1 DEF D!Init, D!Before, D!NoSample
  <1>3. WorldOK
    <2>1. 0..(now - 1) = {}
      BY <1>2
    <2>2. traffic \in [0..(now - 1) -> {"ll", "direct", "off"}]
      BY <1>2, <2>1
    <2>3. series \in Seq({D!NoSample} \cup Nat) /\ Len(series) = 0
      BY <1>2
    <2> QED
      BY <1>2, <2>2, <2>3, Constants DEF WorldOK, D!Before
  <1>4. Sampled = {} /\ D!OffUnits = {}
    BY <1>2 DEF Sampled, D!OffUnits, D!Carried
  <1>5. SeriesRight /\ SavedRight /\ RunOK /\ SnapRight /\ GotRight
    BY <1>2, <1>4 DEF SeriesRight, SavedRight, RunOK, SnapRight, GotRight, D!NoSample
  <1>6. ASSUME NEW d \in D!Days
        PROVE  DayOK(d, D!NoDay) /\ D!NoDays[d] = D!NoDay /\ D!NoDay.ctr = D!NoSample
    BY DEF DayOK, D!NoDay, D!NoDays, D!DayRecord, D!NoSample
  <1>7. D!NoDays \in [D!Days -> D!DayRecord]
    BY <1>6 DEF D!NoDays, DayOK
  <1>8. DaysTyped /\ StoredRight
    BY <1>2, <1>6, <1>7 DEF DaysTyped, StoredRight
  <1>9. DoneRight
    BY <1>2 DEF DoneRight, D!SettledDaysKeepTheirRows
  <1> QED
    BY <1>3, <1>5, <1>8, <1>9 DEF DaysInv

LEMMA PruneStep == DaysInv /\ D!Prune => DaysInv'
  <1>1. SUFFICES ASSUME DaysInv, D!Prune PROVE DaysInv'
    OBVIOUS
  <1>2. /\ UNCHANGED <<now, traffic, series, boot, lag, faults, snap, saved, done, stored, run, got, live>>
        /\ pruned < now - LogDays * DayLen - 1 /\ pruned' = now - LogDays * DayLen - 1
    BY <1>1 DEF D!Prune, D!locals
  <1>3. WorldOK /\ SeriesRight /\ SavedRight /\ RunOK /\ DaysTyped /\ StoredRight /\ DoneRight
        /\ SnapRight /\ GotRight
    BY <1>1 DEF DaysInv
  <1>4. pruned' \in 0..MaxNow /\ pruned' <= now - LogDays * DayLen - 1 /\ faults' \in 0..MaxFaults
    <2>1. LogDays * DayLen \in Nat
      BY Constants, SMTT(30)
    <2>2. pruned \in Nat /\ now \in Nat /\ now <= MaxNow /\ faults' \in 0..MaxFaults
      BY <1>2, <1>3, Constants DEF WorldOK
    <2> QED
      BY <1>2, <2>1, <2>2, Constants
  <1>5. Later /\ SeriesRight'
    BY <1>2, <1>3, <1>4, SameWorld
  <1> QED
    BY <1>2, <1>3, <1>5, SavedStays, SameRun, SameLive, StoredStays, DoneStays, SnapStays, GotStays
    DEF DaysInv, Later

\* Steps that neither touch the world nor the database.
LEMMA QuietWorld ==
    ASSUME DaysInv, UNCHANGED D!outside, faults' \in 0..MaxFaults,
           UNCHANGED <<saved, done, stored>>
    PROVE  Later /\ WorldOK' /\ SeriesRight' /\ SavedRight' /\ StoredRight' /\ DoneRight'
  <1>1. WorldOK /\ SeriesRight /\ SavedRight /\ StoredRight /\ DoneRight
    BY DEF DaysInv
  <1>2. Later /\ SeriesRight'
    BY <1>1, SameWorld DEF D!outside
  <1> QED
    BY <1>1, <1>2, SavedStays, StoredStays, DoneStays DEF Later

LEMMA FaultsKept ==
    ASSUME DaysInv, faults' = faults \/ (faults < MaxFaults /\ faults' = faults + 1)
    PROVE  faults' \in 0..MaxFaults
  <1>1. faults \in 0..MaxFaults
    BY DEF DaysInv, WorldOK
  <1> QED
    BY <1>1, Constants

\* The refresh ends, or the hub restarts: its locals are gone.
LEMMA LocalsGone ==
    ASSUME DaysInv, UNCHANGED D!outside, UNCHANGED <<saved, done, stored>>,
           faults' = faults \/ (faults < MaxFaults /\ faults' = faults + 1),
           snap' = snap \/ snap' = D!NoSnap,
           run' = D!Idle, got' = D!NoReading, live' = D!NoDays
    PROVE  DaysInv'
  <1>1. faults' \in 0..MaxFaults
    BY FaultsKept
  <1>2. Later /\ WorldOK' /\ SeriesRight' /\ SavedRight' /\ StoredRight' /\ DoneRight'
    BY <1>1, QuietWorld
  <1>3. SnapRight'
    <2>1. SnapRight
      BY DEF DaysInv
    <2>2. CASE snap' = D!NoSnap
      BY <2>2 DEF SnapRight, D!NoSnap, D!NoSample
    <2> QED
      BY <1>2, <2>1, <2>2, SnapStays
  <1>4. RunOK' /\ GotRight'
    BY DEF RunOK, GotRight, D!Idle, D!NoReading, D!NoSample
  <1>5. DaysTyped'
    <2>1. \A d \in D!Days : DayOK(d, D!NoDay) /\ D!NoDays[d] = D!NoDay
      BY DEF DayOK, D!NoDay, D!NoDays, D!DayRecord, D!NoSample
    <2>2. live' \in [D!Days -> D!DayRecord] /\ \A d \in D!Days : DayOK(d, live'[d])
      BY <2>1 DEF D!NoDays, DayOK
    <2>3. stored' \in [D!Days -> D!DayRecord]
      BY DEF DaysInv, DaysTyped
    <2> QED
      BY <2>2, <2>3
      DEF DaysTyped, DayOK, D!Days, D!DayRecord, D!NoSample, D!UnitsOf, D!dayStart, D!dayEnd
  <1> QED
    BY <1>2, <1>3, <1>4, <1>5 DEF DaysInv

LEMMA FinishStep == DaysInv /\ D!Finish => DaysInv'
  BY LocalsGone DEF D!Finish, D!outside, D!locals

LEMMA RestartStep == DaysInv /\ D!Restart => DaysInv'
  BY LocalsGone DEF D!Restart, D!outside, D!locals

\* What a window of today counts.
LEMMA TodayIsRead ==
    ASSUME WorldOK, SeriesRight, NEW midnight, midnight = D!dayStart(D!dayOf(now)),
           NEW w, w = D!Window(series, midnight, now, D!serverStarts(midnight, now))
    PROVE  TodayRight(now, w.cover, w.value)
  <1>1. now \in Nat /\ now \in 0..now
    BY WorldTypes
  <1>2. midnight \in Nat /\ midnight <= now
    BY <1>1, InItsDay, DayTypes
  <1>3. midnight \in 0..now
    BY <1>1, <1>2
  <1> DEFINE start == D!serverStarts(midnight, now)
  <1>4. w = D!Window(series, midnight, now, start)
    OBVIOUS
  <1>5. w.value \in Nat
    <2> HIDE DEF start
    <2> QED
      BY <1>1, <1>2, <1>4, WindowTyped
  <1>6. now = midnight \/ (D!Scraped(midnight) /\ D!SeenRestarts(midnight, now))
          => Reads(midnight, now, w.cover, w.value)
    BY <1>1, <1>3, <1>4, WindowReads
  <1> QED
    BY <1>1, <1>5, <1>6 DEF TodayRight

LEMMA PollNodesStep == DaysInv /\ D!PollNodes => DaysInv'
  <1>1. SUFFICES ASSUME DaysInv, D!PollNodes PROVE DaysInv'
    OBVIOUS
  <1>2. UNCHANGED D!outside /\ UNCHANGED <<faults, saved, done, stored, run, got, live, now>>
    BY <1>1 DEF D!PollNodes, D!outside, D!locals
  <1>3. Later /\ WorldOK' /\ SeriesRight' /\ SavedRight' /\ StoredRight' /\ DoneRight'
    BY <1>1, <1>2, FaultsKept, QuietWorld
  <1>4. WorldOK /\ SeriesRight /\ SavedRight /\ RunOK /\ DaysTyped /\ GotRight
    BY <1>1 DEF DaysInv
  <1>5. RunOK' /\ DaysTyped' /\ GotRight'
    BY <1>2, <1>3, <1>4, SameRun, SameLive, GotStays
  <1>6. SnapRight'
    <2> DEFINE midnight == D!dayStart(D!dayOf(now))
               w == D!Window(series, midnight, now, D!serverStarts(midnight, now))
    <2>1. /\ snap'.at = now /\ snap'.cover = w.cover
          /\ snap'.raw = D!NoSample \/ snap'.raw = w.value
      BY <1>1 DEF D!PollNodes
    <2>2. TodayRight(now, w.cover, w.value)
      BY <1>4, TodayIsRead
    <2>3. PICK a, c, v : a = now /\ c = w.cover /\ v = w.value
      OBVIOUS
    <2>4. TodayRight(a, c, v)'
      BY <1>3, <2>2, <2>3, TodayStays
    <2> HIDE DEF w
    <2>5. snap'.at \in 0..now'
      BY <1>2, <2>1, <1>4, WorldTypes
    <2>6. CASE snap'.raw = D!NoSample
      BY <2>5, <2>6 DEF SnapRight, D!NoSample
    <2>7. CASE snap'.raw = w.value
      BY <2>1, <2>3, <2>4, <2>5, <2>7 DEF SnapRight
    <2> QED
      BY <2>1, <2>6, <2>7
  <1> QED
    BY <1>3, <1>5, <1>6 DEF DaysInv

LEMMA PollNodesFailsStep == DaysInv /\ D!PollNodesFails => DaysInv'
  <1>1. SUFFICES ASSUME DaysInv, D!PollNodesFails PROVE DaysInv'
    OBVIOUS
  <1>2. /\ UNCHANGED D!outside /\ UNCHANGED <<faults, saved, done, stored, run, got, live, now>>
        /\ snap' = D!NoSnap
    BY <1>1 DEF D!PollNodesFails, D!outside, D!locals
  <1>3. Later /\ WorldOK' /\ SeriesRight' /\ SavedRight' /\ StoredRight' /\ DoneRight'
    BY <1>1, <1>2, FaultsKept, QuietWorld
  <1>4. SavedRight /\ RunOK /\ DaysTyped /\ GotRight
    BY <1>1 DEF DaysInv
  <1>5. RunOK' /\ DaysTyped' /\ GotRight' /\ SnapRight'
    BY <1>2, <1>3, <1>4, SameRun, SameLive, GotStays DEF SnapRight, D!NoSnap, D!NoSample
  <1> QED
    BY <1>3, <1>5 DEF DaysInv

-----------------------------------------------------------------------------
(* The steps of a refresh. *)

\* The switch instant is found once, and is the first sample.
LEMMA SwitchFound ==
    ASSUME WorldOK, SavedRight, NEW answers
    PROVE  D!switchPoints(answers) # D!NoSample =>
             /\ D!switchPoints(answers) \in Sampled
             /\ \A t \in Sampled : D!switchPoints(answers) <= t
  <1>1. D!Times(series, 0, now) = Sampled /\ Sampled \subseteq Nat
    <2>1. now \in Nat /\ Sampled \subseteq 1..now
      BY WorldTypes
    <2>2. D!Times(series, 0, now) = {t \in Sampled : 0 < t /\ t <= now}
      BY TimesAre
    <2> HIDE DEF Sampled
    <2>3. \A t \in Sampled : 0 < t /\ t <= now /\ t \in Nat
      BY <2>1
    <2> QED
      BY <2>2, <2>3
  <1>2. Sampled # {} => D!Min(Sampled) \in Sampled /\ \A t \in Sampled : D!Min(Sampled) <= t
    BY <1>1, MinIs
  <1>3. D!FirstSample(series, now) = IF Sampled = {} THEN D!NoSample ELSE D!Min(Sampled)
    BY <1>1 DEF D!FirstSample
  <1> QED
    BY <1>2, <1>3 DEF D!switchPoints, SavedRight

LEMMA BeginStep == ASSUME NEW answers \in BOOLEAN PROVE DaysInv /\ D!Begin(answers) => DaysInv'
  <1>1. SUFFICES ASSUME DaysInv, D!Begin(answers) PROVE DaysInv'
    OBVIOUS
  <1>2. WorldOK /\ SeriesRight /\ SavedRight /\ DaysTyped /\ StoredRight /\ DoneRight /\ SnapRight
    BY <1>1 DEF DaysInv
  <1>3. /\ UNCHANGED <<now, traffic, series, boot, lag, pruned, snap, done, stored, live>>
        /\ faults' = faults \/ (faults < MaxFaults /\ faults' = faults + 1)
        /\ saved' = D!switchPoints(answers)
    BY <1>1 DEF D!Begin, D!outside
  <1>4. Later /\ SeriesRight'
    BY <1>1, <1>2, <1>3, FaultsKept, SameWorld
  <1>5. saved # D!NoSample => saved' = saved
    BY <1>3 DEF D!switchPoints
  <1>6. SavedRight'
    <2>1. Sampled' = Sampled
      BY <1>3 DEF Sampled, D!NoSample
    <2> QED
      BY <1>2, <1>3, <2>1, SwitchFound DEF SavedRight, D!NoSample
  <1>7. StoredRight' /\ DoneRight' /\ DaysTyped' /\ SnapRight'
    BY <1>2, <1>3, <1>4, <1>5, StoredStays, DoneStays, SameLive, SnapStays
  <1>8. RunOK' /\ GotRight'
    <2>1. PICK r : r = [pc |-> "idle", nowSec |-> now, T |-> saved', skip |-> done, day |-> 0]
      OBVIOUS
    <2>2. D!Continue(r, -1)
      BY <1>1, <2>1 DEF D!Begin
    <2>3. now \in Nat /\ 0 \in D!Days /\ done \subseteq D!Days
      <3>1. D!dayOf(0) = 0 /\ 0 \in 0..MaxNow
        BY Constants, SMTT(30) DEF D!dayOf
      <3> QED
        BY <1>2, <3>1, InTheDays, WorldTypes DEF DoneRight
    <2>4. /\ r \in [pc : {"idle", "counters", "rows", "today"}, nowSec : 0..now, T : {saved'},
                   skip : SUBSET D!Days, day : D!Days]
          /\ now <= r.nowSec + 1
      BY <2>1, <2>3
    <2>5. now' = now
      BY <1>3
    <2>6. RunOK'
      BY <1>4, <2>2, <2>4, <2>5, ContinueRun
    <2>7. GotRight'
      BY <1>2, <1>4, <2>2, <2>4, ContinueGot
    <2> QED
      BY <2>6, <2>7
  <1> QED
    BY <1>4, <1>6, <1>7, <1>8 DEF DaysInv, Later

\* The day a refresh is at is over, and nobody has touched its locals.
LEMMA PastDay ==
    ASSUME WorldOK, RunOK, run.pc \in {"counters", "rows"}
    PROVE  /\ run \in [pc : {"counters", "rows", "today"}, nowSec : 0..now, T : {saved},
                       skip : SUBSET D!Days, day : D!Days]
           /\ now \in Nat /\ now <= MaxNow /\ now <= run.nowSec + 1
           /\ run.day \in D!Days /\ run.day \in Nat /\ run.nowSec \in 0..now /\ run.T = saved
           /\ run.day < D!dayOf(run.nowSec)
           /\ D!dayEnd(run.day) \in Nat /\ D!dayEnd(run.day) <= run.nowSec /\ D!dayEnd(run.day) <= now
  <1>1. run.pc # "idle" /\ run.pc # "today"
    OBVIOUS
  <1>2. /\ run \in [pc : {"counters", "rows", "today"}, nowSec : 0..now, T : {saved},
                    skip : SUBSET D!Days, day : D!Days]
        /\ now <= run.nowSec + 1 /\ run.day < D!dayOf(run.nowSec)
    BY <1>1 DEF RunOK, D!Idle
  <1>3. run.day \in D!Days /\ run.nowSec \in 0..now /\ run.T = saved
    BY <1>2
  <1>4. now \in Nat /\ now <= MaxNow /\ run.day \in Nat /\ run.nowSec \in Nat
    <2>1. now \in 0..MaxNow /\ MaxNow \in Nat
      BY Constants DEF WorldOK
    <2>2. run.day \in Nat
      BY <1>3, InTheDays
    <2> QED
      BY <1>3, <2>1, <2>2
  <1>5. D!dayOf(run.nowSec) \in Nat /\ D!dayStart(D!dayOf(run.nowSec)) <= run.nowSec
    BY <1>4, InItsDay
  <1>6. D!dayEnd(run.day) <= D!dayStart(D!dayOf(run.nowSec))
    BY <1>2, <1>4, <1>5, DaysInOrder
  <1>7. D!dayEnd(run.day) \in Nat /\ D!dayStart(D!dayOf(run.nowSec)) \in Nat
    BY <1>4, <1>5, DayTypes
  <1> QED
    BY <1>2, <1>3, <1>4, <1>5, <1>6, <1>7

\* The counter of a past day.
LEMMA DayIsRead ==
    ASSUME WorldOK, SeriesRight, SavedRight, NEW d \in Nat, CounterAsked(d), NEW start,
           NEW w, w = D!Window(series, FromOf(d), D!dayEnd(d), start)
    PROVE  /\ w.value \in Nat
           /\ Whole(d) => /\ w.value = Cardinality(Units(FromOf(d), D!dayEnd(d)))
                          /\ w.cover = {<<FromOf(d), D!dayEnd(d)>>}
  <1> DEFINE a == FromOf(d)
             b == D!dayEnd(d)
  <1>1. saved \in Sampled /\ Sampled \subseteq 1..now /\ now \in Nat
    BY WorldTypes DEF SavedRight, CounterAsked
  <1>2. saved \in Nat /\ 1 <= saved
    BY <1>1
  <1>3. D!dayStart(d) \in Nat /\ b \in Nat /\ D!dayStart(d) < b /\ b <= now /\ saved < b
    BY DayTypes DEF CounterAsked
  <1>4. a \in Nat /\ 1 <= a /\ a < b
    BY <1>2, <1>3 DEF FromOf
  <1>5. ASSUME Whole(d) PROVE a \in Sampled /\ b \in Sampled /\ D!SeenRestarts(a, b)
    <2>1. D!Scraped(a) /\ D!Scraped(b) /\ D!SeenRestarts(a, b)
      BY <1>5 DEF Whole
    <2> HIDE DEF a, b
    <2>2. a \in 0..now /\ b \in 0..now /\ a # 0 /\ b # 0
      BY <1>1, <1>3, <1>4
    <2> QED
      BY <2>1, <2>2, ScrapedIs
  <1>6. w.value \in Nat
    <2> HIDE DEF a, b
    <2> QED
      BY <1>3, <1>4, WindowTyped DEF a, b
  <1> QED
    BY <1>4, <1>5, <1>6, WholeWindow

LEMMA ReadCountersStep == DaysInv /\ D!ReadCounters => DaysInv'
  <1>1. SUFFICES ASSUME DaysInv, D!ReadCounters PROVE DaysInv'
    OBVIOUS
  <1>2. /\ UNCHANGED D!outside /\ UNCHANGED <<faults, snap, saved, done, stored, live, now>>
        /\ run.pc = "counters" /\ run' = [run EXCEPT !.pc = "rows"]
    BY <1>1 DEF D!ReadCounters, D!CountersCome, D!outside
  <1>3. Later /\ WorldOK' /\ SeriesRight' /\ SavedRight' /\ StoredRight' /\ DoneRight'
    BY <1>1, <1>2, FaultsKept, QuietWorld
  <1>4. WorldOK /\ SeriesRight /\ SavedRight /\ RunOK /\ DaysTyped /\ SnapRight
    BY <1>1 DEF DaysInv
  <1>5. SnapRight' /\ DaysTyped'
    BY <1>2, <1>3, <1>4, SnapStays, SameLive
  <1>6. PICK d \in D!Days : d = run.day
    BY <1>2, <1>4, PastDay
  <1>7. d \in Nat /\ run.T = saved /\ D!dayEnd(d) \in Nat /\ D!dayEnd(d) <= now
    BY <1>2, <1>4, <1>6, PastDay
  <1>8. run'.pc = "rows" /\ run'.day = d
        /\ run' \in [pc : {"counters", "rows", "today"}, nowSec : 0..now', T : {saved'},
                     skip : SUBSET D!Days, day : D!Days]
        /\ run'.nowSec = run.nowSec /\ run.day < D!dayOf(run.nowSec) /\ now' <= run'.nowSec + 1
    <2>1. /\ run \in [pc : {"counters", "rows", "today"}, nowSec : 0..now, T : {saved},
                      skip : SUBSET D!Days, day : D!Days]
          /\ run.day < D!dayOf(run.nowSec) /\ now <= run.nowSec + 1
      BY <1>2, <1>4, PastDay
    <2> QED
      BY <1>2, <1>6, <2>1
  <1>9. RunOK'
    BY <1>6, <1>8 DEF RunOK, D!dayOf, D!Days
  <1>10. GotRight'
    <2>1. CASE ~D!Asked
      <3>1. got' = D!NoReading
        BY <1>1, <2>1 DEF D!ReadCounters
      <3> QED
        BY <3>1 DEF GotRight, D!NoReading, D!NoSample
    <2>2. CASE D!Asked
      <3>1. CounterAsked(d) /\ saved \in Nat
        <4>1. saved # D!NoSample /\ saved < D!dayEnd(d)
          BY <1>6, <1>7, <2>2 DEF D!Asked
        <4>2. saved \in Nat
          BY <1>4, <4>1, WorldTypes DEF SavedRight
        <4> QED
          BY <1>7, <4>1, <4>2 DEF CounterAsked
      <3>2. D!Max({D!dayStart(run.day), run.T}) = FromOf(d)
        <4>1. D!dayStart(d) \in Nat
          BY <1>7, DayTypes
        <4> QED
          BY <1>6, <1>7, <3>1, <4>1, MaxOfTwo DEF FromOf
      <3>3. PICK start : start = D!serverStarts(FromOf(d), D!dayEnd(d))
        OBVIOUS
      <3>4. PICK w : w = D!Window(series, FromOf(d), D!dayEnd(d), start)
        OBVIOUS
      <3>5. got' = [ctr |-> w.value, cover |-> w.cover, at |-> now]
        BY <1>1, <1>6, <2>2, <3>2, <3>3, <3>4 DEF D!ReadCounters
      <3>6. w.value \in Nat
        BY <1>4, <1>7, <3>1, <3>4, DayIsRead
      <3>7. Whole(d) => /\ w.value = Cardinality(Units(FromOf(d), D!dayEnd(d)))
                        /\ w.cover = {<<FromOf(d), D!dayEnd(d)>>}
        BY <1>4, <1>7, <3>1, <3>4, DayIsRead
      <3>8. CounterAsked(d)' /\ (Whole(d)' => Whole(d))
            /\ Units(FromOf(d), D!dayEnd(d))' = Units(FromOf(d), D!dayEnd(d))
            /\ FromOf(d)' = FromOf(d) /\ D!dayEnd(d)' = D!dayEnd(d)
        BY <1>2, <1>3, <1>4, <1>7, <3>1, WholeStays
      <3>9. Whole(d)' => /\ got'.ctr = Cardinality(Units(FromOf(d), D!dayEnd(d)))'
                         /\ got'.cover = {<<FromOf(d)', D!dayEnd(d)'>>}
        BY <3>5, <3>7, <3>8
      <3> QED
        BY <1>8, <3>5, <3>6, <3>8, <3>9 DEF GotRight
    <2> QED
      BY <2>1, <2>2
  <1> QED
    BY <1>3, <1>5, <1>9, <1>10 DEF DaysInv

\* After a past day the refresh goes on.
LEMMA NextDayBegins ==
    ASSUME Later, now' = now, saved' = saved, RunOK, SnapRight, run.pc \in {"counters", "rows"},
           D!Continue(run, run.day)
    PROVE  RunOK' /\ GotRight'
  <1>1. /\ run \in [pc : {"counters", "rows", "today"}, nowSec : 0..now, T : {saved},
                    skip : SUBSET D!Days, day : D!Days]
        /\ now <= run.nowSec + 1
    BY PastDay DEF Later
  <1>2. PICK r, d : r = run /\ d = run.day
    OBVIOUS
  <1>3. r \in [pc : {"idle", "counters", "rows", "today"}, nowSec : 0..now, T : {saved'},
               skip : SUBSET D!Days, day : D!Days]
        /\ now <= r.nowSec + 1 /\ D!Continue(r, d)
    BY <1>1, <1>2
  <1> QED
    BY <1>3, ContinueRun, ContinueGot

LEMMA ReadFailsStep == DaysInv /\ D!ReadFails => DaysInv'
  <1>1. SUFFICES ASSUME DaysInv, D!ReadFails PROVE DaysInv'
    OBVIOUS
  <1>2. /\ UNCHANGED D!outside /\ UNCHANGED <<snap, saved, done, stored, live, now>>
        /\ faults < MaxFaults /\ faults' = faults + 1
        /\ run.pc \in {"counters", "rows"}
    BY <1>1 DEF D!ReadFails, D!outside
  <1>3. Later /\ WorldOK' /\ SeriesRight' /\ SavedRight' /\ StoredRight' /\ DoneRight'
    BY <1>1, <1>2, FaultsKept, QuietWorld
  <1>4. WorldOK /\ RunOK /\ DaysTyped /\ SnapRight
    BY <1>1 DEF DaysInv
  <1>5. SnapRight' /\ DaysTyped'
    BY <1>2, <1>3, <1>4, SnapStays, SameLive
  <1>6. RunOK' /\ GotRight'
    <2>1. D!Continue(run, run.day)
      BY <1>1 DEF D!ReadFails
    <2> QED
      BY <1>2, <1>3, <1>4, <2>1, NextDayBegins
  <1> QED
    BY <1>3, <1>5, <1>6 DEF DaysInv

\* The day as it is stored or shown: its rows, and what the counter covered of them.
LEMMA TaggedRight ==
    ASSUME DaysInv, run.pc = "rows", NEW d \in D!Days, d = run.day,
           NEW rows, rows = D!DayRows, NEW day, day = D!Tagged(rows)
    PROVE  /\ DayOK(d, day) /\ day.rows = rows
           /\ day.ctr # D!NoSample =>
                /\ CounterAsked(d)
                /\ Whole(d) => /\ day.ctr = Cardinality(Units(FromOf(d), D!dayEnd(d)))
                               /\ day.cov = {u \in rows : u >= saved}
  <1>1. WorldOK /\ RunOK /\ SavedRight /\ GotRight
    BY DEF DaysInv
  <1>2. run.T = saved /\ now \in Nat /\ now <= MaxNow /\ d \in Nat
    BY <1>1, PastDay
  <1>3. D!dayStart(d) \in Nat /\ D!dayEnd(d) \in Nat
    BY <1>2, DayTypes
  <1>4. rows \subseteq D!UnitsOf(d) /\ rows \subseteq 0..MaxNow /\ rows \subseteq Nat
    <2>1. D!Carried("ll") \subseteq 0..(now - 1)
      BY <1>1 DEF WorldOK, D!Carried
    <2>2. rows = {u \in D!Carried("ll") : /\ D!dayStart(d) <= u /\ u < D!dayEnd(d)
                                          /\ pruned <= u /\ u < now - lag}
      BY DEF D!DayRows, D!llWindow
    <2>3. \A u \in rows : u \in 0..(now - 1) /\ D!dayStart(d) <= u /\ u < D!dayEnd(d)
      BY <2>1, <2>2
    <2> QED
      BY <1>2, <1>3, <2>3, Constants DEF D!UnitsOf
  <1>5. /\ day.rows = rows /\ day.ctr = got.ctr
        /\ day.cov = IF saved = D!NoSample THEN {}
                     ELSE {u \in rows : u >= saved /\ D!InCover(got.cover, u)}
        /\ day = [rows |-> day.rows, cov |-> day.cov, ctr |-> day.ctr]
    BY <1>2 DEF D!Tagged
  <1>6. day.cov \subseteq rows
    BY <1>5
  <1>7. CASE got = D!NoReading
    <2>1. got.ctr = D!NoSample /\ got.cover = {}
      BY <1>7 DEF D!NoReading
    <2>2. day.ctr = D!NoSample /\ day.cov = {}
      BY <1>5, <2>1 DEF D!InCover
    <2> QED
      BY <1>4, <1>5, <1>6, <2>2 DEF DayOK, D!DayRecord
  <1>8. CASE got # D!NoReading
    <2>1. /\ got.ctr \in Nat /\ CounterAsked(d)
          /\ Whole(d) => /\ got.ctr = Cardinality(Units(FromOf(d), D!dayEnd(d)))
                         /\ got.cover = {<<FromOf(d), D!dayEnd(d)>>}
      BY <1>1, <1>8 DEF GotRight
    <2>2. saved # D!NoSample /\ saved \in Nat
      BY <1>1, <2>1, WorldTypes DEF CounterAsked, SavedRight
    <2>3. ASSUME Whole(d) PROVE day.cov = {u \in rows : u >= saved}
      <3>1. \A u \in rows : u >= saved => D!InCover(got.cover, u)
        <4>1. SUFFICES ASSUME NEW u \in rows, u >= saved PROVE D!InCover(got.cover, u)
          OBVIOUS
        <4>2. D!dayStart(d) <= u /\ u < D!dayEnd(d) /\ u \in Nat
          BY <1>3, <1>4, <4>1 DEF D!UnitsOf
        <4>3. FromOf(d) <= u
          BY <4>1, <4>2 DEF FromOf
        <4>4. PICK s : s = <<FromOf(d), D!dayEnd(d)>>
          OBVIOUS
        <4>5. s \in got.cover /\ s[1] <= u /\ u < s[2]
          BY <2>1, <2>3, <4>2, <4>3, <4>4
        <4> QED
          BY <4>5 DEF D!InCover
      <3> QED
        BY <1>5, <2>2, <3>1
    <2>4. DayOK(d, day)
      <3>1. day.ctr \in Nat /\ day.ctr # D!NoSample
        BY <1>5, <2>1 DEF D!NoSample
      <3>2. day \in D!DayRecord
        BY <1>4, <1>5, <1>6, <3>1 DEF D!DayRecord
      <3> QED
        BY <1>4, <1>5, <1>6, <3>1, <3>2 DEF DayOK
    <2> QED
      BY <1>5, <2>1, <2>3, <2>4
  <1> QED
    BY <1>7, <1>8

\* A day that is settled has all its rows, or the log has lost the first of them, but not all.
LEMMA SettledRows ==
    ASSUME DaysInv, run.pc = "rows", D!Settled, ~D!Suspect,
           NEW d \in D!Days, d = run.day,
           NEW all, all = D!Carried("ll") \cap D!UnitsOf(d), all # {}
    PROVE  D!DayRows # {} /\ D!DayRows = {u \in all : u >= D!Min(D!DayRows)}
  <1> DEFINE a == D!dayStart(d)
             b == D!dayEnd(d)
             rows == D!DayRows
  <1>1. WorldOK /\ RunOK
    BY DEF DaysInv
  <1>2. /\ now \in Nat /\ now <= run.nowSec + 1 /\ run.nowSec \in 0..now /\ d \in Nat
        /\ D!dayEnd(d) \in Nat
    BY <1>1, PastDay
  <1>3. a \in Nat /\ b \in Nat /\ b = a + DayLen /\ DayLen \in Nat /\ LogDays \in Nat /\ Settle \in Nat \ {0}
    BY <1>2, DayTypes, Constants
  <1>4. lag \in {0, 1} /\ pruned \in Nat /\ (pruned = 0 \/ pruned <= now - LogDays * DayLen - 1)
    BY <1>1, Constants DEF WorldOK
  <1>5. all \subseteq Nat /\ \A u \in all : a <= u /\ u < b
    BY <1>3 DEF D!UnitsOf
  <1>6. b <= now - 1
    BY <1>2, <1>3 DEF D!Settled
  <1>7. rows = {u \in all : pruned <= u}
    <2>1. rows = {u \in D!Carried("ll") : a <= u /\ u < b /\ pruned <= u /\ u < now - lag}
      BY DEF D!DayRows, D!llWindow
    <2>2. \A u \in all : u < now - lag
      BY <1>2, <1>3, <1>4, <1>5, <1>6
    <2>3. \A u \in D!Carried("ll") : u \in all <=> a <= u /\ u < b
      <3>1. \A u \in D!Carried("ll") : u \in Nat
        BY <1>1, <1>2 DEF WorldOK, D!Carried
      <3> HIDE DEF a, b
      <3>2. all = D!Carried("ll") \cap (a..(b - 1))
        BY DEF D!UnitsOf, a, b
      <3> QED
        BY <1>3, <3>1, <3>2
    <2>4. all \subseteq D!Carried("ll")
      OBVIOUS
    <2> HIDE DEF a, b, rows
    <2> QED
      BY <2>1, <2>2, <2>3, <2>4
  <1>8. rows # {}
    <2>1. SUFFICES ASSUME rows = {} PROVE FALSE
      OBVIOUS
    <2>2. run.nowSec - b <= (LogDays - 1) * DayLen
      <3>1. LogDays - 1 \in Int /\ (LogDays - 1) * DayLen \in Int
        BY <1>3, SMTT(30)
      <3> QED
        BY <1>2, <1>3, <2>1, <3>1 DEF D!Suspect
    <2>3. (LogDays - 1) * DayLen = LogDays * DayLen - DayLen /\ LogDays * DayLen \in Nat
      BY <1>3, SMTT(30)
    <2>4. pruned <= a
      <3> HIDE DEF a, b
      <3> QED
        BY <1>2, <1>3, <1>4, <2>2, <2>3
    <2>5. PICK u \in all : TRUE
      OBVIOUS
    <2>6. pruned <= u
      <3> HIDE DEF a, b
      <3> QED
        BY <1>3, <1>4, <1>5, <2>4, <2>5
    <2> QED
      BY <1>7, <2>1, <2>5, <2>6
  <1>9. rows = {u \in all : u >= D!Min(rows)}
    <2>1. rows \subseteq Nat
      BY <1>5, <1>7
    <2> DEFINE m == D!Min(rows)
    <2>2. m \in rows /\ \A u \in rows : m <= u
      <3> HIDE DEF rows
      <3> QED
        BY <1>8, <2>1, MinIs
    <2>3. m \in Nat /\ pruned <= m
      BY <1>7, <2>1, <2>2
    <2>4. \A u \in all : u \in rows <=> u >= m
      <3> HIDE DEF m
      <3>1. \A u \in all : u \in Nat /\ (u >= m => pruned <= u)
        BY <1>4, <1>5, <2>3
      <3> QED
        BY <1>7, <2>2, <2>3, <3>1
    <2> HIDE DEF m
    <2> QED
      BY <1>7, <2>4 DEF m
  <1> QED
    BY <1>8, <1>9

LEMMA ReadRowsStep == DaysInv /\ D!ReadRows => DaysInv'
  <1>1. SUFFICES ASSUME DaysInv, D!ReadRows PROVE DaysInv'
    OBVIOUS
  <1>2. /\ UNCHANGED D!outside /\ UNCHANGED <<faults, snap, saved, now, traffic>> /\ run.pc = "rows"
    BY <1>1 DEF D!ReadRows, D!outside
  <1>3. /\ WorldOK /\ SeriesRight /\ SavedRight /\ RunOK /\ DaysTyped /\ StoredRight /\ DoneRight
        /\ SnapRight
    BY <1>1 DEF DaysInv
  <1>4. Later /\ SeriesRight'
    BY <1>1, <1>2, <1>3, FaultsKept, SameWorld DEF D!outside
  <1>5. SavedRight' /\ SnapRight'
    BY <1>2, <1>3, <1>4, SavedStays, SnapStays
  <1>6. RunOK' /\ GotRight'
    <2>1. D!Continue(run, run.day)
      BY <1>1 DEF D!ReadRows
    <2> QED
      BY <1>2, <1>3, <1>4, <2>1, NextDayBegins
  <1>7. PICK d \in D!Days : d = run.day
    BY <1>2, <1>3, PastDay
  <1>8. PICK rows, day : rows = D!DayRows /\ day = D!Tagged(rows)
    OBVIOUS
  <1>9. d \in Nat /\ D!dayEnd(d) \in Nat /\ D!dayEnd(d) <= now
    BY <1>2, <1>3, <1>7, <1>8, PastDay
  <1>10. DayOK(d, day) /\ day.rows = rows /\ day \in D!DayRecord
    <2>1. DayOK(d, day) /\ day.rows = rows
      BY <1>1, <1>2, <1>7, <1>8, TaggedRight
    <2> QED
      BY <2>1 DEF DayOK
  <1>11. day.ctr # D!NoSample =>
           /\ CounterAsked(d)
           /\ Whole(d) => /\ day.ctr = Cardinality(Units(FromOf(d), D!dayEnd(d)))
                          /\ day.cov = {u \in rows : u >= saved}
    BY <1>1, <1>2, <1>7, <1>8, TaggedRight
  <1>12. ASSUME NEW e \in D!Days, NEW x, DayOK(e, x)
         PROVE  DayOK(e, x)'
    BY <1>12 DEF DayOK, D!DayRecord, D!UnitsOf, D!dayStart, D!dayEnd, D!NoSample
  <1>13. CASE D!Settled /\ ~D!Suspect
    <2>1. /\ done' = done \cup {d} /\ stored' = [stored EXCEPT ![d] = day] /\ live' = live
      BY <1>1, <1>7, <1>8, <1>13 DEF D!ReadRows
    <2>2. stored \in [D!Days -> D!DayRecord]
      BY <1>3 DEF DaysTyped
    <2>3. stored'[d] = day /\ \A e \in D!Days : e # d => stored'[e] = stored[e]
      BY <2>1, <2>2
    <2>4. DaysTyped'
      <3>1. stored' \in [D!Days -> D!DayRecord]
        BY <1>10, <2>1, <2>2
      <3>2. live' \in [D!Days -> D!DayRecord] /\ \A e \in D!Days : DayOK(e, live[e])'
        BY <1>3, <1>12, <2>1 DEF DaysTyped
      <3> QED
        BY <3>1, <3>2 DEF DaysTyped, D!Days, D!DayRecord, D!NoSample
    <2>5. StoredRight'
      <3>1. SUFFICES ASSUME NEW e \in D!Days
                     PROVE  /\ DayOK(e, stored[e])'
                            /\ stored'[e].ctr # D!NoSample =>
                                 /\ CounterAsked(e)'
                                 /\ Whole(e)' =>
                                      /\ stored'[e].ctr = Cardinality(Units(FromOf(e), D!dayEnd(e)))'
                                      /\ stored'[e].cov = {u \in stored'[e].rows : u >= saved'}
        BY DEF StoredRight, D!Days, D!NoSample
      <3>2. PICK x : x = stored'[e]
        OBVIOUS
      <3>3. /\ DayOK(e, x)
            /\ x.ctr # D!NoSample =>
                 /\ CounterAsked(e)
                 /\ Whole(e) => /\ x.ctr = Cardinality(Units(FromOf(e), D!dayEnd(e)))
                                /\ x.cov = {u \in x.rows : u >= saved}
        <4>1. CASE e = d
          BY <1>10, <1>11, <2>3, <3>2, <4>1
        <4>2. CASE e # d
          BY <1>3, <2>3, <3>2, <4>2 DEF StoredRight
        <4> QED
          BY <4>1, <4>2
      <3>4. DayOK(e, stored[e])'
        BY <1>12, <3>2, <3>3
      <3>5. ASSUME x.ctr # D!NoSample
            PROVE  /\ CounterAsked(e)'
                   /\ Whole(e)' => /\ x.ctr = Cardinality(Units(FromOf(e), D!dayEnd(e)))'
                                   /\ x.cov = {u \in x.rows : u >= saved'}
        <4>1. e \in Nat /\ CounterAsked(e)
          BY <3>3, <3>5, InTheDays
        <4>2. CounterAsked(e)' /\ (Whole(e)' => Whole(e))
              /\ Units(FromOf(e), D!dayEnd(e))' = Units(FromOf(e), D!dayEnd(e))
          BY <1>2, <1>3, <1>4, <4>1, WholeStays
        <4>3. Cardinality(Units(FromOf(e), D!dayEnd(e)))' = Cardinality(Units(FromOf(e), D!dayEnd(e)))
          BY <4>2
        <4> QED
          BY <1>2, <3>3, <3>5, <4>2, <4>3
      <3> QED
        BY <3>2, <3>4, <3>5
    <2>6. DoneRight'
      <3>1. done' \subseteq D!Days /\ \A e \in done' : D!dayEnd(e) <= now
        BY <1>3, <1>9, <2>1 DEF DoneRight
      <3>2. ASSUME NEW e \in done',
                   NEW all, all = D!Carried("ll") \cap D!UnitsOf(e), all # {},
                   NEW kept, kept = stored'[e].rows
            PROVE  kept # {} /\ kept = {u \in all : u >= D!Min(kept)}
        <4>1. CASE e = d
          <5>1. kept = D!DayRows
            BY <1>7, <1>8, <1>10, <2>3, <3>2, <4>1
          <5> QED
            BY <1>1, <1>2, <1>7, <1>8, <1>13, <3>2, <4>1, <5>1, SettledRows
        <4>2. CASE e # d
          <5>1. e \in done /\ e \in D!Days /\ kept = stored[e].rows
            BY <2>1, <2>3, <3>1, <3>2, <4>2
          <5> QED
            BY <1>3, <3>2, <5>1 DEF DoneRight, D!SettledDaysKeepTheirRows
        <4> QED
          BY <4>1, <4>2
      <3>3. D!Carried("ll")' = D!Carried("ll")
        BY <1>2 DEF D!Carried
      <3>4. D!SettledDaysKeepTheirRows'
        <4>1. SUFFICES ASSUME NEW e \in done', (D!Carried("ll") \cap D!UnitsOf(e))' # {}
                       PROVE  /\ stored'[e].rows # {}
                              /\ stored'[e].rows = {u \in (D!Carried("ll") \cap D!UnitsOf(e))' :
                                                      u >= D!Min(stored'[e].rows)}
          BY DEF D!SettledDaysKeepTheirRows, D!Min
        <4>2. (D!Carried("ll") \cap D!UnitsOf(e))' = D!Carried("ll") \cap D!UnitsOf(e)
          BY <3>3 DEF D!UnitsOf, D!dayStart, D!dayEnd
        <4>3. PICK all, kept : all = D!Carried("ll") \cap D!UnitsOf(e) /\ kept = stored'[e].rows
          OBVIOUS
        <4>4. all # {}
          BY <4>1, <4>2, <4>3
        <4>5. kept # {} /\ kept = {u \in all : u >= D!Min(kept)}
          BY <3>2, <4>3, <4>4
        <4> QED
          BY <4>2, <4>3, <4>5
      <3> QED
        BY <1>2, <3>1, <3>4 DEF DoneRight, D!Days, D!dayStart, D!dayEnd
    <2> QED
      BY <1>4, <1>5, <1>6, <2>4, <2>5, <2>6 DEF DaysInv, Later
  <1>14. CASE ~(D!Settled /\ ~D!Suspect)
    <2>1. UNCHANGED <<done, stored>> /\ live' = [live EXCEPT ![d] = day]
      BY <1>1, <1>7, <1>8, <1>14 DEF D!ReadRows
    <2>2. StoredRight' /\ DoneRight'
      BY <1>2, <1>3, <1>4, <2>1, StoredStays, DoneStays
    <2>3. DaysTyped'
      <3>1. live \in [D!Days -> D!DayRecord] /\ stored' \in [D!Days -> D!DayRecord]
        BY <1>3, <2>1 DEF DaysTyped
      <3>2. live' \in [D!Days -> D!DayRecord]
        BY <1>10, <2>1, <3>1
      <3>3. \A e \in D!Days : live'[e] = IF e = d THEN day ELSE live[e]
        BY <2>1, <3>1
      <3>4. \A e \in D!Days : DayOK(e, live'[e])
        BY <1>3, <1>10, <3>3 DEF DaysTyped
      <3>5. \A e \in D!Days : DayOK(e, live[e])'
        BY <1>12, <3>4
      <3> QED
        BY <3>1, <3>2, <3>5 DEF DaysTyped, D!Days, D!DayRecord, D!NoSample
    <2> QED
      BY <1>4, <1>5, <1>6, <2>2, <2>3 DEF DaysInv, Later
  <1> QED
    BY <1>13, <1>14

\* A unit passes: what happened in it, and what was scraped at its end.
LEMMA TickWorld ==
    ASSUME WorldOK, NEW kind \in {"ll", "direct", "off"}, NEW scraped \in BOOLEAN, NEW late \in {0, 1},
           D!Tick(kind, scraped, late)
    PROVE  /\ Later /\ now' = now + 1 /\ boot' = IF kind = "off" THEN now + 1 ELSE boot
           /\ D!OffUnits' = D!OffUnits \cup {u \in {now} : kind = "off"}
           /\ Sampled' = Sampled \cup {t \in {now + 1} : scraped}
           /\ scraped => series'[now + 1] = IF kind = "off" THEN 0 ELSE ValueAt(now + 1)
  <1>1. /\ now < MaxNow /\ now' = now + 1 /\ lag' = late /\ pruned' = pruned
        /\ boot' = IF kind = "off" THEN now + 1 ELSE boot
        /\ traffic' = [u \in 0..now |-> IF u = now THEN kind ELSE traffic[u]]
        /\ faults' = faults \/ (faults < MaxFaults /\ faults' = faults + 1)
    BY DEF D!Tick
  <1>2. PICK v : /\ series' = Append(series, v)
                 /\ v = IF ~scraped THEN D!NoSample ELSE IF kind = "off" THEN 0 ELSE D!Counter + 1
    BY DEF D!Tick
  <1>3. /\ now \in Nat /\ now \in 0..MaxNow /\ boot \in -1..now /\ faults \in 0..MaxFaults
        /\ series \in Seq({-1} \cup Nat) /\ Len(series) = now
        /\ traffic \in [0..(now - 1) -> {"ll", "direct", "off"}]
    BY WorldTypes DEF WorldOK, D!Before, D!NoSample
  <1>4. D!Counter \in Nat /\ D!Counter + 1 = ValueAt(now + 1)
    BY <1>3, Constants DEF D!Counter, D!Before, ValueAt
  <1>5. v \in {-1} \cup Nat
    BY <1>2, <1>4 DEF D!NoSample
  <1>6. /\ series' \in Seq({-1} \cup Nat) /\ Len(series') = now + 1
        /\ series'[now + 1] = v /\ \A t \in 1..now : series'[t] = series[t]
    BY <1>2, <1>3, <1>5
  <1>7. (now + 1) - 1 = now /\ \A u \in 0..(now - 1) : u \in 0..now /\ u # now
    BY <1>3
  <1>8. traffic' \in [0..(now' - 1) -> {"ll", "direct", "off"}]
        /\ (\A u \in 0..(now - 1) : traffic'[u] = traffic[u]) /\ traffic'[now] = kind
    <2>1. \A u \in 0..now : u # now => u \in 0..(now - 1)
      BY <1>3
    <2>2. now \in 0..now /\ 0..(now' - 1) = 0..now
      BY <1>1, <1>3
    <2>3. traffic' \in [0..now -> {"ll", "direct", "off"}]
      BY <1>1, <1>3, <2>1
    <2> QED
      BY <1>1, <1>7, <2>2, <2>3
  <1>9. WorldOK'
    <2>1. now' \in 0..MaxNow /\ lag' \in {0, 1} /\ faults' \in 0..MaxFaults /\ boot' \in -1..now'
      BY <1>1, <1>3, Constants
    <2>2. pruned' \in 0..MaxNow /\ (pruned' = 0 \/ pruned' <= now' - LogDays * DayLen - 1)
      <3>1. LogDays * DayLen \in Nat
        BY Constants, SMTT(30)
      <3>2. pruned \in 0..MaxNow /\ (pruned = 0 \/ pruned <= now - LogDays * DayLen - 1)
        BY DEF WorldOK
      <3> QED
        BY <1>1, <1>3, <3>1, <3>2, Constants
    <2> QED
      BY <1>1, <1>6, <1>8, <2>1, <2>2 DEF WorldOK, D!Before, D!NoSample
  <1>10. Later
    BY <1>1, <1>3, <1>6, <1>8, <1>9 DEF Later
  <1>11. D!OffUnits' = D!OffUnits \cup {u \in {now} : kind = "off"}
    <2>1. D!OffUnits = {u \in 0..(now - 1) : traffic[u] = "off"}
      BY WorldTypes
    <2>2. D!OffUnits' = {u \in 0..(now' - 1) : traffic'[u] = "off"}
      BY <1>8 DEF D!OffUnits, D!Carried
    <2>3. 0..(now' - 1) = 0..(now - 1) \cup {now}
      BY <1>1, <1>3
    <2> QED
      BY <1>8, <2>1, <2>2, <2>3
  <1>12. Sampled' = Sampled \cup {t \in {now + 1} : scraped}
    <2>1. 1..now' = 1..now \cup {now + 1}
      BY <1>1, <1>3
    <2>2. Sampled' = {t \in 1..now' : series'[t] # -1}
      BY DEF Sampled, D!NoSample
    <2>3. v # -1 <=> scraped
      BY <1>2, <1>4 DEF D!NoSample
    <2> QED
      BY <1>6, <2>1, <2>2, <2>3 DEF Sampled, D!NoSample
  <1>13. scraped => series'[now + 1] = IF kind = "off" THEN 0 ELSE ValueAt(now + 1)
    BY <1>2, <1>4, <1>6
  <1> QED
    BY <1>1, <1>10, <1>11, <1>12, <1>13

LEMMA TickSeries ==
    ASSUME WorldOK, SeriesRight,
           NEW kind \in {"ll", "direct", "off"}, NEW scraped \in BOOLEAN, NEW late \in {0, 1},
           D!Tick(kind, scraped, late)
    PROVE  SeriesRight'
  <1>1. /\ Later /\ now' = now + 1 /\ boot' = IF kind = "off" THEN now + 1 ELSE boot
        /\ D!OffUnits' = D!OffUnits \cup {u \in {now} : kind = "off"}
        /\ Sampled' = Sampled \cup {t \in {now + 1} : scraped}
        /\ scraped => series'[now + 1] = IF kind = "off" THEN 0 ELSE ValueAt(now + 1)
    BY TickWorld
  <1>2. now \in Nat /\ Sampled \subseteq 1..now /\ D!OffUnits \subseteq 0..(now - 1)
    BY <1>1, PastUnits, PastSamples
  <1>3. boot \in Int /\ FirstValue \in Nat
    BY Constants DEF WorldOK, D!Before
  <1>4. \A t \in Sampled : t \in Nat /\ t <= now /\ series'[t] = series[t]
    BY <1>1, <1>2 DEF Later
  <1>5. ASSUME NEW t \in Nat, NoOff(t, now)', t <= now
        PROVE  kind # "off" /\ NoOff(t, now)
    <2>1. \A o \in D!OffUnits' : ~(t <= o /\ o < now')
      BY <1>5 DEF NoOff
    <2>2. kind # "off"
      BY <1>1, <1>2, <1>5, <2>1
    <2>3. NoOff(t, now)
      BY <1>1, <1>2, <2>1 DEF NoOff
    <2> QED
      BY <2>2, <2>3
  <1>6. ASSUME NEW t \in Sampled', NoOff(t, now)'
        PROVE  series'[t] = ValueAt(t)'
    <2>1. CASE t \in Sampled
      <3>1. kind # "off" /\ NoOff(t, now)
        BY <1>4, <1>5, <1>6, <2>1
      <3>2. series[t] = ValueAt(t)
        BY <2>1, <3>1 DEF SeriesRight
      <3> QED
        BY <1>1, <1>4, <2>1, <3>1, <3>2 DEF ValueAt, D!Before
    <2>2. CASE t \notin Sampled
      <3>1. t = now + 1 /\ scraped
        BY <1>1, <2>2
      <3>2. series'[t] = IF kind = "off" THEN 0 ELSE ValueAt(now + 1)
        BY <1>1, <3>1
      <3> QED
        BY <1>1, <1>2, <1>3, <3>1, <3>2 DEF ValueAt, D!Before
    <2> QED
      BY <2>1, <2>2
  <1>7. ASSUME NEW t \in Sampled', NEW v \in Sampled', t < v, NoOff(t, v)'
        PROVE  series'[v] = series'[t] + (v - t)
    <2>1. CASE v \in Sampled
      <3>1. t \in Sampled
        BY <1>1, <1>2, <1>4, <1>7, <2>1
      <3>2. NoOff(t, v)
        BY <1>1, <1>7 DEF NoOff
      <3> QED
        BY <1>4, <1>7, <2>1, <3>1, <3>2 DEF SeriesRight
    <2>2. CASE v \notin Sampled
      <3>1. v = now + 1 /\ scraped
        BY <1>1, <2>2
      <3>2. t \in Sampled /\ t \in Nat /\ t <= now
        BY <1>1, <1>2, <1>4, <1>7, <3>1
      <3>3. NoOff(t, now)'
        BY <1>1, <1>7, <3>1 DEF NoOff
      <3>4. kind # "off" /\ NoOff(t, now)
        BY <1>5, <3>2, <3>3
      <3>5. series'[t] = ValueAt(t)
        BY <1>4, <3>2, <3>4 DEF SeriesRight
      <3>6. series'[v] = ValueAt(now + 1)
        BY <1>1, <3>1, <3>4
      <3> QED
        BY <1>2, <1>3, <3>1, <3>2, <3>5, <3>6 DEF ValueAt
    <2> QED
      BY <2>1, <2>2
  <1>8. ASSUME NEW o \in D!OffUnits', o + 1 \in Sampled'
        PROVE  series'[o + 1] = 0
    <2>1. CASE o \in D!OffUnits
      <3>1. o \in Nat /\ o + 1 <= now
        BY <1>2, <2>1
      <3>2. o + 1 \in Sampled
        BY <1>1, <1>2, <1>8, <3>1
      <3> QED
        BY <1>4, <2>1, <3>2 DEF SeriesRight
    <2>2. CASE o \notin D!OffUnits
      <3>1. o = now /\ kind = "off"
        BY <1>1, <2>2
      <3>2. scraped
        BY <1>1, <1>2, <1>8, <3>1
      <3> QED
        BY <1>1, <3>1, <3>2
    <2> QED
      BY <2>1, <2>2
  <1> QED
    BY <1>6, <1>7, <1>8 DEF SeriesRight, NoOff, ValueAt, D!Before

LEMMA TickStep ==
    ASSUME NEW kind \in {"ll", "direct", "off"}, NEW scraped \in BOOLEAN, NEW late \in {0, 1}
    PROVE  DaysInv /\ D!Tick(kind, scraped, late) => DaysInv'
  <1>1. SUFFICES ASSUME DaysInv, D!Tick(kind, scraped, late) PROVE DaysInv'
    OBVIOUS
  <1>2. /\ UNCHANGED <<pruned, snap, saved, done, stored, run, got, live>>
        /\ run.pc # "idle" => now = run.nowSec
    BY <1>1 DEF D!Tick, D!locals
  <1>3. /\ WorldOK /\ SeriesRight /\ SavedRight /\ RunOK /\ DaysTyped /\ StoredRight /\ DoneRight
        /\ SnapRight /\ GotRight
    BY <1>1 DEF DaysInv
  <1>4. Later /\ now' = now + 1 /\ SeriesRight'
    BY <1>1, <1>3, TickWorld, TickSeries
  <1>5. RunOK'
    <2>1. CASE run = D!Idle
      BY <1>2, <2>1 DEF RunOK, D!Idle
    <2>2. CASE run # D!Idle
      <3>1. /\ run \in [pc : {"counters", "rows", "today"}, nowSec : 0..now, T : {saved},
                        skip : SUBSET D!Days, day : D!Days]
            /\ IF run.pc = "today" THEN run.day = D!dayOf(run.nowSec)
                                   ELSE run.day < D!dayOf(run.nowSec)
        BY <1>3, <2>2 DEF RunOK
      <3>2. now \in Nat /\ now = run.nowSec
        BY <1>2, <1>4, <3>1, PastSamples
      <3>3. run' \in [pc : {"counters", "rows", "today"}, nowSec : 0..now', T : {saved'},
                      skip : SUBSET D!Days, day : D!Days]
        BY <1>2, <1>4, <3>1, <3>2
      <3> QED
        BY <1>2, <1>4, <3>1, <3>2, <3>3 DEF RunOK, D!dayOf, D!Days
    <2> QED
      BY <2>1, <2>2
  <1> QED
    BY <1>2, <1>3, <1>4, <1>5, SavedStays, SameLive, StoredStays, DoneStays, SnapStays, GotStays
    DEF DaysInv, Later

-----------------------------------------------------------------------------
(* All the steps. *)

LEMMA DaysKeep == DaysInv /\ [D!Next]_daysVars => DaysInv'
  <1>1. SUFFICES ASSUME DaysInv, [D!Next]_daysVars PROVE DaysInv'
    OBVIOUS
  <1>2. CASE UNCHANGED daysVars
    <2>1. UNCHANGED <<now, traffic, series, boot, lag, pruned, faults, snap, saved, done, stored, run, got, live>>
      BY <1>2 DEF daysVars
    <2>2. faults' \in 0..MaxFaults
      BY <1>1, <2>1, FaultsKept
    <2>3. Later /\ WorldOK' /\ SeriesRight' /\ SavedRight' /\ StoredRight' /\ DoneRight'
      BY <1>1, <2>1, <2>2, QuietWorld DEF D!outside
    <2>4. SavedRight /\ RunOK /\ DaysTyped /\ SnapRight /\ GotRight
      BY <1>1 DEF DaysInv
    <2>5. RunOK' /\ DaysTyped' /\ SnapRight' /\ GotRight'
      BY <2>1, <2>3, <2>4, SameRun, SameLive, SnapStays, GotStays
    <2> QED
      BY <2>3, <2>5 DEF DaysInv
  <1>3. CASE \E kind \in {"ll", "direct", "off"}, scraped \in BOOLEAN, late \in {0, 1} :
               D!Tick(kind, scraped, late)
    BY <1>1, <1>3, TickStep
  <1>4. CASE \E answers \in BOOLEAN : D!Begin(answers)
    BY <1>1, <1>4, BeginStep
  <1>5. CASE D!Prune
    BY <1>1, <1>5, PruneStep
  <1>6. CASE D!PollNodes \/ D!PollNodesFails
    BY <1>1, <1>6, PollNodesStep, PollNodesFailsStep
  <1>7. CASE D!Restart \/ D!Finish
    BY <1>1, <1>7, RestartStep, FinishStep
  <1>8. CASE D!ReadCounters \/ D!ReadRows \/ D!ReadFails
    BY <1>1, <1>8, ReadCountersStep, ReadRowsStep, ReadFailsStep
  <1> QED
    BY <1>1, <1>2, <1>3, <1>4, <1>5, <1>6, <1>7, <1>8 DEF D!Next

-----------------------------------------------------------------------------
(* What the invariant says of the figures. *)

LEMMA DaysTypes == DaysInv => D!TypeOK
  <1>1. SUFFICES ASSUME DaysInv PROVE D!TypeOK
    OBVIOUS
  <1>2. WorldOK /\ SavedRight /\ RunOK /\ DaysTyped /\ StoredRight /\ DoneRight
    BY <1>1 DEF DaysInv
  <1>3. now \in 0..MaxNow /\ MaxNow \in Nat /\ Sampled \subseteq 1..now
    BY <1>2, Constants, WorldTypes DEF WorldOK
  <1>4. /\ boot \in D!Before..MaxNow /\ lag \in {0, 1} /\ faults \in 0..MaxFaults /\ pruned \in 0..MaxNow
        /\ DOMAIN traffic = 0..(now - 1) /\ Len(series) = now
    BY <1>2, <1>3 DEF WorldOK, D!Before
  <1>5. saved \in {D!NoSample} \cup 0..MaxNow
    <2>1. \A t \in Sampled : t \in 0..MaxNow
      BY <1>3
    <2> QED
      BY <1>2, <2>1 DEF SavedRight
  <1>6. /\ done \subseteq D!Days /\ stored \in [D!Days -> D!DayRecord]
        /\ \A d \in D!Days : stored[d].cov \subseteq stored[d].rows
    BY <1>2 DEF DoneRight, DaysTyped, StoredRight, DayOK
  <1>7. run.pc \in {"idle", "counters", "rows", "today"}
    <2>1. CASE run = D!Idle
      BY <2>1 DEF D!Idle
    <2>2. CASE run # D!Idle
      BY <1>2, <2>2 DEF RunOK
    <2> QED
      BY <2>1, <2>2
  <1> QED
    BY <1>3, <1>4, <1>5, <1>6, <1>7 DEF D!TypeOK

LEMMA DaysExact == DaysInv => D!MeasuredDaysAreExact
  <1>1. SUFFICES ASSUME DaysInv, NEW d \in done, D!Measured(d)
                 PROVE  D!Figure(stored[d], TRUE).total =
                          D!Cardinality(D!UnitsOf(d) \cap
                            (D!Carried("ll") \cup {u \in D!Carried("direct") : u >= saved}))
    BY DEF D!MeasuredDaysAreExact
  <1>2. WorldOK /\ SavedRight /\ StoredRight /\ DoneRight
    BY <1>1 DEF DaysInv
  <1>3. d \in D!Days /\ d \in Nat /\ D!dayEnd(d) <= now /\ now \in Nat
    BY <1>2, InTheDays, WorldTypes DEF DoneRight
  <1> DEFINE start == D!dayStart(d)
             end == D!dayEnd(d)
             rows == stored[d].rows
             cov == stored[d].cov
             ctr == stored[d].ctr
             U == Units(FromOf(d), end)
  <1>4. start \in Nat /\ end \in Nat /\ start < end /\ end <= now
    BY <1>3, DayTypes
  <1>5. ctr # D!NoSample /\ CounterAsked(d) /\ saved \in Nat
    <2>1. stored[d].ctr # D!NoSample
      BY <1>1 DEF D!Measured
    <2>2. CounterAsked(d)
      BY <1>2, <1>3, <2>1 DEF StoredRight
    <2> QED
      BY <1>2, <2>1, <2>2, WorldTypes DEF CounterAsked, SavedRight
  <1>6. FromOf(d) = D!Max({start, saved}) /\ FromOf(d) = IF start >= saved THEN start ELSE saved
    <2> HIDE DEF start
    <2> QED
      BY <1>4, <1>5, MaxOfTwo DEF FromOf, start
  <1>7. FromOf(d) \in Nat /\ saved < end /\ FromOf(d) < end
    BY <1>4, <1>5, <1>6 DEF CounterAsked
  <1>8. Whole(d)
    BY <1>1, <1>6 DEF D!Measured, Whole
  <1>9. ctr = Cardinality(U) /\ cov = {u \in rows : u >= saved}
    BY <1>2, <1>3, <1>5, <1>8 DEF StoredRight
  <1>10. rows = D!Carried("ll") \cap (start..(end - 1))
    BY <1>1 DEF D!Measured, D!UnitsOf
  <1>11. \A u \in start..(end - 1) : u \in DOMAIN traffic /\ traffic[u] \in {"ll", "direct", "off"}
    <2>1. \A u \in start..(end - 1) : u \in 0..(now - 1)
      <3> HIDE DEF start, end
      <3> QED
        BY <1>3, <1>4
    <2> QED
      BY <1>2, <2>1 DEF WorldOK
  <1>12. U = {u \in start..(end - 1) : u >= saved /\ traffic[u] # "off"}
    <2>1. U = {u \in FromOf(d)..(end - 1) : u \notin D!OffUnits}
      BY DEF Units
    <2>2. \A u \in start..(end - 1) : u \in D!OffUnits <=> traffic[u] = "off"
      BY <1>11 DEF D!OffUnits, D!Carried
    <2>3. \A u : u \in FromOf(d)..(end - 1) <=> u \in start..(end - 1) /\ u >= saved
      <3> HIDE DEF start, end
      <3> QED
        BY <1>4, <1>5, <1>6
    <2> HIDE DEF start, end, U
    <2> QED
      BY <2>1, <2>2, <2>3
  <1>13. rows = {u \in start..(end - 1) : traffic[u] = "ll"}
    BY <1>10, <1>11 DEF D!Carried
  <1>14. D!UnitsOf(d) \cap (D!Carried("ll") \cup {u \in D!Carried("direct") : u >= saved})
         = (rows \ cov) \cup U
    <2>1. D!UnitsOf(d) = start..(end - 1)
      BY DEF D!UnitsOf
    <2>2. \A u \in start..(end - 1) :
            /\ u \in D!Carried("ll") <=> traffic[u] = "ll"
            /\ u \in D!Carried("direct") <=> traffic[u] = "direct"
      BY <1>11 DEF D!Carried
    <2> HIDE DEF start, end, rows, cov, U
    <2> QED
      BY <1>9, <1>11, <1>12, <1>13, <2>1, <2>2
  <1>15. IsFiniteSet(U) /\ IsFiniteSet(rows \ cov) /\ (rows \ cov) \cap U = {}
    <2>1. IsFiniteSet(U)
      <3> HIDE DEF end
      <3> QED
        BY <1>4, <1>7, UnitsTyped
    <2>2. rows \ cov \subseteq start..(end - 1)
      BY <1>13
    <2>3. IsFiniteSet(rows \ cov)
      <3> HIDE DEF start, end, rows, cov
      <3> QED
        BY <1>4, <2>2, CardinalityOfPart
    <2>4. (rows \ cov) \cap U = {}
      <3> HIDE DEF start, end, rows, cov, U
      <3> QED
        BY <1>9, <1>12, <1>13
    <2> QED
      BY <2>1, <2>3, <2>4
  <1>16. Cardinality((rows \ cov) \cup U) = Cardinality(rows \ cov) + ctr
    <2> HIDE DEF rows, cov, U, ctr
    <2> QED
      BY <1>9, <1>15, Disjoint
  <1>17. ~D!Broken(stored[d])
    <2>1. cov \subseteq U
      <3> HIDE DEF start, end, rows, cov, U
      <3> QED
        BY <1>9, <1>12, <1>13
    <2>2. Cardinality(cov) <= ctr /\ Cardinality(cov) \in Nat /\ ctr \in Nat
      <3> HIDE DEF cov, U, ctr
      <3>1. IsFiniteSet(cov) /\ Cardinality(cov) <= Cardinality(U)
        BY <1>15, <2>1, FS_Subset
      <3> QED
        BY <1>9, <1>15, <3>1, FS_CardinalityType
    <2>3. ~(ctr < Cardinality(cov))
      BY <2>2
    <2> QED
      BY <2>3, SameCardinality DEF D!Broken
  <1>18. D!Figure(stored[d], TRUE).total = D!Cardinality(rows \ cov) + ctr
    BY <1>5, <1>17 DEF D!Figure
  <1> QED
    BY <1>14, <1>16, <1>18, SameCardinality

\* No figure of a past day is smaller than its LiteLLM share.
LEMMA ShareFits ==
    ASSUME NEW d \in D!Days, NEW day, DayOK(d, day)
    PROVE  D!Direct(D!Figure(day, TRUE)) >= 0
  <1> DEFINE rows == day.rows
             cov == day.cov
             ctr == day.ctr
             alone == rows \ cov
  <1>1. /\ rows \subseteq 0..MaxNow /\ cov \subseteq rows /\ ctr \in {-1} \cup Nat
        /\ ctr = -1 => cov = {}
    BY DEF DayOK, D!DayRecord, D!NoSample
  <1>2. IsFiniteSet(rows) /\ IsFiniteSet(cov) /\ IsFiniteSet(alone)
    <2> HIDE DEF rows, cov
    <2>1. IsFiniteSet(0..MaxNow)
      BY Constants, FS_Interval
    <2> QED
      BY <1>1, <2>1, FS_Subset
  <1>3. /\ Cardinality(rows) = Cardinality(alone) + Cardinality(cov)
        /\ Cardinality(alone) \in Nat /\ Cardinality(cov) \in Nat
    <2>1. rows = alone \cup cov /\ alone \cap cov = {}
      BY <1>1
    <2> HIDE DEF rows, cov, alone
    <2> QED
      BY <1>2, <2>1, Disjoint
  <1>4. /\ D!Cardinality(rows) = Cardinality(rows) /\ D!Cardinality(alone) = Cardinality(alone)
        /\ D!Cardinality(cov) = Cardinality(cov)
    BY SameCardinality
  <1>5. PICK r, a, c : r = Cardinality(rows) /\ a = Cardinality(alone) /\ c = Cardinality(cov)
    OBVIOUS
  <1>6. /\ a \in Nat /\ c \in Nat /\ r = a + c /\ ctr \in {-1} \cup Nat
        /\ ctr = -1 => c = 0
    BY <1>1, <1>3, <1>5, FS_EmptySet
  <1>7. D!Broken(day) <=> (ctr # -1 /\ ctr < c)
    BY <1>4, <1>5 DEF D!Broken, D!NoSample
  <1>8. r \in Nat /\ r - a = c
    BY <1>6
  <1>9. PICK x : x = ctr
    OBVIOUS
  <1>10. CASE D!Broken(day)
    <2>1. PICK figure : figure = D!Figure(day, TRUE)
      OBVIOUS
    <2>2. figure.total = r + 0 /\ figure.ll = r
      BY <1>4, <1>5, <1>10, <2>1 DEF D!Figure
    <2>3. D!Direct(figure) = (r + 0) - r
      BY <2>2 DEF D!Direct
    <2>4. D!Direct(figure) = 0
      BY <1>8, <2>3
    <2>5. D!Direct(figure) >= 0
      BY <2>4
    <2> QED
      BY <2>1, <2>5
  <1>11. CASE ~D!Broken(day)
    <2> DEFINE more == IF x = -1 THEN 0 ELSE x
    <2>1. PICK figure : figure = D!Figure(day, TRUE)
      OBVIOUS
    <2>2. figure.total = a + more /\ figure.ll = r
      BY <1>4, <1>5, <1>9, <1>11, <2>1 DEF D!Figure, D!NoSample
    <2>3. D!Direct(figure) = (a + more) - r
      BY <2>2 DEF D!Direct
    <2>4. more \in Nat /\ more >= c
      BY <1>6, <1>7, <1>9, <1>11
    <2> HIDE DEF more
    <2>5. (a + more) - r >= 0
      BY <1>6, <1>8, <2>4
    <2> QED
      BY <2>1, <2>3, <2>5
  <1> QED
    BY <1>10, <1>11

LEMMA DaysShare == DaysInv => D!SharesFit
  <1>1. SUFFICES ASSUME DaysInv, run.pc = "today", NEW rows, NEW d \in 0..(run.day - 1)
                 PROVE  D!Direct(D!View(rows)[d]) >= 0
    BY DEF D!SharesFit
  <1>2. run.day \in D!Days
    BY <1>1 DEF DaysInv, RunOK, D!Idle
  <1>3. run.day \in Nat /\ d \in 0..run.day /\ d < run.day /\ d # run.day /\ d \in D!Days
    <2>1. run.day \in Nat /\ \A e \in 0..run.day : e \in D!Days
      BY <1>2, InTheDays
    <2>2. d \in 0..run.day /\ d < run.day
      BY <2>1
    <2> QED
      BY <2>1, <2>2
  <1>4. PICK day : day = IF d \in done THEN stored[d] ELSE live[d]
    OBVIOUS
  <1>5. DayOK(d, day)
    BY <1>1, <1>3, <1>4 DEF DaysInv, StoredRight, DaysTyped
  <1>6. D!View(rows)[d] = D!Figure(day, TRUE)
    BY <1>3, <1>4 DEF D!View
  <1> QED
    BY <1>3, <1>5, <1>6, ShareFits

LEMMA MidnightOf ==
    ASSUME NEW d \in Nat, NEW at \in Nat, D!dayStart(d) <= at, at <= D!dayEnd(d)
    PROVE  D!dayStart(D!dayOf(at)) = IF at = D!dayEnd(d) THEN at ELSE D!dayStart(d)
  <1>1. D!dayStart(d) \in Nat /\ D!dayEnd(d) \in Nat
    BY DayTypes
  <1>2. CASE at # D!dayEnd(d)
    <2>1. D!dayOf(at) = d
      BY <1>1, <1>2, DayIs
    <2> QED
      BY <1>2, <2>1
  <1>3. CASE at = D!dayEnd(d)
    <2> DEFINE next == d + 1
    <2>1. next \in Nat /\ D!dayStart(next) = D!dayEnd(d)
      BY Constants, SMTT(30) DEF D!dayStart, D!dayEnd
    <2>2. D!dayEnd(next) \in Nat /\ D!dayStart(next) < D!dayEnd(next)
      BY <2>1, DayTypes
    <2> HIDE DEF next
    <2>3. D!dayOf(at) = next
      BY <1>3, <2>1, <2>2, DayIs
    <2> QED
      BY <1>3, <2>1, <2>3
  <1> QED
    BY <1>2, <1>3

\* What the log adds to a counter that covered [f, e) lies before it or after it.
LEMMA LogAndCounter ==
    ASSUME NEW s \in Nat, NEW f \in Nat, NEW e \in Nat, NEW n \in Nat, s <= f, f <= e, e <= n,
           NEW rows, rows \subseteq s..(n - 1),
           NEW alone, alone \subseteq rows, \A u \in alone : ~(f <= u /\ u < e),
           NEW ctr \in Nat, ctr <= e - f
    PROVE  Cardinality(alone) + ctr <= n - s
  <1> DEFINE before == {u \in alone : u < f}
             after == {u \in alone : e <= u}
  <1>1. \A u \in alone : u \in Nat /\ s <= u /\ u <= n - 1 /\ (u < f \/ e <= u)
    <2>1. SUFFICES ASSUME NEW u \in alone
                   PROVE  u \in Nat /\ s <= u /\ u <= n - 1 /\ (u < f \/ e <= u)
      OBVIOUS
    <2>2. u \in s..(n - 1) /\ ~(f <= u /\ u < e)
      OBVIOUS
    <2> QED
      BY <2>2
  <1>2. before \subseteq s..(f - 1) /\ after \subseteq e..(n - 1)
    <2>1. \A u \in before : u \in s..(f - 1)
      BY <1>1
    <2>2. \A u \in after : u \in e..(n - 1)
      BY <1>1
    <2> QED
      BY <2>1, <2>2
  <1>3. alone = before \cup after /\ before \cap after = {}
    <2>1. before \subseteq alone /\ after \subseteq alone
      OBVIOUS
    <2>2. \A u \in alone : (u \in before \/ u \in after) /\ ~(u \in before /\ u \in after)
      BY <1>1
    <2> HIDE DEF before, after
    <2> QED
      BY <2>1, <2>2
  <1>4. s \in Int /\ f \in Int /\ e \in Int /\ n \in Int
    OBVIOUS
  <1> HIDE DEF before, after
  <1>5. IsFiniteSet(before) /\ Cardinality(before) \in Nat /\ Cardinality(before) <= f - s
    BY <1>2, <1>4, CardinalityOfPart
  <1>6. IsFiniteSet(after) /\ Cardinality(after) \in Nat /\ Cardinality(after) <= n - e
    BY <1>2, <1>4, CardinalityOfPart
  <1>7. Cardinality(alone) = Cardinality(before) + Cardinality(after)
    BY <1>3, <1>5, <1>6, Disjoint
  <1> QED
    BY <1>5, <1>6, <1>7

LEMMA TodayCounted == DaysInv => D!TodayIsCountedOnce
  <1> DEFINE s == D!dayStart(run.day)
  <1>1. SUFFICES ASSUME DaysInv, run.pc = "today", got.at >= s,
                        D!Scraped(s), D!SeenRestarts(s, got.at)
                 PROVE  D!TodaysFigure <= now - s
    BY DEF D!TodayIsCountedOnce
  <1>2. WorldOK /\ SavedRight /\ RunOK /\ GotRight
    BY <1>1 DEF DaysInv
  <1>3. /\ run \in [pc : {"counters", "rows", "today"}, nowSec : 0..now, T : {saved},
                    skip : SUBSET D!Days, day : D!Days]
        /\ now <= run.nowSec + 1 /\ run.day = D!dayOf(run.nowSec)
    BY <1>1, <1>2 DEF RunOK, D!Idle
  <1>4. now \in Nat /\ run.nowSec \in 0..now /\ run.T = saved /\ run.day \in D!Days /\ run.day \in Nat
    BY <1>2, <1>3, InTheDays, WorldTypes
  <1>5. s \in Nat /\ D!dayEnd(run.day) \in Nat /\ s <= run.nowSec /\ run.nowSec < D!dayEnd(run.day)
    BY <1>3, <1>4, DayTypes, InItsDay
  <1>6. saved # D!NoSample /\ TodayRight(got.at, got.cover, got.ctr)
    <2>1. got # D!NoReading
      BY <1>1, <1>5 DEF D!NoReading, D!NoSample
    <2> QED
      BY <1>1, <1>2, <2>1 DEF GotRight
  <1>7. PICK at, cover, ctr : at = got.at /\ cover = got.cover /\ ctr = got.ctr
    OBVIOUS
  <1>8. at \in 0..now /\ ctr \in Nat /\ s <= at
    BY <1>1, <1>4, <1>5, <1>6, <1>7 DEF TodayRight
  <1>9. at \in Nat /\ at <= D!dayEnd(run.day)
    BY <1>3, <1>4, <1>5, <1>8
  \* A reading of the next day's midnight tells nothing, any other is of this day.
  <1>10. \E f, e \in s..at :
            ctr <= e - f /\ f <= e /\ \A u \in Nat : f <= u /\ u < e => u >= saved /\ D!InCover(cover, u)
    <2>1. PICK s0 \in s..at : Reads(s0, at, cover, ctr)
      <3> DEFINE s0 == D!dayStart(D!dayOf(at))
      <3>1. s0 = IF at = D!dayEnd(run.day) THEN at ELSE s
        BY <1>4, <1>8, <1>9, MidnightOf
      <3>2. s0 \in s..at
        BY <1>5, <1>8, <1>9, <3>1
      <3>3. at = s0 \/ (D!Scraped(s0) /\ D!SeenRestarts(s0, at))
        BY <1>1, <1>7, <3>1
      <3>4. Reads(s0, at, cover, ctr)
        BY <1>6, <1>7, <3>3 DEF TodayRight
      <3> QED
        BY <3>2, <3>4
    <2>2. CASE cover = {} /\ ctr = 0
      <3>1. at \in s..at /\ ctr <= at - at
        BY <1>5, <1>8, <1>9, <2>2
      <3>2. \A u \in Nat : ~(at <= u /\ u < at)
        BY <1>9
      <3> QED
        BY <3>1, <3>2
    <2>3. ASSUME NEW f \in Sampled, NEW e \in f..at, s0 <= f, cover = {<<f, e>>}, ctr <= e - f
          PROVE  \E g, h \in s..at :
                    ctr <= h - g /\ g <= h /\ \A u \in Nat : g <= u /\ u < h => u >= saved /\ D!InCover(cover, u)
      <3>1. f \in Nat
        BY <1>2, WorldTypes
      <3>2. f \in s..at /\ e \in s..at
        BY <1>5, <1>9, <2>1, <2>3, <3>1
      <3>3. ASSUME NEW u \in Nat, f <= u, u < e PROVE u >= saved /\ D!InCover(cover, u)
        <4>1. PICK c : c = <<f, e>>
          OBVIOUS
        <4>2. c \in cover /\ c[1] <= u /\ u < c[2]
          BY <2>3, <3>3, <4>1
        <4>3. saved \in Nat /\ saved <= f
          BY <1>2, <1>6, <2>3, WorldTypes DEF SavedRight
        <4> QED
          BY <3>1, <3>3, <4>2, <4>3 DEF D!InCover
      <3>4. f <= e
        BY <1>9, <2>3, <3>1
      <3> QED
        BY <2>3, <3>2, <3>3, <3>4
    <2> QED
      BY <2>1, <2>2, <2>3 DEF Reads
  <1>11. PICK f, e \in s..at :
            ctr <= e - f /\ f <= e /\ \A u \in Nat : f <= u /\ u < e => u >= saved /\ D!InCover(cover, u)
    BY <1>10
  <1>12. PICK rows, day : rows = D!TodaysRows /\ day = D!Tagged(rows)
    OBVIOUS
  <1>13. rows \subseteq s..(now - 1)
    <2>1. rows = {u \in D!Carried("ll") : s <= u /\ u < run.nowSec + 1 /\ pruned <= u /\ u < now - lag}
      BY <1>12 DEF D!TodaysRows, D!llWindow
    <2>2. D!Carried("ll") \subseteq 0..(now - 1)
      BY <1>2 DEF WorldOK, D!Carried
    <2> HIDE DEF s
    <2> QED
      BY <1>4, <1>5, <2>1, <2>2
  <1>14. /\ day.rows = rows /\ day.ctr = ctr
         /\ day.cov = {u \in rows : u >= saved /\ D!InCover(cover, u)}
    BY <1>4, <1>6, <1>7, <1>12 DEF D!Tagged
  <1> DEFINE alone == day.rows \ day.cov
  <1>15. D!TodaysFigure = D!Cardinality(alone) + ctr
    <2>1. D!View(rows)[run.day] = D!Figure(day, run.day < run.day)
      BY <1>4, <1>12 DEF D!View
    <2>2. ~(run.day < run.day) /\ ctr # D!NoSample
      BY <1>4, <1>8 DEF D!NoSample
    <2>3. D!Figure(day, run.day < run.day).total = D!Cardinality(alone) + ctr
      BY <1>14, <2>2 DEF D!Figure
    <2> QED
      BY <1>12, <2>1, <2>3 DEF D!TodaysFigure
  <1>16. alone \subseteq rows /\ \A u \in alone : ~(f <= u /\ u < e)
    <2>1. \A u \in rows : u \in Nat
      <3> HIDE DEF s
      <3> QED
        BY <1>5, <1>13
    <2> QED
      BY <1>11, <1>14, <2>1
  <1>17. f \in Nat /\ e \in Nat /\ s <= f /\ f <= e /\ e <= now /\ ctr <= e - f
    <2> HIDE DEF s
    <2> QED
      BY <1>4, <1>5, <1>8, <1>11
  <1>18. Cardinality(alone) + ctr <= now - s
    <2> HIDE DEF s, alone
    <2> QED
      BY <1>4, <1>5, <1>8, <1>13, <1>16, <1>17, LogAndCounter
  <1>19. D!Cardinality(alone) = Cardinality(alone)
    BY SameCardinality
  <1> QED
    BY <1>15, <1>18, <1>19

LEMMA DaysInvGives ==
    DaysInv => /\ D!TypeOK /\ D!SettledDaysKeepTheirRows /\ D!MeasuredDaysAreExact
               /\ D!SharesFit /\ D!TodayIsCountedOnce
  BY DaysTypes, DaysExact, DaysShare, TodayCounted DEF DaysInv, DoneRight

-----------------------------------------------------------------------------
(* Every behaviour. *)

DaysOnly == part = "days" => DaysInv

\* While the days are the part that moves, their invariant holds: the series tells the
\* units that passed, what a refresh has read of a past day stays true of it, and what is
\* stored or waiting in the locals of _refresh was told by a window of the past (usage.js,
\* nodes.js).
THEOREM DaysInvariant == PartsSpec => []DaysOnly
  <1>1. PartsInit => DaysOnly
    BY DaysStart DEF PartsInit, DaysOnly
  <1>2. DaysOnly /\ [PartsNext]_<<part, vars, daysVars>> => DaysOnly'
    <2>1. SUFFICES ASSUME DaysOnly, [PartsNext]_<<part, vars, daysVars>>, part' = "days"
                   PROVE  DaysInv'
      BY DEF DaysOnly
    <2>2. part = "days" /\ [D!Next]_daysVars
      BY <2>1 DEF PartsNext
    <2> QED
      BY <2>1, <2>2, DaysKeep DEF DaysOnly
  <1>3. PartsSpec => PartsInit /\ [][PartsNext]_<<part, vars, daysVars>>
    BY PTL DEF PartsSpec
  <1> QED
    BY <1>1, <1>2, <1>3, PTL

\* usage.js, nodes.js: every request is counted once, in the day it belongs to: a settled
\* day keeps every row the log still had, a measured day adds up to what happened, no figure
\* is below its LiteLLM share, and today's never exceeds what today has seen.
THEOREM DaysRight == PartsSpec => []DaysAreExact
  <1>1. DaysOnly => DaysAreExact
    BY DaysInvGives DEF DaysOnly, DaysAreExact
  <1> QED
    BY <1>1, DaysInvariant, PTL

-----------------------------------------------------------------------------
(* A settled day is final. *)

\* A refresh is at a day that was not done when it began, and has passed those it settled.
OnceInv ==
    \/ run = D!Idle
    \/ /\ \A e \in done : e \in run.skip \/ e < run.day
       /\ run.pc \in {"counters", "rows"} => run.day \notin run.skip

\* What a day was settled with is never read or written again.
SettledIsFinal == done \subseteq done' /\ \A d \in done : stored'[d] = stored[d]

\* The day a refresh goes on to was not done when it began, and comes after those behind it.
LEMMA ContinueOnce ==
    ASSUME NEW r, r.nowSec \in 0..MaxNow, NEW d, d \in Int, d < D!dayOf(r.nowSec), D!Continue(r, d),
           r \in [pc : {"idle", "counters", "rows", "today"}, nowSec : Nat, T : {saved'},
                  skip : SUBSET D!Days, day : D!Days],
           \A e \in done' : e \in r.skip \/ (e \in Nat /\ e <= d)
    PROVE  OnceInv'
  <1> DEFINE left == {e \in D!Days \ r.skip : e > d /\ e < D!dayOf(r.nowSec)}
             today == D!dayOf(r.nowSec)
  <1>1. today \in Nat
    BY Constants, InItsDay
  <1>2. left # {} => D!Min(left) \in left
    <2>1. left \subseteq Nat
      BY InTheDays
    <2> HIDE DEF left
    <2> QED
      BY <2>1, MinIs
  <1>3. run' = [r EXCEPT !.pc = IF left = {} THEN "today" ELSE "counters",
                         !.day = IF left = {} THEN today ELSE D!Min(left)]
    BY DEF D!Continue
  <1>4. left # {} => D!Min(left) \in Nat /\ D!Min(left) > d /\ D!Min(left) \notin r.skip
    BY <1>2, InTheDays
  <1> HIDE DEF left, today
  <1>5. /\ run'.skip = r.skip /\ run'.pc = IF left = {} THEN "today" ELSE "counters"
        /\ run'.day = IF left = {} THEN today ELSE D!Min(left)
    BY <1>3
  <1>6. d < today
    BY DEF today
  <1>7. \A e \in done' : e \in run'.skip \/ e < run'.day
    <2>1. run'.day \in Nat /\ d < run'.day
      BY <1>1, <1>4, <1>5, <1>6
    <2> QED
      BY <1>5, <2>1
  <1>8. run'.pc \in {"counters", "rows"} => run'.day \notin run'.skip
    BY <1>4, <1>5
  <1> QED
    BY <1>7, <1>8 DEF OnceInv

\* Between two days of a refresh.
LEMMA NextDayOnce ==
    ASSUME DaysInv, OnceInv, run.pc \in {"counters", "rows"}, saved' = saved,
           D!Continue(run, run.day), done' = done \/ done' = done \cup {run.day}
    PROVE  OnceInv'
  <1>1. WorldOK /\ RunOK /\ done \subseteq Nat
    BY InTheDays DEF DaysInv, DoneRight
  <1>2. /\ run \in [pc : {"counters", "rows", "today"}, nowSec : 0..now, T : {saved},
                    skip : SUBSET D!Days, day : D!Days]
        /\ now \in Nat /\ now <= MaxNow /\ run.day \in Nat /\ run.day < D!dayOf(run.nowSec)
        /\ run.nowSec \in 0..now
    BY <1>1, PastDay
  <1>3. run # D!Idle
    BY DEF D!Idle
  <1>4. \A e \in done' : e \in run.skip \/ (e \in Nat /\ e <= run.day)
    <2>1. \A e \in done : e \in run.skip \/ e < run.day
      BY <1>3 DEF OnceInv
    <2>2. \A e \in done : e \in run.skip \/ (e \in Nat /\ e <= run.day)
      BY <1>1, <1>2, <2>1
    <2>3. \A e \in done' : e \in done \/ e = run.day
      OBVIOUS
    <2> QED
      BY <1>2, <2>2, <2>3
  <1>5. PICK r, d : r = run /\ d = run.day
    OBVIOUS
  <1>6. r.nowSec \in 0..MaxNow /\ r.nowSec \in Nat /\ d \in Int /\ d < D!dayOf(r.nowSec)
    BY <1>2, <1>5, Constants
  <1>7. r \in [pc : {"idle", "counters", "rows", "today"}, nowSec : Nat, T : {saved'},
               skip : SUBSET D!Days, day : D!Days]
    BY <1>2, <1>5
  <1>8. D!Continue(r, d) /\ \A e \in done' : e \in r.skip \/ (e \in Nat /\ e <= d)
    BY <1>4, <1>5
  <1> QED
    BY <1>6, <1>7, <1>8, ContinueOnce

LEMMA OnceKeeps == DaysInv /\ OnceInv /\ [D!Next]_daysVars => OnceInv' /\ SettledIsFinal
  <1>1. SUFFICES ASSUME DaysInv, OnceInv, [D!Next]_daysVars PROVE OnceInv' /\ SettledIsFinal
    OBVIOUS
  <1>2. CASE UNCHANGED <<run, done, stored>>
    BY <1>1, <1>2 DEF OnceInv, SettledIsFinal, D!Idle
  <1>3. CASE UNCHANGED <<done, stored>> /\ run' = D!Idle
    BY <1>3 DEF OnceInv, SettledIsFinal, D!Idle
  <1>4. CASE D!ReadCounters
    <2>1. run.pc = "counters" /\ run' = [run EXCEPT !.pc = "rows"] /\ UNCHANGED <<done, stored>>
      BY <1>4 DEF D!ReadCounters, D!CountersCome
    <2>2. run # D!Idle /\ run \in [pc : {"counters", "rows", "today"}, nowSec : 0..now, T : {saved},
                                   skip : SUBSET D!Days, day : D!Days]
      BY <1>1, <2>1 DEF DaysInv, RunOK, D!Idle
    <2>3. run'.pc = "rows" /\ run'.skip = run.skip /\ run'.day = run.day
      BY <2>1, <2>2
    <2>4. /\ \A e \in done : e \in run.skip \/ e < run.day
          /\ run.day \notin run.skip
      BY <1>1, <2>1, <2>2 DEF OnceInv
    <2> QED
      BY <2>1, <2>3, <2>4 DEF OnceInv, SettledIsFinal
  <1>5. CASE D!ReadRows
    <2>1. /\ run.pc = "rows" /\ D!Continue(run, run.day) /\ saved' = saved
          /\ \/ UNCHANGED <<done, stored>>
             \/ /\ done' = done \cup {run.day}
                /\ \E day : stored' = [stored EXCEPT ![run.day] = day]
      BY <1>5 DEF D!ReadRows
    <2>2. OnceInv'
      BY <1>1, <2>1, NextDayOnce
    <2>3. run.day \notin done
      <3>1. run # D!Idle
        BY <2>1 DEF D!Idle
      <3>2. run.day \in Nat
        BY <1>1, <2>1, PastDay DEF DaysInv
      <3> QED
        BY <1>1, <2>1, <3>1, <3>2 DEF OnceInv
    <2>4. stored \in [D!Days -> D!DayRecord] /\ done \subseteq D!Days
      BY <1>1 DEF DaysInv, DaysTyped, DoneRight
    <2>5. SettledIsFinal
      BY <2>1, <2>3, <2>4 DEF SettledIsFinal
    <2> QED
      BY <2>2, <2>5
  <1>6. CASE D!ReadFails
    <2>1. /\ run.pc \in {"counters", "rows"} /\ D!Continue(run, run.day)
          /\ UNCHANGED <<saved, done, stored>>
      BY <1>6 DEF D!ReadFails
    <2> QED
      BY <1>1, <2>1, NextDayOnce DEF SettledIsFinal
  <1>7. ASSUME NEW answers \in BOOLEAN, D!Begin(answers)
        PROVE  OnceInv' /\ SettledIsFinal
    <2>1. UNCHANGED <<done, stored>>
      BY <1>7 DEF D!Begin
    <2>2. PICK r : r = [pc |-> "idle", nowSec |-> now, T |-> saved', skip |-> done, day |-> 0]
      OBVIOUS
    <2>3. D!Continue(r, -1)
      BY <1>7, <2>2 DEF D!Begin
    <2>4. now \in 0..MaxNow /\ now \in Nat /\ D!dayOf(now) \in Nat /\ done \subseteq D!Days
      BY <1>1, Constants, WorldTypes, InItsDay DEF DaysInv, WorldOK, DoneRight
    <2>5. 0 \in D!Days
      <3>1. D!dayOf(0) = 0 /\ 0 \in 0..MaxNow
        BY Constants, SMTT(30) DEF D!dayOf
      <3> QED
        BY <3>1, InTheDays
    <2>6. /\ r.nowSec \in 0..MaxNow /\ -1 < D!dayOf(r.nowSec) /\ -1 \in Int
          /\ r \in [pc : {"idle", "counters", "rows", "today"}, nowSec : Nat, T : {saved'},
                    skip : SUBSET D!Days, day : D!Days]
      BY <2>2, <2>4, <2>5
    <2>7. \A e \in done' : e \in r.skip
      BY <2>1, <2>2
    <2>8. OnceInv'
      BY <2>3, <2>6, <2>7, ContinueOnce
    <2> QED
      BY <2>1, <2>8 DEF SettledIsFinal
  <1>8. CASE \E kind \in {"ll", "direct", "off"}, scraped \in BOOLEAN, late \in {0, 1} :
               D!Tick(kind, scraped, late)
    BY <1>2, <1>8 DEF D!Tick, D!locals
  <1>9. CASE D!Prune \/ D!PollNodes \/ D!PollNodesFails \/ UNCHANGED daysVars
    BY <1>2, <1>9 DEF D!Prune, D!PollNodes, D!PollNodesFails, D!locals, daysVars
  <1>10. CASE D!Finish \/ D!Restart
    BY <1>3, <1>10 DEF D!Finish, D!Restart
  <1> QED
    BY <1>1, <1>4, <1>5, <1>6, <1>7, <1>8, <1>9, <1>10 DEF D!Next

OnceOnly == part = "days" => DaysInv /\ OnceInv

\* usage.js:294-313: a day is settled once: the set of settled days only grows, and what one
\* was settled with is never read or written again, whatever fails or restarts later.
THEOREM SettledOnce == PartsSpec => [][part = "days" => SettledIsFinal]_<<part, vars, daysVars>>
  <1>1. PartsInit => OnceOnly
    BY DaysStart DEF PartsInit, OnceOnly, OnceInv, D!Init
  <1>2. OnceOnly /\ [PartsNext]_<<part, vars, daysVars>> =>
          OnceOnly' /\ (part = "days" => SettledIsFinal)
    <2>1. SUFFICES ASSUME OnceOnly, [PartsNext]_<<part, vars, daysVars>>
                   PROVE  OnceOnly' /\ (part = "days" => SettledIsFinal)
      OBVIOUS
    <2>2. part' = part /\ (part = "days" => [D!Next]_daysVars)
      BY <2>1 DEF PartsNext
    <2> QED
      BY <2>1, <2>2, DaysKeep, OnceKeeps DEF OnceOnly
  <1>3. PartsSpec => PartsInit /\ [][PartsNext]_<<part, vars, daysVars>>
    BY PTL DEF PartsSpec
  <1> QED
    BY <1>1, <1>2, <1>3, PTL

=============================================================================
