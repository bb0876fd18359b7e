----------------------------- MODULE TsdbProofs -----------------------------
(***************************************************************************)
(* Type correctness and the read boundary of the two-tier database, for    *)
(* every number of series, every geometry, every retention and every       *)
(* length of run.                                                          *)
(*                                                                         *)
(* The argument: the boundary (the purge watermark) is either PURGE_AFTER  *)
(* behind the highest clock reading or at the bucket of the oldest sample. *)
(* The clock is behind neither, so a new row always lands at or above the  *)
(* boundary; and the boundary moves only over rows the same transaction    *)
(* deletes.                                                                *)
(*                                                                         *)
(* Then: what history() tells is exact, the verification that guards       *)
(* each purge never refuses, and the two tiers implement the plain store,  *)
(* for all of these too.                                                   *)
(*                                                                         *)
(* The argument: the raw tier is complete from the boundary (the purge     *)
(* watermark) upwards, and below it, as far back as the retention, each    *)
(* bucket that had a sample has one row, built from all its samples.  A    *)
(* chunk is built from complete buckets because both its ends are bucket   *)
(* edges, and nothing is in the way of the verification's sum because a    *)
(* bucket row at or above the boundary belongs to samples still in the     *)
(* raw tier, and is replaced with them.                                    *)
(*                                                                         *)
(* The sum of the verification and of a read is a fold.  What it adds up   *)
(* to is found by the smallest counterexample, as for Min and Max.         *)
(***************************************************************************)
EXTENDS TsdbStore, TLAPS, FiniteSetTheorems, WellFoundedInduction

-----------------------------------------------------------------------------
(* Buckets. *)

LEMMA DivMod ==
    ASSUME NEW t \in Int, NEW b \in Nat \ {0}
    PROVE  /\ t \div b \in Int
           /\ (t \div b) * b <= t
           /\ t < (t \div b) * b + b
  BY SMTT(30)

LEMMA DivExact ==
    ASSUME NEW q \in Int, NEW b \in Nat \ {0}
    PROVE  (q * b) \div b = q
  BY SMTT(30)

\* A bucket starts at or before its instants, less than a bucket before them, and its
\* start is its own start.
LEMMA AlignFacts ==
    ASSUME NEW t \in Int
    PROVE  /\ Align(t) \in Int
           /\ Align(t) <= t
           /\ t < Align(t) + BUCKET_SEC
           /\ Align(Align(t)) = Align(t)
  <1>1. BUCKET_SEC \in Nat \ {0}
    BY GeometryAssumption
  <1>2. t \div BUCKET_SEC \in Int /\ Align(t) <= t /\ t < Align(t) + BUCKET_SEC
    BY <1>1, DivMod DEF Align
  <1>3. Align(t) \in Int
    BY <1>1, <1>2 DEF Align
  <1>4. Align(t) \div BUCKET_SEC = t \div BUCKET_SEC
    BY <1>1, <1>2, DivExact DEF Align
  <1> QED
    BY <1>2, <1>3, <1>4 DEF Align

\* A bucket edge at or before an instant is at or before the start of its bucket.
LEMMA EdgeBelow ==
    ASSUME NEW w \in Int, Align(w) = w, NEW t \in Int, w <= t
    PROVE  w <= Align(t)
  <1>1. BUCKET_SEC \in Nat \ {0}
    BY GeometryAssumption
  <1> DEFINE p == w \div BUCKET_SEC
             q == t \div BUCKET_SEC
  <1>2. /\ p \in Int /\ q \in Int
        /\ w = p * BUCKET_SEC
        /\ t < q * BUCKET_SEC + BUCKET_SEC
    BY <1>1, DivMod DEF Align
  <1>3. p * BUCKET_SEC < (q + 1) * BUCKET_SEC
    <2>1. (q + 1) * BUCKET_SEC = q * BUCKET_SEC + BUCKET_SEC
      BY <1>1, <1>2
    <2>2. q * BUCKET_SEC \in Int
      BY <1>1, <1>2
    <2> QED
      BY <1>1, <1>2, <2>1, <2>2
  <1>4. p < q + 1
    <2>1. SUFFICES ASSUME q + 1 <= p PROVE FALSE
      BY <1>2
    <2>2. (q + 1) * BUCKET_SEC <= p * BUCKET_SEC
      BY <1>1, <1>2, <2>1
    <2>3. (q + 1) * BUCKET_SEC \in Int /\ p * BUCKET_SEC \in Int
      BY <1>1, <1>2
    <2> QED
      BY <1>3, <2>2, <2>3
  <1>5. p * BUCKET_SEC <= q * BUCKET_SEC
    BY <1>1, <1>2, <1>4
  <1> QED
    BY <1>2, <1>5 DEF Align

\* A chunk starts and ends on a bucket edge and is never empty.
LEMMA ChunkFacts ==
    ASSUME NEW lo \in Int, Align(lo) = lo, NEW limit \in Int, Align(limit) = limit,
           lo < limit
    PROVE  /\ ChunkEnd(lo, limit) \in Int
           /\ lo < ChunkEnd(lo, limit)
           /\ ChunkEnd(lo, limit) <= limit
           /\ Align(ChunkEnd(lo, limit)) = ChunkEnd(lo, limit)
  <1>1. BUCKET_SEC \in Nat \ {0} /\ CHUNK_SEC \in Nat \ {0} /\ CHUNK_SEC % BUCKET_SEC = 0
    BY GeometryAssumption
  <1> DEFINE p == lo \div BUCKET_SEC
             k == CHUNK_SEC \div BUCKET_SEC
  <1>2. p \in Int /\ k \in Int
    BY <1>1, DivMod
  <1>3. lo = p * BUCKET_SEC /\ CHUNK_SEC = k * BUCKET_SEC
    BY <1>1, <1>2 DEF Align
  <1>4. lo + CHUNK_SEC = (p + k) * BUCKET_SEC
    BY <1>1, <1>2, <1>3
  <1>5. (lo + CHUNK_SEC) \div BUCKET_SEC = p + k
    BY <1>1, <1>2, <1>4, DivExact
  <1>6. Align(lo + CHUNK_SEC) = lo + CHUNK_SEC
    BY <1>4, <1>5 DEF Align
  <1> QED
    BY <1>1, <1>6 DEF ChunkEnd, Lesser

-----------------------------------------------------------------------------
(* Least and greatest elements of a finite set. *)

\* Every set of finite sets that is not empty has a member with no strict subset in it.
LEMMA SmallestSubset ==
    ASSUME NEW S, IsFiniteSet(S), NEW C, C \subseteq SUBSET S, C # {}
    PROVE  \E T \in C : \A U \in C : ~(U \subseteq T /\ U # T)
  <1>1. IsWellFoundedOn(StrictSubsetOrdering(S), SUBSET S)
    BY FS_StrictSubsetOrderingWellFounded, FS_FiniteSubsetsOfFinite
  <1>2. PICK T \in C : \A U \in C : ~(<<U, T>> \in StrictSubsetOrdering(S))
    BY <1>1, WFMin
  <1> QED
    BY <1>2 DEF StrictSubsetOrdering

AllIntegers(S) == \A x \in S : x \in Int

\* A finite set of integers that is not empty has a least and a greatest element.
LEMMA FiniteExtremes ==
    ASSUME NEW S, AllIntegers(S), IsFiniteSet(S), S # {}
    PROVE  /\ Min(S) \in S /\ \A y \in S : Min(S) <= y
           /\ Max(S) \in S /\ \A y \in S : Max(S) >= y
  <1> DEFINE HasMin(T) == \E m \in T : \A y \in T : m <= y
             HasMax(T) == \E m \in T : \A y \in T : m >= y
             Bad == {T \in SUBSET S : T # {} /\ ~(HasMin(T) /\ HasMax(T))}
  <1>1. Bad = {}
    <2>1. SUFFICES ASSUME Bad # {} PROVE FALSE
      OBVIOUS
    <2>2. PICK T \in Bad : \A U \in Bad : ~(U \subseteq T /\ U # T)
      <3>1. Bad \subseteq SUBSET S
        OBVIOUS
      <3>2. Bad # {}
        BY <2>1
      <3> HIDE DEF Bad
      <3> QED
        BY <3>1, <3>2, SmallestSubset
    <2>3. PICK x \in T : x \in Int
      BY <2>2 DEF AllIntegers
    <2>4. T \ {x} \notin Bad
      BY <2>2, <2>3
    <2>5. CASE T \ {x} = {}
      <3>1. T = {x}
        BY <2>3, <2>5
      <3> QED
        BY <3>1, <2>2, <2>3
    <2>6. CASE T \ {x} # {}
      <3>1. PICK m \in T \ {x} : \A y \in T \ {x} : m <= y
        BY <2>4, <2>6
      <3>2. PICK n \in T \ {x} : \A y \in T \ {x} : n >= y
        BY <2>4, <2>6
      <3>3. HasMin(T)
        <4>1. m \in Int /\ \A y \in T : y \in Int
          BY <2>2 DEF AllIntegers
        <4>2. CASE x <= m
          BY <4>1, <4>2, <2>3, <3>1
        <4>3. CASE ~(x <= m)
          BY <4>1, <4>3, <2>3, <3>1
        <4> QED
          BY <4>2, <4>3
      <3>4. HasMax(T)
        <4>1. n \in Int /\ \A y \in T : y \in Int
          BY <2>2 DEF AllIntegers
        <4>2. CASE x >= n
          BY <4>1, <4>2, <2>3, <3>2
        <4>3. CASE ~(x >= n)
          BY <4>1, <4>3, <2>3, <3>2
        <4> QED
          BY <4>2, <4>3
      <3> QED
        BY <2>2, <3>3, <3>4
    <2> QED
      BY <2>5, <2>6
  <1>2. HasMin(S) /\ HasMax(S)
    BY <1>1
  <1> QED
    BY <1>2 DEF Min, Max

\* The image of a finite set is finite.
LEMMA FiniteImage ==
    ASSUME NEW S, IsFiniteSet(S), NEW T, NEW f \in [S -> T],
           \A y \in T : \E x \in S : f[x] = y
    PROVE  IsFiniteSet(T)
  <1>1. f \in Surjection(S, T)
    BY DEF Surjection
  <1> QED
    BY <1>1, FS_Surjection

-----------------------------------------------------------------------------
(* The bucket rows. *)

\* A bucket row built from samples that were recorded is well formed.
LEMMA BucketRowType ==
    ASSUME NEW rows, rows \subseteq Row, IsFiniteSet(rows), rows # {},
           NEW s \in Series, NEW b \in Int
    PROVE  BucketRow(s, b, rows) \in Bucket
  <1> DEFINE V == {r.value : r \in rows}
  <1>1. AllIntegers(V) /\ V \subseteq Values /\ V # {}
    BY DataAssumption DEF Row, AllIntegers
  <1>2. IsFiniteSet(V)
    <2> DEFINE f == [r \in rows |-> r.value]
    <2>1. f \in [rows -> V]
      OBVIOUS
    <2>2. \A y \in V : \E x \in rows : f[x] = y
      OBVIOUS
    <2> HIDE DEF f, V
    <2> QED
      BY <2>1, <2>2, FiniteImage
  <1> HIDE DEF V
  <1>3. Min(V) \in Values /\ Max(V) \in Values
    BY <1>1, <1>2, FiniteExtremes
  <1>4. Cardinality(rows) \in Nat
    BY FS_CardinalityType
  <1> QED
    BY <1>3, <1>4 DEF BucketRow, Bucket, V

\* What a rollup writes is well formed.
LEMMA RollupRowsType ==
    ASSUME NEW T, T \subseteq Row, IsFiniteSet(T), NEW lo \in Int, NEW hi \in Int
    PROVE  RollupRows(T, lo, hi) \subseteq Bucket
  <1>1. SUFFICES ASSUME NEW s \in Series, NEW b \in BucketKeys(RowsIn(T, s, lo, hi))
                 PROVE  BucketRow(s, b, SamplesOf(RowsIn(T, s, lo, hi), s, b)) \in Bucket
    BY DEF RollupRows
  <1> DEFINE rows == SamplesOf(RowsIn(T, s, lo, hi), s, b)
  <1>2. PICK r \in RowsIn(T, s, lo, hi) : b = Align(r.ts)
    BY <1>1 DEF BucketKeys
  <1>3. r \in rows /\ r.ts \in Nat
    BY <1>2 DEF RowsIn, SamplesOf, Row
  <1>4. b \in Int
    BY <1>2, <1>3, AlignFacts
  <1>5. rows \subseteq T
    BY DEF RowsIn, SamplesOf
  <1>6. IsFiniteSet(rows)
    BY <1>5, FS_Subset
  <1> HIDE DEF rows
  <1>7. rows \subseteq Row /\ rows # {}
    BY <1>3, <1>5
  <1>8. BucketRow(s, b, rows) \in Bucket
    BY <1>4, <1>6, <1>7, BucketRowType
  <1> QED
    BY <1>8 DEF rows

-----------------------------------------------------------------------------
(* The inductive invariant. *)

IInv == TypeOK /\ WatermarksOrdered /\ NoStrandedRaw /\ BoundaryBehindClock

\* (These two are stated for all instants because a step compares primed ones.)
LEMMA ReachGrows ==
    /\ \A n, m, t \in Nat : InReach(n, t) /\ n <= m => InReach(m, t)
    /\ \A n \in Nat : InReach(n, n)
  BY RetentionAssumption DEF InReach

LEMMA AgedStays ==
    \A w \in Int : \A t, u \in Nat : Aged(w, t) /\ t <= u => Aged(w, u)
  BY RetentionAssumption DEF Aged

\* The three targets of a rollup are bucket edges, deep enough in the past.
LEMMA TargetFacts ==
    ASSUME TypeOK
    PROVE  /\ aggTarget \in Int /\ Align(aggTarget) = aggTarget
           /\ purgeTarget \in Int /\ Align(purgeTarget) = purgeTarget
           /\ purgeTarget <= rollNow - PURGE_AFTER
           /\ floorTs \in Int /\ Align(floorTs) = floorTs
           /\ floorTs <= rollNow - PURGE_AFTER
  <1>1. /\ rollNow - AGG_AFTER \in Int
        /\ rollNow - PURGE_AFTER \in Int
        /\ rollNow - AGG_RETENTION \in Int
        /\ rollNow - AGG_RETENTION <= rollNow - PURGE_AFTER
    BY RetentionAssumption DEF TypeOK
  <1>2. aggTarget \in Int /\ Align(aggTarget) = aggTarget
    BY <1>1, AlignFacts DEF aggTarget
  <1>3. /\ purgeTarget \in Int /\ Align(purgeTarget) = purgeTarget
        /\ purgeTarget <= rollNow - PURGE_AFTER
    BY <1>1, AlignFacts DEF purgeTarget
  <1>4. /\ floorTs \in Int /\ Align(floorTs) = floorTs
        /\ floorTs <= rollNow - AGG_RETENTION
    BY <1>1, AlignFacts DEF floorTs
  <1> QED
    BY <1>1, <1>2, <1>3, <1>4

\* The clock is never behind the read boundary, so a row written now is readable.
LEMMA NowAboveBoundary ==
    ASSUME IInv
    PROVE  purgeWm <= now
  <1>1. /\ now \in Nat /\ peak \in Nat /\ purgeWm \in Int /\ PURGE_AFTER \in Nat
        /\ \A r \in recorded : r.ts \in Int
        /\ Align(purgeWm) = purgeWm
    BY RetentionAssumption DEF IInv, TypeOK, Row, WatermarksOrdered
  <1>2. CASE purgeWm = 0
    BY <1>1, <1>2
  <1>3. CASE purgeWm # 0 /\ Aged(purgeWm, peak)
    BY <1>1, <1>3 DEF IInv, BoundaryBehindClock, Aged, InReach
  <1>4. CASE purgeWm # 0 /\ \A r \in recorded : purgeWm <= r.ts
    <2>1. PICK r \in recorded : Align(r.ts) <= now
      BY <1>4 DEF IInv, BoundaryBehindClock
    <2>2. purgeWm <= Align(r.ts)
      BY <1>1, <1>4, EdgeBelow
    <2>3. Align(r.ts) \in Int
      BY <1>1, AlignFacts
    <2> QED
      BY <1>1, <2>1, <2>2, <2>3
  <1> QED
    BY <1>2, <1>3, <1>4 DEF IInv, BoundaryBehindClock

\* A new database starts at the bucket of its oldest sample, which is not the epoch.
LEMMA SeedFacts ==
    ASSUME IInv, metrics # {}
    PROVE  /\ Align(qOldest) \in Int /\ 0 < Align(qOldest)
           /\ Align(Align(qOldest)) = Align(qOldest)
           /\ \A r \in metrics : Align(qOldest) <= r.ts
           /\ \E r \in metrics : Align(r.ts) = Align(qOldest)
  <1> DEFINE V == {r.ts : r \in metrics}
  <1>1. AllIntegers(V) /\ V # {} /\ \A t \in V : BootTime <= t
    BY DEF IInv, TypeOK, Row, AllIntegers, BoundaryBehindClock
  <1>2. IsFiniteSet(V)
    <2>1. IsFiniteSet(metrics)
      BY FS_Subset DEF IInv, TypeOK
    <2> DEFINE f == [r \in metrics |-> r.ts]
    <2>2. f \in [metrics -> V]
      OBVIOUS
    <2>3. \A y \in V : \E r \in metrics : f[r] = y
      OBVIOUS
    <2> HIDE DEF f, V
    <2> QED
      BY <2>1, <2>2, <2>3, FiniteImage
  <1> HIDE DEF V
  <1>3. Min(V) \in V /\ \A t \in V : Min(V) <= t
    BY <1>1, <1>2, FiniteExtremes
  <1>4. qOldest \in Int /\ BootTime <= qOldest /\ \A t \in V : t \in Int /\ qOldest <= t
    BY <1>1, <1>3 DEF qOldest, V, AllIntegers
  <1>5. /\ Align(qOldest) \in Int
        /\ Align(qOldest) <= qOldest
        /\ qOldest < Align(qOldest) + BUCKET_SEC
        /\ Align(Align(qOldest)) = Align(qOldest)
    BY <1>4, AlignFacts
  <1>6. 0 < Align(qOldest)
    BY <1>4, <1>5, ClockAssumption, GeometryAssumption, RetentionAssumption
  <1>7. \A r \in metrics : Align(qOldest) <= r.ts
    BY <1>4, <1>5 DEF V
  <1>8. \E r \in metrics : r.ts = qOldest
    BY <1>3 DEF qOldest, V
  <1> QED
    BY <1>5, <1>6, <1>7, <1>8

-----------------------------------------------------------------------------
(* One lemma for each action. *)

LEMMA InitInv == Init => IInv
  <1> SUFFICES ASSUME Init PROVE IInv
    OBVIOUS
  <1>1. 0 \in Int /\ 0 \div BUCKET_SEC = 0 /\ Align(0) = 0
    <2>1. 0 * BUCKET_SEC = 0
      BY GeometryAssumption
    <2>2. 0 \div BUCKET_SEC = 0
      BY <2>1, DivExact, GeometryAssumption
    <2> QED
      BY <2>1, <2>2 DEF Align
  <1>2. TypeOK
    <2>1. IsFiniteSet({})
      BY FS_EmptySet
    <2>2. BootTime \in Nat /\ 0 \in 0..MAX_CHUNKS_PER_RUN
      BY ClockAssumption, GeometryAssumption
    <2>3. now \in Nat /\ peak \in Nat /\ now <= peak
      BY <2>2 DEF Init
    <2>4. meta \in [agg : Int, purge : Int] /\ lastWrite \in [Series -> Nat]
      BY DEF Init
    <2>5. pc \in Phases /\ rollNow \in Nat /\ chunks \in 0..MAX_CHUNKS_PER_RUN
      BY <2>2 DEF Init, Phases
    <2> QED
      BY <2>1, <2>3, <2>4, <2>5 DEF Init, TypeOK
  <1>3. WatermarksOrdered
    BY <1>1 DEF Init, WatermarksOrdered
  <1>4. NoStrandedRaw
    BY DEF Init, NoStrandedRaw
  <1>5. BoundaryBehindClock
    BY ClockAssumption, RetentionAssumption DEF Init, BoundaryBehindClock, InReach
  <1> QED
    BY <1>2, <1>3, <1>4, <1>5 DEF IInv

LEMMA ClockAdvancesInv == ASSUME IInv, ClockAdvances PROVE IInv'
  <1>1. /\ now \in Nat /\ peak \in Nat /\ now' \in Nat /\ now <= now'
        /\ peak' \in Nat /\ now' <= peak' /\ peak <= peak'
        /\ peak' = peak \/ peak' = now'
    BY ClockAssumption DEF IInv, TypeOK, ClockAdvances, Greater
  <1>2. TypeOK'
    BY <1>1 DEF IInv, TypeOK, ClockAdvances, memory, tables
  <1>3. WatermarksOrdered' /\ NoStrandedRaw'
    BY DEF IInv, WatermarksOrdered, NoStrandedRaw, ClockAdvances, memory, tables
  <1>4. BoundaryBehindClock'
    <2>1. BootTime \in Nat /\ PURGE_AFTER \in Nat /\ rollNow \in Nat /\ purgeWm \in Int
      BY ClockAssumption, RetentionAssumption DEF IInv, TypeOK
    <2>2. BootTime <= now /\ InReach(now, peak) /\ rollNow <= peak
      BY DEF IInv, BoundaryBehindClock
    <2>3. BootTime <= now' /\ InReach(now', peak') /\ rollNow <= peak'
      <3>1. BootTime <= now' /\ rollNow <= peak'
        BY <1>1, <2>1, <2>2
      <3>2. InReach(now', peak)
        BY <1>1, <2>2, ReachGrows
      <3>3. InReach(now', now')
        BY <1>1, <2>1, ReachGrows
      <3> QED
        BY <1>1, <3>1, <3>2, <3>3
    <2>4. recorded # {} => \E r \in recorded : Align(r.ts) <= now'
      <3>1. \A r \in recorded : Align(r.ts) \in Int
        BY AlignFacts DEF IInv, TypeOK, Row
      <3> QED
        BY <1>1, <3>1 DEF IInv, BoundaryBehindClock
    <2>5. Aged(purgeWm, peak) => Aged(purgeWm, peak')
      BY <1>1, <2>1, AgedStays
    <2> QED
      BY <2>3, <2>4, <2>5
      DEF IInv, BoundaryBehindClock, ClockAdvances, memory, tables
  <1> QED
    BY <1>2, <1>3, <1>4 DEF IInv

LEMMA ClockStepsBackInv == ASSUME IInv, ClockStepsBack PROVE IInv'
  <1>1. PICK t \in BootTime..MaxNow :
           /\ recorded = {} \/ \E r \in recorded : Align(r.ts) <= t
           /\ SetBack(t)
    BY DEF ClockStepsBack
  <1>2. /\ t \in Nat /\ BootTime <= t /\ t < now /\ peak - MaxStepBack <= t
        /\ peak \in Nat /\ now \in Nat /\ MaxStepBack <= PURGE_AFTER
        /\ PURGE_AFTER \in Nat /\ MaxStepBack \in Nat
    BY <1>1, ClockAssumption, RetentionAssumption DEF IInv, TypeOK, SetBack
  <1>3. TypeOK'
    BY <1>1, <1>2 DEF IInv, TypeOK, SetBack, memory, tables
  <1>4. WatermarksOrdered' /\ NoStrandedRaw'
    BY <1>1 DEF IInv, WatermarksOrdered, NoStrandedRaw, SetBack, memory, tables
  <1>5. BoundaryBehindClock'
    <2>1. InReach(t, peak)
      BY <1>2 DEF InReach
    <2> QED
      BY <1>1, <1>2, <2>1 DEF IInv, BoundaryBehindClock, SetBack, memory, tables
  <1> QED
    BY <1>3, <1>4, <1>5 DEF IInv

\* What a restart reads back is what was in memory, or 0 where nothing was deleted yet.
LEMMA RestartInv == ASSUME IInv, Restart PROVE IInv'
  <1>1. 0 \in Int /\ Align(0) = 0
    <2>1. 0 * BUCKET_SEC = 0 /\ 0 \div BUCKET_SEC = 0
      BY DivExact, GeometryAssumption
    <2> QED
      BY <2>1 DEF Align
  <1>2. TypeOK'
    <2>1. 0 \in 0..MAX_CHUNKS_PER_RUN
      BY GeometryAssumption
    <2>2. lastWrite' \in [Series -> Nat]
      BY DEF Restart
    <2>3. faults' \in Nat
      BY DEF IInv, TypeOK, Restart
    <2> QED
      BY <2>1, <2>2, <2>3 DEF IInv, TypeOK, Restart, clock, tables, Phases
  <1>3. WatermarksOrdered'
    BY <1>1 DEF IInv, TypeOK, WatermarksOrdered, BoundaryBehindClock, Restart, tables
  <1>4. NoStrandedRaw'
    BY DEF IInv, TypeOK, Row, NoStrandedRaw, WatermarksOrdered, Restart, tables
  <1>5. BoundaryBehindClock'
    BY DEF IInv, TypeOK, WatermarksOrdered, BoundaryBehindClock, Restart, clock, tables
  <1> QED
    BY <1>2, <1>3, <1>4, <1>5 DEF IInv

\* A new row lands at or above the read boundary.
LEMMA RecordInv ==
    ASSUME IInv, NEW batch \in SUBSET Series, NEW val \in [Series -> Values],
           Record(batch, val)
    PROVE  IInv'
  <1> DEFINE kept == Keep(batch)
             new == {[rowid |-> Cardinality(recorded), series |-> s, ts |-> now,
                      value |-> val[s]] : s \in kept}
  <1>1. /\ metrics' = metrics \cup new
        /\ recorded' = recorded \cup new
        /\ UNCHANGED <<now, peak, metrics_5m, meta, aggWm, purgeWm, pc, rollNow, chunks,
                       yielded, faults>>
        /\ lastWrite' = [s \in Series |-> IF s \in kept THEN now ELSE lastWrite[s]]
        /\ kept # {}
    BY DEF Record, clock
  <1>2. kept \subseteq Series
    BY DEF Keep
  <1>3. new \subseteq Row /\ \A r \in new : r.ts = now
    <2>1. Cardinality(recorded) \in Nat /\ now \in Nat
      BY FS_CardinalityType DEF IInv, TypeOK
    <2> HIDE DEF kept
    <2> QED
      BY <1>2, <2>1 DEF Row
  <1>4. new # {}
    BY <1>1
  <1>5. IsFiniteSet(new)
    <2>1. IsFiniteSet(kept)
      BY <1>2, FS_Subset, DataAssumption
    <2> DEFINE f == [s \in kept |-> [rowid |-> Cardinality(recorded), series |-> s,
                                     ts |-> now, value |-> val[s]]]
    <2>2. f \in [kept -> new] /\ \A y \in new : \E s \in kept : f[s] = y
      OBVIOUS
    <2> HIDE DEF f, new, kept
    <2> QED
      BY <2>1, <2>2, FiniteImage
  <1> HIDE DEF new, kept
  <1>6. now \in Nat /\ purgeWm \in Int /\ purgeWm <= now /\ BootTime <= now
    BY NowAboveBoundary DEF IInv, TypeOK, BoundaryBehindClock
  <1>7. TypeOK'
    <2>1. recorded' \subseteq Row /\ metrics' \subseteq recorded'
      BY <1>1, <1>3 DEF IInv, TypeOK
    <2>2. IsFiniteSet(recorded')
      BY <1>1, <1>5, FS_Union DEF IInv, TypeOK
    <2>3. lastWrite' \in [Series -> Nat]
      BY <1>1, <1>6 DEF IInv, TypeOK
    <2> QED
      BY <1>1, <2>1, <2>2, <2>3 DEF IInv, TypeOK
  <1>8. WatermarksOrdered'
    BY <1>1 DEF IInv, WatermarksOrdered
  <1>9. NoStrandedRaw'
    BY <1>1, <1>3, <1>6 DEF IInv, NoStrandedRaw
  <1>10. BoundaryBehindClock'
    <2>1. \A r \in recorded' : BootTime <= r.ts
      BY <1>1, <1>3, <1>6 DEF IInv, BoundaryBehindClock
    <2>2. \E r \in recorded' : Align(r.ts) <= now
      <3>1. PICK r \in new : r.ts = now
        BY <1>3, <1>4
      <3>2. Align(now) <= now
        BY <1>6, AlignFacts
      <3> QED
        BY <1>1, <3>1, <3>2
    <2>3. recorded' # {}
      BY <1>1, <1>4
    <2>4. (\A r \in recorded : purgeWm <= r.ts) => (\A r \in recorded' : purgeWm <= r.ts)
      BY <1>1, <1>3, <1>6
    <2>5. meta.purge = 0 => metrics' = recorded'
      BY <1>1 DEF IInv, BoundaryBehindClock
    <2> QED
      BY <1>1, <2>1, <2>2, <2>3, <2>4, <2>5 DEF IInv, BoundaryBehindClock
  <1> QED
    BY <1>7, <1>8, <1>9, <1>10 DEF IInv

LEMMA RecordFailsInv ==
    ASSUME IInv, NEW batch \in SUBSET Series, RecordFails(batch)
    PROVE  IInv'
  <1>1. lastWrite' \in [Series -> Nat]
    BY DEF IInv, TypeOK, RecordFails
  <1>2. TypeOK'
    BY <1>1 DEF IInv, TypeOK, RecordFails, clock, tables
  <1>3. WatermarksOrdered' /\ NoStrandedRaw' /\ BoundaryBehindClock'
    BY DEF IInv, WatermarksOrdered, NoStrandedRaw, BoundaryBehindClock, RecordFails,
           clock, tables
  <1> QED
    BY <1>2, <1>3 DEF IInv

\* A rollup of a new database starts both watermarks at the oldest bucket.
LEMMA RollupBeginInv == ASSUME IInv, RollupBegin PROVE IInv'
  <1>1. /\ aggWm' = (IF aggWm = 0 THEN Align(qOldest) ELSE aggWm)
        /\ purgeWm' = (IF purgeWm = 0 THEN Align(qOldest) ELSE purgeWm)
        /\ metrics = {} => aggWm # 0 /\ purgeWm # 0
        /\ rollNow' = now /\ pc' = "drop" /\ chunks' = 0 /\ yielded' = FALSE
        /\ UNCHANGED <<now, peak, metrics, metrics_5m, meta, lastWrite, recorded, faults>>
    BY DEF RollupBegin, Seeded, clock, tables
  <1>2. 0 \in 0..MAX_CHUNKS_PER_RUN
    BY GeometryAssumption
  <1> DEFINE o == Align(qOldest)
  <1>3. metrics # {} => /\ o \in Int /\ 0 < o /\ Align(o) = o
                        /\ \A r \in metrics : o <= r.ts
                        /\ \E r \in metrics : Align(r.ts) = o
    BY SeedFacts
  <1> HIDE DEF o
  <1>4. aggWm' \in Int /\ purgeWm' \in Int
    BY <1>1, <1>3 DEF IInv, TypeOK, o
  <1>5. TypeOK'
    BY <1>1, <1>2, <1>4 DEF IInv, TypeOK, Phases
  <1>6. meta.purge = 0 => metrics = recorded
    BY DEF IInv, BoundaryBehindClock
  <1>7. meta.purge # 0 => purgeWm # 0
    BY DEF IInv, WatermarksOrdered
  <1>8. aggWm = 0 => purgeWm = 0
    BY DEF IInv, BoundaryBehindClock
  <1>9. purgeWm = 0 /\ aggWm # 0 => meta.agg # 0
    BY DEF IInv, BoundaryBehindClock
  <1>10. meta.agg # 0 => meta.agg = aggWm
    BY DEF IInv, WatermarksOrdered
  <1>11. purgeWm = 0 /\ aggWm # 0 => metrics # {} /\ o <= aggWm
    <2>1. SUFFICES ASSUME purgeWm = 0, aggWm # 0 PROVE metrics # {} /\ o <= aggWm
      OBVIOUS
    <2>2. PICK r \in recorded : Align(r.ts) <= aggWm
      BY <2>1 DEF IInv, BoundaryBehindClock
    <2>3. r \in metrics
      BY <1>6, <1>7, <2>1, <2>2
    <2>4. r.ts \in Int /\ aggWm \in Int
      BY <2>2 DEF IInv, TypeOK, Row
    <2>5. o <= Align(r.ts) /\ Align(r.ts) \in Int
      BY <1>3, <2>3, <2>4, EdgeBelow, AlignFacts
    <2> QED
      BY <1>3, <2>2, <2>3, <2>4, <2>5
  <1>12. WatermarksOrdered'
    BY <1>1, <1>3, <1>8, <1>11 DEF IInv, TypeOK, WatermarksOrdered, BoundaryBehindClock, o
  <1>13. NoStrandedRaw'
    BY <1>1, <1>3 DEF IInv, NoStrandedRaw, o
  <1>14. BoundaryBehindClock'
    <2>1. BootTime <= now' /\ InReach(now', peak') /\ rollNow' <= peak'
      BY <1>1 DEF IInv, TypeOK, BoundaryBehindClock
    <2>2. \A r \in recorded' : BootTime <= r.ts
      BY <1>1 DEF IInv, BoundaryBehindClock
    <2>3. recorded' # {} => \E r \in recorded' : Align(r.ts) <= now'
      BY <1>1 DEF IInv, BoundaryBehindClock
    <2>4. /\ recorded' # {}
          /\ Aged(purgeWm', peak') \/ \A r \in recorded' : purgeWm' <= r.ts
      <3>1. CASE purgeWm # 0
        BY <1>1, <3>1 DEF IInv, BoundaryBehindClock
      <3>2. CASE purgeWm = 0
        <4>1. metrics # {} /\ metrics = recorded /\ purgeWm' = o
          BY <1>1, <1>6, <1>7, <3>2 DEF o
        <4> QED
          BY <1>1, <1>3, <4>1
      <3> QED
        BY <3>1, <3>2
    <2>5. \E r \in recorded' : Align(r.ts) <= aggWm'
      <3>1. CASE aggWm # 0
        BY <1>1, <3>1 DEF IInv, BoundaryBehindClock
      <3>2. CASE aggWm = 0
        <4>1. metrics # {} /\ metrics = recorded /\ aggWm' = o
          BY <1>1, <1>6, <1>7, <1>8, <3>2 DEF o
        <4> QED
          BY <1>1, <1>3, <4>1 DEF o
      <3> QED
        BY <3>1, <3>2
    <2>6. purgeWm' # 0 /\ aggWm' # 0
      <3>1. o # 0 \/ metrics = {}
        BY <1>3
      <3> QED
        BY <1>1, <3>1 DEF o
    <2>7. /\ meta'.purge = 0 => metrics' = recorded'
          /\ meta'.agg = 0 => meta'.purge = 0 /\ aggWm' = purgeWm'
      BY <1>1, <1>6, <1>8, <1>9 DEF IInv, BoundaryBehindClock
    <2> QED
      BY <2>1, <2>2, <2>3, <2>4, <2>5, <2>6, <2>7 DEF BoundaryBehindClock
  <1> QED
    BY <1>5, <1>12, <1>13, <1>14 DEF IInv

\* Rows that expired in both tiers go, and both watermarks pass over them.
LEMMA DropChunkInv == ASSUME IInv, DropChunk PROVE IInv'
  <1> DEFINE lo == purgeWm
             hi == ChunkEnd(lo, floorTs)
  <1>1. /\ pc = "drop" /\ purgeWm < floorTs /\ chunks < MAX_CHUNKS_PER_RUN
        /\ metrics' = Outside(metrics, lo, hi)
        /\ meta' = [agg |-> IF hi > aggWm THEN hi ELSE meta.agg, purge |-> hi]
        /\ purgeWm' = hi
        /\ aggWm' = Greater(aggWm, hi)
        /\ chunks' = chunks + 1
        /\ yielded' \in BOOLEAN
        /\ UNCHANGED <<now, peak, metrics_5m, lastWrite, pc, rollNow, recorded, faults>>
    BY DEF DropChunk, DropPending, DropAggMark, Budget, clock
  <1>2. /\ purgeWm \in Int /\ Align(purgeWm) = purgeWm /\ 0 < purgeWm
        /\ aggWm \in Int /\ Align(aggWm) = aggWm /\ purgeWm <= aggWm
        /\ rollNow \in Nat /\ rollNow <= peak /\ peak \in Nat
    BY <1>1 DEF IInv, TypeOK, WatermarksOrdered, BoundaryBehindClock
  <1>3. /\ floorTs \in Int /\ Align(floorTs) = floorTs
        /\ floorTs <= rollNow - PURGE_AFTER
    BY TargetFacts DEF IInv
  <1>4. hi \in Int /\ lo < hi /\ hi <= floorTs /\ Align(hi) = hi
    BY <1>1, <1>2, <1>3, ChunkFacts
  <1>5. Aged(hi, peak)
    BY <1>2, <1>3, <1>4, RetentionAssumption DEF Aged
  <1>6. /\ aggWm' \in Int /\ Align(aggWm') = aggWm'
        /\ hi <= aggWm' /\ aggWm <= aggWm'
        /\ aggWm' = (IF hi > aggWm THEN hi ELSE aggWm)
    BY <1>1, <1>2, <1>4 DEF Greater
  <1>7. metrics' \subseteq metrics /\ \A r \in metrics' : ~(lo <= r.ts /\ r.ts < hi)
    BY <1>1 DEF Outside
  <1>8. meta.agg = 0 => hi > aggWm
    BY <1>2, <1>4 DEF IInv, BoundaryBehindClock
  <1> HIDE DEF hi
  <1>9. TypeOK'
    <2>1. chunks' \in 0..MAX_CHUNKS_PER_RUN
      BY <1>1, GeometryAssumption DEF IInv, TypeOK
    <2>2. meta' \in [agg : Int, purge : Int]
      BY <1>1, <1>4 DEF IInv, TypeOK
    <2> QED
      BY <1>1, <1>4, <1>6, <1>7, <2>1, <2>2 DEF IInv, TypeOK
  <1>10. WatermarksOrdered'
    <2>1. 0 <= purgeWm' /\ purgeWm' <= aggWm'
      BY <1>1, <1>2, <1>4, <1>6
    <2>2. Align(purgeWm') = purgeWm' /\ Align(aggWm') = aggWm'
      BY <1>1, <1>4, <1>6
    <2>3. meta'.purge = purgeWm' /\ (meta'.agg # 0 => meta'.agg = aggWm')
      BY <1>1, <1>6 DEF IInv, WatermarksOrdered
    <2> QED
      BY <2>1, <2>2, <2>3 DEF WatermarksOrdered
  <1>11. NoStrandedRaw'
    <2>1. \A r \in metrics' : lo <= r.ts /\ r.ts \in Int
      BY <1>7 DEF IInv, TypeOK, Row, NoStrandedRaw
    <2> QED
      BY <1>1, <1>4, <1>7, <2>1 DEF NoStrandedRaw
  <1>12. BoundaryBehindClock'
    <2>1. /\ BootTime <= now' /\ InReach(now', peak') /\ rollNow' <= peak'
          /\ \A r \in recorded' : BootTime <= r.ts
          /\ recorded' # {} => \E r \in recorded' : Align(r.ts) <= now'
      BY <1>1 DEF IInv, BoundaryBehindClock
    <2>2. recorded' # {} /\ Aged(purgeWm', peak')
      BY <1>1, <1>2, <1>5 DEF IInv, BoundaryBehindClock
    <2>3. \E r \in recorded' : Align(r.ts) <= aggWm'
      <3>1. PICK r \in recorded : Align(r.ts) <= aggWm
        BY <1>2 DEF IInv, BoundaryBehindClock
      <3>2. Align(r.ts) \in Int
        BY AlignFacts DEF IInv, TypeOK, Row
      <3> QED
        BY <1>1, <1>2, <1>6, <3>1, <3>2
    <2>4. purgeWm' # 0 /\ aggWm' # 0 /\ meta'.purge # 0
      BY <1>1, <1>2, <1>4, <1>6
    <2>5. meta'.agg # 0
      BY <1>1, <1>2, <1>4, <1>8
    <2> QED
      BY <2>1, <2>2, <2>3, <2>4, <2>5 DEF BoundaryBehindClock
  <1> QED
    BY <1>9, <1>10, <1>11, <1>12 DEF IInv

\* What INSERT OR REPLACE leaves in the bucket table is well formed.
LEMMA ReplaceType ==
    ASSUME IInv, NEW lo \in Int, NEW hi \in Int
    PROVE  Replace(metrics_5m, RollupRows(metrics, lo, hi)) \subseteq Bucket
  <1>1. metrics \subseteq Row /\ IsFiniteSet(metrics)
    BY FS_Subset DEF IInv, TypeOK
  <1>2. RollupRows(metrics, lo, hi) \subseteq Bucket
    BY <1>1, RollupRowsType
  <1> QED
    BY <1>2 DEF Replace, IInv, TypeOK

\* Aggregation moves its watermark up and touches no raw row.
LEMMA AggChunkInv == ASSUME IInv, AggChunk PROVE IInv'
  <1> DEFINE lo == aggWm
             hi == ChunkEnd(lo, aggTarget)
  <1>1. /\ pc = "agg" /\ aggWm < aggTarget /\ chunks < MAX_CHUNKS_PER_RUN
        /\ metrics_5m' = Replace(metrics_5m, RollupRows(metrics, lo, hi))
        /\ meta' = [meta EXCEPT !.agg = hi]
        /\ aggWm' = hi
        /\ chunks' = chunks + 1
        /\ yielded' \in BOOLEAN
        /\ UNCHANGED <<now, peak, metrics, purgeWm, lastWrite, pc, rollNow, recorded, faults>>
    BY DEF AggChunk, AggPending, Budget, clock
  <1>2. /\ purgeWm \in Int /\ 0 < purgeWm
        /\ aggWm \in Int /\ Align(aggWm) = aggWm /\ purgeWm <= aggWm
    BY <1>1 DEF IInv, TypeOK, WatermarksOrdered, BoundaryBehindClock
  <1>3. aggTarget \in Int /\ Align(aggTarget) = aggTarget
    BY TargetFacts DEF IInv
  <1>4. hi \in Int /\ lo < hi /\ Align(hi) = hi
    BY <1>1, <1>2, <1>3, ChunkFacts
  <1>5. metrics_5m' \subseteq Bucket
    BY <1>1, <1>2, <1>4, ReplaceType
  <1> HIDE DEF hi
  <1>6. meta' \in [agg : Int, purge : Int] /\ meta'.agg = hi /\ meta'.purge = meta.purge
    BY <1>1, <1>4 DEF IInv, TypeOK
  <1>7. TypeOK'
    <2>1. chunks' \in 0..MAX_CHUNKS_PER_RUN
      BY <1>1, GeometryAssumption DEF IInv, TypeOK
    <2> QED
      BY <1>1, <1>4, <1>5, <1>6, <2>1 DEF IInv, TypeOK
  <1>8. WatermarksOrdered'
    <2>1. 0 <= purgeWm' /\ purgeWm' <= aggWm'
      BY <1>1, <1>2, <1>4
    <2> QED
      BY <1>1, <1>4, <1>6, <2>1 DEF IInv, WatermarksOrdered
  <1>9. NoStrandedRaw'
    BY <1>1 DEF IInv, NoStrandedRaw
  <1>10. BoundaryBehindClock'
    <2>1. \E r \in recorded' : Align(r.ts) <= aggWm'
      <3>1. PICK r \in recorded : Align(r.ts) <= aggWm
        BY <1>2 DEF IInv, BoundaryBehindClock
      <3>2. Align(r.ts) \in Int
        BY AlignFacts DEF IInv, TypeOK, Row
      <3> QED
        BY <1>1, <1>2, <1>4, <3>1, <3>2
    <2>2. aggWm' # 0 /\ meta'.agg # 0 /\ purgeWm' # 0
      BY <1>1, <1>2, <1>4, <1>6
    <2> QED
      BY <1>1, <1>6, <2>1, <2>2 DEF IInv, BoundaryBehindClock
  <1> QED
    BY <1>7, <1>8, <1>9, <1>10 DEF IInv

\* The boundary moves up over rows the same transaction deletes.
LEMMA PurgeChunkInv == ASSUME IInv, PurgeChunk PROVE IInv'
  <1> DEFINE lo == purgeWm
             hi == ChunkEnd(lo, purgeLimit)
  <1>1. /\ pc = "purge" /\ purgeWm < purgeLimit /\ chunks < MAX_CHUNKS_PER_RUN
        /\ metrics_5m' = Replace(metrics_5m, RollupRows(metrics, lo, hi))
        /\ metrics' = Outside(metrics, lo, hi)
        /\ meta' = [meta EXCEPT !.purge = hi]
        /\ purgeWm' = hi
        /\ chunks' = chunks + 1
        /\ yielded' \in BOOLEAN
        /\ UNCHANGED <<now, peak, aggWm, lastWrite, pc, rollNow, recorded, faults>>
    BY DEF PurgeChunk, PurgePending, Budget, clock
  <1>2. /\ purgeWm \in Int /\ Align(purgeWm) = purgeWm /\ 0 < purgeWm
        /\ aggWm \in Int /\ Align(aggWm) = aggWm
        /\ rollNow \in Nat /\ rollNow <= peak /\ peak \in Nat
    BY <1>1 DEF IInv, TypeOK, WatermarksOrdered, BoundaryBehindClock
  <1>3. /\ purgeLimit \in Int /\ Align(purgeLimit) = purgeLimit
        /\ purgeLimit <= aggWm /\ purgeLimit <= rollNow - PURGE_AFTER
    <2>1. /\ purgeTarget \in Int /\ Align(purgeTarget) = purgeTarget
          /\ purgeTarget <= rollNow - PURGE_AFTER
      BY TargetFacts DEF IInv
    <2> QED
      BY <1>2, <2>1, RetentionAssumption DEF purgeLimit, Lesser
  <1>4. hi \in Int /\ lo < hi /\ hi <= purgeLimit /\ Align(hi) = hi
    BY <1>1, <1>2, <1>3, ChunkFacts
  <1>5. Aged(hi, peak)
    BY <1>2, <1>3, <1>4, RetentionAssumption DEF Aged
  <1>6. metrics_5m' \subseteq Bucket
    BY <1>1, <1>2, <1>4, ReplaceType
  <1>7. metrics' \subseteq metrics /\ \A r \in metrics' : ~(lo <= r.ts /\ r.ts < hi)
    BY <1>1 DEF Outside
  <1>8. meta.agg # 0
    BY <1>1, <1>2, <1>3 DEF IInv, BoundaryBehindClock
  <1> HIDE DEF hi
  <1>9. meta' \in [agg : Int, purge : Int] /\ meta'.purge = hi /\ meta'.agg = meta.agg
    BY <1>1, <1>4 DEF IInv, TypeOK
  <1>10. TypeOK'
    <2>1. chunks' \in 0..MAX_CHUNKS_PER_RUN
      BY <1>1, GeometryAssumption DEF IInv, TypeOK
    <2> QED
      BY <1>1, <1>4, <1>6, <1>7, <1>9, <2>1 DEF IInv, TypeOK
  <1>11. WatermarksOrdered'
    <2>1. 0 <= purgeWm' /\ purgeWm' <= aggWm'
      BY <1>1, <1>2, <1>3, <1>4
    <2> QED
      BY <1>1, <1>4, <1>9, <2>1 DEF IInv, WatermarksOrdered
  <1>12. NoStrandedRaw'
    <2>1. \A r \in metrics' : lo <= r.ts /\ r.ts \in Int
      BY <1>7 DEF IInv, TypeOK, Row, NoStrandedRaw
    <2> QED
      BY <1>1, <1>4, <1>7, <2>1 DEF NoStrandedRaw
  <1>13. BoundaryBehindClock'
    <2>1. recorded' # {} /\ Aged(purgeWm', peak')
      BY <1>1, <1>2, <1>5 DEF IInv, BoundaryBehindClock
    <2>2. purgeWm' # 0 /\ meta'.purge # 0 /\ meta'.agg # 0
      BY <1>1, <1>2, <1>4, <1>8, <1>9
    <2> QED
      BY <1>1, <2>1, <2>2 DEF IInv, BoundaryBehindClock
  <1> QED
    BY <1>10, <1>11, <1>12, <1>13 DEF IInv

\* A phase that ends, however it ends, changes neither the tables nor the watermarks.
LEMMA NextPhaseInv ==
    ASSUME IInv, NextPhase, pc # "idle", faults' \in Nat
    PROVE  IInv'
  <1>1. /\ pc' \in Phases /\ chunks' \in 0..MAX_CHUNKS_PER_RUN /\ yielded' = FALSE
        /\ rollNow' = 0 \/ rollNow' = rollNow
    BY GeometryAssumption DEF IInv, TypeOK, NextPhase, Phases
  <1>2. UNCHANGED <<now, peak, metrics, metrics_5m, meta, aggWm, purgeWm, lastWrite,
                    recorded>>
    BY DEF NextPhase, clock, tables
  <1>3. rollNow' \in Nat /\ rollNow' <= peak'
    BY <1>1, <1>2 DEF IInv, TypeOK, BoundaryBehindClock
  <1>4. TypeOK'
    BY <1>1, <1>2, <1>3 DEF IInv, TypeOK
  <1>5. WatermarksOrdered' /\ NoStrandedRaw'
    BY <1>2 DEF IInv, WatermarksOrdered, NoStrandedRaw
  <1>6. BoundaryBehindClock'
    BY <1>2, <1>3 DEF IInv, BoundaryBehindClock
  <1> QED
    BY <1>4, <1>5, <1>6 DEF IInv

\* The sweep touches only the bucket table.
LEMMA CleanupInv == ASSUME IInv, Cleanup PROVE IInv'
  <1>1. /\ metrics_5m' \subseteq metrics_5m
        /\ UNCHANGED <<now, peak, metrics, meta, aggWm, purgeWm, lastWrite, pc, rollNow,
                       chunks, yielded, recorded, faults>>
    BY DEF Cleanup, clock, memory
  <1>2. TypeOK'
    BY <1>1 DEF IInv, TypeOK
  <1> QED
    BY <1>1, <1>2
    DEF IInv, WatermarksOrdered, NoStrandedRaw, BoundaryBehindClock

-----------------------------------------------------------------------------
(* The theorems. *)

LEMMA StepInv == IInv /\ [Next]_vars => IInv'
  <1> SUFFICES ASSUME IInv, [Next]_vars PROVE IInv'
    OBVIOUS
  <1>1. CASE UNCHANGED vars
    BY <1>1 DEF IInv, vars, TypeOK, WatermarksOrdered, NoStrandedRaw, BoundaryBehindClock
  <1>2. CASE ClockAdvances
    BY <1>2, ClockAdvancesInv
  <1>3. CASE ClockStepsBack
    BY <1>3, ClockStepsBackInv
  <1>4. CASE Restart
    BY <1>4, RestartInv
  <1>5. ASSUME NEW batch \in SUBSET Series, NEW val \in [Series -> Values],
               Record(batch, val)
        PROVE  IInv'
    BY <1>5, RecordInv
  <1>6. ASSUME NEW batch \in SUBSET Series, RecordFails(batch) PROVE IInv'
    BY <1>6, RecordFailsInv
  <1>7. CASE RollupBegin
    BY <1>7, RollupBeginInv
  <1>8. CASE DropChunk
    BY <1>8, DropChunkInv
  <1>9. CASE AggChunk
    BY <1>9, AggChunkInv
  <1>10. CASE PurgeChunk
    BY <1>10, PurgeChunkInv
  <1>11. CASE PhaseEnds
    <2>1. NextPhase /\ pc # "idle" /\ faults' \in Nat
      BY <1>11 DEF PhaseEnds, IInv, TypeOK
    <2> QED
      BY <2>1, NextPhaseInv
  <1>12. CASE ChunkFails
    <2>1. NextPhase /\ pc # "idle" /\ faults' \in Nat
      BY <1>12 DEF ChunkFails, DropPending, AggPending, PurgePending, IInv, TypeOK
    <2> QED
      BY <2>1, NextPhaseInv
  <1>13. CASE Cleanup
    BY <1>13, CleanupInv
  <1> QED
    BY <1>1, <1>2, <1>3, <1>4, <1>5, <1>6, <1>7, <1>8, <1>9, <1>10, <1>11, <1>12, <1>13
    DEF Next, RollupStep

\* The strengthened invariant holds in every reachable state.
THEOREM Invariance == Spec => []IInv
  BY InitInv, StepInv, PTL DEF Spec

\* Every table row, cursor and counter of sqlite.js stays well formed, for every set of
\* series, every geometry and every retention its assertions at the top allow.
THEOREM TypeCorrect == Spec => []TypeOK
  <1>1. IInv => TypeOK
    BY DEF IInv
  <1> QED
    BY Invariance, <1>1, PTL

\* The purge watermark never passes the aggregation one and a restart reads back what
\* was in memory (the two cursors of the Tsdb constructor).
THEOREM Ordered == Spec => []WatermarksOrdered
  <1>1. IInv => WatermarksOrdered
    BY DEF IInv
  <1> QED
    BY Invariance, <1>1, PTL

\* No raw row is ever below the read boundary of history(), where neither a read nor
\* the rollup would find it, whatever the clock, pushes, crashes and failures do.
THEOREM NothingStranded == Spec => []NoStrandedRaw
  <1>1. IInv => NoStrandedRaw
    BY DEF IInv
  <1> QED
    BY Invariance, <1>1, PTL

\* Both together: the invariant the store's run checks, for every constant.
THEOREM StoreSound == Spec => []StoreInvariant
  BY TypeCorrect, NothingStranded, PTL DEF StoreInvariant

-----------------------------------------------------------------------------
(* The sum of counts over a finite set of bucket rows. *)

Chosen(S) == CHOOSE t \in S : TRUE

\* f[T] is the sum for every subset T of S.
SumIs(S, f) ==
    f = [T \in SUBSET S |->
           IF T = {} THEN 0 ELSE Count(Chosen(T)) + f[T \ {Chosen(T)}]]

Sums(S) == CHOOSE f : SumIs(S, f)

Total(S) == MapThenSumSet(Count, S)

\* The fold of the library is the function that the two lines of SumIs describe.
LEMMA TotalIsSum ==
    ASSUME NEW S
    PROVE  Total(S) = Sums(S)[S]
  BY DEF Total, MapThenSumSet, MapThenFoldSet, Sums, SumIs, Chosen

LEMMA SumUnfold ==
    ASSUME NEW S, NEW f, SumIs(S, f), NEW T, T \subseteq S
    PROVE  f[T] = IF T = {} THEN 0 ELSE Count(Chosen(T)) + f[T \ {Chosen(T)}]
  <1> DEFINE g == [U \in SUBSET S |->
                     IF U = {} THEN 0 ELSE Count(Chosen(U)) + f[U \ {Chosen(U)}]]
  <1>1. f = g
    BY DEF SumIs
  <1>2. g[T] = IF T = {} THEN 0 ELSE Count(Chosen(T)) + f[T \ {Chosen(T)}]
    OBVIOUS
  <1> QED
    BY <1>1, <1>2

LEMMA ChosenIn == ASSUME NEW S, S # {} PROVE Chosen(S) \in S
  BY DEF Chosen

\* Two such functions agree wherever both speak.
LEMMA SumsAgree ==
    ASSUME NEW A, NEW f, SumIs(A, f), NEW B, NEW g, SumIs(B, g),
           NEW S, S \subseteq A, S \subseteq B, IsFiniteSet(S)
    PROVE  f[S] = g[S]
  <1> DEFINE Bad == {T \in SUBSET S : f[T] # g[T]}
  <1>1. SUFFICES ASSUME Bad # {} PROVE FALSE
    OBVIOUS
  <1>2. PICK T \in Bad : \A U \in Bad : ~(U \subseteq T /\ U # T)
    <2>1. Bad \subseteq SUBSET S
      OBVIOUS
    <2> HIDE DEF Bad
    <2> QED
      BY <1>1, <2>1, SmallestSubset
  <1>3. T \subseteq A /\ T \subseteq B /\ T \subseteq S /\ f[T] # g[T]
    BY <1>2
  <1>4. T # {}
    BY <1>3, SumUnfold
  <1>5. Chosen(T) \in T
    BY <1>4, ChosenIn
  <1> DEFINE U == T \ {Chosen(T)}
  <1>6. U \subseteq T /\ U # T /\ U \subseteq S
    BY <1>3, <1>5
  <1>7. f[U] = g[U]
    BY <1>2, <1>6
  <1>8. f[T] = Count(Chosen(T)) + f[U] /\ g[T] = Count(Chosen(T)) + g[U]
    BY <1>3, <1>4, SumUnfold
  <1> QED
    BY <1>3, <1>7, <1>8

\* There is such a function for every finite set.
LEMMA SumExists ==
    ASSUME NEW S, IsFiniteSet(S)
    PROVE  SumIs(S, Sums(S))
  <1> DEFINE Bad == {T \in SUBSET S : ~\E f : SumIs(T, f)}
  <1>1. Bad = {}
    <2>1. SUFFICES ASSUME Bad # {} PROVE FALSE
      OBVIOUS
    <2>2. PICK T \in Bad : \A U \in Bad : ~(U \subseteq T /\ U # T)
      <3>1. Bad \subseteq SUBSET S
        OBVIOUS
      <3> HIDE DEF Bad
      <3> QED
        BY <2>1, <3>1, SmallestSubset
    <2>3. \A U \in SUBSET T : U # T => SumIs(U, Sums(U))
      <3>1. SUFFICES ASSUME NEW U \in SUBSET T, U # T PROVE \E f : SumIs(U, f)
        BY DEF Sums
      <3> QED
        BY <2>2, <3>1
    <2> DEFINE part == [U \in SUBSET T |-> Sums(U)[U]]
               rest == T \ {Chosen(T)}
               whole == IF T = {} THEN 0 ELSE Count(Chosen(T)) + part[rest]
               f == [U \in SUBSET T |-> IF U = T THEN whole ELSE part[U]]
               Step(U) == IF U = {} THEN 0 ELSE Count(Chosen(U)) + f[U \ {Chosen(U)}]
    <2>4. ASSUME NEW U \in SUBSET T PROVE f[U] = Step(U)
      <3>1. CASE U = {} /\ U = T
        BY <3>1
      <3>2. CASE U = T /\ U # {}
        <4>1. Chosen(T) \in T
          BY <3>2, ChosenIn
        <4>2. rest \in SUBSET T /\ rest # T
          BY <4>1
        <4>3. f[rest] = part[rest]
          BY <4>2
        <4> QED
          BY <3>2, <4>3
      <3>3. CASE U # T /\ U = {}
        <4>1. Sums(U)[U] = 0
          BY <2>3, <3>3, SumUnfold
        <4> QED
          BY <3>3, <4>1
      <3>4. CASE U # T /\ U # {}
        <4> DEFINE W == U \ {Chosen(U)}
        <4>1. Chosen(U) \in U
          BY <3>4, ChosenIn
        <4>2. W \in SUBSET T /\ W # T /\ W \subseteq U /\ IsFiniteSet(W)
          <5>1. W \in SUBSET S
            BY <2>2
          <5> QED
            BY <4>1, <5>1, FS_Subset
        <4>3. Sums(U)[U] = Count(Chosen(U)) + Sums(U)[W]
          BY <2>3, <3>4, SumUnfold
        <4>4. Sums(U)[W] = Sums(W)[W]
          <5>1. SumIs(U, Sums(U)) /\ SumIs(W, Sums(W))
            BY <2>3, <3>4, <4>2
          <5> HIDE DEF W
          <5> QED
            BY <4>2, <5>1, SumsAgree
        <4>5. f[W] = Sums(W)[W] /\ f[U] = Sums(U)[U]
          BY <3>4, <4>2
        <4> QED
          BY <3>4, <4>3, <4>4, <4>5
      <3> QED
        BY <3>1, <3>2, <3>3, <3>4
    <2>5. f = [U \in SUBSET T |-> Step(U)]
      <3> HIDE DEF Step
      <3> QED
        BY <2>4
    <2>6. SumIs(T, f)
      BY <2>5 DEF SumIs
    <2> QED
      BY <2>2, <2>6
  <1>2. \E f : SumIs(S, f)
    BY <1>1
  <1> QED
    BY <1>2 DEF Sums

CountsRows(S) == \A t \in S : t.n \in Nat

LEMMA TotalEmpty == Total({}) = 0
  <1>1. IsFiniteSet({})
    BY FS_EmptySet
  <1>2. SumIs({}, Sums({}))
    BY <1>1, SumExists
  <1> QED
    BY <1>2, SumUnfold, TotalIsSum

LEMMA TotalUnfold ==
    ASSUME NEW S, IsFiniteSet(S), S # {}
    PROVE  Total(S) = Count(Chosen(S)) + Total(S \ {Chosen(S)})
  <1> DEFINE R == S \ {Chosen(S)}
  <1>1. R \subseteq S /\ IsFiniteSet(R)
    BY FS_Subset
  <1>2. SumIs(S, Sums(S)) /\ SumIs(R, Sums(R))
    <2> HIDE DEF R
    <2> QED
      BY <1>1, SumExists
  <1>3. Sums(S)[S] = Count(Chosen(S)) + Sums(S)[R]
    BY <1>2, SumUnfold
  <1>4. Sums(S)[R] = Sums(R)[R]
    <2> HIDE DEF R
    <2> QED
      BY <1>1, <1>2, SumsAgree
  <1> HIDE DEF R
  <1>5. Total(S) = Sums(S)[S] /\ Total(R) = Sums(R)[R]
    BY TotalIsSum
  <1>6. Total(S) = Count(Chosen(S)) + Total(R)
    BY <1>3, <1>4, <1>5
  <1> QED
    BY <1>6 DEF R

LEMMA TotalType ==
    ASSUME NEW S, IsFiniteSet(S), CountsRows(S)
    PROVE  Total(S) \in Nat
  <1> DEFINE Bad == {T \in SUBSET S : Total(T) \notin Nat}
  <1>1. SUFFICES ASSUME Bad # {} PROVE FALSE
    OBVIOUS
  <1>2. PICK T \in Bad : \A U \in Bad : ~(U \subseteq T /\ U # T)
    <2>1. Bad \subseteq SUBSET S
      OBVIOUS
    <2> HIDE DEF Bad
    <2> QED
      BY <1>1, <2>1, SmallestSubset
  <1>3. T \subseteq S /\ Total(T) \notin Nat /\ IsFiniteSet(T)
    BY <1>2, FS_Subset
  <1>4. T # {}
    BY <1>3, TotalEmpty
  <1>5. Chosen(T) \in T
    BY <1>4, ChosenIn
  <1>6. Total(T \ {Chosen(T)}) \in Nat
    BY <1>2, <1>3, <1>5
  <1>7. Count(Chosen(T)) \in Nat
    BY <1>3, <1>5 DEF CountsRows, Count
  <1> QED
    BY <1>3, <1>4, <1>6, <1>7, TotalUnfold

\* The sum does not depend on the order in which the rows are taken.
LEMMA TotalRemove ==
    ASSUME NEW S, IsFiniteSet(S), CountsRows(S), NEW t \in S
    PROVE  Total(S) = t.n + Total(S \ {t})
  <1> DEFINE Bad == {T \in SUBSET S : \E u \in T : Total(T) # u.n + Total(T \ {u})}
  <1>1. Bad = {}
    <2>1. SUFFICES ASSUME Bad # {} PROVE FALSE
      OBVIOUS
    <2>2. PICK T \in Bad : \A U \in Bad : ~(U \subseteq T /\ U # T)
      <3>1. Bad \subseteq SUBSET S
        OBVIOUS
      <3> HIDE DEF Bad
      <3> QED
        BY <2>1, <3>1, SmallestSubset
    <2>3. PICK u \in T : Total(T) # u.n + Total(T \ {u})
      BY <2>2
    <2>4. T \subseteq S /\ IsFiniteSet(T) /\ T # {}
      BY <2>2, <2>3, FS_Subset
    <2> DEFINE c == Chosen(T)
               U == T \ {c}
               V == T \ {u}
               W == T \ {c, u}
    <2>5. c \in T
      BY <2>4, ChosenIn
    <2>6. Total(T) = c.n + Total(U)
      BY <2>4, TotalUnfold DEF Count
    <2>7. c # u
      BY <2>3, <2>6
    <2>8. U \in SUBSET S /\ U \subseteq T /\ U # T /\ u \in U /\ W = U \ {u}
      BY <2>3, <2>4, <2>5, <2>7
    <2>9. V \in SUBSET S /\ V \subseteq T /\ V # T /\ c \in V /\ W = V \ {c}
      BY <2>3, <2>4, <2>5, <2>7
    <2>10. Total(U) = u.n + Total(W)
      BY <2>2, <2>8
    <2>11. Total(V) = c.n + Total(W)
      BY <2>2, <2>9
    <2>12. Total(W) \in Nat /\ c.n \in Nat /\ u.n \in Nat
      <3>1. W \in SUBSET S
        BY <2>8
      <3>2. IsFiniteSet(W) /\ CountsRows(W)
        BY <3>1, FS_Subset DEF CountsRows
      <3> QED
        BY <2>3, <2>4, <2>5, <3>2, TotalType DEF CountsRows
    <2> QED
      BY <2>3, <2>6, <2>10, <2>11, <2>12
  <1> QED
    BY <1>1

-----------------------------------------------------------------------------
(* Rows and the buckets built from them. *)

LEMMA BucketRowFields ==
    ASSUME NEW s, NEW b, NEW rows
    PROVE  /\ BucketRow(s, b, rows).series = s
           /\ BucketRow(s, b, rows).bucket = b
           /\ BucketRow(s, b, rows).n = Cardinality(rows)
           /\ BucketRow(s, b, rows).vmin = Min({r.value : r \in rows})
           /\ BucketRow(s, b, rows).vmax = Max({r.value : r \in rows})
  BY DEF BucketRow

\* One row for each bucket that has a sample in R.
BucketsOf(s, R) == {BucketRow(s, b, SamplesOf(R, s, b)) : b \in BucketKeys(R)}

LEMMA BucketsFinite ==
    ASSUME NEW s, NEW R, IsFiniteSet(R)
    PROVE  IsFiniteSet(BucketsOf(s, R)) /\ CountsRows(BucketsOf(s, R))
  <1> DEFINE B == BucketsOf(s, R)
             f == [r \in R |-> BucketRow(s, Align(r.ts), SamplesOf(R, s, Align(r.ts)))]
  <1>1. f \in [R -> B] /\ \A t \in B : \E r \in R : f[r] = t
    BY DEF BucketsOf, BucketKeys
  <1>2. IsFiniteSet(B)
    <2> HIDE DEF f, B
    <2> QED
      BY <1>1, FiniteImage
  <1>3. CountsRows(B)
    <2>1. SUFFICES ASSUME NEW b PROVE BucketRow(s, b, SamplesOf(R, s, b)).n \in Nat
      BY DEF CountsRows, BucketsOf
    <2>2. IsFiniteSet(SamplesOf(R, s, b))
      <3>1. SamplesOf(R, s, b) \in SUBSET R
        BY DEF SamplesOf
      <3> QED
        BY <3>1, FS_Subset
    <2> QED
      BY <2>2, FS_CardinalityType DEF BucketRow
  <1> QED
    BY <1>2, <1>3

\* The counts of the buckets built from rows add up to the number of rows.
LEMMA BucketsCountRows ==
    ASSUME NEW s, NEW R, IsFiniteSet(R), \A r \in R : r.series = s
    PROVE  Total(BucketsOf(s, R)) = Cardinality(R)
  <1> DEFINE Bad == {T \in SUBSET R : Total(BucketsOf(s, T)) # Cardinality(T)}
  <1>1. SUFFICES ASSUME Bad # {} PROVE FALSE
    OBVIOUS
  <1>2. PICK T \in Bad : \A U \in Bad : ~(U \subseteq T /\ U # T)
    <2>1. Bad \subseteq SUBSET R
      OBVIOUS
    <2> HIDE DEF Bad
    <2> QED
      BY <1>1, <2>1, SmallestSubset
  <1>3. T \in SUBSET R /\ IsFiniteSet(T) /\ Total(BucketsOf(s, T)) # Cardinality(T)
    BY <1>2, FS_Subset
  <1>4. T # {}
    <2>1. BucketsOf(s, {}) = {}
      BY DEF BucketsOf, BucketKeys
    <2> QED
      BY <1>3, <2>1, TotalEmpty, FS_EmptySet
  <1>5. PICK r \in T : TRUE
    BY <1>4
  <1> DEFINE b == Align(r.ts)
             D == SamplesOf(T, s, b)
             U == T \ D
             t == BucketRow(s, b, D)
  <1>6. D \subseteq T /\ r \in D /\ U \in SUBSET R /\ U # T
    BY <1>3, <1>5 DEF SamplesOf
  <1>7. Total(BucketsOf(s, U)) = Cardinality(U)
    BY <1>2, <1>6
  <1>8. Cardinality(U) = Cardinality(T) - Cardinality(D)
        /\ Cardinality(T) \in Nat /\ Cardinality(D) \in Nat
    <2>1. T \cap D = D /\ D \in SUBSET T
      BY <1>6
    <2> HIDE DEF D
    <2> QED
      BY <1>3, <2>1, FS_Difference, FS_Subset, FS_CardinalityType
  <1>9. BucketsOf(s, U) = BucketsOf(s, T) \ {t}
    <2>1. \A c : c # b => SamplesOf(U, s, c) = SamplesOf(T, s, c)
      BY DEF SamplesOf
    <2>2. BucketKeys(U) = BucketKeys(T) \ {b}
      <3>1. \A q \in T : q \in U <=> Align(q.ts) # b
        BY <1>3 DEF SamplesOf
      <3> HIDE DEF U, b
      <3> QED
        BY <3>1, <1>6 DEF BucketKeys, U
    <2>3. \A c : BucketRow(s, c, SamplesOf(T, s, c)) = t => c = b
      BY DEF BucketRow
    <2> HIDE DEF U, b
    <2> QED
      BY <2>1, <2>2, <2>3 DEF BucketsOf
  <1>10. t \in BucketsOf(s, T) /\ t.n = Cardinality(D)
    BY <1>5 DEF BucketsOf, BucketKeys, BucketRow
  <1>11. Total(BucketsOf(s, T)) = t.n + Total(BucketsOf(s, T) \ {t})
    <2>1. IsFiniteSet(BucketsOf(s, T)) /\ CountsRows(BucketsOf(s, T))
      BY <1>3, BucketsFinite
    <2> HIDE DEF t
    <2> QED
      BY <1>10, <2>1, TotalRemove
  <1> HIDE DEF t, U, D, b
  <1> QED
    BY <1>3, <1>7, <1>8, <1>9, <1>10, <1>11

-----------------------------------------------------------------------------
(* Windows between two bucket edges. *)

\* An instant lies between two bucket edges exactly if the start of its bucket does.
LEMMA WindowOfBuckets ==
    ASSUME NEW w \in Int, Align(w) = w, NEW t \in Int
    PROVE  (w <= t <=> w <= Align(t)) /\ (t < w <=> Align(t) < w)
  <1>1. Align(t) \in Int /\ Align(t) <= t
    BY AlignFacts
  <1>2. w <= t => w <= Align(t)
    BY EdgeBelow
  <1> QED
    BY <1>1, <1>2

LEMMA AlignMonotone ==
    ASSUME NEW t \in Int, NEW u \in Int, t <= u
    PROVE  Align(t) <= Align(u)
  <1>1. Align(t) \in Int /\ Align(t) <= t /\ Align(Align(t)) = Align(t)
    BY AlignFacts
  <1>2. Align(t) <= u
    BY <1>1
  <1> QED
    BY <1>1, <1>2, EdgeBelow

\* A window between bucket edges holds whole buckets.
LEMMA WholeBuckets ==
    ASSUME NEW T, T \subseteq Row, NEW s,
           NEW lo \in Int, Align(lo) = lo, NEW hi \in Int, Align(hi) = hi,
           NEW r \in RowsIn(T, s, lo, hi)
    PROVE  SamplesOf(RowsIn(T, s, lo, hi), s, Align(r.ts)) = SamplesOf(T, s, Align(r.ts))
  <1>1. r.ts \in Int /\ lo <= r.ts /\ r.ts < hi
    BY DEF RowsIn, Row
  <1>2. lo <= Align(r.ts) /\ Align(r.ts) < hi
    BY <1>1, WindowOfBuckets
  <1>3. \A q \in T : Align(q.ts) = Align(r.ts) => lo <= q.ts /\ q.ts < hi
    <2>1. SUFFICES ASSUME NEW q \in T, Align(q.ts) = Align(r.ts)
                   PROVE  lo <= q.ts /\ q.ts < hi
      OBVIOUS
    <2>2. q.ts \in Int
      BY DEF Row
    <2> QED
      BY <1>2, <2>1, <2>2, WindowOfBuckets
  <1> QED
    BY <1>3 DEF SamplesOf, RowsIn

\* The bucket rows of what was recorded in such a window: built from the window alone or
\* from everything recorded, they are the same.
LEMMA BucketsOfWindow ==
    ASSUME recorded \subseteq Row, NEW s,
           NEW lo \in Int, Align(lo) = lo, NEW hi \in Int, Align(hi) = hi
    PROVE  BucketsOf(s, RowsIn(recorded, s, lo, hi))
              = {RowOf(r) : r \in RowsIn(recorded, s, lo, hi)}
  <1> DEFINE R == RowsIn(recorded, s, lo, hi)
             Of(b) == BucketRow(s, b, SamplesOf(R, s, b))
  <1>1. BucketsOf(s, R) = {Of(Align(r.ts)) : r \in R}
    BY DEF BucketsOf, BucketKeys
  <1>2. \A r \in R : Of(Align(r.ts)) = RowOf(r)
    <2>1. SUFFICES ASSUME NEW r \in R PROVE Of(Align(r.ts)) = RowOf(r)
      OBVIOUS
    <2>2. SamplesOf(R, s, Align(r.ts)) = SamplesOf(recorded, s, Align(r.ts))
      BY WholeBuckets
    <2>3. r.series = s
      BY DEF RowsIn
    <2> QED
      BY <2>2, <2>3 DEF RowOf
  <1> HIDE DEF Of, R
  <1>3. BucketsOf(s, R) = {RowOf(r) : r \in R}
    BY <1>1, <1>2
  <1> QED
    BY <1>3 DEF R

-----------------------------------------------------------------------------
(* The inductive invariant. *)

\* The raw tier is complete from the boundary upwards, and holds nothing below it.
RawComplete == metrics = {r \in recorded : purgeWm <= r.ts}

\* Every bucket row is of a bucket that had samples.
BucketsHaveSamples ==
    \A t \in metrics_5m : \E r \in recorded : r.series = t.series /\ Align(r.ts) = t.bucket

\* Below the boundary, as far back as the retention, a bucket row tells of every sample of
\* its bucket, and every bucket that had a sample has its row.
BucketsExact ==
    \A t \in metrics_5m :
        KeptFrom <= t.bucket /\ t.bucket < purgeWm =>
            t = BucketRow(t.series, t.bucket, SamplesOf(recorded, t.series, t.bucket))
BucketsComplete ==
    \A r \in recorded : KeptFrom <= Align(r.ts) /\ r.ts < purgeWm => RowOf(r) \in metrics_5m

TierInv == RawComplete /\ BucketsHaveSamples /\ BucketsExact /\ BucketsComplete
HInv == IInv /\ TierInv

Chunk(lo, hi) == {r \in recorded : lo <= r.ts /\ r.ts < hi}

\* What a chunk at or above the boundary writes.
LEMMA ChunkRows ==
    ASSUME HInv, NEW lo \in Int, Align(lo) = lo, NEW hi \in Int, Align(hi) = hi,
           purgeWm <= lo
    PROVE  /\ RollupRows(metrics, lo, hi) = {RowOf(r) : r \in Chunk(lo, hi)}
           /\ \A s : RowsIn(metrics, s, lo, hi) = RowsIn(recorded, s, lo, hi)
  <1>1. recorded \subseteq Row /\ purgeWm \in Int
    BY DEF HInv, IInv, TypeOK
  <1>2. \A s : RowsIn(metrics, s, lo, hi) = RowsIn(recorded, s, lo, hi)
    <2>1. \A r \in recorded : lo <= r.ts => r \in metrics
      BY <1>1 DEF HInv, TierInv, RawComplete, Row
    <2>2. metrics \subseteq recorded
      BY DEF HInv, IInv, TypeOK
    <2> QED
      BY <2>1, <2>2 DEF RowsIn
  <1> DEFINE R(s) == RowsIn(recorded, s, lo, hi)
  <1>3. RollupRows(metrics, lo, hi) = UNION {BucketsOf(s, R(s)) : s \in Series}
    BY <1>2 DEF RollupRows, BucketsOf
  <1>4. \A s : BucketsOf(s, R(s)) = {RowOf(r) : r \in R(s)}
    BY <1>1, BucketsOfWindow
  <1>5. UNION {{RowOf(r) : r \in R(s)} : s \in Series} = {RowOf(r) : r \in Chunk(lo, hi)}
    <2>1. \A r \in recorded : r.series \in Series
      BY <1>1 DEF Row
    <2> QED
      BY <2>1 DEF RowsIn, Chunk
  <1>6. RollupRows(metrics, lo, hi) = UNION {{RowOf(r) : r \in R(s)} : s \in Series}
    <2> HIDE DEF R
    <2> QED
      BY <1>3, <1>4
  <1> QED
    BY <1>2, <1>5, <1>6

LEMMA RowOfFields ==
    ASSUME NEW r
    PROVE  RowOf(r).series = r.series /\ RowOf(r).bucket = Align(r.ts)
  BY DEF RowOf, BucketRow

\* What such a chunk leaves in the bucket table: the exact rows of its window, and no
\* other row there, because a row that was there had samples that are still raw.
LEMMA ChunkTable ==
    ASSUME HInv, NEW lo \in Int, Align(lo) = lo, NEW hi \in Int, Align(hi) = hi,
           purgeWm <= lo
    PROVE  Replace(metrics_5m, RollupRows(metrics, lo, hi))
              = {RowOf(r) : r \in Chunk(lo, hi)}
                \cup {t \in metrics_5m : ~(lo <= t.bucket /\ t.bucket < hi)}
  <1> DEFINE new == {RowOf(r) : r \in Chunk(lo, hi)}
  <1>1. RollupRows(metrics, lo, hi) = new
    BY ChunkRows
  <1>2. ASSUME NEW t \in metrics_5m
        PROVE  (\A u \in new : u.series # t.series \/ u.bucket # t.bucket)
                  <=> ~(lo <= t.bucket /\ t.bucket < hi)
    <2>1. \A u \in new : lo <= u.bucket /\ u.bucket < hi
      <3>1. SUFFICES ASSUME NEW r \in Chunk(lo, hi)
                     PROVE  lo <= RowOf(r).bucket /\ RowOf(r).bucket < hi
        OBVIOUS
      <3>2. r.ts \in Int /\ lo <= r.ts /\ r.ts < hi
        BY DEF Chunk, HInv, IInv, TypeOK, Row
      <3> QED
        BY <3>2, RowOfFields, WindowOfBuckets
    <2>2. ASSUME lo <= t.bucket, t.bucket < hi
          PROVE  \E u \in new : u.series = t.series /\ u.bucket = t.bucket
      <3>1. PICK r \in recorded : r.series = t.series /\ Align(r.ts) = t.bucket
        BY DEF HInv, TierInv, BucketsHaveSamples
      <3>2. r.ts \in Int
        BY DEF HInv, IInv, TypeOK, Row
      <3>3. r \in Chunk(lo, hi)
        BY <2>2, <3>1, <3>2, WindowOfBuckets DEF Chunk
      <3> QED
        BY <3>1, <3>3, RowOfFields
    <2> HIDE DEF new
    <2> QED
      BY <2>1, <2>2
  <1> HIDE DEF new
  <1>3. Replace(metrics_5m, new) = new \cup {t \in metrics_5m : ~(lo <= t.bucket /\ t.bucket < hi)}
    BY <1>2 DEF Replace
  <1> QED
    BY <1>1, <1>3 DEF new

\* So the verification of such a chunk always succeeds.
LEMMA ChunkVerified ==
    ASSUME HInv, NEW lo \in Int, Align(lo) = lo, NEW hi \in Int, Align(hi) = hi,
           purgeWm <= lo
    PROVE  Verified(metrics, Replace(metrics_5m, RollupRows(metrics, lo, hi)), lo, hi)
  <1> DEFINE T5 == Replace(metrics_5m, RollupRows(metrics, lo, hi))
             In(s) == {t \in T5 : t.series = s /\ lo <= t.bucket /\ t.bucket < hi}
             R(s) == RowsIn(recorded, s, lo, hi)
  <1>1. recorded \subseteq Row /\ IsFiniteSet(recorded)
    BY DEF HInv, IInv, TypeOK
  <1>2. ASSUME NEW s PROVE In(s) = {RowOf(r) : r \in R(s)}
    <2>1. T5 = {RowOf(r) : r \in Chunk(lo, hi)}
               \cup {t \in metrics_5m : ~(lo <= t.bucket /\ t.bucket < hi)}
      BY ChunkTable
    <2>2. \A r \in Chunk(lo, hi) : /\ RowOf(r).series = r.series
                                   /\ lo <= RowOf(r).bucket /\ RowOf(r).bucket < hi
      <3>1. SUFFICES ASSUME NEW r \in Chunk(lo, hi)
                     PROVE  lo <= Align(r.ts) /\ Align(r.ts) < hi
        BY RowOfFields
      <3>2. r.ts \in Int /\ lo <= r.ts /\ r.ts < hi
        BY <1>1 DEF Chunk, Row
      <3> QED
        BY <3>2, WindowOfBuckets
    <2>3. R(s) = {r \in Chunk(lo, hi) : r.series = s}
      BY DEF RowsIn, Chunk
    <2> HIDE DEF T5, R
    <2> QED
      BY <2>1, <2>2, <2>3
  <1>3. ASSUME NEW s PROVE Total(In(s)) = Cardinality(RowsIn(metrics, s, lo, hi))
    <2>1. In(s) = BucketsOf(s, R(s))
      BY <1>1, <1>2, BucketsOfWindow
    <2>2. IsFiniteSet(R(s)) /\ \A r \in R(s) : r.series = s
      <3>1. R(s) \in SUBSET recorded /\ \A r \in R(s) : r.series = s
        BY DEF RowsIn
      <3> QED
        BY <1>1, <3>1, FS_Subset
    <2>3. RowsIn(metrics, s, lo, hi) = R(s)
      BY ChunkRows
    <2> HIDE DEF R, In
    <2> QED
      BY <2>1, <2>2, <2>3, BucketsCountRows
  <1> HIDE DEF T5
  <1>4. Verified(metrics, T5, lo, hi)
    BY <1>3 DEF Verified, Total
  <1> QED
    BY <1>4 DEF T5

-----------------------------------------------------------------------------
(* The windows of the three kinds of chunk. *)

LEMMA KeptType == ASSUME IInv PROVE KeptFrom \in Int
  <1>1. peak - AGG_RETENTION \in Int
    BY RetentionAssumption DEF IInv, TypeOK
  <1> QED
    BY <1>1, AlignFacts DEF KeptFrom

\* (Stated for all instants because a step compares a primed one.)
LEMMA KeptMonotone ==
    \A t, u \in Nat :
        t <= u => /\ Align(t - AGG_RETENTION) \in Int /\ Align(u - AGG_RETENTION) \in Int
                  /\ Align(t - AGG_RETENTION) <= Align(u - AGG_RETENTION)
  <1> SUFFICES ASSUME NEW t \in Nat, NEW u \in Nat, t <= u
               PROVE  /\ Align(t - AGG_RETENTION) \in Int /\ Align(u - AGG_RETENTION) \in Int
                      /\ Align(t - AGG_RETENTION) <= Align(u - AGG_RETENTION)
    OBVIOUS
  <1>1. /\ t - AGG_RETENTION \in Int /\ u - AGG_RETENTION \in Int
        /\ t - AGG_RETENTION <= u - AGG_RETENTION
    BY RetentionAssumption
  <1> QED
    BY <1>1, AlignFacts, AlignMonotone

LEMMA KeptGrows ==
    ASSUME IInv, peak' \in Nat, peak <= peak'
    PROVE  KeptFrom' \in Int /\ KeptFrom <= KeptFrom'
  <1>1. peak \in Nat
    BY DEF IInv, TypeOK
  <1> QED
    BY <1>1, KeptMonotone DEF KeptFrom

LEMMA EdgesOf ==
    ASSUME IInv
    PROVE  /\ purgeWm \in Int /\ Align(purgeWm) = purgeWm
           /\ aggWm \in Int /\ Align(aggWm) = aggWm
           /\ 0 <= purgeWm /\ purgeWm <= aggWm
           /\ pc # "idle" => 0 < purgeWm
  BY DEF IInv, TypeOK, WatermarksOrdered, BoundaryBehindClock

LEMMA DropWindow ==
    ASSUME IInv, DropPending
    PROVE  /\ ChunkEnd(purgeWm, floorTs) \in Int
           /\ purgeWm < ChunkEnd(purgeWm, floorTs)
           /\ Align(ChunkEnd(purgeWm, floorTs)) = ChunkEnd(purgeWm, floorTs)
           /\ ChunkEnd(purgeWm, floorTs) <= floorTs /\ floorTs \in Int
           /\ floorTs <= KeptFrom
  <1>1. purgeWm < floorTs /\ floorTs \in Int /\ Align(floorTs) = floorTs
    BY TargetFacts DEF DropPending, IInv
  <1>2. floorTs <= KeptFrom
    <2>1. /\ rollNow - AGG_RETENTION \in Int /\ peak - AGG_RETENTION \in Int
          /\ rollNow - AGG_RETENTION <= peak - AGG_RETENTION
      BY RetentionAssumption DEF IInv, TypeOK, BoundaryBehindClock
    <2> QED
      BY <2>1, AlignMonotone DEF floorTs, KeptFrom
  <1> QED
    BY <1>1, <1>2, EdgesOf, ChunkFacts

LEMMA AggWindow ==
    ASSUME IInv, AggPending
    PROVE  /\ ChunkEnd(aggWm, aggTarget) \in Int
           /\ aggWm < ChunkEnd(aggWm, aggTarget)
           /\ Align(ChunkEnd(aggWm, aggTarget)) = ChunkEnd(aggWm, aggTarget)
  <1>1. aggWm < aggTarget /\ aggTarget \in Int /\ Align(aggTarget) = aggTarget
    BY TargetFacts DEF AggPending, IInv
  <1> QED
    BY <1>1, EdgesOf, ChunkFacts

LEMMA PurgeWindow ==
    ASSUME IInv, PurgePending
    PROVE  /\ ChunkEnd(purgeWm, purgeLimit) \in Int
           /\ purgeWm < ChunkEnd(purgeWm, purgeLimit)
           /\ Align(ChunkEnd(purgeWm, purgeLimit)) = ChunkEnd(purgeWm, purgeLimit)
  <1>1. purgeWm < purgeLimit /\ purgeLimit \in Int /\ Align(purgeLimit) = purgeLimit
    BY TargetFacts, EdgesOf DEF PurgePending, purgeLimit, Lesser, IInv
  <1> QED
    BY <1>1, EdgesOf, ChunkFacts

LEMMA SweepReach ==
    ASSUME IInv
    PROVE  /\ SweepCutoff \in Int /\ Align(SweepCutoff) = SweepCutoff
           /\ SweepCutoff <= KeptFrom
           /\ SweepCutoff <= now - AGG_RETENTION
  <1>1. /\ now - AGG_RETENTION \in Int /\ peak - AGG_RETENTION \in Int
        /\ now - AGG_RETENTION <= peak - AGG_RETENTION
    BY RetentionAssumption DEF IInv, TypeOK
  <1> DEFINE a == Align(now - AGG_RETENTION)
  <1>2. a \in Int /\ Align(a) = a /\ a <= now - AGG_RETENTION /\ a <= KeptFrom
    BY <1>1, AlignFacts, AlignMonotone DEF KeptFrom
  <1> HIDE DEF a
  <1>3. SweepCutoff = Lesser(a, purgeWm)
    BY DEF SweepCutoff, a
  <1> QED
    BY <1>1, <1>2, <1>3, EdgesOf, KeptType DEF Lesser

-----------------------------------------------------------------------------
(* One lemma for each action. *)

\* A step that leaves the tables and the boundary alone.
LEMMA FrameTier ==
    ASSUME HInv, UNCHANGED <<recorded, metrics, metrics_5m, purgeWm>>,
           peak' \in Nat, peak <= peak'
    PROVE  TierInv'
  <1>1. KeptFrom \in Int /\ KeptFrom' \in Int /\ KeptFrom <= KeptFrom'
    BY KeptType, KeptGrows DEF HInv
  <1>2. metrics_5m \subseteq Bucket /\ recorded \subseteq Row
    BY DEF HInv, IInv, TypeOK
  <1>3. RawComplete' /\ BucketsHaveSamples'
    BY DEF HInv, TierInv, RawComplete, BucketsHaveSamples
  <1>4. BucketsExact'
    <2>1. \A t \in metrics_5m : t.bucket \in Int
      BY <1>2 DEF Bucket
    <2> QED
      BY <1>1, <2>1 DEF HInv, TierInv, BucketsExact
  <1>5. BucketsComplete'
    <2>1. \A r \in recorded : Align(r.ts) \in Int
      BY <1>2, AlignFacts DEF Row
    <2> QED
      BY <1>1, <2>1 DEF HInv, TierInv, BucketsComplete, RowOf
  <1> QED
    BY <1>3, <1>4, <1>5 DEF TierInv

\* As long as nothing was deleted, the boundary may be at any edge below the samples.
LEMMA BoundaryAtStart ==
    ASSUME HInv, UNCHANGED <<recorded, metrics, metrics_5m>>, metrics = recorded,
           purgeWm' \in Int, \A r \in recorded : purgeWm' <= Align(r.ts)
    PROVE  TierInv'
  <1>1. \A r \in recorded : r.ts \in Int /\ Align(r.ts) \in Int /\ Align(r.ts) <= r.ts
    BY AlignFacts DEF HInv, IInv, TypeOK, Row
  <1>2. \A r \in recorded : purgeWm' <= r.ts
    BY <1>1
  <1>3. RawComplete' /\ BucketsHaveSamples'
    BY <1>2 DEF HInv, TierInv, RawComplete, BucketsHaveSamples
  <1>4. BucketsExact'
    <2>1. \A t \in metrics_5m : purgeWm' <= t.bucket /\ t.bucket \in Int
      BY <1>1 DEF HInv, TierInv, BucketsHaveSamples
    <2> QED
      BY <2>1 DEF BucketsExact
  <1>5. BucketsComplete'
    BY <1>1, <1>2 DEF BucketsComplete
  <1> QED
    BY <1>3, <1>4, <1>5 DEF TierInv

LEMMA RestartTier == ASSUME HInv, Restart PROVE TierInv'
  <1>1. UNCHANGED <<peak, recorded, metrics, metrics_5m>> /\ purgeWm' = meta.purge
        /\ peak \in Nat
    BY DEF Restart, clock, tables, HInv, IInv, TypeOK
  <1>2. CASE meta.purge # 0
    <2>1. purgeWm' = purgeWm
      BY <1>1, <1>2 DEF HInv, IInv, WatermarksOrdered
    <2> QED
      BY <1>1, <2>1, FrameTier
  <1>3. CASE meta.purge = 0
    <2>1. metrics = recorded
      BY <1>3 DEF HInv, IInv, BoundaryBehindClock
    <2>2. Align(0) = 0
      <3>1. 0 * BUCKET_SEC = 0 /\ 0 \div BUCKET_SEC = 0
        BY DivExact, GeometryAssumption
      <3> QED
        BY <3>1 DEF Align
    <2>3. \A r \in recorded : 0 <= Align(r.ts)
      <3>1. \A r \in recorded : r.ts \in Int /\ 0 <= r.ts
        BY DEF HInv, IInv, TypeOK, Row
      <3> QED
        BY <2>2, <3>1, EdgeBelow
    <2> QED
      BY <1>1, <1>3, <2>1, <2>3, BoundaryAtStart
  <1> QED
    BY <1>2, <1>3

LEMMA RollupBeginTier == ASSUME HInv, RollupBegin PROVE TierInv'
  <1>1. /\ UNCHANGED <<peak, recorded, metrics, metrics_5m>> /\ peak \in Nat
        /\ purgeWm' = (IF purgeWm = 0 THEN Align(qOldest) ELSE purgeWm)
        /\ metrics = {} => purgeWm # 0
    BY DEF RollupBegin, Seeded, clock, tables, HInv, IInv, TypeOK
  <1>2. CASE purgeWm # 0
    BY <1>1, <1>2, FrameTier
  <1>3. CASE purgeWm = 0
    <2>1. metrics = recorded /\ metrics # {}
      BY <1>1, <1>3 DEF HInv, IInv, BoundaryBehindClock, WatermarksOrdered
    <2> DEFINE o == Align(qOldest)
    <2>2. o \in Int /\ Align(o) = o /\ \A r \in recorded : o <= r.ts
      BY <2>1, SeedFacts DEF HInv
    <2> HIDE DEF o
    <2>3. \A r \in recorded : o <= Align(r.ts)
      <3>1. \A r \in recorded : r.ts \in Int
        BY DEF HInv, IInv, TypeOK, Row
      <3> QED
        BY <2>2, <3>1, EdgeBelow
    <2>4. purgeWm' = o
      BY <1>1, <1>3 DEF o
    <2> QED
      BY <1>1, <2>1, <2>2, <2>3, <2>4, BoundaryAtStart
  <1> QED
    BY <1>2, <1>3

\* The rows a batch inserts, and which samples they leave as they were.
New(batch, val) ==
    {[rowid |-> Cardinality(recorded), series |-> s, ts |-> now, value |-> val[s]] :
        s \in Keep(batch)}

LEMMA OldBuckets ==
    ASSUME IInv, NEW batch \in SUBSET Series, NEW val, NEW s, NEW b \in Int, b < purgeWm
    PROVE  SamplesOf(recorded \cup New(batch, val), s, b) = SamplesOf(recorded, s, b)
  <1>1. purgeWm \in Int /\ Align(purgeWm) = purgeWm /\ now \in Int /\ purgeWm <= now
    BY EdgesOf, NowAboveBoundary DEF IInv, TypeOK
  <1>2. Align(now) \in Int /\ purgeWm <= Align(now)
    BY <1>1, EdgeBelow, AlignFacts
  <1>3. \A r \in New(batch, val) : Align(r.ts) # b
    BY <1>1, <1>2 DEF New
  <1> QED
    BY <1>3 DEF SamplesOf

LEMMA RecordTier ==
    ASSUME HInv, NEW batch \in SUBSET Series, NEW val \in [Series -> Values],
           Record(batch, val)
    PROVE  TierInv'
  <1> DEFINE new == New(batch, val)
  <1>1. /\ recorded' = recorded \cup new /\ metrics' = metrics \cup new
        /\ UNCHANGED <<peak, metrics_5m, purgeWm>>
    BY DEF Record, New, clock
  <1>2. \A r \in new : r.ts = now
    BY DEF New
  <1>3. purgeWm \in Int /\ Align(purgeWm) = purgeWm /\ now \in Int /\ purgeWm <= now
    BY EdgesOf, NowAboveBoundary DEF HInv, IInv, TypeOK
  <1>4. \A s : \A b \in Int : b < purgeWm =>
            SamplesOf(recorded', s, b) = SamplesOf(recorded, s, b)
    BY <1>1, OldBuckets DEF HInv
  <1> HIDE DEF new
  <1>5. RawComplete'
    BY <1>1, <1>2, <1>3 DEF HInv, TierInv, RawComplete
  <1>6. BucketsHaveSamples'
    BY <1>1 DEF HInv, TierInv, BucketsHaveSamples
  <1>7. KeptFrom' = KeptFrom
    BY <1>1 DEF KeptFrom
  <1>8. BucketsExact'
    <2>1. \A t \in metrics_5m : t.bucket \in Int
      BY DEF HInv, IInv, TypeOK, Bucket
    <2> QED
      BY <1>1, <1>4, <1>7, <2>1 DEF HInv, TierInv, BucketsExact
  <1>9. BucketsComplete'
    <2>1. SUFFICES ASSUME NEW r \in recorded', KeptFrom <= Align(r.ts), r.ts < purgeWm
                   PROVE  RowOf(r)' \in metrics_5m
      BY <1>1, <1>7 DEF BucketsComplete
    <2>2. r \in recorded
      BY <1>1, <1>2, <1>3, <2>1
    <2>3. r.ts \in Int /\ Align(r.ts) < purgeWm /\ Align(r.ts) \in Int
      <3>1. r.ts \in Int
        BY <2>2 DEF HInv, IInv, TypeOK, Row
      <3> QED
        BY <1>3, <2>1, <3>1, WindowOfBuckets, AlignFacts
    <2>4. RowOf(r)' = RowOf(r)
      BY <1>4, <2>3 DEF RowOf
    <2> QED
      BY <2>1, <2>2, <2>4 DEF HInv, TierInv, BucketsComplete
  <1> QED
    BY <1>5, <1>6, <1>8, <1>9 DEF TierInv

\* A drop moves the boundary only where nothing is kept any more.
LEMMA DropChunkTier == ASSUME HInv, DropChunk PROVE TierInv'
  <1> DEFINE hi == ChunkEnd(purgeWm, floorTs)
  <1>1. /\ DropPending
        /\ metrics' = Outside(metrics, purgeWm, hi)
        /\ purgeWm' = hi
        /\ UNCHANGED <<peak, recorded, metrics_5m>>
    BY DEF DropChunk, clock
  <1>2. hi \in Int /\ purgeWm < hi /\ hi <= KeptFrom /\ KeptFrom \in Int /\ purgeWm \in Int
    BY <1>1, DropWindow, KeptType, EdgesOf DEF HInv
  <1> HIDE DEF hi
  <1>3. KeptFrom' = KeptFrom
    BY <1>1 DEF KeptFrom
  <1>4. \A r \in recorded : r.ts \in Int /\ Align(r.ts) \in Int /\ Align(r.ts) <= r.ts
    BY AlignFacts DEF HInv, IInv, TypeOK, Row
  <1>5. RawComplete'
    BY <1>1, <1>2, <1>4 DEF HInv, TierInv, RawComplete, Outside
  <1>6. BucketsHaveSamples'
    BY <1>1 DEF HInv, TierInv, BucketsHaveSamples
  <1>7. BucketsExact'
    <2>1. \A t \in metrics_5m : t.bucket \in Int
      BY DEF HInv, IInv, TypeOK, Bucket
    <2> QED
      BY <1>1, <1>2, <1>3, <2>1 DEF BucketsExact
  <1>8. BucketsComplete'
    BY <1>1, <1>2, <1>3, <1>4 DEF BucketsComplete
  <1> QED
    BY <1>5, <1>6, <1>7, <1>8 DEF TierInv

\* Aggregating writes at or above the boundary only.
LEMMA AggChunkTier == ASSUME HInv, AggChunk PROVE TierInv'
  <1> DEFINE lo == aggWm
             hi == ChunkEnd(lo, aggTarget)
  <1>1. /\ AggPending
        /\ metrics_5m' = Replace(metrics_5m, RollupRows(metrics, lo, hi))
        /\ UNCHANGED <<peak, recorded, metrics, purgeWm>>
    BY DEF AggChunk, clock
  <1>2. /\ lo \in Int /\ Align(lo) = lo /\ hi \in Int /\ Align(hi) = hi
        /\ purgeWm \in Int /\ purgeWm <= lo
    BY <1>1, AggWindow, EdgesOf DEF HInv
  <1>3. metrics_5m' = {RowOf(r) : r \in Chunk(lo, hi)}
                         \cup {t \in metrics_5m : ~(lo <= t.bucket /\ t.bucket < hi)}
    BY <1>1, <1>2, ChunkTable
  <1> HIDE DEF lo, hi
  <1>4. \A r \in recorded : r.ts \in Int /\ Align(r.ts) \in Int /\ Align(r.ts) <= r.ts
    BY AlignFacts DEF HInv, IInv, TypeOK, Row
  <1>5. \A r \in Chunk(lo, hi) : RowOf(r).series = r.series /\ RowOf(r).bucket = Align(r.ts)
                                 /\ r \in recorded /\ lo <= Align(r.ts)
    <2>1. \A r \in Chunk(lo, hi) : r \in recorded /\ lo <= r.ts
      BY DEF Chunk
    <2> QED
      BY <1>2, <1>4, <2>1, RowOfFields, WindowOfBuckets
  <1>6. KeptFrom' = KeptFrom /\ KeptFrom \in Int
    BY <1>1, KeptType DEF KeptFrom, HInv
  <1>7. RawComplete'
    BY <1>1 DEF HInv, TierInv, RawComplete
  <1>8. BucketsHaveSamples'
    BY <1>1, <1>3, <1>5 DEF HInv, TierInv, BucketsHaveSamples
  <1>9. BucketsExact'
    <2>1. SUFFICES ASSUME NEW t \in metrics_5m', KeptFrom <= t.bucket, t.bucket < purgeWm
                   PROVE  t = BucketRow(t.series, t.bucket,
                                        SamplesOf(recorded, t.series, t.bucket))
      BY <1>1, <1>6 DEF BucketsExact
    <2>2. t \in metrics_5m
      BY <1>2, <1>3, <1>4, <1>5, <2>1
    <2> QED
      BY <2>1, <2>2 DEF HInv, TierInv, BucketsExact
  <1>10. BucketsComplete'
    <2>1. SUFFICES ASSUME NEW r \in recorded, KeptFrom <= Align(r.ts), r.ts < purgeWm
                   PROVE  RowOf(r) \in metrics_5m'
      BY <1>1, <1>6 DEF BucketsComplete, RowOf
    <2>2. RowOf(r) \in metrics_5m
      BY <2>1 DEF HInv, TierInv, BucketsComplete
    <2>3. ~(lo <= RowOf(r).bucket)
      BY <1>2, <1>4, <2>1, RowOfFields
    <2> QED
      BY <1>3, <2>2, <2>3
  <1> QED
    BY <1>7, <1>8, <1>9, <1>10 DEF TierInv

\* A purge leaves exact rows for the window its boundary passes over.
LEMMA PurgeChunkTier == ASSUME HInv, PurgeChunk PROVE TierInv'
  <1> DEFINE lo == purgeWm
             hi == ChunkEnd(lo, purgeLimit)
  <1>1. /\ PurgePending
        /\ metrics_5m' = Replace(metrics_5m, RollupRows(metrics, lo, hi))
        /\ metrics' = Outside(metrics, lo, hi)
        /\ purgeWm' = hi
        /\ UNCHANGED <<peak, recorded>>
    BY DEF PurgeChunk, clock
  <1>2. /\ lo \in Int /\ Align(lo) = lo /\ hi \in Int /\ Align(hi) = hi /\ lo < hi
    BY <1>1, PurgeWindow, EdgesOf DEF HInv
  <1>3. metrics_5m' = {RowOf(r) : r \in Chunk(lo, hi)}
                         \cup {t \in metrics_5m : ~(lo <= t.bucket /\ t.bucket < hi)}
    BY <1>1, <1>2, ChunkTable
  <1> HIDE DEF hi
  <1>4. \A r \in recorded : r.ts \in Int /\ Align(r.ts) \in Int /\ Align(r.ts) <= r.ts
    BY AlignFacts DEF HInv, IInv, TypeOK, Row
  <1>5. \A r \in Chunk(lo, hi) : r \in recorded
    BY DEF Chunk
  <1>6. KeptFrom' = KeptFrom
    BY <1>1 DEF KeptFrom
  <1>7. RawComplete'
    BY <1>1, <1>2, <1>4 DEF HInv, TierInv, RawComplete, Outside
  <1>8. BucketsHaveSamples'
    BY <1>1, <1>3, <1>5, RowOfFields DEF HInv, TierInv, BucketsHaveSamples
  <1>9. BucketsExact'
    <2>1. SUFFICES ASSUME NEW t \in metrics_5m', KeptFrom <= t.bucket, t.bucket < hi
                   PROVE  t = BucketRow(t.series, t.bucket,
                                        SamplesOf(recorded, t.series, t.bucket))
      BY <1>1, <1>6 DEF BucketsExact
    <2>2. CASE t \in {RowOf(r) : r \in Chunk(lo, hi)}
      <3>1. PICK r \in Chunk(lo, hi) : t = RowOf(r)
        BY <2>2
      <3>2. t.series = r.series /\ t.bucket = Align(r.ts)
        BY <3>1, RowOfFields
      <3> QED
        BY <3>1, <3>2 DEF RowOf
    <2>3. CASE t \in metrics_5m /\ ~(lo <= t.bucket /\ t.bucket < hi)
      <3>1. t.bucket \in Int
        BY <2>3 DEF HInv, IInv, TypeOK, Bucket
      <3>2. t.bucket < lo
        BY <1>2, <2>1, <2>3, <3>1
      <3> QED
        BY <2>1, <2>3, <3>2 DEF HInv, TierInv, BucketsExact
    <2> QED
      BY <1>3, <2>2, <2>3
  <1>10. BucketsComplete'
    <2>1. SUFFICES ASSUME NEW r \in recorded, KeptFrom <= Align(r.ts), r.ts < hi
                   PROVE  RowOf(r) \in metrics_5m'
      BY <1>1, <1>6 DEF BucketsComplete, RowOf
    <2>2. CASE lo <= r.ts
      BY <1>3, <2>1, <2>2 DEF Chunk
    <2>3. CASE ~(lo <= r.ts)
      <3>1. r.ts < lo /\ RowOf(r).bucket < lo /\ RowOf(r).bucket \in Int
        BY <1>2, <1>4, <2>3, RowOfFields
      <3>2. RowOf(r) \in metrics_5m
        BY <2>1, <3>1 DEF HInv, TierInv, BucketsComplete
      <3> QED
        BY <1>2, <1>3, <3>1, <3>2
    <2> QED
      BY <2>2, <2>3
  <1> QED
    BY <1>7, <1>8, <1>9, <1>10 DEF TierInv

\* The sweep deletes only what is no longer kept.
LEMMA CleanupTier == ASSUME HInv, Cleanup PROVE TierInv'
  <1>1. /\ metrics_5m' = {t \in metrics_5m : t.bucket >= SweepCutoff}
        /\ UNCHANGED <<peak, recorded, metrics, purgeWm>>
    BY DEF Cleanup, clock, memory
  <1>2. KeptFrom' = KeptFrom /\ KeptFrom \in Int /\ SweepCutoff \in Int /\ SweepCutoff <= KeptFrom
    BY <1>1, KeptType, SweepReach DEF KeptFrom, HInv
  <1>3. RawComplete' /\ BucketsHaveSamples' /\ BucketsExact'
    BY <1>1, <1>2 DEF HInv, TierInv, RawComplete, BucketsHaveSamples, BucketsExact
  <1>4. BucketsComplete'
    <2>1. SUFFICES ASSUME NEW r \in recorded, KeptFrom <= Align(r.ts), r.ts < purgeWm
                   PROVE  RowOf(r) \in metrics_5m'
      BY <1>1, <1>2 DEF BucketsComplete, RowOf
    <2>2. RowOf(r) \in metrics_5m /\ RowOf(r).bucket = Align(r.ts) /\ Align(r.ts) \in Int
      BY <2>1, RowOfFields, AlignFacts DEF HInv, TierInv, BucketsComplete, IInv, TypeOK, Row
    <2> QED
      BY <1>1, <1>2, <2>1, <2>2
  <1> QED
    BY <1>3, <1>4 DEF TierInv

-----------------------------------------------------------------------------
(* The tiers are exact in every reachable state. *)

LEMMA InitTier == Init => TierInv
  BY DEF Init, TierInv, RawComplete, BucketsHaveSamples, BucketsExact, BucketsComplete

LEMMA StepTier == HInv /\ [Next]_vars => TierInv'
  <1> SUFFICES ASSUME HInv, [Next]_vars PROVE TierInv'
    OBVIOUS
  <1>1. peak \in Nat /\ peak <= peak
    BY DEF HInv, IInv, TypeOK
  <1>2. CASE UNCHANGED vars
    BY <1>1, <1>2, FrameTier DEF vars
  <1>3. CASE ClockAdvances
    <2>1. peak' \in Nat /\ peak <= peak'
      BY <1>1, <1>3, ClockAssumption DEF ClockAdvances, Greater, HInv, IInv, TypeOK
    <2> QED
      BY <1>3, <2>1, FrameTier DEF ClockAdvances, tables, memory
  <1>4. CASE ClockStepsBack
    BY <1>1, <1>4, FrameTier DEF ClockStepsBack, SetBack, tables, memory
  <1>5. CASE Restart
    BY <1>5, RestartTier
  <1>6. ASSUME NEW batch \in SUBSET Series, NEW val \in [Series -> Values],
               Record(batch, val)
        PROVE  TierInv'
    BY <1>6, RecordTier
  <1>7. ASSUME NEW batch \in SUBSET Series, RecordFails(batch) PROVE TierInv'
    BY <1>1, <1>7, FrameTier DEF RecordFails, clock, tables
  <1>8. CASE RollupBegin
    BY <1>8, RollupBeginTier
  <1>9. CASE DropChunk
    BY <1>9, DropChunkTier
  <1>10. CASE AggChunk
    BY <1>10, AggChunkTier
  <1>11. CASE PurgeChunk
    BY <1>11, PurgeChunkTier
  <1>12. CASE PhaseEnds \/ ChunkFails
    BY <1>1, <1>12, FrameTier DEF PhaseEnds, ChunkFails, NextPhase, clock, tables
  <1>13. CASE Cleanup
    BY <1>13, CleanupTier
  <1> QED
    BY <1>2, <1>3, <1>4, <1>5, <1>6, <1>7, <1>8, <1>9, <1>10, <1>11, <1>12, <1>13
    DEF Next, RollupStep

\* The strengthened invariant holds in every reachable state.
THEOREM TiersExact == Spec => []HInv
  <1>1. Init => HInv
    BY InitInv, InitTier DEF HInv
  <1>2. HInv /\ [Next]_vars => HInv'
    BY StepInv, StepTier DEF HInv
  <1> QED
    BY <1>1, <1>2, PTL DEF Spec

-----------------------------------------------------------------------------
(* The verification, and what a read tells. *)

\* The verification that guards each transaction of the rollup never refuses, so no chunk
\* wedges the run (sqlite.js, _verify).
THEOREM NeverRefused == Spec => []VerificationHolds
  <1>1. HInv => VerificationHolds
    <2>1. SUFFICES ASSUME HInv, VerifyFails PROVE FALSE
      BY DEF VerificationHolds
    <2>2. CASE AggPending /\ CannotVerify(aggWm, aggTarget)
      <3> DEFINE hi == ChunkEnd(aggWm, aggTarget)
      <3>1. /\ hi \in Int /\ Align(hi) = hi
            /\ aggWm \in Int /\ Align(aggWm) = aggWm /\ purgeWm <= aggWm
        BY <2>1, <2>2, AggWindow, EdgesOf DEF HInv
      <3> HIDE DEF hi
      <3>2. Verified(metrics, Replace(metrics_5m, RollupRows(metrics, aggWm, hi)), aggWm, hi)
        BY <2>1, <3>1, ChunkVerified
      <3> QED
        BY <2>2, <3>2 DEF CannotVerify, hi
    <2>3. CASE PurgePending /\ CannotVerify(purgeWm, purgeLimit)
      <3> DEFINE hi == ChunkEnd(purgeWm, purgeLimit)
      <3>1. /\ hi \in Int /\ Align(hi) = hi
            /\ purgeWm \in Int /\ Align(purgeWm) = purgeWm /\ purgeWm <= purgeWm
        BY <2>1, <2>3, PurgeWindow, EdgesOf DEF HInv
      <3> HIDE DEF hi
      <3>2. Verified(metrics, Replace(metrics_5m, RollupRows(metrics, purgeWm, hi)), purgeWm, hi)
        BY <2>1, <3>1, ChunkVerified
      <3> QED
        BY <2>3, <3>2 DEF CannotVerify, hi
    <2> QED
      BY <2>1, <2>2, <2>3 DEF VerifyFails
  <1> QED
    BY TiersExact, <1>1, PTL

\* What a read from an edge that is still kept takes from the bucket table.
LEMMA BucketPartIs ==
    ASSUME HInv, NEW s, NEW since \in Int, Align(since) = since, KeptFrom <= since
    PROVE  BucketPart(s, since) = {RowOf(r) : r \in RowsIn(recorded, s, since, purgeWm)}
  <1>1. purgeWm \in Int /\ Align(purgeWm) = purgeWm /\ KeptFrom \in Int
    BY EdgesOf, KeptType DEF HInv
  <1>2. \A r \in recorded : r.ts \in Int
    BY DEF HInv, IInv, TypeOK, Row
  <1>3. ASSUME NEW t \in BucketPart(s, since)
        PROVE  t \in {RowOf(r) : r \in RowsIn(recorded, s, since, purgeWm)}
    <2>1. t \in metrics_5m /\ t.series = s /\ since <= t.bucket /\ t.bucket < purgeWm
      BY DEF BucketPart
    <2>2. PICK r \in recorded : r.series = t.series /\ Align(r.ts) = t.bucket
      BY <2>1 DEF HInv, TierInv, BucketsHaveSamples
    <2>3. r \in RowsIn(recorded, s, since, purgeWm)
      BY <1>1, <1>2, <2>1, <2>2, WindowOfBuckets DEF RowsIn
    <2>4. KeptFrom <= t.bucket
      <3>1. t.bucket \in Int
        BY <1>2, <2>2, AlignFacts
      <3> QED
        BY <1>1, <2>1, <3>1
    <2>5. t = RowOf(r)
      BY <2>1, <2>2, <2>4 DEF HInv, TierInv, BucketsExact, RowOf
    <2> QED
      BY <2>3, <2>5
  <1>4. ASSUME NEW r \in RowsIn(recorded, s, since, purgeWm)
        PROVE  RowOf(r) \in BucketPart(s, since)
    <2>1. r \in recorded /\ r.series = s /\ since <= r.ts /\ r.ts < purgeWm /\ r.ts \in Int
      BY <1>2 DEF RowsIn
    <2>2. since <= Align(r.ts) /\ Align(r.ts) < purgeWm /\ Align(r.ts) \in Int
      BY <1>1, <2>1, WindowOfBuckets, AlignFacts
    <2>3. KeptFrom <= Align(r.ts)
      BY <1>1, <2>2
    <2>4. RowOf(r) \in metrics_5m
      BY <2>1, <2>3 DEF HInv, TierInv, BucketsComplete
    <2> QED
      BY <2>1, <2>2, <2>4, RowOfFields DEF BucketPart
  <1> QED
    BY <1>3, <1>4

LEMMA ExtremesAre ==
    ASSUME NEW V, AllIntegers(V), IsFiniteSet(V), NEW W, W \subseteq V,
           NEW m \in W
    PROVE  /\ (\A v \in V : m <= v) => Min(W) = m
           /\ (\A v \in V : m >= v) => Max(W) = m
           /\ Min(W) \in W /\ Max(W) \in W
  <1>1. AllIntegers(W) /\ IsFiniteSet(W) /\ W # {}
    BY FS_Subset DEF AllIntegers
  <1>2. /\ Min(W) \in W /\ \A y \in W : Min(W) <= y
        /\ Max(W) \in W /\ \A y \in W : Max(W) >= y
    BY <1>1, FiniteExtremes
  <1>3. Min(W) \in Int /\ Max(W) \in Int /\ m \in Int
    BY <1>1, <1>2 DEF AllIntegers
  <1>4. (\A v \in V : m <= v) => Min(W) = m
    BY <1>2, <1>3
  <1>5. (\A v \in V : m >= v) => Max(W) = m
    BY <1>2, <1>3
  <1> QED
    BY <1>2, <1>4, <1>5

\* A read from an edge that is still kept is exact.
LEMMA ReadIsExact ==
    ASSUME HInv, NEW s \in Series, NEW since \in Int, Align(since) = since,
           KeptFrom <= since
    PROVE  LET samples == {r \in recorded : r.series = s /\ since <= r.ts}
               values == {r.value : r \in samples}
           IN  /\ ReadCount(s, since) = Cardinality(samples)
               /\ ReadValues(s, since) \subseteq values
               /\ samples # {} =>
                     /\ Min(values) \in ReadValues(s, since)
                     /\ Max(values) \in ReadValues(s, since)
  <1> DEFINE samples == {r \in recorded : r.series = s /\ since <= r.ts}
             values == {r.value : r \in samples}
             raw == RawPart(s, since)
             old == RowsIn(recorded, s, since, purgeWm)
  <1>1. recorded \subseteq Row /\ IsFiniteSet(recorded) /\ purgeWm \in Int
    BY DEF HInv, IInv, TypeOK
  <1>2. \A r \in recorded : r.ts \in Int
    BY <1>1 DEF Row
  <1>3. raw = {r \in samples : purgeWm <= r.ts} /\ old = {r \in samples : r.ts < purgeWm}
    <2>1. raw = {r \in samples : purgeWm <= r.ts}
      BY <1>1, <1>2 DEF RawPart, Greater, HInv, TierInv, RawComplete
    <2>2. old = {r \in samples : r.ts < purgeWm}
      BY DEF RowsIn
    <2> QED
      BY <2>1, <2>2
  <1>4. samples \in SUBSET recorded /\ IsFiniteSet(samples)
    <2>1. samples \in SUBSET recorded
      OBVIOUS
    <2> HIDE DEF samples
    <2> QED
      BY <1>1, <2>1, FS_Subset
  <1>5. raw \cap old = {} /\ raw \cup old = samples /\ \A r \in old : r.series = s
    <2>1. \A r \in samples : r.ts \in Int /\ r.series = s
      BY <1>2
    <2> HIDE DEF samples, raw, old
    <2> QED
      BY <1>1, <1>3, <2>1
  <1>6. BucketPart(s, since) = {RowOf(r) : r \in old}
    BY BucketPartIs
  <1>7. ReadCount(s, since) = Cardinality(samples)
    <2>1. BucketPart(s, since) = BucketsOf(s, old)
      <3>1. Align(purgeWm) = purgeWm
        BY EdgesOf DEF HInv
      <3> QED
        BY <1>1, <1>6, <3>1, BucketsOfWindow
    <2>2. IsFiniteSet(raw) /\ IsFiniteSet(old)
      <3>1. raw \in SUBSET samples /\ old \in SUBSET samples
        BY <1>3
      <3> HIDE DEF samples, raw, old
      <3> QED
        BY <1>4, <3>1, FS_Subset
    <2>3. Total(BucketPart(s, since)) = Cardinality(old)
      <3> HIDE DEF old
      <3> QED
        BY <1>5, <2>1, <2>2, BucketsCountRows
    <2>4. Cardinality(samples) = Cardinality(raw) + Cardinality(old)
      <3>1. Cardinality(raw \cup old)
               = Cardinality(raw) + Cardinality(old) - Cardinality(raw \cap old)
        <4> HIDE DEF raw, old
        <4> QED
          BY <2>2, FS_Union
      <3>2. Cardinality(raw \cap old) = 0 /\ Cardinality(raw \cup old) = Cardinality(samples)
        BY <1>5, FS_EmptySet
      <3>3. Cardinality(raw) \in Nat /\ Cardinality(old) \in Nat
        <4> HIDE DEF raw, old
        <4> QED
          BY <2>2, FS_CardinalityType
      <3> HIDE DEF raw, old, samples, values
      <3> QED
        BY <3>1, <3>2, <3>3
    <2> HIDE DEF samples, old
    <2> QED
      BY <2>3, <2>4 DEF ReadCount, Total
  <1>8. AllIntegers(values) /\ IsFiniteSet(values)
    <2>1. AllIntegers(values)
      BY <1>1, DataAssumption DEF AllIntegers, Row
    <2> DEFINE f == [r \in samples |-> r.value]
    <2>2. f \in [samples -> values] /\ \A v \in values : \E r \in samples : f[r] = v
      OBVIOUS
    <2> HIDE DEF f, values, samples
    <2> QED
      BY <1>4, <2>1, <2>2, FiniteImage
  <1> DEFINE Of(r) == {q.value : q \in SamplesOf(recorded, s, Align(r.ts))}
  <1>9. ASSUME NEW r \in old
        PROVE  /\ r.value \in Of(r) /\ Of(r) \subseteq values
               /\ RowOf(r).vmin = Min(Of(r)) /\ RowOf(r).vmax = Max(Of(r))
    <2>1. r \in recorded /\ r.series = s /\ since <= r.ts /\ r.ts \in Int
      BY <1>2, <1>3
    <2>2. r.value \in Of(r)
      BY <2>1 DEF SamplesOf
    <2>3. \A q \in SamplesOf(recorded, s, Align(r.ts)) : q \in samples
      <3>1. SUFFICES ASSUME NEW q \in recorded, q.series = s, Align(q.ts) = Align(r.ts)
                     PROVE  since <= q.ts
        BY DEF SamplesOf
      <3> QED
        BY <1>2, <2>1, <3>1, WindowOfBuckets
    <2>4. Of(r) \subseteq values
      BY <2>3
    <2>5. RowOf(r).vmin = Min(Of(r)) /\ RowOf(r).vmax = Max(Of(r))
      BY <2>1 DEF RowOf, BucketRow
    <2> QED
      BY <2>2, <2>4, <2>5
  <1>10. ReadValues(s, since)
            = {r.value : r \in raw} \cup UNION {{RowOf(r).vmin, RowOf(r).vmax} : r \in old}
    BY <1>6 DEF ReadValues
  <1> HIDE DEF Of, raw, old
  <1>11. ASSUME NEW r \in old PROVE RowOf(r).vmin \in values /\ RowOf(r).vmax \in values
    <2> HIDE DEF values
    <2> QED
      BY <1>8, <1>9, ExtremesAre
  <1>12. ReadValues(s, since) \subseteq values
    BY <1>3, <1>10, <1>11
  <1>13. ASSUME NEW m \in values
         PROVE  /\ (\A v \in values : m <= v) => m \in ReadValues(s, since)
                /\ (\A v \in values : m >= v) => m \in ReadValues(s, since)
    <2>1. PICK r \in samples : r.value = m
      OBVIOUS
    <2>2. CASE r \in raw
      BY <1>10, <2>1, <2>2
    <2>3. CASE r \in old
      <3> HIDE DEF values
      <3>1. /\ (\A v \in values : m <= v) => RowOf(r).vmin = m
            /\ (\A v \in values : m >= v) => RowOf(r).vmax = m
        BY <1>8, <1>9, <2>1, <2>3, ExtremesAre
      <3> QED
        BY <1>10, <2>3, <3>1
    <2> QED
      BY <1>5, <2>1, <2>2, <2>3
  <1>14. samples # {} => /\ Min(values) \in ReadValues(s, since)
                         /\ Max(values) \in ReadValues(s, since)
    <2>1. SUFFICES ASSUME values # {}
                   PROVE  Min(values) \in ReadValues(s, since) /\ Max(values) \in ReadValues(s, since)
      OBVIOUS
    <2> HIDE DEF values
    <2>2. /\ Min(values) \in values /\ \A v \in values : Min(values) <= v
          /\ Max(values) \in values /\ \A v \in values : Max(values) >= v
      BY <1>8, <2>1, FiniteExtremes
    <2> QED
      BY <1>13, <2>2
  <1> QED
    BY <1>7, <1>12, <1>14

\* history() tells the number and the extremes of the samples of its window, whichever tier
\* holds them, at every point of a rollup and after every crash.
THEOREM ReadsExact == Spec => []HistoryIsExact
  <1>1. HInv => HistoryIsExact
    <2>1. SUFFICES ASSUME HInv, NEW s \in Series,
                          NEW since \in {KeptFrom} \cup {Align(r.ts) : r \in recorded},
                          since >= KeptFrom
                   PROVE  /\ since \in Int /\ Align(since) = since /\ KeptFrom <= since
      BY ReadIsExact DEF HistoryIsExact
    <2>2. KeptFrom \in Int /\ Align(KeptFrom) = KeptFrom
      <3>1. peak - AGG_RETENTION \in Int
        BY <2>1, RetentionAssumption DEF HInv, IInv, TypeOK
      <3> QED
        BY <3>1, AlignFacts DEF KeptFrom
    <2>3. \A r \in recorded : Align(r.ts) \in Int /\ Align(Align(r.ts)) = Align(r.ts)
      BY <2>1, AlignFacts DEF HInv, IInv, TypeOK, Row
    <2> QED
      BY <2>1, <2>2, <2>3
  <1> QED
    BY TiersExact, <1>1, PTL

\* Both together, as the run checks them.
THEOREM HistorySound == Spec => []HistoryVerified
  BY ReadsExact, NeverRefused, PTL DEF HistoryVerified

-----------------------------------------------------------------------------
(* What no step of the rollup may do. *)

DropsOnlyBucketed ==
    \A r \in metrics \ metrics' :
        /\ r.ts < meta'.purge
        /\ \/ r.ts < floorTs
           \/ BucketRow(r.series, Align(r.ts), SamplesOf(recorded, r.series, Align(r.ts)))
                  \in metrics_5m'

MarksAdvance == meta'.agg >= meta.agg /\ meta'.purge >= meta.purge

LEMMA DropStep == ASSUME HInv, DropChunk PROVE DropsOnlyBucketed /\ MarksAdvance
  <1> DEFINE hi == ChunkEnd(purgeWm, floorTs)
  <1>1. /\ metrics' = Outside(metrics, purgeWm, hi)
        /\ meta' = [agg |-> IF hi > aggWm THEN hi ELSE meta.agg, purge |-> hi]
        /\ DropPending
    BY DEF DropChunk, DropAggMark
  <1>2. /\ hi \in Int /\ purgeWm < hi /\ hi <= floorTs /\ floorTs \in Int
        /\ purgeWm \in Int /\ aggWm \in Int /\ 0 <= purgeWm /\ purgeWm <= aggWm
    BY <1>1, DropWindow, EdgesOf DEF HInv
  <1>3. /\ meta.agg \in Int /\ (meta.agg # 0 => meta.agg = aggWm)
        /\ meta.purge \in Int /\ (meta.purge # 0 => meta.purge = purgeWm)
    BY DEF HInv, IInv, TypeOK, WatermarksOrdered
  <1> HIDE DEF hi
  <1>4. \A r \in metrics \ metrics' : r.ts \in Int /\ r.ts < hi
    BY <1>1 DEF Outside, HInv, IInv, TypeOK, Row
  <1>5. DropsOnlyBucketed
    BY <1>1, <1>2, <1>4 DEF DropsOnlyBucketed
  <1>6. MarksAdvance
    BY <1>1, <1>2, <1>3 DEF MarksAdvance
  <1> QED
    BY <1>5, <1>6

LEMMA AggStep == ASSUME HInv, AggChunk PROVE DropsOnlyBucketed /\ MarksAdvance
  <1> DEFINE hi == ChunkEnd(aggWm, aggTarget)
  <1>1. /\ metrics' = metrics /\ AggPending
        /\ meta' = [meta EXCEPT !.agg = hi]
    BY DEF AggChunk
  <1>2. hi \in Int /\ aggWm < hi /\ aggWm \in Int /\ 0 <= aggWm
    BY <1>1, AggWindow, EdgesOf DEF HInv
  <1>3. meta \in [agg : Int, purge : Int] /\ (meta.agg # 0 => meta.agg = aggWm)
    BY DEF HInv, IInv, TypeOK, WatermarksOrdered
  <1> HIDE DEF hi
  <1> QED
    BY <1>1, <1>2, <1>3 DEF DropsOnlyBucketed, MarksAdvance

LEMMA PurgeStep == ASSUME HInv, PurgeChunk PROVE DropsOnlyBucketed /\ MarksAdvance
  <1> DEFINE lo == purgeWm
             hi == ChunkEnd(lo, purgeLimit)
  <1>1. /\ PurgePending
        /\ metrics' = Outside(metrics, lo, hi)
        /\ metrics_5m' = Replace(metrics_5m, RollupRows(metrics, lo, hi))
        /\ meta' = [meta EXCEPT !.purge = hi]
    BY DEF PurgeChunk
  <1>2. /\ lo \in Int /\ Align(lo) = lo /\ 0 <= lo
        /\ hi \in Int /\ Align(hi) = hi /\ lo < hi
    BY <1>1, PurgeWindow, EdgesOf DEF HInv
  <1>3. /\ meta \in [agg : Int, purge : Int]
        /\ meta.purge # 0 => meta.purge = lo
        /\ metrics \subseteq recorded
    BY DEF HInv, IInv, TypeOK, WatermarksOrdered
  <1>4. metrics_5m' = {RowOf(r) : r \in Chunk(lo, hi)}
                         \cup {t \in metrics_5m : ~(lo <= t.bucket /\ t.bucket < hi)}
    BY <1>1, <1>2, ChunkTable
  <1> HIDE DEF lo, hi
  <1>5. \A r \in metrics \ metrics' : r \in Chunk(lo, hi) /\ r.ts < hi
    BY <1>1, <1>3 DEF Outside, Chunk
  <1>6. DropsOnlyBucketed
    <2>1. SUFFICES ASSUME NEW r \in metrics \ metrics'
                   PROVE  r.ts < meta'.purge /\ RowOf(r) \in metrics_5m'
      BY DEF DropsOnlyBucketed, RowOf
    <2> QED
      BY <1>1, <1>3, <1>4, <1>5
  <1>7. MarksAdvance
    BY <1>1, <1>2, <1>3 DEF MarksAdvance
  <1> QED
    BY <1>6, <1>7

LEMMA StoreStep == HInv /\ [Next]_vars => DropsOnlyBucketed /\ MarksAdvance
  <1> SUFFICES ASSUME HInv, [Next]_vars PROVE DropsOnlyBucketed /\ MarksAdvance
    OBVIOUS
  <1>1. ASSUME metrics \subseteq metrics', meta' = meta
        PROVE  DropsOnlyBucketed /\ MarksAdvance
    <2>1. meta.agg \in Int /\ meta.purge \in Int
      BY DEF HInv, IInv, TypeOK
    <2> QED
      BY <1>1, <2>1 DEF DropsOnlyBucketed, MarksAdvance
  <1>2. CASE UNCHANGED vars
    BY <1>1, <1>2 DEF vars
  <1>3. CASE ClockAdvances \/ ClockStepsBack
    BY <1>1, <1>3 DEF ClockAdvances, ClockStepsBack, SetBack, tables
  <1>4. CASE Restart \/ RollupBegin
    BY <1>1, <1>4 DEF Restart, RollupBegin, tables
  <1>5. ASSUME NEW batch \in SUBSET Series, NEW val \in [Series -> Values],
               Record(batch, val)
        PROVE  DropsOnlyBucketed /\ MarksAdvance
    BY <1>1, <1>5 DEF Record
  <1>6. ASSUME NEW batch \in SUBSET Series, RecordFails(batch)
        PROVE  DropsOnlyBucketed /\ MarksAdvance
    BY <1>1, <1>6 DEF RecordFails, tables
  <1>7. CASE DropChunk
    BY <1>7, DropStep
  <1>8. CASE AggChunk
    BY <1>8, AggStep
  <1>9. CASE PurgeChunk
    BY <1>9, PurgeStep
  <1>10. CASE PhaseEnds \/ ChunkFails
    BY <1>1, <1>10 DEF PhaseEnds, ChunkFails, NextPhase, tables
  <1>11. CASE Cleanup
    BY <1>1, <1>11 DEF Cleanup
  <1> QED
    BY <1>2, <1>3, <1>4, <1>5, <1>6, <1>7, <1>8, <1>9, <1>10, <1>11
    DEF Next, RollupStep

\* A raw row leaves the raw tier only past the retention, or with an exact row for its
\* bucket in the same transaction.
THEOREM NothingLost == Spec => RawDroppedOnlyWhenBucketed
  <1>1. HInv /\ [Next]_vars => [DropsOnlyBucketed]_vars
    BY StoreStep
  <1> QED
    BY TiersExact, <1>1, PTL DEF Spec, RawDroppedOnlyWhenBucketed, DropsOnlyBucketed

\* What a restart reads back never goes back.
THEOREM MarksOnlyAdvance == Spec => DurableWatermarksAdvance
  <1>1. HInv /\ [Next]_vars => [MarksAdvance]_vars
    BY StoreStep
  <1> QED
    BY TiersExact, <1>1, PTL DEF Spec, DurableWatermarksAdvance, MarksAdvance

\* Both together, as the run checks them.
THEOREM StepsSound == Spec => StoreSteps
  BY NothingLost, MarksOnlyAdvance DEF StoreSteps

-----------------------------------------------------------------------------
(* The two tiers implement the plain store, step by step. *)

LEMMA InitImplements == Init => Store!Init
  BY DEF Init, Store!Init, Known

\* A step that changes neither the samples nor, for any of them, whether it is known.
LEMMA StutterImplements ==
    ASSUME UNCHANGED <<now, peak, recorded>>,
           \A r \in recorded :
               (IF r.ts >= purgeWm' THEN r \in metrics' ELSE RowOf(r) \in metrics_5m')
                  <=> (IF r.ts >= purgeWm THEN r \in metrics ELSE RowOf(r) \in metrics_5m)
    PROVE  UNCHANGED Store!vars
  <1>1. \A r : RowOf(r)' = RowOf(r)
    BY DEF RowOf
  <1>2. Known' = Known
    BY <1>1 DEF Known
  <1> QED
    BY <1>2 DEF Store!vars

\* A step that changes neither the tables nor the boundary.
LEMMA KnownFrame ==
    ASSUME UNCHANGED <<recorded, metrics, metrics_5m, purgeWm>>
    PROVE  Known' = Known
  BY DEF Known, RowOf

\* A step after which fewer samples are known, all the lost ones past the retention.
LEMMA ForgetImplements ==
    ASSUME UNCHANGED <<now, peak, recorded>>, Known' \subseteq Known,
           \A r \in Known \ Known' : r.ts < peak - AGG_RETENTION
    PROVE  Store!Next
  <1>1. Store!Forget
    BY DEF Store!Forget
  <1> QED
    BY <1>1 DEF Store!Next

LEMMA ClockImplements ==
    ASSUME IInv, ClockAdvances \/ ClockStepsBack
    PROVE  Store!Next
  <1>1. UNCHANGED <<recorded, metrics, metrics_5m, purgeWm>>
    BY DEF ClockAdvances, ClockStepsBack, SetBack, tables, memory
  <1>2. now' # now /\ peak' = IF now' > peak THEN now' ELSE peak
    <2>1. now \in Nat /\ peak \in Nat /\ now <= peak
      BY DEF IInv, TypeOK
    <2>2. CASE ClockAdvances
      <3>1. PICK d \in 1..MaxJump : now' = now + d
        BY <2>2 DEF ClockAdvances
      <3>2. now' \in Nat /\ now' # now
        BY <2>1, <3>1, ClockAssumption
      <3> QED
        BY <2>1, <2>2, <3>2 DEF ClockAdvances, Greater
    <2>3. CASE ClockStepsBack
      <3>1. PICK t \in BootTime..MaxNow : now' = t /\ t < now /\ peak' = peak
        BY <2>3 DEF ClockStepsBack, SetBack
      <3>2. t \in Int
        BY <3>1, ClockAssumption
      <3> QED
        BY <2>1, <3>1, <3>2
    <2> QED
      BY <2>2, <2>3
  <1>3. Store!Clock
    BY <1>1, <1>2, KnownFrame DEF Store!Clock
  <1> QED
    BY <1>3 DEF Store!Next

LEMMA RecordImplements ==
    ASSUME HInv, NEW batch \in SUBSET Series, NEW val \in [Series -> Values],
           Record(batch, val)
    PROVE  Store!Next
  <1> DEFINE new == New(batch, val)
  <1>1. /\ recorded' = recorded \cup new /\ metrics' = metrics \cup new
        /\ UNCHANGED <<now, peak, metrics_5m, purgeWm>>
        /\ Keep(batch) \in SUBSET Series /\ Keep(batch) # {}
    BY DEF Record, New, clock, Keep
  <1>2. purgeWm \in Int /\ Align(purgeWm) = purgeWm /\ now \in Int /\ purgeWm <= now
    BY EdgesOf, NowAboveBoundary DEF HInv, IInv, TypeOK
  <1>3. \A r \in new : r.ts = now
    BY DEF New
  <1>4. \A r \in recorded : r.ts \in Int
    BY DEF HInv, IInv, TypeOK, Row
  <1>5. \A r \in recorded : r.ts < purgeWm => RowOf(r)' = RowOf(r)
    <2>1. SUFFICES ASSUME NEW r \in recorded, r.ts < purgeWm PROVE RowOf(r)' = RowOf(r)
      OBVIOUS
    <2>2. Align(r.ts) \in Int /\ Align(r.ts) < purgeWm
      BY <1>2, <1>4, <2>1, WindowOfBuckets, AlignFacts
    <2>3. SamplesOf(recorded \cup new, r.series, Align(r.ts))
             = SamplesOf(recorded, r.series, Align(r.ts))
      BY <2>2, OldBuckets DEF HInv
    <2> QED
      BY <1>1, <2>3 DEF RowOf
  <1> HIDE DEF new
  <1>6. Known' = Known \cup new
    <2> DEFINE Now(r) == IF r.ts >= purgeWm THEN r \in metrics ELSE RowOf(r) \in metrics_5m
               Then(r) == IF r.ts >= purgeWm' THEN r \in metrics' ELSE RowOf(r)' \in metrics_5m'
    <2>1. Known = {r \in recorded : Now(r)} /\ Known' = {r \in recorded' : Then(r)}
      BY DEF Known
    <2>2. \A r \in new : Then(r)
      BY <1>1, <1>2, <1>3
    <2>3. \A r \in recorded : r \notin new => (Then(r) <=> Now(r))
      BY <1>1, <1>2, <1>4, <1>5
    <2> HIDE DEF Now, Then
    <2> QED
      BY <1>1, <2>1, <2>2, <2>3
  <1>7. Store!Write(Keep(batch), val)
    <2> DEFINE kept == Keep(batch)
    <2>1. new = {[rowid |-> Cardinality(recorded), series |-> s, ts |-> now,
                  value |-> val[s]] : s \in kept}
      BY DEF new, New
    <2> HIDE DEF kept
    <2>2. kept # {}
      BY <1>1 DEF kept
    <2>3. Store!Cardinality(recorded) = Cardinality(recorded)
      BY Zenon DEF Cardinality, Store!Cardinality
    <2>4. Store!Write(kept, val)
      BY <1>1, <1>6, <2>1, <2>2, <2>3 DEF Store!Write
    <2> QED
      BY <2>4 DEF kept
  <1> QED
    BY <1>1, <1>7 DEF Store!Next

\* Until something was deleted, every sample is known wherever the boundary is.
LEMMA StartImplements ==
    ASSUME HInv, Restart \/ RollupBegin
    PROVE  UNCHANGED Store!vars
  <1>1. UNCHANGED <<now, peak, recorded, metrics, metrics_5m>>
    BY DEF Restart, RollupBegin, clock, tables
  <1>2. CASE purgeWm' = purgeWm
    BY <1>1, <1>2, KnownFrame DEF Store!vars
  <1>3. CASE purgeWm' # purgeWm
    <2>1. metrics = recorded
      <3>1. CASE Restart
        <4>1. meta.purge = 0
          BY <1>3, <3>1 DEF Restart, HInv, IInv, WatermarksOrdered
        <4> QED
          BY <4>1 DEF HInv, IInv, BoundaryBehindClock
      <3>2. CASE RollupBegin
        <4>1. purgeWm = 0
          BY <1>3, <3>2 DEF RollupBegin, Seeded
        <4> QED
          BY <4>1 DEF HInv, IInv, BoundaryBehindClock, WatermarksOrdered
      <3> QED
        BY <3>1, <3>2
    <2>2. TierInv'
      BY RestartTier, RollupBeginTier
    <2>3. \A r \in recorded : r.ts >= purgeWm
      <3>1. \A r \in recorded : r.ts \in Int /\ purgeWm <= r.ts
        BY <2>1 DEF HInv, TierInv, RawComplete, IInv, TypeOK, Row
      <3> QED
        BY <3>1, EdgesOf DEF HInv
    <2>4. \A r \in recorded : r.ts >= purgeWm'
      <3>1. \A r \in recorded : r.ts \in Int /\ purgeWm' <= r.ts
        BY <1>1, <2>1, <2>2 DEF TierInv, RawComplete, HInv, IInv, TypeOK, Row
      <3>2. purgeWm' \in Int
        BY RestartInv, RollupBeginInv DEF HInv, IInv, TypeOK
      <3> QED
        BY <3>1, <3>2
    <2> QED
      BY <1>1, <2>1, <2>3, <2>4, StutterImplements
  <1> QED
    BY <1>2, <1>3

LEMMA DropImplements == ASSUME HInv, DropChunk PROVE Store!Next
  <1> DEFINE hi == ChunkEnd(purgeWm, floorTs)
  <1>1. /\ DropPending
        /\ metrics' = Outside(metrics, purgeWm, hi)
        /\ purgeWm' = hi
        /\ UNCHANGED <<now, peak, recorded, metrics_5m>>
    BY DEF DropChunk, clock
  <1>2. /\ hi \in Int /\ purgeWm < hi /\ hi <= floorTs
        /\ floorTs \in Int /\ floorTs <= KeptFrom /\ KeptFrom \in Int /\ purgeWm \in Int
    BY <1>1, DropWindow, KeptType, EdgesOf DEF HInv
  <1>3. /\ peak - AGG_RETENTION \in Int /\ KeptFrom <= peak - AGG_RETENTION
    <2>1. peak - AGG_RETENTION \in Int
      BY RetentionAssumption DEF HInv, IInv, TypeOK
    <2> QED
      BY <2>1, AlignFacts DEF KeptFrom
  <1> HIDE DEF hi
  <1>4. \A r \in recorded : r.ts \in Int
    BY DEF HInv, IInv, TypeOK, Row
  <1>5. \A r \in recorded : purgeWm <= r.ts => r \in metrics
    BY DEF HInv, TierInv, RawComplete
  <1>6. \A r : RowOf(r)' = RowOf(r)
    BY <1>1 DEF RowOf
  <1>7. Known' \subseteq Known
    BY <1>1, <1>2, <1>4, <1>5, <1>6 DEF Known
  <1>8. \A r \in Known \ Known' : r.ts < hi
    BY <1>1, <1>2, <1>4, <1>6 DEF Known, Outside
  <1>9. \A r \in Known \ Known' : r.ts < peak - AGG_RETENTION
    <2>1. \A r \in Known : r.ts \in Int
      BY <1>4 DEF Known
    <2> QED
      BY <1>2, <1>3, <1>8, <2>1
  <1> QED
    BY <1>1, <1>7, <1>9, ForgetImplements

LEMMA AggImplements == ASSUME HInv, AggChunk PROVE UNCHANGED Store!vars
  <1> DEFINE lo == aggWm
             hi == ChunkEnd(lo, aggTarget)
  <1>1. /\ AggPending
        /\ metrics_5m' = Replace(metrics_5m, RollupRows(metrics, lo, hi))
        /\ UNCHANGED <<now, peak, recorded, metrics, purgeWm>>
    BY DEF AggChunk, clock
  <1>2. /\ lo \in Int /\ Align(lo) = lo /\ hi \in Int /\ Align(hi) = hi
        /\ purgeWm \in Int /\ Align(purgeWm) = purgeWm /\ purgeWm <= lo
    BY <1>1, AggWindow, EdgesOf DEF HInv
  <1>3. metrics_5m' = {RowOf(r) : r \in Chunk(lo, hi)}
                         \cup {t \in metrics_5m : ~(lo <= t.bucket /\ t.bucket < hi)}
    BY <1>1, <1>2, ChunkTable
  <1> HIDE DEF lo, hi
  <1>4. \A r \in recorded : r.ts \in Int /\ Align(r.ts) \in Int
    BY AlignFacts DEF HInv, IInv, TypeOK, Row
  <1>5. ASSUME NEW r \in recorded, r.ts < purgeWm
        PROVE  RowOf(r) \in metrics_5m' <=> RowOf(r) \in metrics_5m
    <2>1. Align(r.ts) < purgeWm /\ Align(r.ts) \in Int
      BY <1>2, <1>4, <1>5, WindowOfBuckets
    <2>2. RowOf(r).bucket < lo /\ RowOf(r).bucket \in Int
      BY <1>2, <2>1, RowOfFields
    <2>3. \A q \in Chunk(lo, hi) : RowOf(q).bucket \in Int /\ lo <= RowOf(q).bucket
      <3>1. \A q \in Chunk(lo, hi) : q \in recorded /\ lo <= q.ts
        BY DEF Chunk
      <3> QED
        BY <1>2, <1>4, <3>1, RowOfFields, WindowOfBuckets
    <2>4. RowOf(r) \notin {RowOf(q) : q \in Chunk(lo, hi)}
      BY <1>2, <2>2, <2>3
    <2> QED
      BY <1>2, <1>3, <2>2, <2>4
  <1> QED
    BY <1>1, <1>2, <1>4, <1>5, StutterImplements

LEMMA PurgeImplements == ASSUME HInv, PurgeChunk PROVE UNCHANGED Store!vars
  <1> DEFINE lo == purgeWm
             hi == ChunkEnd(lo, purgeLimit)
  <1>1. /\ PurgePending
        /\ metrics_5m' = Replace(metrics_5m, RollupRows(metrics, lo, hi))
        /\ metrics' = Outside(metrics, lo, hi)
        /\ purgeWm' = hi
        /\ UNCHANGED <<now, peak, recorded>>
    BY DEF PurgeChunk, clock
  <1>2. /\ lo \in Int /\ Align(lo) = lo /\ hi \in Int /\ Align(hi) = hi /\ lo < hi
    BY <1>1, PurgeWindow, EdgesOf DEF HInv
  <1>3. metrics_5m' = {RowOf(r) : r \in Chunk(lo, hi)}
                         \cup {t \in metrics_5m : ~(lo <= t.bucket /\ t.bucket < hi)}
    BY <1>1, <1>2, ChunkTable
  <1> HIDE DEF hi
  <1>4. \A r \in recorded : r.ts \in Int /\ Align(r.ts) \in Int
    BY AlignFacts DEF HInv, IInv, TypeOK, Row
  <1>5. \A r \in recorded : lo <= r.ts => r \in metrics
    BY DEF HInv, TierInv, RawComplete
  <1>6. ASSUME NEW r \in recorded, r.ts < lo
        PROVE  RowOf(r) \in metrics_5m' <=> RowOf(r) \in metrics_5m
    <2>1. Align(r.ts) < lo /\ Align(r.ts) \in Int
      BY <1>2, <1>4, <1>6, WindowOfBuckets
    <2>2. RowOf(r).bucket < lo /\ RowOf(r).bucket \in Int
      BY <1>2, <2>1, RowOfFields
    <2>3. \A q \in Chunk(lo, hi) : RowOf(q).bucket \in Int /\ lo <= RowOf(q).bucket
      <3>1. \A q \in Chunk(lo, hi) : q \in recorded /\ lo <= q.ts
        BY DEF Chunk
      <3> QED
        BY <1>2, <1>4, <3>1, RowOfFields, WindowOfBuckets
    <2>4. RowOf(r) \notin {RowOf(q) : q \in Chunk(lo, hi)}
      BY <1>2, <2>2, <2>3
    <2> QED
      BY <1>2, <1>3, <2>2, <2>4
  <1>7. ASSUME NEW r \in recorded, lo <= r.ts, r.ts < hi PROVE RowOf(r) \in metrics_5m'
    BY <1>3, <1>7 DEF Chunk
  <1>8. ASSUME NEW r \in recorded, hi <= r.ts PROVE r \in metrics'
    BY <1>1, <1>2, <1>4, <1>5, <1>8 DEF Outside
  <1> QED
    <2>1. SUFFICES ASSUME NEW r \in recorded
                   PROVE  (IF r.ts >= hi THEN r \in metrics' ELSE RowOf(r) \in metrics_5m')
                             <=> (IF r.ts >= lo THEN r \in metrics ELSE RowOf(r) \in metrics_5m)
      BY <1>1, StutterImplements
    <2>2. CASE r.ts < lo
      BY <1>2, <1>4, <1>6, <2>2
    <2>3. CASE lo <= r.ts /\ r.ts < hi
      BY <1>2, <1>4, <1>5, <1>7, <2>3
    <2>4. CASE hi <= r.ts
      BY <1>2, <1>4, <1>5, <1>8, <2>4
    <2> QED
      BY <1>2, <1>4, <2>2, <2>3, <2>4

LEMMA CleanupImplements == ASSUME HInv, Cleanup PROVE Store!Next
  <1>1. /\ metrics_5m' = {t \in metrics_5m : t.bucket >= SweepCutoff}
        /\ UNCHANGED <<now, peak, recorded, metrics, purgeWm>>
    BY DEF Cleanup, clock, memory
  <1>2. /\ SweepCutoff \in Int /\ Align(SweepCutoff) = SweepCutoff
        /\ SweepCutoff <= now - AGG_RETENTION
        /\ now \in Nat /\ peak \in Nat /\ now <= peak /\ AGG_RETENTION \in Nat
    BY SweepReach, RetentionAssumption DEF HInv, IInv, TypeOK
  <1>3. \A r : RowOf(r)' = RowOf(r)
    BY <1>1 DEF RowOf
  <1>4. Known' \subseteq Known
    BY <1>1, <1>3 DEF Known
  <1>5. ASSUME NEW r \in Known \ Known' PROVE r.ts < peak - AGG_RETENTION
    <2>1. r \in recorded /\ RowOf(r) \in metrics_5m /\ RowOf(r) \notin metrics_5m'
      BY <1>1, <1>3 DEF Known
    <2>2. r.ts \in Int /\ Align(r.ts) \in Int
      BY <2>1, AlignFacts DEF HInv, IInv, TypeOK, Row
    <2>3. Align(r.ts) < SweepCutoff
      BY <1>1, <1>2, <2>1, <2>2, RowOfFields
    <2>4. r.ts < SweepCutoff
      BY <1>2, <2>2, <2>3, WindowOfBuckets
    <2> QED
      BY <1>2, <2>2, <2>4
  <1> QED
    BY <1>1, <1>4, <1>5, ForgetImplements

\* Every step of the two tiers is a step of the plain store, or none.
LEMMA StepImplements == HInv /\ [Next]_vars => [Store!Next]_Store!vars
  <1> SUFFICES ASSUME HInv, [Next]_vars PROVE Store!Next \/ UNCHANGED Store!vars
    OBVIOUS
  <1>1. CASE UNCHANGED vars
    BY <1>1, KnownFrame DEF vars, Store!vars
  <1>2. CASE ClockAdvances \/ ClockStepsBack
    BY <1>2, ClockImplements DEF HInv
  <1>3. CASE Restart \/ RollupBegin
    BY <1>3, StartImplements
  <1>4. ASSUME NEW batch \in SUBSET Series, NEW val \in [Series -> Values],
               Record(batch, val)
        PROVE  Store!Next
    BY <1>4, RecordImplements
  <1>5. ASSUME NEW batch \in SUBSET Series, RecordFails(batch)
        PROVE  UNCHANGED Store!vars
    BY <1>5, KnownFrame DEF RecordFails, clock, tables, Store!vars
  <1>6. CASE DropChunk
    BY <1>6, DropImplements
  <1>7. CASE AggChunk
    BY <1>7, AggImplements
  <1>8. CASE PurgeChunk
    BY <1>8, PurgeImplements
  <1>9. CASE PhaseEnds \/ ChunkFails
    BY <1>9, KnownFrame DEF PhaseEnds, ChunkFails, NextPhase, clock, tables, Store!vars
  <1>10. CASE Cleanup
    BY <1>10, CleanupImplements
  <1> QED
    BY <1>1, <1>2, <1>3, <1>4, <1>5, <1>6, <1>7, <1>8, <1>9, <1>10 DEF Next, RollupStep

\* Tiers, watermarks, chunks, sweeps, failures and crashes change nothing a reader can
\* learn: a sample is known from the moment it was recorded and forgotten only past the
\* retention.
THEOREM TiersImplementStore == Spec => ImplementsStore
  BY InitImplements, StepImplements, TiersExact, PTL
  DEF Spec, ImplementsStore, Store!Spec

=============================================================================
