-------------------------------- MODULE Tsdb --------------------------------
(***************************************************************************)
(* The two-tier SQLite time series, server/store/sqlite.js.                *)
(*                                                                         *)
(* Raw samples (table metrics) are folded into per-bucket rows (table      *)
(* metrics_5m) once they are AGG_AFTER old and deleted once they are       *)
(* PURGE_AFTER old, one chunk per transaction.  Between two chunks the     *)
(* rollup gives the event loop back, so pushes, the retention sweep, the   *)
(* clock and a crash fall anywhere between its steps.                      *)
(*                                                                         *)
(* A bucket row carries its count, minimum and maximum; its average and    *)
(* the instants of its extremes are left out.  A bucket is named by its    *)
(* first second, as in the table.                                          *)
(***************************************************************************)
EXTENDS Integers, FiniteSets, FiniteSetsExt

CONSTANTS
    Series,             \* <<target, metric>> pairs
    Values,             \* sample values
    BUCKET_SEC, CHUNK_SEC, MAX_CHUNKS_PER_RUN, DOWNSAMPLE_SEC,
    AGG_AFTER, PURGE_AFTER, AGG_RETENTION,      \* in seconds
    BootTime,           \* the wall clock when the database is created
    MaxJump,            \* bound: the furthest the clock advances in one step
    MaxStepBack,        \* how far below its highest reading the clock may be
    MaxNow,             \* bound: the clock stops here
    MaxSamples,         \* bound: samples ever recorded
    MaxFaults           \* bound: crashes, failed transactions and clock corrections

ASSUME GeometryAssumption ==
    /\ BUCKET_SEC \in Nat \ {0}
    /\ CHUNK_SEC \in Nat \ {0}
    /\ CHUNK_SEC % BUCKET_SEC = 0
    /\ MAX_CHUNKS_PER_RUN \in Nat \ {0}
    /\ DOWNSAMPLE_SEC \in Nat

ASSUME RetentionAssumption ==
    /\ AGG_AFTER \in Nat
    /\ PURGE_AFTER \in Nat
    /\ AGG_RETENTION \in Nat
    /\ AGG_AFTER < PURGE_AFTER
    /\ PURGE_AFTER <= AGG_RETENTION

\* The clock a hub runs on: past the epoch by more than the retention, and
\* corrected backwards by no more than the raw tier spans.
ASSUME ClockAssumption ==
    /\ BootTime \in Nat
    /\ BootTime >= AGG_RETENTION + 2 * BUCKET_SEC
    /\ MaxStepBack \in 0..PURGE_AFTER
    /\ MaxJump \in Nat /\ MaxNow \in Nat
    /\ MaxSamples \in Nat /\ MaxFaults \in Nat

ASSUME DataAssumption ==
    /\ IsFiniteSet(Series)
    /\ Values \subseteq Int

VARIABLES
    now,          \* the wall clock, Date.now() / 1000
    peak,         \* auxiliary: the highest reading of the clock so far
    metrics,      \* the raw table: rows [rowid, series, ts, value]
    metrics_5m,   \* the bucket table: rows [series, bucket, n, vmin, vmax]
    meta,         \* tsdb_meta: the two durable watermarks, 0 when absent
    aggWm,        \* this._aggWm
    purgeWm,      \* this._purgeWm
    lastWrite,    \* this._lastWrite, 0 when absent
    pc,           \* where the running rollup is, "idle" when none runs
    rollNow,      \* the `now` the running rollup took at its start, 0 between runs
    chunks,       \* chunks this phase budget has used
    yielded,      \* the running rollup has given the event loop back
    recorded,     \* auxiliary: every row ever inserted into metrics
    faults        \* crashes, failed transactions and clock corrections so far

clock == <<now, peak>>
memory == <<aggWm, purgeWm, lastWrite, pc, rollNow, chunks, yielded>>
tables == <<metrics, metrics_5m, meta>>
vars == <<now, peak, metrics, metrics_5m, meta, aggWm, purgeWm, lastWrite, pc,
          rollNow, chunks, yielded, recorded, faults>>

Phases == {"idle", "drop", "agg", "purge"}

-----------------------------------------------------------------------------
(* Buckets. *)

Align(t) == (t \div BUCKET_SEC) * BUCKET_SEC

Lesser(a, b) == IF a <= b THEN a ELSE b
Greater(a, b) == IF a >= b THEN a ELSE b

BucketKeys(rows) == {Align(r.ts) : r \in rows}

\* The rows of table T of one series within [lo, hi).
RowsIn(T, s, lo, hi) == {r \in T : r.series = s /\ lo <= r.ts /\ r.ts < hi}

\* The samples of T that bucket b of series s is built from.
SamplesOf(T, s, b) == {r \in T : r.series = s /\ Align(r.ts) = b}

\* What the three sub-selects of the rollup join for one bucket.
BucketRow(s, b, rows) ==
    [series |-> s, bucket |-> b, n |-> Cardinality(rows),
     vmin |-> Min({r.value : r \in rows}), vmax |-> Max({r.value : r \in rows})]

\* The SELECT of _qRollupIns for every series: one row for each bucket that has
\* a raw sample in [lo, hi).
RollupRows(T, lo, hi) ==
    UNION {{BucketRow(s, b, SamplesOf(RowsIn(T, s, lo, hi), s, b)) :
               b \in BucketKeys(RowsIn(T, s, lo, hi))} : s \in Series}

\* INSERT OR REPLACE, the primary key being (series, bucket).
Replace(T, rows) ==
    rows \cup {t \in T : \A r \in rows : r.series # t.series \/ r.bucket # t.bucket}

Count(row) == row.n

\* Wrong on purpose, to show that RawTierDrains sees it: the count takes in the row on the
\* upper edge.
VerifiedInclusive(T, T5, lo, hi) ==
    \A s \in {r.series : r \in T} :
        Cardinality(RowsIn(T, s, lo, hi + 1)) =
            MapThenSumSet(Count, {t \in T5 : t.series = s /\ lo <= t.bucket /\ t.bucket < hi})

\* _verify: SUM(n) over the buckets of [lo, hi) against COUNT(*) of the raw rows,
\* for every series the raw table names.
Verified(T, T5, lo, hi) ==
    \A s \in {r.series : r \in T} :
        Cardinality(RowsIn(T, s, lo, hi)) =
            MapThenSumSet(Count, {t \in T5 : t.series = s /\ lo <= t.bucket /\ t.bucket < hi})

\* Wrong on purpose, to show that StoreInvariant sees it: the first instant of the chunk
\* stays.
OutsideLowerEdge(T, lo, hi) == {r \in T : ~(lo < r.ts /\ r.ts < hi)}

\* Wrong on purpose, to show that StoreSteps sees it: the next chunk's first row goes.
OutsideUpperEdge(T, lo, hi) == {r \in T : ~(lo <= r.ts /\ r.ts <= hi)}

\* What the DELETE of one chunk leaves.
Outside(T, lo, hi) == {r \in T : ~(lo <= r.ts /\ r.ts < hi)}

-----------------------------------------------------------------------------
(* The process and its clock. *)

Init ==
    /\ now = BootTime /\ peak = BootTime
    /\ metrics = {} /\ metrics_5m = {} /\ meta = [agg |-> 0, purge |-> 0]
    /\ aggWm = 0 /\ purgeWm = 0
    /\ lastWrite = [s \in Series |-> 0]
    /\ pc = "idle" /\ rollNow = 0 /\ chunks = 0 /\ yielded = FALSE
    /\ recorded = {} /\ faults = 0

\* Time passes, or the host wakes from a suspension.
ClockAdvances ==
    /\ \E d \in 1..MaxJump :
          /\ now + d <= MaxNow
          /\ now' = now + d
    /\ peak' = Greater(peak, now')
    /\ UNCHANGED <<tables, memory, recorded, faults>>

\* NTP pulls a fast clock back to t.
SetBack(t) ==
    /\ peak - MaxStepBack <= t /\ t < now
    /\ faults < MaxFaults
    /\ faults' = faults + 1
    /\ now' = t
    /\ UNCHANGED <<peak, tables, memory, recorded>>

\* The corrections the database is built for never fall behind the bucket of its
\* oldest sample.
ClockStepsBack ==
    \E t \in BootTime..MaxNow :
        /\ recorded = {} \/ \E r \in recorded : Align(r.ts) <= t
        /\ SetBack(t)

\* The hub dies and starts again: what is in memory is read back from tsdb_meta.
Restart ==
    /\ faults < MaxFaults
    /\ faults' = faults + 1
    /\ aggWm' = meta.agg /\ purgeWm' = meta.purge
    /\ lastWrite' = [s \in Series |-> 0]
    /\ pc' = "idle" /\ rollNow' = 0 /\ chunks' = 0 /\ yielded' = FALSE
    /\ UNCHANGED <<clock, tables, recorded>>

-----------------------------------------------------------------------------
(* record(rows). *)

\* Handlers run when the event loop is free.  (The clock and a crash need no loop.)
LoopFree == pc = "idle" \/ yielded

\* A last write in the future is a clock fault and suppresses nothing.
Suppressed(s) == now >= lastWrite[s] /\ now - lastWrite[s] < DOWNSAMPLE_SEC

\* The series of a batch the downsampler lets through.
Keep(batch) == {s \in batch : ~Suppressed(s)}

Record(batch, val) ==
    LET new == {[rowid |-> Cardinality(recorded), series |-> s, ts |-> now,
                 value |-> val[s]] : s \in Keep(batch)}
    IN  /\ LoopFree
        /\ Keep(batch) # {}
        /\ Cardinality(recorded) + Cardinality(Keep(batch)) <= MaxSamples
        /\ lastWrite' = [s \in Series |-> IF s \in Keep(batch) THEN now ELSE lastWrite[s]]
        /\ metrics' = metrics \cup new
        /\ recorded' = recorded \cup new
        /\ UNCHANGED <<clock, metrics_5m, meta, aggWm, purgeWm, pc, rollNow, chunks,
                       yielded, faults>>

\* The insert transaction throws: the last-write marks are already set.
RecordFails(batch) ==
    /\ LoopFree
    /\ Keep(batch) # {}
    /\ faults < MaxFaults
    /\ faults' = faults + 1
    /\ lastWrite' = [s \in Series |-> IF s \in Keep(batch) THEN now ELSE lastWrite[s]]
    /\ UNCHANGED <<clock, tables, aggWm, purgeWm, pc, rollNow, chunks, yielded, recorded>>

-----------------------------------------------------------------------------
(* rollup(): one action per chunk transaction, and one per phase that ends. *)

aggTarget == Align(rollNow - AGG_AFTER)
purgeTarget == Align(rollNow - PURGE_AFTER)
floorTs == Align(rollNow - AGG_RETENTION)
purgeLimit == Lesser(purgeTarget, aggWm)

Budget == chunks < MAX_CHUNKS_PER_RUN
ChunkEnd(lo, limit) == Lesser(lo + CHUNK_SEC, limit)

\* The oldest raw sample; a database without watermarks starts there.
qOldest == Min({r.ts : r \in metrics})
Seeded(wm) == IF wm = 0 THEN Align(qOldest) ELSE wm

\* A tick while a rollup runs returns at once, as does one on an empty database
\* that has no watermarks: neither changes anything.
RollupBegin ==
    /\ pc = "idle"
    /\ metrics = {} => aggWm # 0 /\ purgeWm # 0
    /\ rollNow' = now
    /\ aggWm' = Seeded(aggWm) /\ purgeWm' = Seeded(purgeWm)
    /\ pc' = "drop" /\ chunks' = 0 /\ yielded' = FALSE
    /\ UNCHANGED <<clock, tables, lastWrite, recorded, faults>>

DropPending == pc = "drop" /\ purgeWm < floorTs /\ Budget
AggPending == pc = "agg" /\ aggWm < aggTarget /\ Budget
PurgePending == pc = "purge" /\ purgeWm < purgeLimit /\ Budget

\* The aggregation mark a drop stores: moved up only, as nothing below hi is left.
DropAggMark(hi) == IF hi > aggWm THEN hi ELSE meta.agg

\* Raw rows older than the aggregate tier keeps are past saving.
DropChunk ==
    LET lo == purgeWm
        hi == ChunkEnd(lo, floorTs)
    IN  /\ DropPending
        /\ metrics' = Outside(metrics, lo, hi)
        /\ meta' = [agg |-> DropAggMark(hi), purge |-> hi]
        /\ purgeWm' = hi
        /\ aggWm' = Greater(aggWm, hi)
        /\ chunks' = chunks + 1
        /\ yielded' = (hi < floorTs /\ chunks' < MAX_CHUNKS_PER_RUN)
        /\ UNCHANGED <<clock, metrics_5m, lastWrite, pc, rollNow, recorded, faults>>

\* Buckets are written and the aggregation watermark moves with them.
AggChunk ==
    LET lo == aggWm
        hi == ChunkEnd(lo, aggTarget)
    IN  /\ AggPending
        /\ metrics_5m' = Replace(metrics_5m, RollupRows(metrics, lo, hi))
        /\ Verified(metrics, metrics_5m', lo, hi)
        /\ meta' = [meta EXCEPT !.agg = hi]
        /\ aggWm' = hi
        /\ chunks' = chunks + 1
        /\ yielded' = (hi < aggTarget /\ chunks' < MAX_CHUNKS_PER_RUN)
        /\ UNCHANGED <<clock, metrics, purgeWm, lastWrite, pc, rollNow, recorded, faults>>

\* Buckets are rebuilt from the raw rows, verified, and the raw rows deleted.
PurgeChunk ==
    LET lo == purgeWm
        hi == ChunkEnd(lo, purgeLimit)
    IN  /\ PurgePending
        /\ metrics_5m' = Replace(metrics_5m, RollupRows(metrics, lo, hi))
        /\ Verified(metrics, metrics_5m', lo, hi)
        /\ metrics' = Outside(metrics, lo, hi)
        /\ meta' = [meta EXCEPT !.purge = hi]
        /\ purgeWm' = hi
        /\ chunks' = chunks + 1
        /\ yielded' = (hi < purgeLimit /\ chunks' < MAX_CHUNKS_PER_RUN)
        /\ UNCHANGED <<clock, aggWm, lastWrite, pc, rollNow, recorded, faults>>

\* The next chunk to aggregate or purge cannot be verified: its transaction throws.
CannotVerify(lo, limit) ==
    LET hi == ChunkEnd(lo, limit)
    IN  ~Verified(metrics, Replace(metrics_5m, RollupRows(metrics, lo, hi)), lo, hi)

VerifyFails ==
    \/ AggPending /\ CannotVerify(aggWm, aggTarget)
    \/ PurgePending /\ CannotVerify(purgeWm, purgeLimit)

\* The phases run in this order.  The first two share one chunk budget, the purge
\* has its own.
NextPhase ==
    /\ pc' = [drop |-> "agg", agg |-> "purge", purge |-> "idle"][pc]
    /\ chunks' = IF pc = "drop" THEN chunks ELSE 0
    /\ yielded' = FALSE
    /\ rollNow' = IF pc = "purge" THEN 0 ELSE rollNow
    /\ UNCHANGED <<clock, tables, aggWm, purgeWm, lastWrite, recorded>>

\* A phase's loop ends: nothing left in reach, or a chunk that does not verify.
PhaseEnds ==
    /\ pc # "idle"
    /\ DropPending \/ AggPending \/ PurgePending => VerifyFails
    /\ NextPhase
    /\ UNCHANGED faults

\* A chunk's transaction throws (a full disk, a locked file): the loop breaks.
ChunkFails ==
    /\ DropPending \/ AggPending \/ PurgePending
    /\ faults < MaxFaults
    /\ faults' = faults + 1
    /\ NextPhase

\* Wrong on purpose, to show that ImplementsStore sees it: the larger of the two limits.
SweepUnclamped == Greater(Align(now - AGG_RETENTION), purgeWm)

\* Aged buckets, but none the purge has still to look at.
SweepCutoff == Lesser(Align(now - AGG_RETENTION), purgeWm)

\* The hourly sweep of the bucket table.
Cleanup ==
    /\ LoopFree
    /\ SweepCutoff > 0
    /\ metrics_5m' = {t \in metrics_5m : t.bucket >= SweepCutoff}
    /\ UNCHANGED <<clock, metrics, meta, memory, recorded, faults>>

RollupStep == RollupBegin \/ DropChunk \/ AggChunk \/ PurgeChunk \/ PhaseEnds

Next ==
    \/ ClockAdvances
    \/ ClockStepsBack
    \/ Restart
    \/ \E batch \in SUBSET Series, val \in [Series -> Values] : Record(batch, val)
    \/ \E batch \in SUBSET Series : RecordFails(batch)
    \/ RollupStep
    \/ ChunkFails
    \/ Cleanup

Spec == Init /\ [][Next]_vars

\* setInterval keeps calling rollup(), and a started rollup runs on; nothing makes
\* the clock, a push, a fault or the sweep happen.
FairSpec == Spec /\ WF_vars(RollupStep)

-----------------------------------------------------------------------------
(* history(target, metric, since): which tier answers for which instant. *)

RawPart(s, since) == {r \in metrics : r.series = s /\ r.ts >= Greater(since, purgeWm)}
\* Wrong on purpose, to show that HistoryVerified sees it: the other watermark as the
\* boundary.
BucketPartToAgg(s, since) ==
    {t \in metrics_5m : t.series = s /\ since <= t.bucket /\ t.bucket < aggWm}

BucketPart(s, since) ==
    {t \in metrics_5m : t.series = s /\ since <= t.bucket /\ t.bucket < purgeWm}

\* How many samples a read covers, and their extremes.
ReadCount(s, since) ==
    Cardinality(RawPart(s, since)) + MapThenSumSet(Count, BucketPart(s, since))
ReadValues(s, since) ==
    {r.value : r \in RawPart(s, since)} \cup
        UNION {{t.vmin, t.vmax} : t \in BucketPart(s, since)}

-----------------------------------------------------------------------------
(* Properties. *)

Row == [rowid : Nat, series : Series, ts : Nat, value : Values]
Bucket == [series : Series, bucket : Int, n : Nat, vmin : Values, vmax : Values]

\* Every variable holds what its column, field or counter can hold.
TypeOK ==
    /\ now \in Nat /\ peak \in Nat /\ now <= peak
    /\ recorded \subseteq Row /\ IsFiniteSet(recorded)
    /\ metrics \subseteq recorded
    /\ metrics_5m \subseteq Bucket
    /\ meta \in [agg : Int, purge : Int]
    /\ aggWm \in Int /\ purgeWm \in Int
    /\ lastWrite \in [Series -> Nat]
    /\ pc \in Phases
    /\ rollNow \in Nat /\ chunks \in 0..MAX_CHUNKS_PER_RUN
    /\ yielded \in BOOLEAN
    /\ faults \in Nat

\* The purge watermark never passes the aggregation one, both sit on a bucket edge,
\* and what is in memory is what a restart would read back, except the start a new
\* database seeds, which is not stored until its first chunk commits.
WatermarksOrdered ==
    /\ 0 <= purgeWm /\ purgeWm <= aggWm
    /\ Align(purgeWm) = purgeWm /\ Align(aggWm) = aggWm
    /\ meta.agg # 0 => meta.agg = aggWm
    /\ meta.purge # 0 => meta.purge = purgeWm

\* No raw row lies below the purge watermark, where history() asks the bucket table
\* and rollup() never looks again: a pushed sample cannot be stranded there by a
\* clock that was corrected backwards or by a push that lands between two chunks.
NoStrandedRaw == \A r \in metrics : purgeWm <= r.ts

\* w is at least the raw tier's span before t, and t at most that far after n.
Aged(w, t) == w + PURGE_AFTER <= t
InReach(n, t) == t <= n + PURGE_AFTER

\* Why no sample is stranded.  The boundary is either deep in the past of the highest
\* clock reading or where a new database starts, at the bucket of its oldest sample,
\* and the clock is behind neither.  Until the first chunk commits nothing was deleted,
\* so a restart seeds the watermarks where they were seeded before.
BoundaryBehindClock ==
    /\ BootTime <= now /\ InReach(now, peak) /\ rollNow <= peak
    /\ \A r \in recorded : BootTime <= r.ts
    /\ recorded # {} => \E r \in recorded : Align(r.ts) <= now
    /\ purgeWm # 0 =>
          /\ recorded # {}
          /\ Aged(purgeWm, peak) \/ \A r \in recorded : purgeWm <= r.ts
    /\ aggWm # 0 => \E r \in recorded : Align(r.ts) <= aggWm
    /\ pc # "idle" => purgeWm # 0 /\ aggWm # 0
    /\ aggWm = 0 => purgeWm = 0
    /\ meta.purge = 0 => metrics = recorded
    /\ meta.agg = 0 => meta.purge = 0 /\ aggWm = purgeWm

\* The oldest instant no sweep and no drop phase has reached yet.
KeptFrom == Align(peak - AGG_RETENTION)

\* history() counts every sample of its window exactly once and shows its extremes,
\* whichever tier holds it, at every point of a rollup and after every crash.
HistoryIsExact ==
    \A s \in Series : \A since \in {KeptFrom} \cup {Align(r.ts) : r \in recorded} :
        since >= KeptFrom =>
            LET samples == {r \in recorded : r.series = s /\ since <= r.ts}
                values == {r.value : r \in samples}
            IN  /\ ReadCount(s, since) = Cardinality(samples)
                /\ ReadValues(s, since) \subseteq values
                /\ samples # {} =>
                      /\ Min(values) \in ReadValues(s, since)
                      /\ Max(values) \in ReadValues(s, since)

\* A bucket's counters always agree with the raw rows about to be purged, so the
\* verification never refuses and the purge never wedges: no sweep, late sample or
\* earlier attempt leaves a bucket row in the way.
VerificationHolds == ~VerifyFails

\* A raw row leaves the raw tier only when it is past the retention, or when the same
\* transaction leaves an exact row for its bucket in the bucket table and moves the
\* durable watermark above it.
RawDroppedOnlyWhenBucketed ==
    [][\A r \in metrics \ metrics' :
          /\ r.ts < meta'.purge
          /\ \/ r.ts < floorTs
             \/ BucketRow(r.series, Align(r.ts), SamplesOf(recorded, r.series, Align(r.ts)))
                    \in metrics_5m'
      ]_vars

\* The watermarks a restart reads never go back, so no chunk is purged twice and none
\* is aggregated again from rows that are already gone.
DurableWatermarksAdvance ==
    [][meta'.agg >= meta.agg /\ meta'.purge >= meta.purge]_vars

\* However a run is interrupted, the rollup catches up: once the clock stands still
\* no raw row older than the raw tier's window remains.
RawTierDrains ==
    <>[](\A r \in metrics : r.ts >= Align(now - PURGE_AFTER))

\* The tables, cursors and counters of a database that loses nothing: well formed, and no
\* raw row where neither a read nor the rollup would find it.
StoreInvariant == TypeOK /\ NoStrandedRaw

\* What history() tells is exact, and the verification that guards each purge never stops it.
HistoryVerified == HistoryIsExact /\ VerificationHolds

\* What no step of the rollup may do: drop rows that are not in a bucket, or take a durable
\* watermark back.
StoreSteps == RawDroppedOnlyWhenBucketed /\ DurableWatermarksAdvance

=============================================================================
