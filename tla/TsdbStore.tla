----------------------------- MODULE TsdbStore ------------------------------
(***************************************************************************)
(* The two-tier database implements the plain history store.               *)
(***************************************************************************)
EXTENDS Tsdb

\* The row the bucket table should hold for the bucket of a sample.
RowOf(r) == BucketRow(r.series, Align(r.ts), SamplesOf(recorded, r.series, Align(r.ts)))

\* The samples history() answers from: at or above the purge watermark the raw rows,
\* below it the samples whose bucket has an exact row.
Known ==
    {r \in recorded :
        IF r.ts >= purgeWm THEN r \in metrics ELSE RowOf(r) \in metrics_5m}

Store == INSTANCE HistoryStore WITH issued <- recorded, known <- Known

\* Aggregating, purging, sweeping, restarting and failing change nothing a reader can
\* see, and a sample becomes unreadable only when it is older than the retention.
ImplementsStore == Store!Spec

=============================================================================
