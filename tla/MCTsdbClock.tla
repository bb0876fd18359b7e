---------------------------- MODULE MCTsdbClock -----------------------------
(* The same database on a host whose clock started fast: the first samples   *)
(* are stamped in the future and NTP then pulls the clock behind them.       *)
EXTENDS Tsdb

ClockWasFast == \E t \in BootTime..MaxNow : SetBack(t)

FastBootSpec == Init /\ [][Next \/ ClockWasFast]_vars

\* sqlite.js:346 of history(): "The two ranges are disjoint and adjacent, so no sample
\* is counted twice and none is skipped".
NoneSkipped ==
    \A s \in Series :
        LET samples == {r \in recorded : r.series = s /\ KeptFrom <= r.ts}
        IN  ReadCount(s, KeptFrom) = Cardinality(samples)

=============================================================================
