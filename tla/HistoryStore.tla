---------------------------- MODULE HistoryStore ----------------------------
(***************************************************************************)
(* What a time series promises its readers: a sample that was written is   *)
(* known from that moment on, and is forgotten only once it is older than  *)
(* the retention.  There are no tiers, no watermarks, no rollup, no sweep  *)
(* and no crash here: none of them may change what a reader can learn.     *)
(***************************************************************************)
EXTENDS Integers, FiniteSets

CONSTANTS Series, Values, AGG_RETENTION, BootTime

VARIABLES
    now,      \* the wall clock
    peak,     \* its highest reading so far
    issued,   \* every sample written: [rowid, series, ts, value]
    known     \* the samples reads are answered from

vars == <<now, peak, issued, known>>

Init ==
    /\ now = BootTime /\ peak = BootTime
    /\ issued = {} /\ known = {}

\* The clock advances, or is corrected backwards.
Clock ==
    /\ now' # now
    /\ peak' = IF now' > peak THEN now' ELSE peak
    /\ UNCHANGED <<issued, known>>

\* One batch of samples, at most one of each series, all at the same instant.
Write(batch, val) ==
    LET new == {[rowid |-> Cardinality(issued), series |-> s, ts |-> now,
                 value |-> val[s]] : s \in batch}
    IN  /\ batch # {}
        /\ issued' = issued \cup new
        /\ known' = known \cup new
        /\ UNCHANGED <<now, peak>>

\* Some samples older than the retention are forgotten.
Forget ==
    /\ known' \subseteq known
    /\ \A r \in known \ known' : r.ts < peak - AGG_RETENTION
    /\ UNCHANGED <<now, peak, issued>>

Next ==
    \/ Clock
    \/ \E batch \in SUBSET Series, val \in [Series -> Values] : Write(batch, val)
    \/ Forget

Spec == Init /\ [][Next]_vars

=============================================================================
