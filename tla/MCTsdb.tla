------------------------------- MODULE MCTsdb -------------------------------
(***************************************************************************)
(* A small database: buckets of two seconds, chunks of one or two buckets. *)
(* Beside it the steps that work out what is shown and recorded: readings  *)
(* to rates, readings to metrics and rows, tokens to columns.  They share  *)
(* nothing with one another, so a behaviour is one of a single part, and   *)
(* the variables of the others stand still.                                *)
(***************************************************************************)
EXTENDS Tsdb

CONSTANTS
    Cards, Levels, Warn, Danger, PowerCap, MaxAge, FreshLive,
    Ifaces, MaxCount, MaxGap,
    Models, Amounts, Nets, MaxRows

VARIABLES
    part,
    gpus, speed, live, shown,
    idle, busy, rx, prev, gap, rebooted, share, rate,
    rows, totals, excluded, columns

\* The first rule that matches a model decides its class.
Rules == <<"big", "all">>
Matches == [big |-> {"m1"}, all |-> {"m1", "m2"}]

C == INSTANCE CardMetrics WITH metrics <- shown, Values <- Levels
R == INSTANCE RateReaders
T == INSTANCE TokenPivot

ASSUME FiguresAssumption == C!CardsAssumption /\ R!RateAssumption /\ T!PivotAssumption

cardVars == <<gpus, speed, live, shown>>
rateVars == <<idle, busy, rx, prev, gap, rebooted, share, rate>>
pivotVars == <<rows, totals, excluded, columns>>
figures == <<cardVars, rateVars, pivotVars>>

NoCards == gpus = 0 /\ speed = 0 /\ live = 0 /\ shown = 0
NoRates ==
    /\ idle = 0 /\ busy = 0 /\ rx = 0 /\ prev = 0 /\ gap = 0 /\ rebooted = 0
    /\ share = 0 /\ rate = 0
NoPivot == rows = 0 /\ totals = 0 /\ excluded = 0 /\ columns = 0

PartsInit ==
    /\ Init
    /\ \/ part = "tsdb" /\ NoCards /\ NoRates /\ NoPivot
       \/ part = "cards" /\ C!Init /\ NoRates /\ NoPivot
       \/ part = "rates" /\ NoCards /\ R!Init /\ NoPivot
       \/ part = "pivot" /\ NoCards /\ NoRates /\ T!Init

PartsNext ==
    /\ UNCHANGED part
    /\ \/ part = "tsdb" /\ Next /\ UNCHANGED figures
       \/ part = "cards" /\ C!Normalize /\ UNCHANGED <<vars, rateVars, pivotVars>>
       \/ part = "rates" /\ R!Next /\ UNCHANGED <<vars, cardVars, pivotVars>>
       \/ part = "pivot" /\ T!Pivot /\ UNCHANGED <<vars, cardVars, rateVars>>

PartsSpec == PartsInit /\ [][PartsNext]_<<part, vars, figures>>

-----------------------------------------------------------------------------
\* normalize.js:201-289, idle_spin.js: a total stands for every card or for none, and the
\* history gets what was measured now and nothing else; token_detail.js:69-140: every row
\* counts once, whichever rules match its model.
FiguresHold ==
    /\ part = "cards" => C!TotalsStandForEveryCard /\ C!HistoryIsMeasured
    /\ part = "pivot" => T!EveryRowCountsOnce

\* prometheus.js:15-19, ssh.js:160-167: a share or a rate is of what passed between two
\* readings, and exact without a restart between them.
ShownWasMeasured == [][part = "rates" => R!MeasuredStep]_rateVars

=============================================================================
