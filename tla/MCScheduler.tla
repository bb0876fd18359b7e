---------------------------- MODULE MCScheduler -----------------------------
(***************************************************************************)
(* The board and the days of its usage card.  What the two exchange is     *)
(* arbitrary in each, so a behaviour is one of a single part, and the      *)
(* variables of the other stand still.                                     *)
(***************************************************************************)
EXTENDS Scheduler

CONSTANTS
    FreshLen, GapLen, TailLen, DayLen, Settle, LogDays, LowSkip, FirstValue, MaxNow, MaxFaults

VARIABLES
    part,
    now, traffic, series, boot, lag, pruned, faults, snap, saved, done, stored, run, got, live

D == INSTANCE UsageDays

daysVars == <<now, traffic, series, boot, lag, pruned, faults, snap, saved, done, stored, run, got, live>>
ASSUME DaysConstants == D!WindowAssumption /\ D!DaysAssumption

\* The configurations an operator moves between: nodes and usage switched on and off with
\* no machine, or a machine removed and changed between probing and pushing; the projects
\* card is there throughout.
Hub(machine, nodes, usage) ==
    [i \in Ids |-> CASE i = Nodes -> nodes
                     [] i = Usage -> usage
                     [] i = Projects -> "projects"
                     [] OTHER -> machine]

HubConfigs ==
    {Hub("off", n, u) : n \in {"off", "nodes"}, u \in {"off", "usage"}}
      \cup {Hub(m, "off", "off") : m \in {"off", "probe", "push"}}

-----------------------------------------------------------------------------
NoDays ==
    /\ now = 0 /\ traffic = 0 /\ series = 0 /\ boot = 0 /\ lag = 0 /\ pruned = 0 /\ faults = 0
    /\ snap = 0 /\ saved = 0 /\ done = 0 /\ stored = 0 /\ run = 0 /\ got = 0 /\ live = 0

PartsInit ==
    /\ Init
    /\ \/ part = "board" /\ NoDays
       \/ part = "days" /\ D!Init

\* The days are bounded and may stop.
PartsNext ==
    /\ UNCHANGED part
    /\ \/ part = "board" /\ Next /\ UNCHANGED daysVars
       \/ part = "days" /\ D!Next /\ UNCHANGED vars
       \/ part = "days" /\ UNCHANGED <<vars, daysVars>>

\* FairSpec of Scheduler and Fairness of UsageDays.
PartsSpec ==
    /\ PartsInit /\ [][PartsNext]_<<part, vars, daysVars>>
    /\ \A i \in Ids :
          /\ WF_vars(part = "board" /\ Tick(i)) /\ WF_vars(part = "board" /\ GraceEnds(i))
          /\ WF_vars(part = "board" /\ \E p \in polls : p.id = i /\ PollStep(p))
    /\ WF_vars(part = "board" /\ NamesArrive) /\ WF_vars(part = "board" /\ Sweep)
    /\ WF_vars(part = "board" /\ WarmsUp)
    /\ WF_daysVars(part = "days" /\ D!Begin(TRUE)) /\ WF_run(part = "days" /\ D!CountersCome)
    /\ WF_daysVars(part = "days" /\ D!ReadRows) /\ WF_daysVars(part = "days" /\ D!Finish)

-----------------------------------------------------------------------------
\* usage.js, nodes.js: every request is counted once, in the day it belongs to, and no
\* day is settled too early or emptied (the parts are stated in UsageDays).
DaysAreExact ==
    part = "days" =>
        /\ D!TypeOK /\ D!SettledDaysKeepTheirRows /\ D!MeasuredDaysAreExact
        /\ D!SharesFit /\ D!TodayIsCountedOnce

\* usage.js: every completed day is settled sooner or later.
DaysSettle == <>[](part = "days" => D!AllSettled)

=============================================================================
