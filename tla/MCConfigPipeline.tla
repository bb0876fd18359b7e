-------------------------- MODULE MCConfigPipeline --------------------------
(***************************************************************************)
(* The configuration and the tab that shows what it configures: two ids    *)
(* that files and users compete for, with a metric that files may drop     *)
(* under the users' cards; the board of a tab; and its charts.  What they  *)
(* exchange is arbitrary in each, so a behaviour is one of a single part,  *)
(* and the variables of the others stand still.                            *)
(***************************************************************************)
EXTENDS ConfigPipeline

CONSTANTS
    x, y,
    RECONNECT_AT, OFFLINE_AT, MaxViews, MaxConfigs, MaxOverlap, MaxFaults,
    Panes, Targets, Views, Pushed, Ranges, MaxFailures, MaxInits

VARIABLES
    part,
    view, hubCfg, allowed, answers, visible, CONFIG, CONFIG_ETAG, snap, live, quiet, stream,
    badge, failStreak, loaded, faults,
    pane, curRange, modal, chart, err, requests, agent, looks, failures, inits

W == INSTANCE WebBoard WITH cfg <- hubCfg
\* The panes and the modal share no data, so each is a part of its own.
G == INSTANCE Charts WITH faults <- failures, MaxFaults <- MaxFailures, Views <- {}, Pushed <- {}
M == INSTANCE Charts WITH faults <- failures, MaxFaults <- MaxFailures, Panes <- {}, MaxInits <- 0

ASSUME PartsAssumption == W!WebAssumption /\ G!ChartsAssumption /\ M!ChartsAssumption

boardVars == <<view, hubCfg, allowed, answers, visible, CONFIG, CONFIG_ETAG, snap, live, quiet,
               stream, badge, failStreak, loaded, faults>>
chartVars == <<pane, curRange, modal, chart, err, requests, agent, looks, failures, inits>>

MCIds == {x, y}
MCContents == [targets : SUBSET {x, y}, metric : BOOLEAN]
MCExample == [targets |-> {x}, metric |-> TRUE]

-----------------------------------------------------------------------------
NoBoard ==
    /\ view = 0 /\ hubCfg = 0 /\ allowed = 0 /\ answers = 0 /\ visible = 0 /\ CONFIG = 0
    /\ CONFIG_ETAG = 0 /\ snap = 0 /\ live = 0 /\ quiet = 0 /\ stream = 0 /\ badge = 0
    /\ failStreak = 0 /\ loaded = 0 /\ faults = 0
NoCharts ==
    /\ pane = 0 /\ curRange = 0 /\ modal = 0 /\ chart = 0 /\ err = 0 /\ requests = 0
    /\ agent = 0 /\ looks = 0 /\ failures = 0 /\ inits = 0

PartsInit ==
    /\ Init
    /\ \/ part = "config" /\ NoBoard /\ NoCharts
       \/ part = "board" /\ W!Init /\ NoCharts
       \/ part = "panes" /\ NoBoard /\ G!Init
       \/ part = "modal" /\ NoBoard /\ M!Init
    /\ part # "config" => disk = NoFiles

\* The parts but the configuration are bounded and may stop.
PartsNext ==
    /\ UNCHANGED part
    /\ \/ part = "config" /\ Next /\ UNCHANGED <<boardVars, chartVars>>
       \/ part = "board" /\ W!Next /\ UNCHANGED <<vars, chartVars>>
       \/ part = "panes" /\ G!Next /\ UNCHANGED <<vars, boardVars>>
       \/ part = "modal" /\ M!Next /\ UNCHANGED <<vars, boardVars>>
       \/ part # "config" /\ UNCHANGED <<vars, boardVars, chartVars>>

\* FairSpec of ConfigPipeline and the fairness of the tab.
PartsSpec ==
    /\ PartsInit
    /\ [][PartsNext]_<<part, vars, boardVars, chartVars>>
    /\ WF_vars(part = "config" /\ Reload)
    /\ \A k \in {"snap", "config", "live"} : WF_boardVars(part = "board" /\ W!Tick(k))
    /\ WF_boardVars(part = "board" /\ W!SnapArrives)
    /\ WF_boardVars(part = "board" /\ W!ConfigArrives)
    /\ WF_boardVars(part = "board" /\ W!LiveArrives)
    /\ WF_boardVars(part = "board" /\ W!StreamOpens)
    /\ WF_boardVars(part = "board" /\ W!StreamMessage)
    /\ WF_boardVars(part = "board" /\ W!GoesQuiet)
    /\ WF_boardVars(part = "board" /\ W!StartLive)
    /\ WF_chartVars(part = "panes" /\ G!Reload)
    /\ \A p \in Panes :
          WF_chartVars(part = "panes" /\ \E q \in requests : q.at = p /\ q.owner /\ G!Answered(q))

-----------------------------------------------------------------------------
\* app.js:530-549, 587-620: again and again a visible tab that may look shows the newest
\* configuration, snapshot and live view.
BoardCatchesUp == []<>(part = "board" => W!CaughtUp)

\* history.js:43-82, machine_detail.js:285-368: a chart that waits for nothing is of the
\* target and window its place names.
IdleChartIsRight ==
    /\ part = "panes" => G!IdleChartIsRight
    /\ part = "modal" => M!IdleChartIsRight

\* history.js:61-90: "a stalled fetch can't wedge the pane".
PanesAreFreed == \A p \in Panes : []<>(part = "panes" => ~G!inflight(p))

=============================================================================
