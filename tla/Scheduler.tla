----------------------------- MODULE Scheduler ------------------------------
(***************************************************************************)
(* The collector scheduler and the snapshot it fills:                      *)
(* server/collectors/index.js, server/collectors/push.js and               *)
(* server/store/snapshot.js, with the order in which a refresh of          *)
(* server/usage.js reads and publishes.                                    *)
(*                                                                         *)
(* A poll is split at its awaits.  While it waits, timers tick, machines   *)
(* push, the sweep runs and the configuration is reloaded; a reload stops  *)
(* the timers but neither the polls under way nor their late results.      *)
(*                                                                         *)
(* A reading is not a number here but the configuration it was made with   *)
(* and, for the three cards that are computed from one another (nodes,     *)
(* usage, projects), whether it still comes from what its source shows.    *)
(***************************************************************************)
EXTENDS Naturals, FiniteSets, Sequences

CONSTANTS
    Machines,                   \* targets that are probed or that push
    Nodes, Usage, Projects,     \* the inference_nodes, usage and usage_projects targets
    Configs,                    \* what a reload may install: functions Ids -> Kinds
    MaxReloads                  \* bound: configurations ever applied

Ids == Machines \cup {Nodes, Usage, Projects}
Kinds == {"off", "probe", "push", "nodes", "usage", "projects"}

ASSUME TargetsAssumption ==
    /\ IsFiniteSet(Machines)
    /\ Nodes # Usage /\ Nodes # Projects /\ Usage # Projects
    /\ {Nodes, Usage, Projects} \cap Machines = {}

ASSUME ConfigsAssumption ==
    /\ MaxReloads \in Nat
    /\ \A c \in Configs :
          /\ c \in [Ids -> Kinds]
          /\ \A i \in Machines : c[i] \in {"off", "probe", "push"}
          /\ c[Nodes] \in {"off", "nodes"}
          /\ c[Usage] \in {"off", "usage"}
          /\ c[Projects] \in {"off", "projects"}

VARIABLES
    config,     \* the kind of every target in the configuration last applied
    gen,        \* how many configurations were applied
    snapshot,   \* this._state of the snapshot: one entry per target
    polls,      \* the polls under way: [id, gen, at, fresh]
    inflight,   \* this._inflight
    naming,     \* the polls awaiting the key names of their rows, in order
    pushed,     \* lastPush of push.js: "never", "fresh" or "late", past its grace
    usesNodes,  \* the usage engine was configured with an inference_nodes target
    pending,    \* nodesPending of the usage engine
    ready,      \* the usage engine has computed a view
    shown,      \* that view is the one the usage card shows
    warm        \* the process has been up for the 180 s of a cold start

vars == <<config, gen, snapshot, polls, inflight, naming, pushed, usesNodes, pending,
          ready, shown, warm>>
engine == <<usesNodes, pending, ready, shown>>

NoEntry == [online |-> FALSE, value |-> FALSE, by |-> "none", gen |-> 0, fresh |-> FALSE]

Init ==
    /\ config = [i \in Ids |-> "off"] /\ gen = 0
    /\ snapshot = [i \in Ids |-> NoEntry]
    /\ polls = {} /\ inflight = {} /\ naming = <<>>
    /\ pushed = [i \in Ids |-> "never"]
    /\ usesNodes = FALSE /\ pending = FALSE /\ ready = FALSE /\ shown = FALSE
    /\ warm = FALSE

-----------------------------------------------------------------------------
(* Snapshot.update: a report replaces the entry, a failure keeps its values. *)

Report(by, g, f) == [online |-> TRUE, value |-> TRUE, by |-> by, gen |-> g, fresh |-> f]

Failure(e, by, g) == [e EXCEPT !.online = FALSE, !.by = by, !.gen = g]

\* Snapshot.prune.
Pruned(c) == [i \in Ids |-> IF c[i] = "off" THEN NoEntry ELSE snapshot[i]]

-----------------------------------------------------------------------------
(* Starting polls. *)

Polled(c, i) == c[i] \notin {"off", "push"}

\* Where a poll first waits: a probe for its answer, a usage refresh for the sources it
\* reads before today's counters, the projects rows for their names.
FirstWait == [probe |-> "fetch", nodes |-> "fetch", usage |-> "sources", projects |-> "names"]

\* Wrong on purpose, to show that RowsMatchCard sees it: the projects poll always writes.
WorkWheneverReady(i, snap) == i # Projects \/ ready

\* The projects poll has something to do only before the usage poll has published.
HasWork(i, snap) == i # Projects \/ (ready /\ ~snap[Projects].online)

NewPolls(ids, c, g) ==
    {[id |-> i, gen |-> g, at |-> FirstWait[c[i]], fresh |-> FALSE] : i \in ids}

\* Wrong on purpose, to show that BoardInvariant sees it: a tick does not look at
\* this._inflight.
DueRegardless(ids, snap) == {i \in ids : HasWork(i, snap)}

\* The targets among ids whose tick gets past the inflight check.
Due(ids, snap) == {i \in ids \ inflight : HasWork(i, snap)}

\* Rows are taken from the usage view before their names are awaited.
NamingOf(ids, g) ==
    IF Projects \in ids THEN Append(naming, [by |-> Projects, gen |-> g, fresh |-> shown])
    ELSE naming

Begin(ids, c, g) ==
    /\ polls' = polls \cup NewPolls(ids, c, g)
    /\ inflight' = inflight \cup ids
    /\ naming' = NamingOf(ids, g)

\* A new configuration: timers are replaced, the snapshot is pruned, and every polled
\* target ticks at once.  this._inflight and the polls under way stay.
Apply(c) ==
    /\ gen < MaxReloads
    /\ config' = c /\ gen' = gen + 1
    /\ snapshot' = Pruned(c)
    /\ Begin(Due({i \in Ids : Polled(c, i)}, Pruned(c)), c, gen + 1)
    /\ usesNodes' = IF c[Usage] = "off" THEN usesNodes ELSE c[Nodes] # "off"
    /\ UNCHANGED <<pushed, pending, ready, shown, warm>>

\* The interval of target i fires.
Tick(i) ==
    /\ Polled(config, i)
    /\ i \in Due({i}, snapshot)
    /\ Begin({i}, config, gen)
    /\ UNCHANGED <<config, gen, snapshot, pushed, engine, warm>>

-----------------------------------------------------------------------------
(* A poll goes on.  p is an element of polls. *)

Ends(p) ==
    /\ polls' = polls \ {p}
    /\ inflight' = inflight \ {p.id}

\* Whatever the poll waits for rejects or times out.  (Names never fail: without them
\* the rows keep their digests.)
PollFails(p) ==
    /\ p.at # "names"
    /\ Ends(p)
    /\ snapshot' = [snapshot EXCEPT ![p.id] = Failure(@, "poll", p.gen)]
    /\ UNCHANGED <<config, gen, naming, pushed, engine, warm>>

\* A probe answers.  When the history insert after the update throws, the same poll
\* then reports its target offline.
ProbeArrives(p) ==
    LET report == Report("poll", p.gen, FALSE)
    IN  /\ p.at = "fetch" /\ p.id # Nodes
        /\ Ends(p)
        /\ \/ snapshot' = [snapshot EXCEPT ![p.id] = report]
           \/ snapshot' = [snapshot EXCEPT ![p.id] = Failure(report, "poll", p.gen)]
        /\ UNCHANGED <<config, gen, naming, pushed, engine, warm>>

\* The nodes card changes, its history rows kept or not, and with it the counters the usage
\* card should show: a usage poll follows at once, unless one is under way or the history
\* insert threw.
NodesCome(p, kept) ==
    LET report == Report("poll", p.gen, FALSE)
        card == IF kept THEN report ELSE Failure(report, "poll", p.gen)
        follow == kept /\ config[Usage] = "usage" /\ Usage \notin inflight
        stale == {[q EXCEPT !.fresh = FALSE] : q \in polls \ {p}}
        next == [id |-> Usage, gen |-> p.gen, at |-> "sources", fresh |-> FALSE]
    IN  /\ p.at = "fetch" /\ p.id = Nodes
        /\ snapshot' = [snapshot EXCEPT ![Nodes] = card, ![Usage].fresh = FALSE]
        /\ polls' = IF follow THEN stale \cup {next} ELSE stale
        /\ inflight' = (inflight \ {Nodes}) \cup (IF follow THEN {Usage} ELSE {})
        /\ UNCHANGED <<config, gen, naming, pushed, engine, warm>>

NodesArrive(p) == \E kept \in BOOLEAN : NodesCome(p, kept)

\* ctrToday: the refresh takes today's counters from the nodes card.
UsageReads(p) ==
    /\ p.at = "sources"
    /\ polls' = (polls \ {p}) \cup {[p EXCEPT !.at = "spend", !.fresh = TRUE]}
    /\ pending' = (~usesNodes \/ snapshot[Nodes].by = "none")
    /\ UNCHANGED <<config, gen, snapshot, inflight, naming, pushed, usesNodes, ready,
                   shown, warm>>

\* The refresh is complete, but right after a start nothing is published before the
\* nodes were polled.
UsageHoldsBack(p) ==
    /\ p.at = "spend"
    /\ pending /\ ~warm
    /\ Ends(p)
    /\ ready' = TRUE /\ shown' = FALSE
    /\ UNCHANGED <<config, gen, snapshot, naming, pushed, usesNodes, pending, warm>>

\* The usage card is published; rows of earlier views no longer match it.
Publish(p) ==
    snapshot' = [snapshot EXCEPT ![Usage] = Report("poll", p.gen, p.fresh),
                                 ![Projects].fresh = FALSE]

Superseded == [n \in DOMAIN naming |-> [naming[n] EXCEPT !.fresh = FALSE]]

UsagePublishes(p) ==
    /\ p.at = "spend"
    /\ ~(pending /\ ~warm)
    /\ Publish(p)
    /\ ready' = TRUE /\ shown' = TRUE
    /\ IF config[Projects] = "projects"
       THEN /\ naming' = Append(Superseded, [by |-> Usage, gen |-> p.gen, fresh |-> TRUE])
            /\ polls' = (polls \ {p}) \cup {[p EXCEPT !.at = "names"]}
            /\ UNCHANGED inflight
       ELSE naming' = Superseded /\ Ends(p)
    /\ UNCHANGED <<config, gen, pushed, usesNodes, pending, warm>>

\* The key names arrive.  The polls waiting share one listing and resume in the order
\* in which they came; each writes the rows it took before it waited.
NamesArrive ==
    LET h == Head(naming)
    IN  /\ naming # <<>>
        /\ naming' = Tail(naming)
        /\ snapshot' = [snapshot EXCEPT ![Projects] = Report("poll", h.gen, h.fresh)]
        /\ \E p \in polls : p.id = h.by /\ Ends(p)
        /\ UNCHANGED <<config, gen, pushed, engine, warm>>

-----------------------------------------------------------------------------
(* Pushes, their sweep, and time. *)

\* handlePush, for the targets the configuration says push.
Push(i) ==
    /\ config[i] = "push"
    /\ pushed' = [pushed EXCEPT ![i] = "fresh"]
    /\ snapshot' = [snapshot EXCEPT ![i] = Report("push", gen, FALSE)]
    /\ UNCHANGED <<config, gen, polls, inflight, naming, engine, warm>>

\* The grace of the last push runs out.
GraceEnds(i) ==
    /\ pushed[i] = "fresh"
    /\ pushed' = [pushed EXCEPT ![i] = "late"]
    /\ UNCHANGED <<config, gen, snapshot, polls, inflight, naming, engine, warm>>

\* Wrong on purpose, to show that BoardSteps sees it: the sweep asks nothing.
StaleAlways(i) == TRUE

\* Wrong on purpose, to show that CardsCatchUp sees it: one push is good for ever.
StaleUntilFirst(i) == pushed[i] = "never"

\* isPushStale; a target that has never pushed is stale.
Stale(i) == pushed[i] # "fresh"

Sweep ==
    /\ snapshot' = [i \in Ids |-> IF config[i] = "push" /\ Stale(i)
                                  THEN Failure(snapshot[i], "sweep", gen)
                                  ELSE snapshot[i]]
    /\ UNCHANGED <<config, gen, polls, inflight, naming, pushed, engine, warm>>

WarmsUp ==
    /\ ~warm
    /\ warm' = TRUE
    /\ UNCHANGED <<config, gen, snapshot, polls, inflight, naming, pushed, engine>>

PollStep(p) ==
    \/ PollFails(p) \/ ProbeArrives(p) \/ NodesArrive(p)
    \/ UsageReads(p) \/ UsageHoldsBack(p) \/ UsagePublishes(p)

Next ==
    \/ \E c \in Configs : Apply(c)
    \/ \E i \in Ids : Tick(i) \/ Push(i) \/ GraceEnds(i)
    \/ \E p \in polls : PollStep(p)
    \/ NamesArrive
    \/ Sweep
    \/ WarmsUp

Spec == Init /\ [][Next]_vars

\* Intervals fire, the sweep runs, time passes, and every wait of a poll has a timeout.
\* Nothing makes a machine push or an operator reload.
FairSpec ==
    /\ Spec
    /\ \A i \in Ids : WF_vars(Tick(i)) /\ WF_vars(GraceEnds(i))
    /\ \A i \in Ids : WF_vars(\E p \in polls : p.id = i /\ PollStep(p))
    /\ WF_vars(NamesArrive) /\ WF_vars(Sweep) /\ WF_vars(WarmsUp)

-----------------------------------------------------------------------------
(* Properties. *)

Entry == [online : BOOLEAN, value : BOOLEAN, by : {"none", "poll", "push", "sweep"},
          gen : Nat, fresh : BOOLEAN]
Poll == [id : Ids, gen : Nat, at : {"fetch", "sources", "spend", "names"}, fresh : BOOLEAN]

\* Every variable holds what its field can hold.
TypeOK ==
    /\ config \in [Ids -> Kinds] /\ gen \in Nat
    /\ snapshot \in [Ids -> Entry]
    /\ polls \subseteq Poll /\ inflight \subseteq Ids
    /\ naming \in Seq([by : {Usage, Projects}, gen : Nat, fresh : BOOLEAN])
    /\ pushed \in [Ids -> {"never", "fresh", "late"}]
    /\ usesNodes \in BOOLEAN /\ pending \in BOOLEAN /\ ready \in BOOLEAN
    /\ shown \in BOOLEAN /\ warm \in BOOLEAN

\* No target is polled twice at once, by its timer, by a reload or by the nodes poll that
\* sets off the usage poll, and this._inflight is exactly the targets being polled, so
\* none is locked out for good.
OnePollPerTarget ==
    /\ inflight = {p.id : p \in polls}
    /\ \A p, q \in polls : p.id = q.id => p = q

\* No target goes back to a result of an older configuration, although a poll outlives the
\* reload that follows it: what an older one wrote over a newer one's is only ever a late
\* poll, begun before the reload, over a push or a sweep (not over a newer poll), and a
\* target taken out of the configuration shows nothing.  (Not so the usage card and its
\* rows: a late nodes poll sets one off with the metric templates it was started with.)
NewerConfigStays ==
    [][\A i \in Machines \cup {Nodes} :
          snapshot'[i].gen < snapshot[i].gen =>
              \/ config'[i] = "off" /\ snapshot'[i] = NoEntry
              \/ /\ snapshot[i].by \in {"push", "sweep"} /\ snapshot'[i].by = "poll"
                 /\ \E p \in polls : p.id = i /\ p.gen = snapshot'[i].gen]_vars

\* "KEEP the last value": a target that stays in the configuration never loses the last
\* good values it showed, whatever fails, goes silent or is reloaded.
LastGoodKept ==
    [][\A i \in Ids : snapshot[i].value /\ config'[i] # "off" => snapshot'[i].value]_vars

\* A machine that pushes in time is never shown offline, except by a poll begun under an
\* older configuration, in which it was a probed target.
FreshPushStaysOnline ==
    [][\A i \in Ids :
          /\ config[i] = "push" /\ config'[i] = "push" /\ pushed[i] = "fresh"
          /\ snapshot[i].online /\ ~snapshot'[i].online
          => \E p \in polls : p.id = i /\ p.gen < gen]_vars

\* Once no names are awaited, the Per-Project rows are those of the refresh whose total
\* the usage card shows.
RowsMatchCard ==
    naming = <<>> /\ snapshot[Usage].value /\ snapshot[Projects].value
        => snapshot[Projects].fresh

\* After the last reload every polled target is reported under the configuration in force
\* (the projects rows come from the usage poll).
ReportsCatchUp ==
    <>[](\A i \in Ids \ {Projects} :
            Polled(config, i) => snapshot[i].by = "poll" /\ snapshot[i].gen = gen)

\* A machine that stops pushing is shown offline in the end.
SilenceIsNoticed ==
    \A i \in Machines :
        <>[](config[i] = "push" /\ pushed[i] # "fresh") => <>[](~snapshot[i].online)

\* The board: well formed, with one poll of a target at a time.
BoardInvariant == TypeOK /\ OnePollPerTarget

\* What no step may do to the board, the late polls named above aside: go back to a result
\* of an older configuration, lose a target's last good values, or show a machine offline
\* that pushes in time.
BoardSteps == NewerConfigStays /\ LastGoodKept /\ FreshPushStaysOnline

\* What the board shows in the end: reports under the configuration in force, and silence.
CardsCatchUp == ReportsCatchUp /\ SilenceIsNoticed

=============================================================================
