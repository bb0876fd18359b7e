-------------------------------- MODULE Charts --------------------------------
\* The charts of the web client: the panes of Dual Compare (renderers/history.js) and the
\* detail modal (renderers/machine_detail.js).  Each asks for a history and draws what
\* comes back, while its target, its window or the page itself may change.
EXTENDS Integers, FiniteSets

CONSTANTS
    Panes,          \* the panes of Dual Compare
    Targets,        \* the machines that have a history
    Views,          \* what the modal shows: machines and nodes
    Pushed,         \* those of them that push, whose agent is compared with the hub's copy
    Ranges,         \* the windows offered
    MaxFaults,      \* bound: requests that fail or time out
    MaxInits        \* bound: configurations that rebuild the panes

None == "none"
Modal == "modal"

ChartsAssumption == Pushed \subseteq Views /\ Modal \notin Panes

NoChart == <<None, None>>

VARIABLES
    pane,           \* pane -> its target
    curRange,       \* the window of all panes
    modal,          \* open, the machine or node shown, and its window
    chart, err,     \* place -> what is drawn there, and whether an error covers it
    requests,       \* at a place, for what, still the one it waits for, on this page's canvas
    agent, looks,   \* the modal's line about an agent, and the comparisons under way
    faults, inits

dom == <<chart, err>>
agents == <<agent, looks>>
counts == <<faults, inits>>
vars == <<pane, curRange, modal, dom, requests, agents, counts>>

Places == Panes \cup {Modal}
Wanted(p) == IF p = Modal THEN <<modal.view, modal.range>> ELSE <<pane[p], curRange>>
inflight(p) == \E q \in requests : q.at = p /\ q.owner

\* One request for each place of `ps`; the one it waited for is aborted, which ends it
\* before the next such event.
Loads(rs, ps, what(_)) ==
    {IF q.at \in ps THEN [q EXCEPT !.owner = FALSE] ELSE q : q \in {r \in rs : r.owner \/ r.at \notin ps}}
        \cup {[at |-> p, what |-> what(p), owner |-> TRUE, here |-> TRUE] : p \in ps}

Init ==
    /\ pane \in [Panes -> Targets] /\ curRange \in Ranges
    /\ modal = [open |-> FALSE, view |-> None, range |-> CHOOSE r \in Ranges : TRUE]
    /\ chart = [p \in Places |-> NoChart] /\ err = [p \in Places |-> FALSE]
    /\ requests = Loads({}, Panes, Wanted)
    /\ agent = None /\ looks = {}
    /\ faults = 0 /\ inits = 0

-----------------------------------------------------------------------------
\* The panes: a picked target or window supersedes what is under way.
PickTarget(p, t) ==
    /\ t # pane[p]
    /\ pane' = [pane EXCEPT ![p] = t]
    /\ requests' = Loads(requests, {p}, LAMBDA q : <<t, curRange>>)
    /\ UNCHANGED <<curRange, modal, dom, agents, counts>>

PickRange(r) ==
    /\ r # curRange
    /\ curRange' = r
    /\ requests' = Loads(requests, Panes, LAMBDA p : <<pane[p], r>>)
    /\ UNCHANGED <<pane, modal, dom, agents, counts>>

\* Every 10 s, after a resize and when the tab is shown again: panes that wait are left.
Reload ==
    LET free == {p \in Panes : ~inflight(p)}
    IN  /\ free # {}
        /\ requests' = Loads(requests, free, Wanted)
        /\ UNCHANGED <<pane, curRange, modal, dom, agents, counts>>

Retry(p) ==
    /\ err[p] /\ (p = Modal => modal.open)
    /\ err' = [err EXCEPT ![p] = FALSE]
    /\ requests' = Loads(requests, {p}, Wanted)
    /\ UNCHANGED <<pane, curRange, modal, chart, agents, counts>>

\* initHistory for a new configuration: new canvases, the configured targets and window.
\* What is under way draws on the old canvases, but reports errors to the new panes.
ReInit ==
    /\ inits < MaxInits /\ inits' = inits + 1
    /\ pane' \in [Panes -> Targets] /\ curRange' \in Ranges
    /\ chart' = [p \in Places |-> IF p \in Panes THEN NoChart ELSE chart[p]]
    /\ err' = [p \in Places |-> p = Modal /\ err[p]]
    /\ requests' = Loads({IF q.at \in Panes THEN [q EXCEPT !.here = FALSE] ELSE q : q \in requests},
                         {p \in Panes : ~inflight(p)}, LAMBDA p : <<pane'[p], curRange'>>)
    /\ UNCHANGED <<modal, agents, faults>>

-----------------------------------------------------------------------------
\* openMachineModal, openNodeModal and openComfyModal: whatever was drawn stays until the
\* answer; the agent of a machine that pushes is looked up.
OpenModal(v, r) ==
    /\ ~modal.open
    /\ modal' = [open |-> TRUE, view |-> v, range |-> r]
    /\ err' = [err EXCEPT ![Modal] = FALSE]
    /\ requests' = Loads(requests, {Modal}, LAMBDA p : <<v, r>>)
    /\ agent' = None /\ looks' = IF v \in Pushed THEN looks \cup {v} ELSE looks
    /\ UNCHANGED <<pane, curRange, chart, counts>>

PickModalRange(r) ==
    /\ modal.open /\ r # modal.range
    /\ modal' = [modal EXCEPT !.range = r]
    /\ requests' = Loads(requests, {Modal}, LAMBDA p : <<modal.view, r>>)
    /\ UNCHANGED <<pane, curRange, dom, agents, counts>>

\* relocalizeMachineModal: the other language redraws all of it.
Relocalize ==
    /\ modal.open
    /\ requests' = Loads(requests, {Modal}, Wanted)
    /\ agent' = None /\ looks' = IF modal.view \in Pushed THEN looks \cup {modal.view} ELSE looks
    /\ UNCHANGED <<pane, curRange, modal, dom, counts>>

CloseModal ==
    /\ modal.open
    /\ modal' = [modal EXCEPT !.open = FALSE, !.view = None]
    /\ requests' = {IF q.at = Modal THEN [q EXCEPT !.owner = FALSE] ELSE q : q \in requests}
    /\ UNCHANGED <<pane, curRange, dom, agents, counts>>

-----------------------------------------------------------------------------
\* Wrong on purpose, to show that IdleChartIsRight sees it: whatever arrives is drawn.
OwnsAnyway(q) == q.at # Modal \/ modal.open

\* Superseded: a newer request owns the place.
Owns(q) == q.owner

\* Wrong on purpose, to show that PanesAreFreed sees it: a request that fails stays the one
\* its pane waits for.
StaysBusy(q) == (requests \ {q}) \cup {[q EXCEPT !.what = NoChart]}

Ended(q) == requests \ {q}

\* The answer is drawn and covers an error, or drawing it throws.
Answered(q) ==
    /\ q.what # NoChart
    /\ requests' = requests \ {q}
    /\ \/ ~Owns(q) /\ UNCHANGED dom
       \/ /\ Owns(q)
          /\ chart' = IF q.here THEN [chart EXCEPT ![q.at] = q.what] ELSE chart
          /\ err' = [err EXCEPT ![q.at] = FALSE]
    /\ UNCHANGED <<pane, curRange, modal, agents, counts>>

\* It fails, times out, or cannot be drawn: what is drawn stays, under the error.
Fails(q) ==
    /\ faults < MaxFaults /\ faults' = faults + 1
    /\ requests' = Ended(q)
    /\ err' = IF Owns(q) THEN [err EXCEPT ![q.at] = TRUE] ELSE err
    /\ UNCHANGED <<pane, curRange, modal, chart, agents, inits>>

\* showAgent goes on, unless the modal has moved on meanwhile.
AgentCompared(v) ==
    /\ v \in looks /\ looks' = looks \ {v}
    /\ agent' = IF modal.view = v THEN v ELSE agent
    /\ UNCHANGED <<pane, curRange, modal, dom, requests, counts>>

Next ==
    \/ \E p \in Panes, t \in Targets : PickTarget(p, t)
    \/ \E r \in Ranges : PickRange(r) \/ PickModalRange(r)
    \/ \E v \in Views, r \in Ranges : OpenModal(v, r)
    \/ \E p \in Places : Retry(p)
    \/ Reload \/ ReInit \/ Relocalize \/ CloseModal
    \/ \E q \in requests : Answered(q) \/ Fails(q)
    \/ \E v \in Pushed : AgentCompared(v)

\* The panes are reloaded for ever, and the request a place waits for is answered, fails
\* or times out.
Fairness ==
    /\ WF_vars(Reload)
    /\ \A p \in Places : WF_vars(\E q \in requests : q.at = p /\ q.owner /\ Answered(q))

Spec == Init /\ [][Next]_vars /\ Fairness
-----------------------------------------------------------------------------
\* A chart that is neither waited for nor covered by an error is the one its place names:
\* of its target and window, not of what was picked, opened or configured before
\* (history.js:43-48, 70, 82; machine_detail.js:285, 312, 368).
IdleChartIsRight ==
    /\ \A p \in Panes : ~inflight(p) /\ ~err[p] => chart[p] \in {NoChart, Wanted(p)}
    /\ modal.open /\ ~inflight(Modal) /\ ~err[Modal] => chart[Modal] = Wanted(Modal)
    /\ modal.open /\ agent # None => agent = modal.view

\* "A stalled fetch can't wedge the pane" (history.js:61, 90): again and again each pane
\* waits for nothing, whatever failed.
PanesAreFreed == \A p \in Panes : []<>~inflight(p)
===============================================================================
