------------------------------ MODULE TargetPanel ------------------------------
\* The panel that probes a host and adds what was found (renderers/add_target.js): one
\* request per picked row, while the panel may be reopened or another address typed.
EXTENDS Integers, FiniteSets

CONSTANTS
    Hosts,         \* the hosts that can be probed
    Caps           \* the capabilities a probe suggests

None == "none"

VARIABLES
    manifest, probe,    \* the discovery shown, and the one under way
    adding,             \* addSelected: the host its rows were shown for, and the rows left
    posted              \* the targets asked for: <<host, host shown, capability>>

vars == <<manifest, probe, adding, posted>>

NotAdding == [from |-> None, left |-> {}]
Init == manifest = None /\ probe = None /\ adding = NotAdding /\ posted = {}

\* One busy flag for the probe and the adding.
AddBusy == probe # None \/ adding # NotAdding

\* Wrong on purpose, to show that PanelsHold sees it: a probe may begin while targets are
\* being added.
ProbeAnytime == probe = None
CanProbe == ~AddBusy

Discover(h) ==
    /\ CanProbe
    /\ probe' = h /\ manifest' = None
    /\ UNCHANGED <<adding, posted>>

\* An address that can be refused at once, or the panel opened anew: nothing is shown.
Discarded ==
    /\ manifest # None /\ manifest' = None
    /\ UNCHANGED <<probe, adding, posted>>

DiscoverArrives ==
    /\ probe # None /\ probe' = None
    /\ manifest' \in {probe, None}
    /\ UNCHANGED <<adding, posted>>

AddSelected ==
    /\ ~AddBusy /\ manifest # None
    /\ \E picks \in (SUBSET Caps) \ {{}} : adding' = [from |-> manifest, left |-> picks]
    /\ UNCHANGED <<manifest, probe, posted>>

\* One request after the other, each to the host shown by then; a row that fails does
\* not cost the others, and the last answer ends it.
AddNext ==
    /\ \E c \in adding.left :
         /\ posted' = IF manifest = None THEN posted ELSE posted \cup {<<manifest, adding.from, c>>}
         /\ adding' = [adding EXCEPT !.left = @ \ {c}]
    /\ UNCHANGED <<manifest, probe>>

AddDone ==
    /\ adding # NotAdding /\ adding.left = {}
    /\ adding' = NotAdding
    /\ UNCHANGED <<manifest, probe, posted>>

Next ==
    \/ \E h \in Hosts : Discover(h)
    \/ Discarded \/ DiscoverArrives \/ AddSelected \/ AddNext \/ AddDone

Spec == Init /\ [][Next]_vars
-----------------------------------------------------------------------------
\* Targets are only added for the host whose rows were picked, whatever is probed,
\* reopened or discarded meanwhile (add_target.js:206-258).
AddsWhatWasShown == \A t \in posted : t[1] = t[2]
================================================================================
