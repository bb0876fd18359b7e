------------------------------ MODULE LiveReader ------------------------------
\* The live reader (src/server/collectors/live.js) for one node whose engine is found
\* by the detector: readings that suspend at every request to the server, streams that
\* begin and end between two of them, servers that die, and an engine that moves.
EXTENDS Integers, FiniteSets, FiniteSetsExt

CONSTANTS
    Requests,      \* the requests people send, each once
    Servers,       \* the places an engine can be found at
    Strata,        \* the servers that run Strata; the others run llama.cpp
    Slots,         \* the slots of a server, 0..n
    MaxFaults,     \* bound: servers that die and requests that time out
    MaxMoves       \* bound: the detector changes its mind, the configuration is reloaded

LiveAssumption == Strata \subseteq Servers /\ Slots \subseteq Nat /\ IsFiniteSet(Slots)

None == "none"
Solo == -1

VARIABLES
    up, req, flushed,   \* the servers: alive, their requests, the prompts in the counters
    where,              \* liveDef: where the detector says the engine is
    poked,              \* the detector was asked to look again since it last answered
    node,               \* the node's object: present, def and st
    poll,               \* the reading under way; shared: its state is still the node's
    faults, moves

servers == <<up, req, flushed>>
counts == <<faults, moves>>
vars == <<servers, where, poked, node, poll, counts>>

freshState ==
    [reachable |-> FALSE, fails |-> 0, rest |-> FALSE, tasks |-> {},
     last |-> {}, lastPrefill |-> {}, exact |-> FALSE]

Absent == [there |-> FALSE, def |-> None, st |-> freshState]
Idle == [pc |-> "idle", def |-> None, shared |-> FALSE, key |-> None]

Init ==
    /\ up = [s \in Servers |-> TRUE]
    /\ req = [r \in Requests |-> [phase |-> "new", server |-> None, slot |-> None]]
    /\ flushed = [s \in Servers |-> {}]
    /\ where = None /\ poked = FALSE
    /\ node = [Absent EXCEPT !.there = TRUE]
    /\ poll = Idle
    /\ faults = 0 /\ moves = 0

-----------------------------------------------------------------------------
\* The servers.  A Strata server that runs one request alone runs it outside its slots.
Running(s) == {r \in Requests : req[r].server = s /\ req[r].phase \in {"prefill", "decode"}}
Finished(s) == {r \in Requests : req[r].server = s /\ req[r].phase = "gone"}
Places(s) == {req[r].slot : r \in Running(s)}

StartRequest(r, s) ==
    /\ up[s] /\ req[r].phase = "new"
    /\ Solo \notin Places(s) /\ Slots \ Places(s) # {}
    /\ \E p \in {Min(Slots \ Places(s))} \cup (IF s \in Strata /\ Running(s) = {} THEN {Solo} ELSE {}) :
         req' = [req EXCEPT ![r] = [phase |-> "prefill", server |-> s, slot |-> p]]
    /\ UNCHANGED <<up, flushed, where, poked, node, poll, counts>>

\* The batch that gives the first output flushes the prompt counters.
FirstOutput(r) ==
    /\ req[r].phase = "prefill"
    /\ req' = [req EXCEPT ![r].phase = "decode"]
    /\ flushed' = [flushed EXCEPT ![req[r].server] = @ \cup {r}]
    /\ UNCHANGED <<up, where, poked, node, poll, counts>>

EndRequest(r) ==
    /\ req[r].phase \in {"prefill", "decode"}
    /\ req' = [req EXCEPT ![r].phase = "gone"]
    /\ UNCHANGED <<up, flushed, where, poked, node, poll, counts>>

ServerDies(s) ==
    /\ up[s] /\ faults < MaxFaults
    /\ faults' = faults + 1
    /\ up' = [up EXCEPT ![s] = FALSE]
    /\ req' = [r \in Requests |-> IF r \in Running(s) THEN [req[r] EXCEPT !.phase = "gone"] ELSE req[r]]
    /\ flushed' = [flushed EXCEPT ![s] = {}]
    /\ UNCHANGED <<where, poked, node, poll, moves>>

ServerStarts(s) ==
    /\ ~up[s]
    /\ up' = [up EXCEPT ![s] = TRUE]
    /\ UNCHANGED <<req, flushed, where, poked, node, poll, counts>>

\* The detector: another server, or none; its next look answers a poke.
DetectorMoves(s) ==
    /\ moves < MaxMoves /\ s # where
    /\ moves' = moves + 1
    /\ where' = s /\ poked' = FALSE
    /\ UNCHANGED <<servers, node, poll, faults>>

\* configure: the node is removed, or there again with a fresh state; a node that stays
\* keeps its state, and a reading under way keeps the object it began with.
Reconfigure ==
    /\ \/ node.there /\ moves < MaxMoves /\ moves' = moves + 1
       \/ ~node.there /\ UNCHANGED moves
    /\ node' \in {Absent, [Absent EXCEPT !.there = TRUE]} \ {node}
    /\ poll' = [poll EXCEPT !.shared = FALSE]
    /\ UNCHANGED <<servers, where, poked, faults>>

-----------------------------------------------------------------------------
\* Wrong on purpose, to show that LiveIsOwn sees it: the state of the last engine is kept.
HandedOverAsIs(s) == [node EXCEPT !.def = s]

\* A different engine or port is a different server: nothing carries over.
HandedOver(s) == IF node.def = s THEN node ELSE [node EXCEPT !.def = s, !.st = freshState]

\* _pollNode begins: nothing is read while no engine is known or the node backs off; a
\* Strata with no stream is asked for its status, everything else for its slots.
PollStart ==
    /\ poll.pc = "idle" /\ node.there
    /\ IF where = None
       THEN node.def # None /\ node' = [node EXCEPT !.def = None] /\ UNCHANGED poll
       ELSE LET n == HandedOver(where)
            IN  /\ ~n.st.rest
                /\ node' = n
                /\ poll' = [pc |-> IF where \in Strata /\ n.st.tasks = {} THEN "status" ELSE "slots",
                            def |-> where, shared |-> TRUE, key |-> None]
    /\ UNCHANGED <<servers, where, poked, counts>>

\* The end of a reading that got its answer.
Finish(state) ==
    /\ node' = [node EXCEPT !.st = [state EXCEPT !.reachable = TRUE, !.fails = 0]]
    /\ poll' = Idle

\* A reading of an object that a reload has dropped: nobody sees what it finds, but its
\* third failure still asks the detector.
PollForgotten ==
    /\ poll.pc # "idle" /\ ~poll.shared
    /\ poll' = Idle
    /\ poked' \in {poked, TRUE}
    /\ UNCHANGED <<servers, where, node, counts>>

-----------------------------------------------------------------------------
\* A stream's key: llama.cpp numbers its requests, Strata only its slots.
Key(r) == IF req[r].server \in Strata THEN <<req[r].slot>> ELSE <<req[r].slot, r>>

NewTask(r) ==
    [key |-> Key(r), reqs |-> {r}, phase |-> "prefill", pp |-> 0, dec |-> 0, base |-> {None}, prefill |-> FALSE]

More(n) == IF n < 2 THEN n + 1 ELSE n

\* A slot whose counters went backwards runs a new request; one whose counters did not
\* (`merged`) is taken for the old one.
Same(t, r, merged) ==
    /\ t.key = Key(r)
    /\ r \in t.reqs \/ (r \in merged /\ ~(t.phase = "decode" /\ req[r].phase = "prefill"))

\* _observe: one more reading of a running request, of the phase it is in; the prefill
\* is known at its end when it was read twice.
Observed(r, merged) ==
    LET old == {t \in node.st.tasks : Same(t, r, merged)}
        task == IF old = {} THEN NewTask(r) ELSE CHOOSE t \in old : TRUE
        decodes == req[r].phase = "decode"
    IN  [task EXCEPT !.phase = req[r].phase, !.reqs = @ \cup {r},
                     !.pp = IF decodes THEN @ ELSE More(@),
                     !.dec = IF decodes THEN More(@) ELSE @,
                     !.prefill = @ \/ (decodes /\ task.pp = 2)]

\* Wrong on purpose, to show that LiveCatchesUp sees it: a stream that has ended stays in
\* the list.
EndedStays(state, ended) ==
    LET left == {t \in ended : t.dec = 2 \/ t.prefill}
    IN  IF left = {} THEN {state} ELSE {[state EXCEPT !.last = t.reqs] : t \in left}

\* _end: a stream leaves its figures when it was read twice decoding or its prefill is known.
Ended(state, ended) ==
    LET left == {t \in ended : t.dec = 2 \/ t.prefill}
    IN  IF left = {} THEN {[state EXCEPT !.tasks = @ \ ended]}
        ELSE {[state EXCEPT !.tasks = @ \ ended, !.last = t.reqs] : t \in left}

\* _setPrefill of the streams of `tasks` that are seen to decode for the first time.
Prefilled(state, tasks) ==
    LET begun == {t \in tasks : t.dec = 1 /\ t.prefill}
    IN  IF begun = {} THEN {state}
        ELSE {[state EXCEPT !.lastPrefill = t.reqs, !.exact = FALSE] : t \in begun}

\* A finished request's own record, if it is newer than what is known.
Recorded(state) ==
    {state} \cup {[state EXCEPT !.lastPrefill = {r}, !.exact = TRUE] : r \in Finished(poll.def)}

\* The first answer of a Strata with no stream: its status, with the last request's
\* timings; its slots are read when something is in flight, and now and then.
StatusArrives ==
    /\ poll.pc = "status" /\ poll.shared /\ up[poll.def]
    /\ \E s \in Recorded(node.st) :
         \E state \in {s} \cup {[s EXCEPT !.last = {r}] : r \in Finished(poll.def)} :
            \/ Running(poll.def) = {} /\ Finish(state)
            \/ /\ poll' = [poll EXCEPT !.pc = "slots"]
               /\ node' = [node EXCEPT !.st = state]
    /\ UNCHANGED <<servers, where, poked, counts>>

\* The slots: every running request is observed; the streams that are gone end, a lone
\* new or newly decoding request of llama.cpp once the counters have been read too.
SlotsArrive ==
    /\ poll.pc = "slots" /\ poll.shared /\ up[poll.def]
    /\ \E merged \in SUBSET (IF poll.def \in Strata THEN Running(poll.def) ELSE {}) :
         LET tasks == {Observed(r, merged) : r \in Running(poll.def)}
             keys == {t.key : t \in tasks}
             replaced == {t \in node.st.tasks : t.key \in keys /\ \A n \in tasks : n.key = t.key => ~(t.reqs \subseteq n.reqs)}
             unseen == {t \in node.st.tasks : t.key \notin keys}
         IN  \E s \in Ended(node.st, replaced) :
             \E p \in Prefilled([s EXCEPT !.tasks = unseen \cup tasks], tasks) :
             \/ /\ poll.def \in Strata
                /\ \E e \in Ended(p, unseen) : \E state \in Recorded(e) : Finish(state)
             \/ /\ poll.def \notin Strata
                /\ LET asks == {t \in tasks : /\ Cardinality(tasks) = 1
                                              /\ \/ t.phase = "prefill" /\ t.key \notin {o.key : o \in node.st.tasks}
                                                 \/ t.phase = "decode" /\ None \notin t.base}
                   IN  IF asks = {} THEN \E state \in Ended(p, unseen) : Finish(state)
                       ELSE /\ node' = [node EXCEPT !.st = p]
                            /\ poll' = [poll EXCEPT !.pc = "counters", !.key = (CHOOSE t \in asks : TRUE).key]
    /\ UNCHANGED <<servers, where, poked, counts>>

\* What the counters make of the lone stream: its base when it is new, its exact
\* prefill when they have moved since.  {None} when they could not be read.
Counted(state, t, read) ==
    LET moved == t.phase = "decode" /\ None \notin read /\ t.base \subseteq read /\ t.base # read
        new == IF t.phase = "prefill" THEN [t EXCEPT !.base = read]
               ELSE [t EXCEPT !.base = {None}, !.prefill = @ \/ moved]
        kept == [state EXCEPT !.tasks = (@ \ {t}) \cup {new}]
    IN  IF moved THEN [kept EXCEPT !.lastPrefill = read \ t.base, !.exact = TRUE] ELSE kept

CountersArrive ==
    /\ poll.pc = "counters" /\ poll.shared
    /\ \E t \in {x \in node.st.tasks : x.key = poll.key} :
         LET unseen == node.st.tasks \ {t}
         IN  \/ /\ up[poll.def]
                /\ \E state \in Ended(Counted(node.st, t, flushed[poll.def]), unseen) : Finish(state)
             \/ \E state \in Ended(Counted(node.st, t, {None}), unseen) : Finish(state)
    /\ UNCHANGED <<servers, where, poked, counts>>

\* Unreachable is not idle: what was running is unknown, and is dropped.
Failed(state) ==
    [state EXCEPT !.reachable = FALSE, !.fails = IF @ < 4 THEN @ + 1 ELSE @, !.rest = TRUE, !.tasks = {}]

\* The third failure in a row asks the detector to look again.
Pokes(state) == state.fails = 3

\* The server is gone, or the request timed out.
PollFails ==
    /\ poll.pc \in {"status", "slots"} /\ poll.shared
    /\ ~up[poll.def] \/ faults < MaxFaults
    /\ faults' = IF up[poll.def] THEN faults + 1 ELSE faults
    /\ node' = [node EXCEPT !.st = Failed(@)]
    /\ poked' = (poked \/ Pokes(Failed(node.st)))
    /\ poll' = Idle
    /\ UNCHANGED <<servers, where, moves>>

RestOver ==
    /\ node.st.rest
    /\ node' = [node EXCEPT !.st.rest = FALSE]
    /\ UNCHANGED <<servers, where, poked, poll, counts>>

Next ==
    \/ \E r \in Requests, s \in Servers : StartRequest(r, s)
    \/ \E r \in Requests : FirstOutput(r) \/ EndRequest(r)
    \/ \E s \in Servers : ServerDies(s) \/ ServerStarts(s)
    \/ \E s \in Servers \cup {None} : DetectorMoves(s)
    \/ Reconfigure
    \/ PollStart \/ PollForgotten \/ StatusArrives \/ SlotsArrive \/ CountersArrive
    \/ PollFails \/ RestOver

\* The scheduler polls for ever, every request to a server is answered or fails, and
\* back-offs end.
Fairness ==
    /\ WF_vars(PollStart) /\ WF_vars(PollForgotten) /\ WF_vars(RestOver)
    /\ WF_vars(StatusArrives \/ SlotsArrive \/ CountersArrive \/ PollFails)

Spec == Init /\ [][Next]_vars /\ Fairness
-----------------------------------------------------------------------------
Task ==
    [key : {<<p>> : p \in Slots \cup {Solo}} \cup {<<p, r>> : p \in Slots, r \in Requests},
     reqs : SUBSET Requests, phase : {"prefill", "decode"}, pp : 0..2, dec : 0..2,
     base : SUBSET (Requests \cup {None}), prefill : BOOLEAN]

\* Every variable has its type, and no two streams share a key.
TypeOK ==
    /\ up \in [Servers -> BOOLEAN] /\ flushed \in [Servers -> SUBSET Requests]
    /\ where \in Servers \cup {None} /\ poked \in BOOLEAN
    /\ poll.pc \in {"idle", "status", "slots", "counters"}
    /\ node.def \in Servers \cup {None}
    /\ node.st.tasks \subseteq Task
    /\ \A t, u \in node.st.tasks : t.key = u.key => t = u
    /\ node.st.last \subseteq Requests /\ node.st.lastPrefill \subseteq Requests

\* "A different engine or port is a different server: nothing carries over"
\* (live.js:139-145): everything shown of a node came from the engine it is read from.
NothingCarriesOver ==
    node.def # None =>
        \A r \in node.st.last \cup node.st.lastPrefill \cup UNION {t.reqs : t \in node.st.tasks} :
            req[r].server = node.def

\* The figures a finished request leaves behind are of a request that has finished: one
\* in flight on a server that stops answering is dropped "rather than finalized with a
\* made-up end" (live.js:152-156, 200-217).
LastHasEnded == \A r \in node.st.last : req[r].phase = "gone"

\* Again and again the streams shown are the requests running on the engine the detector
\* found, unless it is down (live.js:130-162, 213-217).
StreamsAreRunning ==
    node.there /\ where # None /\ up[where] =>
        /\ node.def = where
        /\ Running(where) \subseteq UNION {t.reqs : t \in node.st.tasks}
        /\ \A t \in node.st.tasks : t.reqs \cap Running(where) # {}
ShownIsRunning == []<>StreamsAreRunning

\* An engine that never answers again is looked for elsewhere (live.js:158, engine.js).
DeadIsPoked == node.there /\ where # None /\ ~up[where] => poked
DeadEngineIsPoked == []<>DeadIsPoked
===============================================================================
