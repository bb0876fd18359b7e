--------------------------- MODULE EngineDetector ---------------------------
(***************************************************************************)
(* Which inference engine answers on a node: server/engine.js.  Nodes      *)
(* share nothing, so there is one.                                         *)
(*                                                                         *)
(* A configuration makes a new node object; a probe under way belongs to   *)
(* the object it was begun for and outlives it, with its own view of the   *)
(* engine.  A probe asks the candidate ports in turn and waits for each.   *)
(* The mirror flag, the number of slots and the instants are left out.     *)
(***************************************************************************)
EXTENDS Naturals, Sequences, Functions

CONSTANTS
    Ports,
    Engines,       \* what a port may answer as
    Candidates,    \* port lists the configuration may give the node
    MaxGen,        \* bound: configurations and restarts
    MaxBoots       \* bound: restarts

ASSUME EngineAssumption ==
    /\ "none" \notin Engines /\ "none" \notin Ports
    /\ Candidates \subseteq Seq(Ports) \ {<<>>}
    /\ MaxGen \in Nat /\ MaxBoots \in Nat

VARIABLES
    world,    \* what answers on each port
    def,      \* the candidate ports; <<>> when the node is not in the configuration
    gen,      \* which object the node has
    cur,      \* its cur
    due,      \* nextAt has come, or the live reader poked
    probes,   \* the probes under way: [gen, rest, cur], rest being the ports still to ask
    row,      \* the row of engine_state
    log,      \* the last row of engine_log
    boots,    \* restarts so far
    astray    \* auxiliary: an older object's probe, or a crash, had the last word on the row

vars == <<world, def, gen, cur, due, probes, row, log, boots, astray>>
stored == <<row, log>>

NoEngine == [engine |-> "none", port |-> "none"]
Found(e, p) == [engine |-> e, port |-> p]
Probe(g, ports, c) == [gen |-> g, rest |-> ports, cur |-> c]

Init ==
    /\ world \in [Ports -> Engines \cup {"none"}]
    /\ def \in Candidates /\ gen = 0
    /\ cur = NoEngine /\ row = NoEngine
    /\ log = [prev |-> NoEngine, next |-> NoEngine]
    /\ due = FALSE /\ probes = {Probe(0, def, NoEngine)}
    /\ boots = 0 /\ astray = FALSE

\* An engine is started, stopped or moved.
WorldChanges ==
    /\ world' \in [Ports -> Engines \cup {"none"}]
    /\ world' # world
    /\ UNCHANGED <<def, gen, cur, due, probes, stored, boots, astray>>

-----------------------------------------------------------------------------
(* configure(), at a reload and at a boot. *)

\* The stored engine, if its port is still a candidate.
FromRow(c) == IF row.port \in Range(c) THEN row ELSE NoEngine

\* The engine the node's new object starts with.
Inherited(c) == IF def # <<>> /\ cur # NoEngine THEN cur ELSE FromRow(c)

\* The new object of candidates c starts with engine e, and is probed at once.
Renewed(c, e) ==
    /\ gen < MaxGen
    /\ gen' = gen + 1 /\ def' = c /\ cur' = e /\ due' = FALSE

Reconfigure(c) ==
    /\ Renewed(c, IF c = <<>> THEN NoEngine ELSE Inherited(c))
    /\ probes' = probes \cup (IF c = <<>> THEN {} ELSE {Probe(gen', c, cur')})
    /\ UNCHANGED <<world, stored, boots, astray>>

Boot ==
    /\ def # <<>> /\ boots < MaxBoots
    /\ Renewed(def, cur')
    /\ probes' = {Probe(gen', def, cur')}
    /\ boots' = boots + 1

Restart ==
    /\ cur' = FromRow(def)
    /\ Boot
    /\ UNCHANGED <<world, stored, astray>>

-----------------------------------------------------------------------------
(* tick() and _probe(). *)

\* The interval has passed, or poke() was called.
BecomesDue ==
    /\ def # <<>> /\ ~due /\ due' = TRUE
    /\ UNCHANGED <<world, def, gen, cur, probes, stored, boots, astray>>

\* n.probing.
Probing == \E p \in probes : p.gen = gen

Tick ==
    /\ def # <<>> /\ due /\ ~Probing
    /\ probes' = probes \cup {Probe(gen, def, cur)}
    /\ due' = FALSE
    /\ UNCHANGED <<world, def, gen, cur, stored, boots, astray>>

\* Wrong on purpose, to show that ShownEngineRight sees it: the probe looks its node up
\* again.
OfNode(p) == def # <<>>

\* The probe's object is the node's.
OfCurrent(p) == p.gen = gen

Silent(p) == world[Head(p.rest)] = "none"

\* A port does not answer, or not as an engine: the next one is asked.
AskNext(p) ==
    /\ Silent(p) /\ Len(p.rest) > 1
    /\ probes' = (probes \ {p}) \cup {[p EXCEPT !.rest = Tail(p.rest)]}
    /\ UNCHANGED <<world, def, gen, cur, due, stored, boots, astray>>

\* The engine shown stays what it was.
NoneAnswers(p) ==
    /\ Silent(p) /\ Len(p.rest) = 1
    /\ probes' = probes \ {p}
    /\ due' = (due /\ ~OfCurrent(p))
    /\ UNCHANGED <<world, def, gen, cur, stored, boots, astray>>

Changed(a, b) == a # b

\* Wrong on purpose, to show that FindsEngine sees it: the row is written with the log
\* only.
StoredIfChanged(p, found) == IF p.cur # found THEN found ELSE row

\* Wrong on purpose, to show that EngineInvariant sees it: the row is written for a new
\* engine.
StoredIfEngine(p, found) == IF p.cur.engine # found.engine THEN found ELSE row

\* What the upsert of every successful probe leaves.
Stored(p, found) == found

Logged(p, found) == IF Changed(p.cur, found) THEN [prev |-> p.cur, next |-> found] ELSE log

Answer(p) == Found(world[Head(p.rest)], Head(p.rest))

\* The first port that answers decides.
Answers(p) ==
    /\ ~Silent(p)
    /\ probes' = probes \ {p}
    /\ cur' = IF OfCurrent(p) THEN Answer(p) ELSE cur
    /\ due' = (due /\ ~OfCurrent(p))
    /\ log' = Logged(p, Answer(p))
    /\ row' = Stored(p, Answer(p))
    /\ astray' = IF p.gen # gen THEN TRUE ELSE astray /\ ~Changed(p.cur, Answer(p))
    /\ UNCHANGED <<world, def, gen, boots>>

\* The upsert throws after the log was written: nothing catches it, and the process ends.
DiesWriting(p) ==
    /\ ~Silent(p) /\ Changed(p.cur, Answer(p))
    /\ log' = Logged(p, Answer(p))
    /\ astray' = TRUE
    /\ cur' = FromRow(def)
    /\ Boot
    /\ UNCHANGED <<world, row>>

ProbeStep(g) == \E p \in probes : p.gen = g /\ (AskNext(p) \/ NoneAnswers(p) \/ Answers(p))

Next ==
    \/ WorldChanges
    \/ \E c \in Candidates \cup {<<>>} : Reconfigure(c)
    \/ Restart
    \/ BecomesDue \/ Tick
    \/ \E p \in probes : AskNext(p) \/ NoneAnswers(p) \/ Answers(p) \/ DiesWriting(p)

Spec == Init /\ [][Next]_vars

\* The interval fires, and every request has a timeout (PROBE_TIMEOUT_MS).
FairSpec ==
    /\ Spec
    /\ WF_vars(BecomesDue) /\ WF_vars(Tick)
    /\ \A g \in 0 .. MaxGen : WF_vars(ProbeStep(g))

-----------------------------------------------------------------------------
(* Properties. *)

Engine == [engine : Engines, port : Ports] \cup {NoEngine}

\* Every variable holds what it can hold, and an object has one probe at a time.
TypeOK ==
    /\ world \in [Ports -> Engines \cup {"none"}]
    /\ def \in Candidates \cup {<<>>}
    /\ gen \in 0 .. MaxGen /\ boots \in 0 .. MaxBoots
    /\ cur \in Engine /\ row \in Engine
    /\ log.prev \in Engine /\ log.next \in Engine
    /\ due \in BOOLEAN /\ astray \in BOOLEAN
    /\ \A p \in probes :
          /\ p.gen \in 0 .. gen /\ p.rest \in Seq(Ports) \ {<<>>} /\ p.cur \in Engine
          /\ \A q \in probes : p.gen = q.gen => p = q

\* What a restart would read is what the node shows, unless an older object's probe or a
\* crash between two writes had the last word.
RowIsCurrent == ~astray => cur \in {row, NoEngine}

\* Under the same condition the last line of the engine log ends with the engine stored.
LogTellsRow == ~astray => log.next = row

\* What a step may do to the engine the node shows.  No late probe of an older configuration
\* puts a port there that is no candidate any more.  "A node that answers on no port KEEPS
\* its last engine", through reloads and restarts too, as long as its port is a candidate
\* and the row was not led astray.
EngineStep ==
    /\ cur' # cur /\ cur' # NoEngine => cur'.port \in Range(def')
    /\ cur # NoEngine /\ cur' = NoEngine =>
          def' = <<>> \/ (boots' # boots /\ (astray' \/ cur.port \notin Range(def)))

ShownEngineRight == [][EngineStep]_vars

\* The port and the engine that answers first.
FirstOf(c, w) ==
    LET n == CHOOSE n \in DOMAIN c :
                 w[c[n]] # "none" /\ \A m \in 1 .. n - 1 : w[c[m]] = "none"
    IN  Found(w[c[n]], c[n])

\* Once configuration and engines stay as they are, the node shows the engine that
\* answers first and a restart would find it, whatever older probes still wrote.
FindsEngine ==
    <>[][UNCHANGED <<def, world>>]_vars =>
        <>[]((\E n \in DOMAIN def : world[def[n]] # "none") =>
                cur = FirstOf(def, world) /\ row = cur)

\* The engine of a node: well formed, stored as shown, and logged as stored.
EngineInvariant == TypeOK /\ RowIsCurrent /\ LogTellsRow

=============================================================================
