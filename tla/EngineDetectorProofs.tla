------------------------ MODULE EngineDetectorProofs ------------------------
(***************************************************************************)
(* What holds of the engine detector for any ports, candidate lists and    *)
(* engines, and any number of configurations and restarts; and of the live *)
(* reader for any servers, requests and slots, and any number of failures, *)
(* moves of the engine and reloads.                                        *)
(***************************************************************************)
EXTENDS MCEngineDetector, FiniteSetTheorems, WellFoundedInduction, TLAPS

\* What TypeOK says of one probe, and what ties it to the object it was begun for: the
\* node's own probe asks candidate ports and knows the engine the node shows.
ProbeRight(p) ==
    /\ p.gen \in 0 .. gen /\ p.rest \in Seq(Ports) \ {<<>>} /\ p.cur \in Engine
    /\ p.gen = gen => p.cur = cur /\ Range(p.rest) \subseteq Range(def)

ProbesRight == \A p \in probes : ProbeRight(p)

\* A node that is not configured has no engine and no probe of its own.
AbsentRight == def = <<>> => cur = NoEngine /\ \A p \in probes : p.gen # gen

IInv == TypeOK /\ ProbesRight /\ AbsentRight /\ RowIsCurrent /\ LogTellsRow

LEMMA RangeFacts ==
    ASSUME NEW s \in Seq(Ports), s # <<>>
    PROVE  /\ Head(s) \in Range(s) /\ Head(s) \in Ports
           /\ Tail(s) \in Seq(Ports)
           /\ Range(Tail(s)) \subseteq Range(s)
           /\ Len(s) > 1 => Tail(s) # <<>>
<1>1. Len(s) \in Nat /\ Len(s) # 0 /\ 1 \in DOMAIN s /\ Head(s) = s[1]
  OBVIOUS
<1>2. Head(s) \in Range(s)
  BY <1>1 DEF Range
<1>3. Range(Tail(s)) \subseteq Range(s)
  <2> SUFFICES ASSUME NEW i \in DOMAIN Tail(s) PROVE Tail(s)[i] \in Range(s)
    BY DEF Range
  <2>1. i + 1 \in DOMAIN s /\ Tail(s)[i] = s[i + 1]
    BY <1>1
  <2> QED BY <2>1 DEF Range
<1>4. Len(s) > 1 => Tail(s) # <<>>
  <2> SUFFICES ASSUME Len(s) > 1 PROVE Tail(s) # <<>>
    OBVIOUS
  <2>1. 1 \in DOMAIN Tail(s)
    BY <1>1
  <2>2. DOMAIN <<>> = {}
    OBVIOUS
  <2> QED BY <2>1, <2>2, Zenon
<1> QED BY <1>1, <1>2, <1>3, <1>4

LEMMA EngineFacts ==
    /\ NoEngine \in Engine
    /\ \A e \in Engines, p \in Ports : Found(e, p) \in Engine /\ Found(e, p) # NoEngine
    /\ \A e \in Engines, p \in Ports : Found(e, p).port = p
<1>1. ASSUME NEW e \in Engines, NEW p \in Ports
      PROVE  Found(e, p) \in Engine /\ Found(e, p) # NoEngine /\ Found(e, p).port = p
  BY <1>1, EngineAssumption DEF Engine, Found, NoEngine
<1> QED BY <1>1 DEF Engine

\* What a probe is answered is an engine on a port it was to ask.
LEMMA AnswerFacts ==
    ASSUME IInv, NEW p \in probes, ~Silent(p)
    PROVE  /\ Answer(p) \in Engine /\ Answer(p) # NoEngine
           /\ p.gen = gen => Answer(p).port \in Range(def)
<1>1. p.rest \in Seq(Ports) /\ p.rest # <<>>
  BY DEF IInv, ProbesRight, ProbeRight
<1>2. Head(p.rest) \in Ports /\ Head(p.rest) \in Range(p.rest)
  BY <1>1, RangeFacts
<1>3. world[Head(p.rest)] \in Engines
  BY <1>2 DEF IInv, TypeOK, Silent
<1>4. Answer(p) = Found(world[Head(p.rest)], Head(p.rest))
  BY DEF Answer
<1>5. p.gen = gen => Range(p.rest) \subseteq Range(def)
  BY DEF IInv, ProbesRight, ProbeRight
<1> QED BY <1>2, <1>3, <1>4, <1>5, EngineFacts

LEMMA InitHolds == Init => IInv
<1> SUFFICES ASSUME Init PROVE IInv
  OBVIOUS
<1>1. def \in Seq(Ports) /\ def # <<>>
  BY EngineAssumption DEF Init
<1>2. \A p \in probes : p = Probe(0, def, NoEngine)
  BY DEF Init
<1>3. ProbesRight
  BY <1>1, <1>2, EngineFacts DEF Init, ProbesRight, ProbeRight, Probe
<1>4. log.prev = NoEngine /\ log.next = NoEngine
  BY DEF Init
<1>5. gen \in 0 .. MaxGen /\ boots \in 0 .. MaxBoots
  BY EngineAssumption DEF Init
<1>6. \A p, q \in probes : p = q
  BY <1>2
<1>7. world \in [Ports -> Engines \cup {"none"}] /\ def \in Candidates
      /\ cur = NoEngine /\ row = NoEngine /\ due \in BOOLEAN /\ astray \in BOOLEAN
  BY DEF Init
<1>8. TypeOK
  BY <1>3, <1>4, <1>5, <1>6, <1>7, EngineFacts DEF TypeOK, ProbesRight, ProbeRight
<1> QED BY <1>1, <1>3, <1>4, <1>7, <1>8 DEF Init, IInv, AbsentRight, RowIsCurrent, LogTellsRow

\* A new object: older probes stay or go, and its own is begun.
LEMMA RenewedRight ==
    ASSUME IInv, NEW c \in Candidates \cup {<<>>}, NEW e \in Engine, Renewed(c, e),
           c = <<>> => e = NoEngine,
           \A p \in probes' : p \in probes \/ (c # <<>> /\ p = Probe(gen', c, e)),
           world' = world, boots' \in 0 .. MaxBoots, row' = row,
           log'.prev \in Engine, log'.next \in Engine, astray' \in BOOLEAN,
           ~astray' => e \in {row, NoEngine} /\ log'.next = row
    PROVE  IInv'
<1>1. gen \in Nat /\ gen' = gen + 1 /\ gen' \in 0 .. MaxGen /\ def' = c /\ cur' = e /\ due' = FALSE
  BY EngineAssumption DEF Renewed, IInv, TypeOK
<1>2. c # <<>> => c \in Seq(Ports)
  BY EngineAssumption
<1>3. ASSUME NEW p \in probes'
      PROVE  /\ p.gen \in 0 .. gen' /\ p.rest \in Seq(Ports) \ {<<>>} /\ p.cur \in Engine
             /\ p.gen = gen' => /\ p.cur = cur' /\ Range(p.rest) \subseteq Range(def')
                                /\ c # <<>> /\ p = Probe(gen', c, e)
  <2>1. CASE p \in probes
    <3>1. p.gen \in 0 .. gen /\ p.rest \in Seq(Ports) \ {<<>>} /\ p.cur \in Engine
      BY <2>1 DEF IInv, ProbesRight, ProbeRight
    <3> QED BY <1>1, <3>1
  <2>2. CASE c # <<>> /\ p = Probe(gen', c, e)
    BY <1>1, <1>2, <2>2 DEF Probe
  <2> QED BY <2>1, <2>2
<1>4. ProbesRight'
  BY <1>3 DEF ProbesRight, ProbeRight
<1>5. ASSUME NEW p \in probes', NEW q \in probes', p.gen = q.gen PROVE p = q
  <2>1. CASE p.gen = gen'
    BY <1>3, <1>5, <2>1
  <2>2. CASE p.gen # gen'
    <3>1. p \in probes /\ q \in probes
      BY <1>5, <2>2 DEF Probe
    <3> QED BY <1>5, <3>1 DEF IInv, TypeOK
  <2> QED BY <2>1, <2>2
<1>6. TypeOK'
  BY <1>1, <1>3, <1>5 DEF IInv, TypeOK
<1>7. AbsentRight'
  BY <1>1, <1>3 DEF AbsentRight
<1>8. RowIsCurrent' /\ LogTellsRow'
  BY <1>1 DEF RowIsCurrent, LogTellsRow
<1> QED BY <1>4, <1>6, <1>7, <1>8 DEF IInv

\* The stored engine is one the row holds.
LEMMA FromRowFacts ==
    ASSUME IInv, NEW c
    PROVE  FromRow(c) \in Engine /\ FromRow(c) \in {row, NoEngine}
  BY EngineFacts DEF IInv, TypeOK, FromRow

LEMMA ReconfigureHolds ==
    ASSUME IInv, NEW c \in Candidates \cup {<<>>}, Reconfigure(c)
    PROVE  IInv'
<1> DEFINE e == IF c = <<>> THEN NoEngine ELSE Inherited(c)
<1>1. Renewed(c, e)
  BY DEF Reconfigure
<1>2. e \in Engine /\ (~astray => e \in {row, NoEngine})
  BY EngineFacts, FromRowFacts DEF IInv, TypeOK, Inherited, RowIsCurrent
<1>3. \A p \in probes' : p \in probes \/ (c # <<>> /\ p = Probe(gen', c, e))
  BY <1>1 DEF Reconfigure, Renewed
<1>4. UNCHANGED <<world, row, log, boots, astray>>
  BY DEF Reconfigure, stored
<1>5. log.prev \in Engine /\ log.next \in Engine /\ astray \in BOOLEAN /\ boots \in 0 .. MaxBoots
  BY DEF IInv, TypeOK
<1> HIDE DEF e
<1>6. c = <<>> => e = NoEngine
  BY DEF e
<1> QED BY <1>1, <1>2, <1>3, <1>4, <1>5, <1>6, RenewedRight DEF IInv, LogTellsRow

\* Whatever was last logged and whether it agrees with the row.
LEMMA BootHolds ==
    ASSUME IInv, cur' = FromRow(def), Boot, world' = world, row' = row,
           log'.prev \in Engine, log'.next \in Engine, astray' \in BOOLEAN,
           ~astray' => log'.next = row
    PROVE  IInv'
<1>1. /\ def # <<>> /\ boots < MaxBoots /\ boots' = boots + 1
      /\ Renewed(def, cur') /\ probes' = {Probe(gen', def, cur')}
  BY DEF Boot
<1>2. cur' \in Engine /\ cur' \in {row, NoEngine}
  BY FromRowFacts
<1>3. boots' \in 0 .. MaxBoots /\ def \in Candidates \cup {<<>>}
  BY <1>1, EngineAssumption DEF IInv, TypeOK
<1>4. \A p \in probes' : p \in probes \/ (def # <<>> /\ p = Probe(gen', def, cur'))
  BY <1>1
<1> QED BY <1>1, <1>2, <1>3, <1>4, RenewedRight

\* A probe of the node's own object, or none, is taken away or moved on.
LEMMA NoneAnswersHolds ==
    ASSUME IInv, NEW p \in probes, NoneAnswers(p)
    PROVE  IInv'
<1>1. /\ probes' \subseteq probes
      /\ UNCHANGED <<world, def, gen, cur, row, log, boots, astray>>
      /\ due' = (due /\ ~OfCurrent(p))
  BY DEF NoneAnswers, stored
<1>2. due' \in BOOLEAN
  BY <1>1
<1>3. ProbesRight' /\ AbsentRight'
  BY <1>1 DEF IInv, ProbesRight, ProbeRight, AbsentRight
<1>4. TypeOK'
  BY <1>1, <1>2 DEF IInv, TypeOK
<1> QED BY <1>1, <1>3, <1>4 DEF IInv, RowIsCurrent, LogTellsRow

LEMMA AskNextHolds ==
    ASSUME IInv, NEW p \in probes, AskNext(p)
    PROVE  IInv'
<1> DEFINE n == [p EXCEPT !.rest = Tail(p.rest)]
<1>1. /\ probes' = (probes \ {p}) \cup {n}
      /\ UNCHANGED <<world, def, gen, cur, due, row, log, boots, astray>>
      /\ Len(p.rest) > 1
  BY DEF AskNext, stored
<1>2. ProbeRight(p) /\ p.rest \in Seq(Ports) /\ p.rest # <<>>
  BY DEF IInv, ProbesRight, ProbeRight
<1>3. n.gen = p.gen /\ n.cur = p.cur /\ n.rest = Tail(p.rest)
  OBVIOUS
<1> HIDE DEF n
<1>4. n.rest \in Seq(Ports) \ {<<>>} /\ Range(n.rest) \subseteq Range(p.rest)
  BY <1>1, <1>2, <1>3, RangeFacts
<1>5. ProbeRight(n)
  BY <1>2, <1>3, <1>4 DEF ProbeRight
<1>6. \A q \in probes' : ProbeRight(q) /\ (q \in probes \/ q = n)
  BY <1>1, <1>5 DEF IInv, ProbesRight
<1>7. ASSUME NEW q \in probes', NEW r \in probes', q.gen = r.gen PROVE q = r
  BY <1>1, <1>3, <1>7 DEF IInv, TypeOK
<1>8. ProbesRight'
  BY <1>1, <1>6 DEF ProbesRight, ProbeRight
<1>9. AbsentRight'
  BY <1>1, <1>3 DEF IInv, AbsentRight
<1>10. TypeOK'
  BY <1>1, <1>6, <1>7 DEF IInv, TypeOK, ProbeRight
<1> QED BY <1>1, <1>8, <1>9, <1>10 DEF IInv, RowIsCurrent, LogTellsRow

LEMMA AnswersHolds ==
    ASSUME IInv, NEW p \in probes, Answers(p)
    PROVE  IInv'
<1> DEFINE a == Answer(p)
<1>1. /\ ~Silent(p)
      /\ probes' = probes \ {p}
      /\ cur' = IF p.gen = gen THEN a ELSE cur
      /\ log' = IF p.cur # a THEN [prev |-> p.cur, next |-> a] ELSE log
      /\ row' = a
      /\ astray' = IF p.gen # gen THEN TRUE ELSE astray /\ p.cur = a
      /\ UNCHANGED <<world, def, gen, boots>>
  BY DEF Answers, OfCurrent, Logged, Changed, Stored
<1>2. due' \in BOOLEAN
  BY DEF Answers
<1>3. a \in Engine /\ a # NoEngine
  BY <1>1, AnswerFacts
<1> HIDE DEF a
<1>4. ProbeRight(p)
  BY DEF IInv, ProbesRight
<1>5. \A q \in probes' : q \in probes /\ ProbeRight(q) /\ (p.gen = gen => q.gen # gen)
  BY <1>1 DEF IInv, TypeOK, ProbesRight
<1>6. ProbesRight'
  BY <1>1, <1>5 DEF ProbesRight, ProbeRight
<1>7. AbsentRight'
  BY <1>1, <1>5 DEF IInv, AbsentRight
<1>8. log'.prev \in Engine /\ log'.next \in Engine
  BY <1>1, <1>3, <1>4 DEF IInv, TypeOK, ProbeRight
<1>9. TypeOK'
  BY <1>1, <1>2, <1>3, <1>5, <1>8 DEF IInv, TypeOK
<1>10. ASSUME ~astray' PROVE cur' = row' /\ log'.next = row'
  <2>1. p.gen = gen /\ (~astray \/ p.cur # a)
    BY <1>1, <1>10
  <2>2. CASE p.cur # a
    BY <1>1, <2>1, <2>2
  <2>3. CASE p.cur = a
    <3>1. ~astray /\ cur = a
      BY <1>4, <2>1, <2>3 DEF ProbeRight
    <3>2. log.next = row /\ row = a
      BY <1>3, <3>1 DEF IInv, RowIsCurrent, LogTellsRow
    <3> QED BY <1>1, <2>1, <2>3, <3>2
  <2> QED BY <2>2, <2>3
<1> QED BY <1>6, <1>7, <1>9, <1>10 DEF IInv, RowIsCurrent, LogTellsRow

LEMMA StepHolds == IInv /\ [Next]_vars => IInv'
<1> SUFFICES ASSUME IInv, [Next]_vars PROVE IInv'
  OBVIOUS
<1>1. CASE WorldChanges
  BY <1>1 DEF WorldChanges, stored, IInv, TypeOK, ProbesRight, ProbeRight, AbsentRight, RowIsCurrent, LogTellsRow
<1>2. ASSUME NEW c \in Candidates \cup {<<>>}, Reconfigure(c) PROVE IInv'
  BY <1>2, ReconfigureHolds
<1>3. CASE Restart
  <2>1. log.prev \in Engine /\ log.next \in Engine /\ astray \in BOOLEAN /\ (~astray => log.next = row)
    BY DEF IInv, TypeOK, LogTellsRow
  <2>2. cur' = FromRow(def) /\ Boot /\ UNCHANGED <<world, row, log, astray>>
    BY <1>3 DEF Restart, stored
  <2> QED BY <2>1, <2>2, BootHolds
<1>4. CASE BecomesDue
  BY <1>4 DEF BecomesDue, stored, IInv, TypeOK, ProbesRight, ProbeRight, AbsentRight, RowIsCurrent, LogTellsRow
<1>5. CASE Tick
  <2> DEFINE n == Probe(gen, def, cur)
  <2>1. /\ def # <<>> /\ \A p \in probes : p.gen # gen
        /\ probes' = probes \cup {n} /\ due' = FALSE
        /\ UNCHANGED <<world, def, gen, cur, row, log, boots, astray>>
    BY <1>5 DEF Tick, Probing, stored
  <2>2. n.gen = gen /\ n.rest = def /\ n.cur = cur
    BY DEF Probe
  <2> HIDE DEF n
  <2>3. def \in Seq(Ports) \ {<<>>} /\ cur \in Engine /\ gen \in Nat
    BY <2>1, EngineAssumption DEF IInv, TypeOK
  <2>4. \A p \in probes' : ProbeRight(p)
    BY <2>1, <2>2, <2>3 DEF IInv, ProbesRight, ProbeRight
  <2>5. ProbesRight'
    BY <2>1, <2>4 DEF ProbesRight, ProbeRight
  <2>6. TypeOK'
    BY <2>1, <2>2, <2>4 DEF IInv, TypeOK, ProbeRight
  <2> QED BY <2>1, <2>5, <2>6 DEF IInv, AbsentRight, RowIsCurrent, LogTellsRow
<1>6. ASSUME NEW p \in probes, AskNext(p) PROVE IInv'
  BY <1>6, AskNextHolds
<1>7. ASSUME NEW p \in probes, NoneAnswers(p) PROVE IInv'
  BY <1>7, NoneAnswersHolds
<1>8. ASSUME NEW p \in probes, Answers(p) PROVE IInv'
  BY <1>8, AnswersHolds
<1>9. ASSUME NEW p \in probes, DiesWriting(p) PROVE IInv'
  <2>1. /\ ~Silent(p) /\ log' = [prev |-> p.cur, next |-> Answer(p)]
        /\ astray' = TRUE /\ cur' = FromRow(def) /\ Boot
        /\ UNCHANGED <<world, row>>
    BY <1>9 DEF DiesWriting, Logged
  <2>2. p.cur \in Engine /\ Answer(p) \in Engine
    BY <2>1, AnswerFacts DEF IInv, ProbesRight, ProbeRight
  <2> QED BY <2>1, <2>2, BootHolds
<1>10. CASE UNCHANGED vars
  BY <1>10 DEF vars, stored, IInv, TypeOK, ProbesRight, ProbeRight, AbsentRight, RowIsCurrent, LogTellsRow
<1> QED BY <1>1, <1>2, <1>3, <1>4, <1>5, <1>6, <1>7, <1>8, <1>9, <1>10 DEF Next

LEMMA InvariantHolds == Spec => []IInv
<1> QED BY InitHolds, StepHolds, PTL DEF Spec

\* Every variable keeps its type, and no object is probed twice at once.
THEOREM TypeCorrect == Spec => []TypeOK
<1>1. IInv => TypeOK
  BY DEF IInv
<1> QED BY <1>1, InvariantHolds, PTL

\* engine.js: a restart would read what the node shows.
THEOREM RowCurrent == Spec => []RowIsCurrent
<1>1. IInv => RowIsCurrent
  BY DEF IInv
<1> QED BY <1>1, InvariantHolds, PTL

\* engine.js: the engine log ends with the engine stored.
THEOREM LogCurrent == Spec => []LogTellsRow
<1>1. IInv => LogTellsRow
  BY DEF IInv
<1> QED BY <1>1, InvariantHolds, PTL

\* A process that starts again reads the row.
LEMMA BootStep ==
    ASSUME IInv, cur' = FromRow(def), Boot, astray' \/ astray' = astray
    PROVE  EngineStep
<1>1. def' = def /\ boots' = boots + 1 /\ boots \in Nat
  BY EngineAssumption DEF Boot, Renewed, IInv, TypeOK
<1>2. cur' # NoEngine => cur'.port \in Range(def')
  BY <1>1 DEF FromRow
<1>3. ASSUME cur # NoEngine, cur' = NoEngine, ~astray' PROVE cur.port \notin Range(def)
  <2>1. cur = row
    BY <1>3 DEF IInv, RowIsCurrent
  <2> QED BY <1>3, <2>1 DEF FromRow
<1> QED BY <1>1, <1>2, <1>3 DEF EngineStep

LEMMA NextEngineStep == IInv /\ [Next]_vars => EngineStep
<1> SUFFICES ASSUME IInv, [Next]_vars PROVE EngineStep
  OBVIOUS
<1>1. CASE cur' = cur
  BY <1>1 DEF EngineStep
<1>2. ASSUME NEW c \in Candidates \cup {<<>>}, Reconfigure(c) PROVE EngineStep
  <2>1. def' = c /\ cur' = IF c = <<>> THEN NoEngine ELSE Inherited(c)
    BY <1>2 DEF Reconfigure, Renewed
  <2>2. cur # NoEngine => def # <<>>
    BY DEF IInv, AbsentRight
  <2>3. CASE c = <<>>
    BY <2>1, <2>3 DEF EngineStep
  <2>4. CASE c # <<>> /\ cur # NoEngine
    BY <2>1, <2>2, <2>4 DEF EngineStep, Inherited
  <2>5. CASE c # <<>> /\ cur = NoEngine
    BY <2>1, <2>5 DEF EngineStep, Inherited, FromRow
  <2> QED BY <2>3, <2>4, <2>5
<1>3. CASE Restart
  <2>1. astray' = astray
    BY <1>3 DEF Restart
  <2> QED BY <1>3, <2>1, BootStep DEF Restart
<1>4. ASSUME NEW p \in probes, Answers(p) PROVE EngineStep
  <2>1. Answer(p) # NoEngine /\ (p.gen = gen => Answer(p).port \in Range(def))
    BY <1>4, AnswerFacts DEF Answers
  <2>2. cur' = IF p.gen = gen THEN Answer(p) ELSE cur
    BY <1>4 DEF Answers, OfCurrent
  <2>3. def' = def
    BY <1>4 DEF Answers
  <2> QED BY <2>1, <2>2, <2>3 DEF EngineStep
<1>5. ASSUME NEW p \in probes, DiesWriting(p) PROVE EngineStep
  BY <1>5, BootStep DEF DiesWriting
<1>6. ASSUME NEW p \in probes, AskNext(p) \/ NoneAnswers(p) PROVE cur' = cur
  BY <1>6 DEF AskNext, NoneAnswers
<1>7. WorldChanges \/ BecomesDue \/ Tick \/ UNCHANGED vars => cur' = cur
  BY DEF WorldChanges, BecomesDue, Tick, vars
<1> QED BY <1>1, <1>2, <1>3, <1>4, <1>5, <1>6, <1>7 DEF Next

\* configure() and _probe(): no late probe shows a port that is no candidate, and a node
\* that answers on no port keeps its engine through reloads and restarts.
THEOREM ShownRight == Spec => ShownEngineRight
<1>1. IInv /\ [Next]_vars => [EngineStep]_vars
  BY NextEngineStep
<1> QED BY <1>1, InvariantHolds, PTL DEF Spec, ShownEngineRight

\* The three invariants together, as the run checks them.
THEOREM EngineSound == Spec => []EngineInvariant
BY TypeCorrect, RowCurrent, LogCurrent, PTL DEF EngineInvariant

-----------------------------------------------------------------------------
(* The live reader. *)

\* A set of numbers that is not empty has a least one.
LEMMA SmallestSubset ==
    ASSUME NEW A, IsFiniteSet(A), NEW C, C \subseteq SUBSET A, C # {}
    PROVE  \E T \in C : \A U \in C : ~(U \subseteq T /\ U # T)
  <1>1. IsWellFoundedOn(StrictSubsetOrdering(A), SUBSET A)
    BY FS_StrictSubsetOrderingWellFounded, FS_FiniteSubsetsOfFinite
  <1>2. PICK T \in C : \A U \in C : ~(<<U, T>> \in StrictSubsetOrdering(A))
    BY <1>1, WFMin
  <1> QED
    BY <1>2 DEF StrictSubsetOrdering

LEMMA Smallest ==
    ASSUME NEW T, T \subseteq Nat, T # {}
    PROVE  \E t \in T : \A u \in T : t <= u
  <1>1. PICK top \in T : TRUE
    OBVIOUS
  <1> DEFINE C == {0..t : t \in {u \in T : u <= top}}
             upTo == 0..top
  <1>2. C \subseteq SUBSET upTo /\ C # {}
    BY <1>1
  <1>3. IsFiniteSet(upTo)
    BY <1>1, FS_Interval
  <1>4. PICK I \in C : \A J \in C : ~(J \subseteq I /\ J # I)
    <2> HIDE DEF C, upTo
    <2> QED
      BY <1>2, <1>3, SmallestSubset
  <1>5. PICK t \in T : t <= top /\ I = 0..t
    BY <1>4
  <1>6. ASSUME NEW u \in T, ~(t <= u)
        PROVE  FALSE
    <2>1. u \in Nat /\ t \in Nat /\ top \in Nat /\ u < t
      BY <1>1, <1>5, <1>6
    <2>2. 0..u \in C
      BY <1>5, <2>1
    <2>3. 0..u \subseteq I /\ t \in I /\ t \notin 0..u
      BY <1>5, <2>1
    <2> HIDE DEF C
    <2> QED
      BY <1>4, <2>2, <2>3
  <1> QED
    BY <1>6

LEMMA LiveConstants ==
    /\ Strata \subseteq Servers /\ Slots \subseteq Nat /\ IsFiniteSet(Slots)
  <1>1. L!IsFiniteSet(Slots) <=> IsFiniteSet(Slots)
    BY DEF L!IsFiniteSet, IsFiniteSet
  <1> QED
    BY <1>1, PartsAssumption DEF L!LiveAssumption

LEMMA LeastSlot ==
    ASSUME NEW T, T \subseteq Slots, T # {}
    PROVE  L!Min(T) \in T
  <1>1. T \subseteq Nat
    BY LiveConstants
  <1>2. \E t \in T : \A u \in T : t <= u
    BY <1>1, Smallest
  <1> QED
    BY <1>1, <1>2 DEF L!Min

Phases == {"new", "prefill", "decode", "gone"}
Lives == {"prefill", "decode"}

\* A request is at a slot of a server from its start on, and no two that run share one.
ReqsRight ==
    /\ req \in [Requests -> [phase : Phases, server : Servers \cup {L!None},
                             slot : Slots \cup {L!Solo, L!None}]]
    /\ \A r \in Requests : req[r].phase # "new" =>
          /\ req[r].server \in Servers
          /\ req[r].slot \in IF req[r].server \in Strata THEN Slots \cup {L!Solo} ELSE Slots
    /\ \A r, u \in Requests :
          req[r].phase \in Lives /\ req[u].phase \in Lives /\ req[r].server = req[u].server
             /\ req[r].slot = req[u].slot => r = u

Begun(r, d) == req[r].phase # "new" /\ req[r].server = d
Over(r) == req[r].phase = "gone"

\* The counters of a server are of prompts it was sent.
FlushedOwn ==
    /\ flushed \in [Servers -> SUBSET Requests]
    /\ \A s \in Servers : \A r \in flushed[s] : Begun(r, s)

Keys == {<<s>> : s \in Slots \cup {L!Solo}} \cup {<<s, r>> : s \in Slots, r \in Requests}

StateType ==
    [reachable : BOOLEAN, fails : Nat, rest : BOOLEAN, tasks : SUBSET L!Task,
     last : SUBSET Requests, lastPrefill : SUBSET Requests, exact : BOOLEAN]

\* A stream read from d is of requests sent to d, and has their key.
StreamRight(t, d) == \A r \in t.reqs : Begun(r, d) /\ L!Key(r) = t.key

Apart(T) == \A t, u \in T : t.key = u.key => t = u

\* What is known of a node that is read from d, if it is.
StateRight(s, d) ==
    /\ s \in StateType /\ Apart(s.tasks)
    /\ \A r \in s.last : Over(r)
    /\ d # L!None => /\ \A r \in s.last \cup s.lastPrefill : Begun(r, d)
                     /\ \A t \in s.tasks : StreamRight(t, d)

NodeRight ==
    /\ node \in [there : BOOLEAN, def : Servers \cup {L!None}, st : StateType]
    /\ StateRight(node.st, node.def)

\* A reading of the node's object is of the server the object is read from; when the
\* counters are asked for, only the stream they are asked for may run.
ReadingRight ==
    /\ poll \in [pc : {"idle", "status", "slots", "counters"}, def : Servers \cup {L!None},
                 shared : BOOLEAN, key : Keys \cup {L!None}]
    /\ poll.pc # "idle" /\ poll.shared =>
          poll.def = node.def /\ node.def # L!None /\ node.def \in Servers
    /\ poll.pc = "counters" /\ poll.shared =>
          \A t \in node.st.tasks : t.key # poll.key => \A r \in t.reqs : Over(r)

LiveInv ==
    /\ up \in [Servers -> BOOLEAN] /\ where \in Servers \cup {L!None} /\ poked \in BOOLEAN
    /\ ReqsRight /\ FlushedOwn /\ NodeRight /\ ReadingRight

LEMMA KeysRight ==
    ASSUME ReqsRight, NEW r \in Requests, NEW u \in Requests,
           req[r].phase \in Lives, req[u].phase # "new", req[r].server = req[u].server
    PROVE  /\ L!Key(r) \in Keys
           /\ L!Key(r) = L!Key(u) /\ req[u].phase \in Lives => r = u
           /\ L!Key(r) = L!Key(u) => req[r].slot = req[u].slot
  <1>1. /\ req[r].slot \in IF req[r].server \in Strata THEN Slots \cup {L!Solo} ELSE Slots
        /\ req[r].slot = req[u].slot /\ req[u].phase \in Lives => r = u
    BY DEF ReqsRight, Lives
  <1>2. L!Key(r) = IF req[r].server \in Strata THEN <<req[r].slot>> ELSE <<req[r].slot, r>>
    BY DEF L!Key
  <1>3. L!Key(u) = IF req[u].server \in Strata THEN <<req[u].slot>> ELSE <<req[u].slot, u>>
    BY DEF L!Key
  <1>4. L!Key(r) = L!Key(u) => req[r].slot = req[u].slot
    BY <1>2, <1>3
  <1>5. L!Key(r) \in Keys
    BY <1>1, <1>2 DEF Keys
  <1> QED
    BY <1>1, <1>4, <1>5

LEMMA FreshState ==
    /\ L!freshState \in StateType /\ L!freshState.tasks = {} /\ L!freshState.last = {}
    /\ L!freshState.lastPrefill = {}
  BY DEF L!freshState, StateType

LEMMA FreshRight == ASSUME NEW d PROVE StateRight(L!freshState, d)
  BY FreshState DEF StateRight, Apart

LEMMA LiveInit == L!Init => LiveInv
  <1> SUFFICES ASSUME L!Init PROVE LiveInv
    OBVIOUS
  <1>1. ReqsRight
    BY DEF L!Init, ReqsRight, Phases, Lives
  <1>2. FlushedOwn
    BY DEF L!Init, FlushedOwn
  <1>3. node \in [there : BOOLEAN, def : Servers \cup {L!None}, st : StateType]
        /\ node.st = L!freshState
    BY FreshState DEF L!Init, L!Absent
  <1>4. NodeRight
    BY <1>3, FreshRight DEF NodeRight
  <1>5. ReadingRight
    BY DEF L!Init, L!Idle, ReadingRight
  <1> QED
    BY <1>1, <1>2, <1>4, <1>5 DEF L!Init, LiveInv

-----------------------------------------------------------------------------
\* What the servers do leaves what is known of a node right: a request that has started
\* stays where it is, and one that is over stays over.
LEMMA ServersMove ==
    ASSUME LiveInv, ReqsRight', FlushedOwn', up' \in [Servers -> BOOLEAN],
           \A r \in Requests :
              /\ req[r].phase # "new" => /\ req'[r].phase # "new" /\ req'[r].server = req[r].server
                                         /\ req'[r].slot = req[r].slot
              /\ Over(r) => Over(r)',
           UNCHANGED <<where, poked, node, poll>>
    PROVE  LiveInv'
  <1>1. \A r \in Requests : \A d : Begun(r, d) => Begun(r, d)' /\ L!Key(r)' = L!Key(r)
    BY DEF Begun, L!Key
  <1>2. /\ node.st \in StateType
        /\ node.st.last \subseteq Requests /\ node.st.lastPrefill \subseteq Requests
        /\ \A t \in node.st.tasks : t.reqs \subseteq Requests
    BY DEF LiveInv, NodeRight, StateType, L!Task
  <1>3. NodeRight'
    <2>1. StateRight(node.st, node.def)
      BY DEF LiveInv, NodeRight
    <2>2. \A t \in node.st.tasks :
             StreamRight(t, node.def) => \A r \in t.reqs : Begun(r, node.def)' /\ L!Key(r)' = t.key
      BY <1>1, <1>2 DEF StreamRight
    <2>3. StateRight(node.st, node.def)'
      BY <1>1, <1>2, <2>1, <2>2 DEF StateRight, StreamRight
    <2> QED
      BY <2>3 DEF LiveInv, NodeRight
  <1>4. ReadingRight'
    BY <1>2 DEF LiveInv, ReadingRight
  <1> QED
    BY <1>3, <1>4 DEF LiveInv

LEMMA ServerStep ==
    ASSUME LiveInv,
           \/ \E r \in Requests, s \in Servers : L!StartRequest(r, s)
           \/ \E r \in Requests : L!FirstOutput(r) \/ L!EndRequest(r)
           \/ \E s \in Servers : L!ServerDies(s) \/ L!ServerStarts(s)
    PROVE  LiveInv'
  <1>0. /\ ReqsRight /\ FlushedOwn /\ up \in [Servers -> BOOLEAN]
        /\ req \in [Requests -> [phase : Phases, server : Servers \cup {L!None},
                                 slot : Slots \cup {L!Solo, L!None}]]
    BY DEF LiveInv, ReqsRight
  <1>1. ASSUME NEW r \in Requests, NEW s \in Servers, L!StartRequest(r, s)
        PROVE  LiveInv'
    <2>1. /\ UNCHANGED <<up, flushed, where, poked, node, poll>>
          /\ req[r].phase = "new" /\ L!Solo \notin L!Places(s) /\ Slots \ L!Places(s) # {}
      BY <1>1 DEF L!StartRequest
    <2>2. L!Min(Slots \ L!Places(s)) \in Slots \ L!Places(s)
      BY <2>1, LeastSlot
    <2>3. PICK p \in {L!Min(Slots \ L!Places(s))}
                     \cup (IF s \in Strata /\ L!Running(s) = {} THEN {L!Solo} ELSE {}) :
            req' = [req EXCEPT ![r] = [phase |-> "prefill", server |-> s, slot |-> p]]
      BY <1>1 DEF L!StartRequest
    <2>4. /\ p \in IF s \in Strata THEN Slots \cup {L!Solo} ELSE Slots
          /\ p \notin L!Places(s)
      BY <2>1, <2>2, <2>3
    <2>5. PICK n : n = [phase |-> "prefill", server |-> s, slot |-> p]
      OBVIOUS
    <2>6. /\ n \in [phase : Phases, server : Servers \cup {L!None}, slot : Slots \cup {L!Solo, L!None}]
          /\ n.phase = "prefill" /\ n.server = s /\ n.slot = p
      BY <2>4, <2>5 DEF Phases
    <2>7. /\ req' \in [Requests -> [phase : Phases, server : Servers \cup {L!None},
                                    slot : Slots \cup {L!Solo, L!None}]]
          /\ req'[r] = n /\ \A u \in Requests : u # r => req'[u] = req[u]
      BY <1>0, <2>3, <2>5, <2>6
    <2>8. \A u \in Requests : req[u].phase \in Lives /\ req[u].server = s => req[u].slot # p
      BY <2>4 DEF L!Places, L!Running, Lives
    <2>9. ReqsRight'
      <3>1. \A u \in Requests : req'[u].phase # "new" =>
              /\ req'[u].server \in Servers
              /\ req'[u].slot \in IF req'[u].server \in Strata THEN Slots \cup {L!Solo} ELSE Slots
        BY <1>0, <2>4, <2>6, <2>7 DEF ReqsRight
      <3>2. ASSUME NEW u \in Requests, NEW v \in Requests, req'[u].phase \in Lives,
                   req'[v].phase \in Lives, req'[u].server = req'[v].server,
                   req'[u].slot = req'[v].slot
            PROVE  u = v
        BY <1>0, <2>6, <2>7, <2>8, <3>2 DEF ReqsRight
      <3> QED
        BY <2>7, <3>1, <3>2 DEF ReqsRight
    <2>10. FlushedOwn'
      BY <1>0, <2>1, <2>7 DEF FlushedOwn, Begun
    <2>11. \A u \in Requests :
              /\ req[u].phase # "new" => req'[u] = req[u]
              /\ Over(u) => Over(u)'
      BY <2>1, <2>7 DEF Over
    <2> QED
      BY <1>0, <2>1, <2>9, <2>10, <2>11, ServersMove
  <1>2. ASSUME NEW r \in Requests, NEW ph \in {"decode", "gone"}, req[r].phase \in Lives,
               req' = [req EXCEPT ![r] = [req[r] EXCEPT !.phase = ph]]
        PROVE  /\ ReqsRight'
               /\ \A u \in Requests :
                    /\ req[u].phase # "new" =>
                          /\ req'[u].phase # "new" /\ req'[u].server = req[u].server
                          /\ req'[u].slot = req[u].slot
                    /\ Over(u) => Over(u)'
    <2>1. PICK n : n = [req[r] EXCEPT !.phase = ph]
      OBVIOUS
    <2>2. /\ n \in [phase : Phases, server : Servers \cup {L!None}, slot : Slots \cup {L!Solo, L!None}]
          /\ n.phase = ph /\ n.server = req[r].server /\ n.slot = req[r].slot
      BY <1>0, <2>1 DEF Phases
    <2>3. /\ req' \in [Requests -> [phase : Phases, server : Servers \cup {L!None},
                                    slot : Slots \cup {L!Solo, L!None}]]
          /\ req'[r] = n /\ \A u \in Requests : u # r => req'[u] = req[u]
      BY <1>0, <1>2, <2>1, <2>2
    <2>4. \A u \in Requests :
            /\ req'[u].server = req[u].server /\ req'[u].slot = req[u].slot
            /\ req'[u].phase # "new" <=> req[u].phase # "new"
            /\ req'[u].phase \in Lives => req[u].phase \in Lives
            /\ Over(u) => Over(u)'
      BY <1>2, <2>2, <2>3 DEF Lives, Over
    <2>5. ReqsRight'
      BY <1>0, <2>3, <2>4 DEF ReqsRight
    <2> QED
      BY <2>4, <2>5
  <1>3. ASSUME NEW r \in Requests, L!FirstOutput(r)
        PROVE  LiveInv'
    <2>1. /\ UNCHANGED <<up, where, poked, node, poll>>
          /\ req[r].phase \in Lives
          /\ req' = [req EXCEPT ![r] = [req[r] EXCEPT !.phase = "decode"]]
          /\ flushed' = [flushed EXCEPT ![req[r].server] = flushed[req[r].server] \cup {r}]
      BY <1>3 DEF L!FirstOutput, Lives
    <2>2. /\ ReqsRight'
          /\ \A u \in Requests :
               /\ req[u].phase # "new" =>
                     /\ req'[u].phase # "new" /\ req'[u].server = req[u].server
                     /\ req'[u].slot = req[u].slot
               /\ Over(u) => Over(u)'
      BY <1>2, <2>1
    <2>3. req[r].phase # "new" /\ req[r].server \in Servers
      BY <1>0, <2>1 DEF ReqsRight, Lives
    <2>4. FlushedOwn'
      BY <1>0, <2>1, <2>2, <2>3 DEF FlushedOwn, Begun
    <2> QED
      BY <1>0, <2>1, <2>2, <2>4, ServersMove
  <1>4. ASSUME NEW r \in Requests, L!EndRequest(r)
        PROVE  LiveInv'
    <2>1. /\ UNCHANGED <<up, flushed, where, poked, node, poll>>
          /\ req[r].phase \in Lives
          /\ req' = [req EXCEPT ![r] = [req[r] EXCEPT !.phase = "gone"]]
      BY <1>4 DEF L!EndRequest, Lives
    <2>2. /\ ReqsRight'
          /\ \A u \in Requests :
               /\ req[u].phase # "new" =>
                     /\ req'[u].phase # "new" /\ req'[u].server = req[u].server
                     /\ req'[u].slot = req[u].slot
               /\ Over(u) => Over(u)'
      BY <1>2, <2>1
    <2>3. FlushedOwn'
      BY <1>0, <2>1, <2>2 DEF FlushedOwn, Begun
    <2> QED
      BY <1>0, <2>1, <2>2, <2>3, ServersMove
  <1>5. ASSUME NEW s \in Servers, L!ServerDies(s)
        PROVE  LiveInv'
    <2>1. /\ UNCHANGED <<where, poked, node, poll>>
          /\ up' = [up EXCEPT ![s] = FALSE]
          /\ req' = [r \in Requests |-> IF r \in L!Running(s) THEN [req[r] EXCEPT !.phase = "gone"]
                                        ELSE req[r]]
          /\ flushed' = [flushed EXCEPT ![s] = {}]
      BY <1>5 DEF L!ServerDies
    <2>2. ASSUME NEW u \in Requests
          PROVE  /\ req'[u] \in [phase : Phases, server : Servers \cup {L!None},
                                 slot : Slots \cup {L!Solo, L!None}]
                 /\ req'[u].server = req[u].server /\ req'[u].slot = req[u].slot
                 /\ req'[u].phase # "new" <=> req[u].phase # "new"
                 /\ req'[u].phase \in Lives => req[u].phase \in Lives
                 /\ Over(u) => Over(u)'
      <3>1. req'[u] = IF u \in L!Running(s) THEN [req[u] EXCEPT !.phase = "gone"] ELSE req[u]
        BY <2>1
      <3>2. u \in L!Running(s) => req[u].phase \in Lives
        BY DEF L!Running, Lives
      <3> QED
        BY <1>0, <3>1, <3>2 DEF Phases, Lives, Over
    <2>3. req' \in [Requests -> [phase : Phases, server : Servers \cup {L!None},
                                 slot : Slots \cup {L!Solo, L!None}]]
      BY <2>1, <2>2
    <2>4. ReqsRight'
      BY <1>0, <2>2, <2>3 DEF ReqsRight
    <2>5. FlushedOwn'
      BY <1>0, <2>1, <2>2 DEF FlushedOwn, Begun
    <2> QED
      BY <1>0, <2>1, <2>2, <2>4, <2>5, ServersMove
  <1>6. ASSUME NEW s \in Servers, L!ServerStarts(s)
        PROVE  LiveInv'
    <2>1. /\ UNCHANGED <<req, flushed, where, poked, node, poll>>
          /\ up' = [up EXCEPT ![s] = TRUE]
      BY <1>6 DEF L!ServerStarts
    <2>2. ReqsRight' /\ FlushedOwn' /\ \A r \in Requests : Over(r) => Over(r)'
      BY <1>0, <2>1 DEF ReqsRight, FlushedOwn, Begun, Over
    <2> QED
      BY <1>0, <2>1, <2>2, ServersMove
  <1> QED
    BY <1>1, <1>3, <1>4, <1>5, <1>6

-----------------------------------------------------------------------------
\* Everything the reader's own steps leave alone.
ServersStay == UNCHANGED <<up, req, flushed>>

LEMMA ServersKept ==
    ASSUME LiveInv, ServersStay
    PROVE  /\ ReqsRight' /\ FlushedOwn' /\ up' \in [Servers -> BOOLEAN]
           /\ \A s, d : StateRight(s, d)' <=> StateRight(s, d)
           /\ \A r : Over(r)' <=> Over(r)
  BY DEF LiveInv, ServersStay, ReqsRight, FlushedOwn, Begun, Over, StateRight, StreamRight, L!Key

\* The parts that speak of the node and of the reading.
LEMMA LiveParts ==
    ASSUME LiveInv
    PROVE  /\ node \in [there : BOOLEAN, def : Servers \cup {L!None}, st : StateType]
           /\ StateRight(node.st, node.def)
           /\ poll \in [pc : {"idle", "status", "slots", "counters"}, def : Servers \cup {L!None},
                        shared : BOOLEAN, key : Keys \cup {L!None}]
           /\ where \in Servers \cup {L!None} /\ poked \in BOOLEAN
           /\ poll.pc # "idle" /\ poll.shared =>
                 poll.def = node.def /\ node.def # L!None /\ node.def \in Servers
  BY DEF LiveInv, NodeRight, ReadingRight

LEMMA ReloadedNode ==
    ASSUME NEW n \in {L!Absent, [L!Absent EXCEPT !.there = TRUE]}
    PROVE  /\ n \in [there : BOOLEAN, def : Servers \cup {L!None}, st : StateType]
           /\ n.st = L!freshState
  <1>1. PICK f \in StateType : f = L!freshState
    BY FreshState
  <1>2. L!Absent = [there |-> FALSE, def |-> L!None, st |-> f]
    BY <1>1 DEF L!Absent
  <1> HIDE DEF StateType
  <1>3. \E b \in BOOLEAN : n = [there |-> b, def |-> L!None, st |-> f]
    BY <1>2
  <1> QED
    BY <1>1, <1>3

\* Reloads, and what the detector finds.
LEMMA OutsideStep ==
    ASSUME LiveInv,
           (\E s \in Servers \cup {L!None} : L!DetectorMoves(s)) \/ L!Reconfigure \/ L!PollForgotten
    PROVE  LiveInv'
  <1>1. ServersStay
    BY DEF L!DetectorMoves, L!Reconfigure, L!PollForgotten, L!servers, ServersStay
  <1>2. CASE \E s \in Servers \cup {L!None} : L!DetectorMoves(s)
    <2>1. /\ where' \in Servers \cup {L!None} /\ poked' \in BOOLEAN
          /\ UNCHANGED <<node, poll>>
      BY <1>2 DEF L!DetectorMoves
    <2>2. NodeRight' /\ ReadingRight'
      BY <1>1, <2>1, ServersKept DEF LiveInv, NodeRight, ReadingRight
    <2> QED
      BY <1>1, <2>1, <2>2, ServersKept DEF LiveInv
  <1>3. CASE L!Reconfigure
    <2>1. /\ node' \in {L!Absent, [L!Absent EXCEPT !.there = TRUE]}
          /\ poll' = [poll EXCEPT !.shared = FALSE] /\ UNCHANGED <<where, poked>>
      BY <1>3 DEF L!Reconfigure
    <2>2. /\ node' \in [there : BOOLEAN, def : Servers \cup {L!None}, st : StateType]
          /\ node'.st = L!freshState
      BY <2>1, ReloadedNode
    <2>3. PICK n : n = node'
      OBVIOUS
    <2>4. NodeRight'
      <3>1. StateRight(n.st, n.def)
        BY <2>2, <2>3, FreshRight
      <3>2. StateRight(n.st, n.def)'
        BY <1>1, <3>1, ServersKept
      <3> QED
        BY <2>2, <2>3, <3>2 DEF NodeRight
    <2>5. ReadingRight'
      BY <2>1, LiveParts DEF ReadingRight
    <2> QED
      BY <1>1, <2>1, <2>4, <2>5, ServersKept DEF LiveInv
  <1>4. CASE L!PollForgotten
    <2>1. poll' = L!Idle /\ poked' \in BOOLEAN /\ UNCHANGED <<where, node>>
      BY <1>4 DEF L!PollForgotten, LiveInv
    <2>2. NodeRight' /\ ReadingRight'
      BY <1>1, <2>1, ServersKept DEF LiveInv, NodeRight, ReadingRight, L!Idle
    <2> QED
      BY <1>1, <2>1, <2>2, ServersKept DEF LiveInv
  <1> QED
    BY <1>2, <1>3, <1>4

\* A reading begins: of the engine the detector found, about which nothing is known yet if
\* it is another one.
LEMMA PollStartStep ==
    ASSUME LiveInv, L!PollStart
    PROVE  LiveInv'
  <1>1. ServersStay /\ UNCHANGED <<where, poked>> /\ poll.pc = "idle"
    BY DEF L!PollStart, L!servers, ServersStay
  <1>2. CASE where = L!None
    <2>1. node' = [node EXCEPT !.def = L!None] /\ poll' = poll
      BY <1>2 DEF L!PollStart
    <2>2. /\ node' \in [there : BOOLEAN, def : Servers \cup {L!None}, st : StateType]
          /\ node'.st = node.st /\ node'.def = L!None
      BY <2>1, LiveParts
    <2>3. StateRight(node.st, L!None)
      BY LiveParts DEF StateRight
    <2>4. NodeRight'
      BY <1>1, <2>2, <2>3, ServersKept DEF NodeRight
    <2>5. ReadingRight'
      BY <1>1, <2>1, LiveParts DEF ReadingRight
    <2> QED
      BY <1>1, <2>4, <2>5, ServersKept DEF LiveInv
  <1>3. CASE where # L!None
    <2>1. node' = L!HandedOver(where)
          /\ \E pc \in {"status", "slots"} :
                poll' = [pc |-> pc, def |-> where, shared |-> TRUE, key |-> L!None]
      BY <1>3 DEF L!PollStart
    <2>2. where \in Servers
      BY <1>3, LiveParts
    <2>3. /\ node' \in [there : BOOLEAN, def : Servers \cup {L!None}, st : StateType]
          /\ node'.def = where
          /\ \/ node'.st = node.st /\ node.def = where
             \/ node'.st = L!freshState
      BY <2>1, <2>2, LiveParts, FreshState DEF L!HandedOver
    <2>4. StateRight(node'.st, where)
      BY <2>3, FreshRight, LiveParts
    <2>5. NodeRight'
      BY <1>1, <2>3, <2>4, ServersKept DEF NodeRight
    <2>6. ReadingRight'
      BY <1>3, <2>1, <2>2, <2>3 DEF ReadingRight
    <2> QED
      BY <1>1, <2>5, <2>6, ServersKept DEF LiveInv
  <1> QED
    BY <1>2, <1>3

\* A step of the reader that leaves a node that is right, and ends the reading or leaves it
\* as it is.
LEMMA NodeChanges ==
    ASSUME LiveInv, ServersStay, UNCHANGED where, poked' \in BOOLEAN,
           NEW s, StateRight(s, node.def), node' = [node EXCEPT !.st = s],
           ReadingRight'
    PROVE  LiveInv'
  <1>1. s \in StateType
    BY DEF StateRight
  <1>2. /\ node' \in [there : BOOLEAN, def : Servers \cup {L!None}, st : StateType]
        /\ node'.st = s /\ node'.def = node.def
    BY <1>1, LiveParts
  <1>3. NodeRight'
    BY <1>2, ServersKept DEF NodeRight
  <1> QED
    BY <1>3, ServersKept DEF LiveInv

LEMMA FailsStep ==
    ASSUME LiveInv, L!PollFails \/ L!RestOver
    PROVE  LiveInv'
  <1>1. ServersStay /\ UNCHANGED where
    BY DEF L!PollFails, L!RestOver, L!servers, ServersStay
  <1>2. CASE L!PollFails
    <2>1. PICK s : s = L!Failed(node.st)
      OBVIOUS
    <2>2. PICK f : f = IF node.st.fails < 4 THEN node.st.fails + 1 ELSE node.st.fails
      OBVIOUS
    <2>3. node.st \in StateType /\ f \in Nat
      <3>1. node.st \in StateType /\ node.st.fails \in Nat
        BY LiveParts DEF StateType
      <3> QED
        BY <2>2, <3>1
    <2>4. s = [node.st EXCEPT !.reachable = FALSE, !.fails = f, !.rest = TRUE, !.tasks = {}]
      BY <2>1, <2>2 DEF L!Failed
    <2>5. /\ s \in StateType /\ s.tasks = {} /\ s.last = node.st.last
          /\ s.lastPrefill = node.st.lastPrefill
      BY <2>3, <2>4 DEF StateType
    <2>6. StateRight(s, node.def)
      BY <2>5, LiveParts DEF StateRight, Apart
    <2>7. /\ node' = [node EXCEPT !.st = s] /\ poll' = L!Idle
          /\ poked' = (poked \/ L!Pokes(L!Failed(node.st)))
      BY <1>2, <2>1 DEF L!PollFails
    <2>8. poked' \in BOOLEAN
      BY <2>7, LiveParts DEF L!Pokes
    <2>9. ReadingRight'
      BY <2>7 DEF ReadingRight, L!Idle
    <2> QED
      BY <1>1, <2>6, <2>7, <2>8, <2>9, NodeChanges
  <1>3. CASE L!RestOver
    <2>1. PICK s : s = [node.st EXCEPT !.rest = FALSE]
      OBVIOUS
    <2>2. node.st \in StateType
      BY LiveParts
    <2>3. /\ s \in StateType /\ s.tasks = node.st.tasks /\ s.last = node.st.last
          /\ s.lastPrefill = node.st.lastPrefill
      BY <2>1, <2>2 DEF StateType
    <2>4. StateRight(s, node.def)
      BY <2>3, LiveParts DEF StateRight
    <2>5. node' = [node EXCEPT !.st = s] /\ UNCHANGED <<poll, poked>>
      BY <1>3, <2>1 DEF L!RestOver
    <2>6. node'.st = s /\ node'.def = node.def
      BY <2>5, LiveParts
    <2>7. ReadingRight'
      BY <1>1, <2>3, <2>5, <2>6, ServersKept DEF LiveInv, ReadingRight
    <2> QED
      BY <1>1, <2>4, <2>5, <2>7, LiveParts, NodeChanges
  <1> QED
    BY <1>2, <1>3

-----------------------------------------------------------------------------
\* What the parts of a reading make of a state of the server d.

Guessed(s, T) == [s EXCEPT !.lastPrefill = T, !.exact = FALSE]
Exactly(s, T) == [s EXCEPT !.lastPrefill = T, !.exact = TRUE]
LastOf(s, T) == [s EXCEPT !.last = T]

LEMMA PrefillRight ==
    ASSUME NEW d, NEW s, StateRight(s, d), NEW T, T \subseteq Requests,
           \A r \in T : Begun(r, d), NEW e, e = Guessed(s, T) \/ e = Exactly(s, T)
    PROVE  StateRight(e, d) /\ e.tasks = s.tasks
  <1>1. s \in StateType
    BY DEF StateRight
  <1>2. /\ e \in StateType /\ e.tasks = s.tasks /\ e.last = s.last /\ e.lastPrefill = T
    BY <1>1 DEF StateType, Guessed, Exactly
  <1> QED
    BY <1>2 DEF StateRight

LEMMA LastRight ==
    ASSUME NEW d, NEW s, StateRight(s, d), NEW T, T \subseteq Requests,
           \A r \in T : Begun(r, d) /\ Over(r), NEW e, e = LastOf(s, T)
    PROVE  StateRight(e, d) /\ e.tasks = s.tasks
  <1>1. s \in StateType
    BY DEF StateRight
  <1>2. /\ e \in StateType /\ e.tasks = s.tasks /\ e.last = T /\ e.lastPrefill = s.lastPrefill
    BY <1>1 DEF StateType, LastOf
  <1> QED
    BY <1>2 DEF StateRight

\* _end of streams whose requests are over.
LEMMA EndedRight ==
    ASSUME NEW d, d # L!None, NEW s, StateRight(s, d), NEW E, E \subseteq s.tasks,
           \A t \in E : \A r \in t.reqs : Over(r),
           NEW e \in L!Ended(s, E)
    PROVE  StateRight(e, d) /\ e.tasks = s.tasks \ E
  <1>1. s \in StateType
    BY DEF StateRight
  <1>2. PICK x : x = [s EXCEPT !.tasks = s.tasks \ E]
    OBVIOUS
  <1>3. /\ x \in StateType /\ x.tasks = s.tasks \ E /\ x.last = s.last
        /\ x.lastPrefill = s.lastPrefill
    BY <1>1, <1>2 DEF StateType
  <1>4. StateRight(x, d)
    BY <1>3 DEF StateRight, Apart
  <1>5. \/ e = x
        \/ \E t \in E : e = [s EXCEPT !.tasks = s.tasks \ E, !.last = t.reqs]
    BY <1>2 DEF L!Ended
  <1>6. ASSUME NEW t \in E, e = [s EXCEPT !.tasks = s.tasks \ E, !.last = t.reqs]
        PROVE  StateRight(e, d) /\ e.tasks = s.tasks \ E
    <2>1. t \in L!Task /\ t.reqs \subseteq Requests
      BY <1>1 DEF StateType, L!Task
    <2>2. e = LastOf(x, t.reqs)
      BY <1>1, <1>2, <1>6 DEF StateType, LastOf
    <2>3. \A r \in t.reqs : Begun(r, d) /\ Over(r)
      BY DEF StateRight, StreamRight
    <2> QED
      BY <1>3, <1>4, <2>1, <2>2, <2>3, LastRight
  <1> QED
    BY <1>3, <1>4, <1>5, <1>6

LEMMA PrefilledRight ==
    ASSUME NEW d, d # L!None, NEW s, StateRight(s, d), NEW T, T \subseteq s.tasks,
           NEW e \in L!Prefilled(s, T)
    PROVE  StateRight(e, d) /\ e.tasks = s.tasks
  <1>1. e = s \/ \E t \in T : e = Guessed(s, t.reqs)
    BY DEF L!Prefilled, Guessed
  <1>2. ASSUME NEW t \in T
        PROVE  t.reqs \subseteq Requests /\ \A r \in t.reqs : Begun(r, d)
    <2>1. t \in L!Task
      BY DEF StateRight, StateType
    <2> QED
      BY <2>1 DEF StateRight, StreamRight, L!Task
  <1>3. CASE \E t \in T : e = Guessed(s, t.reqs)
    <2>0. PICK t \in T : e = Guessed(s, t.reqs)
      BY <1>3
    <2>1. PICK reqs : reqs = t.reqs /\ e = Guessed(s, reqs)
      BY <2>0
    <2> QED
      BY <1>2, <2>1, PrefillRight
  <1> QED
    BY <1>1, <1>3

LEMMA FinishedAreOver == \A d \in Servers : \A r \in L!Finished(d) : r \in Requests /\ Begun(r, d) /\ Over(r)
  BY DEF L!Finished, Begun, Over

LEMMA RecordedRight ==
    ASSUME NEW s, poll.def \in Servers, StateRight(s, poll.def), NEW e \in L!Recorded(s)
    PROVE  StateRight(e, poll.def) /\ e.tasks = s.tasks
  <1>1. \/ e = s
        \/ \E r \in L!Finished(poll.def) : e = Exactly(s, {r})
    BY DEF L!Recorded, Exactly
  <1>2. ASSUME NEW r \in L!Finished(poll.def)
        PROVE  {r} \subseteq Requests /\ \A u \in {r} : Begun(u, poll.def)
    BY FinishedAreOver
  <1>3. CASE \E r \in L!Finished(poll.def) : e = Exactly(s, {r})
    <2>0. PICK r \in L!Finished(poll.def) : e = Exactly(s, {r})
      BY <1>3
    <2>1. PICK reqs : reqs = {r} /\ e = Exactly(s, reqs)
      BY <2>0
    <2> QED
      BY <1>2, <2>1, PrefillRight
  <1> QED
    BY <1>1, <1>3

\* The streams of a state replaced by others of the same server.
WithTasks(s, T) == [s EXCEPT !.tasks = T]

LEMMA TasksRight ==
    ASSUME NEW d, NEW s, StateRight(s, d), NEW T, T \subseteq L!Task, Apart(T),
           \A t \in T : StreamRight(t, d), NEW e, e = WithTasks(s, T)
    PROVE  StateRight(e, d) /\ e.tasks = T
  <1>1. s \in StateType
    BY DEF StateRight
  <1>2. /\ e \in StateType /\ e.tasks = T /\ e.last = s.last /\ e.lastPrefill = s.lastPrefill
    BY <1>1 DEF StateType, WithTasks
  <1> QED
    BY <1>2 DEF StateRight

LEMMA FinishStep ==
    ASSUME LiveInv, ServersStay, UNCHANGED <<where, poked>>,
           NEW s, StateRight(s, node.def), L!Finish(s)
    PROVE  LiveInv'
  <1>1. PICK x : x = [s EXCEPT !.reachable = TRUE, !.fails = 0]
    OBVIOUS
  <1>2. s \in StateType
    BY DEF StateRight
  <1>3. /\ x \in StateType /\ x.tasks = s.tasks /\ x.last = s.last
        /\ x.lastPrefill = s.lastPrefill
    BY <1>1, <1>2 DEF StateType
  <1>4. StateRight(x, node.def)
    BY <1>3 DEF StateRight
  <1>5. node' = [node EXCEPT !.st = x] /\ poll' = L!Idle
    BY <1>1 DEF L!Finish
  <1>6. ReadingRight' /\ poked' \in BOOLEAN
    BY <1>5, LiveParts DEF ReadingRight, L!Idle
  <1> QED
    BY <1>4, <1>5, <1>6, NodeChanges

LEMMA StatusStep ==
    ASSUME LiveInv, L!StatusArrives
    PROVE  LiveInv'
  <1>1. ServersStay /\ UNCHANGED <<where, poked>> /\ poll.pc = "status" /\ poll.shared
    BY DEF L!StatusArrives, L!servers, ServersStay
  <1>2. poll.def = node.def /\ node.def \in Servers /\ StateRight(node.st, poll.def)
    BY <1>1, LiveParts
  <1>3. PICK s \in L!Recorded(node.st) :
          \E state \in {s} \cup {[s EXCEPT !.last = {r}] : r \in L!Finished(poll.def)} :
             \/ L!Finish(state)
             \/ poll' = [poll EXCEPT !.pc = "slots"] /\ node' = [node EXCEPT !.st = state]
    BY DEF L!StatusArrives
  <1>4. StateRight(s, poll.def)
    BY <1>2, RecordedRight
  <1>5. PICK state : /\ state = s \/ \E r \in L!Finished(poll.def) : state = LastOf(s, {r})
                     /\ \/ L!Finish(state)
                        \/ /\ poll' = [poll EXCEPT !.pc = "slots"]
                           /\ node' = [node EXCEPT !.st = state]
    BY <1>3 DEF LastOf
  <1>6. StateRight(state, poll.def)
    <2>1. CASE \E r \in L!Finished(poll.def) : state = LastOf(s, {r})
      <3>0. PICK r \in L!Finished(poll.def) : state = LastOf(s, {r})
        BY <2>1
      <3>1. PICK reqs : reqs = {r} /\ state = LastOf(s, reqs)
        BY <3>0
      <3>2. reqs \subseteq Requests /\ \A u \in reqs : Begun(u, poll.def) /\ Over(u)
        BY <1>2, <3>1, FinishedAreOver
      <3> QED
        BY <1>4, <3>1, <3>2, LastRight
    <2> QED
      BY <1>4, <1>5, <2>1
  <1>7. CASE L!Finish(state)
    BY <1>1, <1>2, <1>6, <1>7, FinishStep
  <1>8. CASE poll' = [poll EXCEPT !.pc = "slots"] /\ node' = [node EXCEPT !.st = state]
    <2>1. node'.def = node.def
      BY <1>8, LiveParts
    <2>2. ReadingRight'
      BY <1>1, <1>2, <1>8, <2>1, LiveParts DEF ReadingRight
    <2> QED
      BY <1>1, <1>2, <1>6, <1>8, <2>2, LiveParts, NodeChanges
  <1> QED
    BY <1>5, <1>7, <1>8

TaskOf(K, T, B) ==
    [key : K, reqs : SUBSET Requests, phase : Lives, pp : T, dec : T, base : B, prefill : BOOLEAN]

\* _observe: a request that runs is a stream of its own.
LEMMA ObservedRight ==
    ASSUME LiveInv, NEW d \in Servers, d = node.def, d # L!None,
           NEW r \in L!Running(d), NEW merged, NEW o, o = L!Observed(r, merged)
    PROVE  /\ o \in L!Task /\ o.key = L!Key(r) /\ StreamRight(o, d) /\ r \in o.reqs
           /\ \A t \in node.st.tasks : L!Same(t, r, merged) => o.reqs = t.reqs \cup {r}
  <1> DEFINE old == {t \in node.st.tasks : L!Same(t, r, merged)}
  <1>1. /\ r \in Requests /\ req[r].phase \in Lives /\ req[r].server = d /\ Begun(r, d)
    BY DEF L!Running, Lives, Begun
  <1>2. L!Key(r) \in Keys
    BY <1>1, KeysRight DEF LiveInv, Lives
  <1>3. /\ node.st.tasks \subseteq L!Task /\ Apart(node.st.tasks)
        /\ \A t \in node.st.tasks : StreamRight(t, d)
    BY LiveParts DEF StateRight, StateType
  <1>4. PICK task : task = IF old = {} THEN L!NewTask(r) ELSE CHOOSE t \in old : TRUE
    OBVIOUS
  <1>5. /\ task \in L!Task /\ task.key = L!Key(r) /\ StreamRight(task, d)
        /\ \A t \in old : task = t
    <2>1. CASE old = {}
      <3>1. task = [key |-> L!Key(r), reqs |-> {r}, phase |-> "prefill", pp |-> 0, dec |-> 0,
                    base |-> {L!None}, prefill |-> FALSE]
        BY <1>4, <2>1 DEF L!NewTask
      <3>2. task \in L!Task
        BY <1>1, <1>2, <3>1 DEF L!Task, Keys
      <3>3. StreamRight(task, d) /\ task.key = L!Key(r)
        BY <1>1, <3>1 DEF StreamRight
      <3> QED
        BY <2>1, <3>2, <3>3
    <2>2. CASE old # {}
      <3>1. task \in old
        BY <1>4, <2>2
      <3>2. \A t \in old : t.key = L!Key(r)
        BY DEF L!Same
      <3> QED
        BY <1>3, <3>1, <3>2 DEF Apart
    <2> QED
      BY <2>1, <2>2
  <1>6. PICK pp, dec : /\ pp = IF req[r].phase = "decode" THEN task.pp ELSE L!More(task.pp)
                       /\ dec = IF req[r].phase = "decode" THEN L!More(task.dec) ELSE task.dec
    OBVIOUS
  <1>7. PICK b : b = (task.prefill \/ (req[r].phase = "decode" /\ task.pp = 2))
    OBVIOUS
  <1>8. o = [task EXCEPT !.phase = req[r].phase, !.reqs = task.reqs \cup {r}, !.pp = pp,
                         !.dec = dec, !.prefill = b]
    BY <1>4, <1>6, <1>7 DEF L!Observed
  <1>9. pp \in 0..2 /\ dec \in 0..2
    <2>1. task.pp \in 0..2 /\ task.dec \in 0..2
      BY <1>5 DEF L!Task
    <2> QED
      BY <1>6, <2>1 DEF L!More
  <1>10. b \in BOOLEAN
    BY <1>5, <1>7 DEF L!Task
  <1>11. /\ o \in L!Task /\ o.key = task.key /\ o.reqs = task.reqs \cup {r}
    <2>1. L!Task = TaskOf(Keys, 0..2, SUBSET (Requests \cup {L!None}))
      BY DEF L!Task, TaskOf, Lives, Keys
    <2>2. PICK K, T, B : L!Task = TaskOf(K, T, B) /\ pp \in T /\ dec \in T
      BY <1>9, <2>1
    <2>3. task.reqs \cup {r} \in SUBSET Requests /\ req[r].phase \in Lives
      BY <1>1, <1>5, <2>2 DEF TaskOf
    <2>4. /\ o \in TaskOf(K, T, B) /\ o.key = task.key /\ o.reqs = task.reqs \cup {r}
      BY <1>5, <1>8, <1>10, <2>2, <2>3 DEF TaskOf
    <2> QED
      BY <2>2, <2>4
  <1>12. StreamRight(o, d)
    BY <1>1, <1>5, <1>11 DEF StreamRight
  <1> QED
    BY <1>5, <1>11, <1>12

\* The streams of one reading.
Streams(d, merged) == {L!Observed(r, merged) : r \in L!Running(d)}

\* Each is of a request that runs, no two share a key, and a stream that is not among them,
\* or gave its place to another of them, has ended.
LEMMA ObservedSet ==
    ASSUME LiveInv, NEW d \in Servers, d = node.def, d # L!None,
           NEW merged, NEW tasks, tasks = Streams(d, merged)
    PROVE  /\ tasks \subseteq L!Task /\ Apart(tasks) /\ \A t \in tasks : StreamRight(t, d)
           /\ IsFiniteSet(tasks)
           /\ \A t \in node.st.tasks :
                 (\A n \in tasks : n.key = t.key => ~(t.reqs \subseteq n.reqs)) =>
                    \A r \in t.reqs : Over(r)
  <1>0. /\ \A r \in L!Running(d) : r \in Requests /\ req[r].phase \in Lives /\ req[r].server = d
        /\ tasks = {L!Observed(r, merged) : r \in L!Running(d)}
    BY DEF L!Running, Lives, Streams
  <1>1. ASSUME NEW t \in tasks
        PROVE  \E r \in L!Running(d) :
                  /\ t = L!Observed(r, merged) /\ t.key = L!Key(r)
                  /\ t \in L!Task /\ StreamRight(t, d)
    <2>1. PICK r \in L!Running(d) : t = L!Observed(r, merged)
      BY <1>0
    <2> QED
      BY <2>1, ObservedRight
  <1>2. ASSUME NEW t \in tasks, NEW u \in tasks, NEW r \in L!Running(d), NEW v \in L!Running(d),
               t = L!Observed(r, merged), u = L!Observed(v, merged),
               req[r].slot = req[v].slot
        PROVE  t = u
    <2>1. r = v
      BY <1>0, <1>2 DEF LiveInv, ReqsRight
    <2> QED
      BY <1>2, <2>1
  <1>3. Apart(tasks)
    <2> SUFFICES ASSUME NEW t \in tasks, NEW u \in tasks, t.key = u.key
                 PROVE  t = u
      BY DEF Apart
    <2>1. PICK r \in L!Running(d) : t = L!Observed(r, merged) /\ t.key = L!Key(r)
      BY <1>1
    <2>2. PICK v \in L!Running(d) : u = L!Observed(v, merged) /\ u.key = L!Key(v)
      BY <1>1
    <2>3. r = v
      BY <1>0, <2>1, <2>2, KeysRight DEF LiveInv, Lives
    <2> QED
      BY <2>1, <2>2, <2>3
  <1>4. IsFiniteSet(tasks)
    <2> DEFINE f == [t \in tasks |-> t.key[1]]
               places == Slots \cup {L!Solo}
    <2>1. IsFiniteSet(places)
      BY LiveConstants, FS_AddElement
    <2>2. ASSUME NEW t \in tasks
          PROVE  \E r \in L!Running(d) : /\ t = L!Observed(r, merged)
                                         /\ t.key[1] = req[r].slot /\ req[r].slot \in places
      <3>1. PICK r \in L!Running(d) : t = L!Observed(r, merged) /\ t.key = L!Key(r)
        BY <1>1
      <3>2. req[r].slot \in places
        BY <1>0 DEF LiveInv, ReqsRight, Lives
      <3>3. t.key[1] = req[r].slot
        BY <3>1 DEF L!Key
      <3> QED
        BY <3>1, <3>2, <3>3
    <2>3. f \in [tasks -> places]
      BY <2>2
    <2>4. ASSUME NEW t \in tasks, NEW u \in tasks, f[t] = f[u]
          PROVE  t = u
      <3>1. PICK r \in L!Running(d) : t = L!Observed(r, merged) /\ t.key[1] = req[r].slot
        BY <2>2
      <3>2. PICK v \in L!Running(d) : u = L!Observed(v, merged) /\ u.key[1] = req[v].slot
        BY <2>2
      <3> QED
        BY <1>2, <2>4, <3>1, <3>2
    <2>5. f \in Injection(tasks, places)
      <3> HIDE DEF f, places
      <3> QED
        BY <2>3, <2>4 DEF Injection, IsInjective
    <2> HIDE DEF f, places
    <2> QED
      BY <2>1, <2>5, FS_Injection
  <1>5. ASSUME NEW t \in node.st.tasks, NEW r \in t.reqs, ~Over(r)
        PROVE  /\ r \in L!Running(d) /\ L!Observed(r, merged) \in tasks
               /\ L!Observed(r, merged).key = t.key
               /\ t.reqs \subseteq L!Observed(r, merged).reqs
    <2>1. /\ t \in L!Task /\ StreamRight(t, d)
      BY LiveParts DEF StateRight, StateType
    <2>2. r \in Requests /\ Begun(r, d) /\ L!Key(r) = t.key
      BY <2>1 DEF StreamRight, L!Task
    <2>3. r \in L!Running(d)
      BY <1>5, <2>2 DEF L!Running, Begun, Over, LiveInv, ReqsRight, Phases
    <2>4. L!Same(t, r, merged)
      BY <2>2 DEF L!Same
    <2> QED
      BY <1>0, <2>2, <2>3, <2>4, ObservedRight
  <1> QED
    BY <1>1, <1>3, <1>4, <1>5

\* The slots are read: what runs is shown, what is gone has ended, and of a lone stream the
\* counters are asked for.
LEMMA SlotsStep ==
    ASSUME LiveInv, L!SlotsArrive
    PROVE  LiveInv'
  <1>1. ServersStay /\ UNCHANGED <<where, poked>> /\ poll.pc = "slots" /\ poll.shared
    BY DEF L!SlotsArrive, L!servers, ServersStay
  <1>2. PICK d : d = poll.def
    OBVIOUS
  <1>3. d = node.def /\ d \in Servers /\ d # L!None /\ StateRight(node.st, d)
    BY <1>1, <1>2, LiveParts
  <1>4. PICK merged \in SUBSET (IF poll.def \in Strata THEN L!Running(poll.def) ELSE {}) :
          LET tasks == {L!Observed(r, merged) : r \in L!Running(poll.def)}
              keys == {t.key : t \in tasks}
              replaced == {t \in node.st.tasks : t.key \in keys /\ \A n \in tasks : n.key = t.key => ~(t.reqs \subseteq n.reqs)}
              unseen == {t \in node.st.tasks : t.key \notin keys}
          IN  \E s \in L!Ended(node.st, replaced) :
              \E p \in L!Prefilled([s EXCEPT !.tasks = unseen \cup tasks], tasks) :
              \/ /\ poll.def \in Strata
                 /\ \E e \in L!Ended(p, unseen) : \E state \in L!Recorded(e) : L!Finish(state)
              \/ /\ poll.def \notin Strata
                 /\ LET asks == {t \in tasks : /\ L!Cardinality(tasks) = 1
                                               /\ \/ t.phase = "prefill" /\ t.key \notin {o.key : o \in node.st.tasks}
                                                  \/ t.phase = "decode" /\ L!None \notin t.base}
                    IN  IF asks = {} THEN \E state \in L!Ended(p, unseen) : L!Finish(state)
                        ELSE /\ node' = [node EXCEPT !.st = p]
                             /\ poll' = [poll EXCEPT !.pc = "counters", !.key = (CHOOSE t \in asks : TRUE).key]
    BY Zenon DEF L!SlotsArrive
  <1> DEFINE tasks == {L!Observed(r, merged) : r \in L!Running(poll.def)}
             keys == {t.key : t \in tasks}
             replaced == {t \in node.st.tasks : t.key \in keys /\ \A n \in tasks : n.key = t.key => ~(t.reqs \subseteq n.reqs)}
             unseen == {t \in node.st.tasks : t.key \notin keys}
  <1>5. PICK s \in L!Ended(node.st, replaced) :
          \E p \in L!Prefilled([s EXCEPT !.tasks = unseen \cup tasks], tasks) :
          \/ \E e \in L!Ended(p, unseen) : \E state \in L!Recorded(e) : L!Finish(state)
          \/ LET asks == {t \in tasks : /\ L!Cardinality(tasks) = 1
                                        /\ \/ t.phase = "prefill" /\ t.key \notin {o.key : o \in node.st.tasks}
                                           \/ t.phase = "decode" /\ L!None \notin t.base}
             IN  IF asks = {} THEN \E state \in L!Ended(p, unseen) : L!Finish(state)
                 ELSE /\ node' = [node EXCEPT !.st = p]
                      /\ poll' = [poll EXCEPT !.pc = "counters", !.key = (CHOOSE t \in asks : TRUE).key]
    BY <1>4, Zenon
  <1>6. /\ tasks = Streams(poll.def, merged)
        /\ unseen \subseteq node.st.tasks /\ replaced \subseteq node.st.tasks
        /\ \A t \in unseen : \A n \in tasks : n.key # t.key
        /\ \A t \in replaced : \A n \in tasks : n.key = t.key => ~(t.reqs \subseteq n.reqs)
    BY DEF Streams
  <1> HIDE DEF tasks, keys, replaced, unseen
  <1>8. PICK b : b = WithTasks(s, unseen \cup tasks)
    OBVIOUS
  <1>9. PICK p \in L!Prefilled(b, tasks) :
          \/ \E e \in L!Ended(p, unseen) : \E state \in L!Recorded(e) : L!Finish(state)
          \/ \E state \in L!Ended(p, unseen) : L!Finish(state)
          \/ \E t \in tasks : /\ L!Cardinality(tasks) = 1
                              /\ node' = [node EXCEPT !.st = p]
                              /\ poll' = [poll EXCEPT !.pc = "counters", !.key = t.key]
    <2>1. PICK p \in L!Prefilled(b, tasks) :
            \/ \E e \in L!Ended(p, unseen) : \E state \in L!Recorded(e) : L!Finish(state)
            \/ LET asks == {t \in tasks : /\ L!Cardinality(tasks) = 1
                                          /\ \/ t.phase = "prefill" /\ t.key \notin {o.key : o \in node.st.tasks}
                                             \/ t.phase = "decode" /\ L!None \notin t.base}
               IN  IF asks = {} THEN \E state \in L!Ended(p, unseen) : L!Finish(state)
                   ELSE /\ node' = [node EXCEPT !.st = p]
                        /\ poll' = [poll EXCEPT !.pc = "counters", !.key = (CHOOSE t \in asks : TRUE).key]
      BY <1>5, <1>8 DEF WithTasks
    <2> DEFINE asks == {t \in tasks : /\ L!Cardinality(tasks) = 1
                                      /\ \/ t.phase = "prefill" /\ t.key \notin {o.key : o \in node.st.tasks}
                                         \/ t.phase = "decode" /\ L!None \notin t.base}
               t == CHOOSE t \in asks : TRUE
    <2>2. \/ \E e \in L!Ended(p, unseen) : \E state \in L!Recorded(e) : L!Finish(state)
          \/ \E state \in L!Ended(p, unseen) : L!Finish(state)
          \/ /\ asks # {} /\ node' = [node EXCEPT !.st = p]
             /\ poll' = [poll EXCEPT !.pc = "counters", !.key = t.key]
      BY <2>1, Zenon
    <2>3. asks # {} => t \in tasks /\ L!Cardinality(tasks) = 1
      BY Zenon
    <2> HIDE DEF asks, t
    <2> QED
      BY <2>2, <2>3, Zenon
  <1>10. /\ tasks \subseteq L!Task /\ Apart(tasks) /\ \A t \in tasks : StreamRight(t, d)
         /\ IsFiniteSet(tasks)
         /\ \A t \in unseen : \A r \in t.reqs : Over(r)
         /\ \A t \in replaced : \A r \in t.reqs : Over(r)
    <2>1. /\ tasks \subseteq L!Task /\ Apart(tasks) /\ \A t \in tasks : StreamRight(t, d)
          /\ IsFiniteSet(tasks)
          /\ \A t \in node.st.tasks :
                (\A n \in tasks : n.key = t.key => ~(t.reqs \subseteq n.reqs)) =>
                   \A r \in t.reqs : Over(r)
      BY ZenonT(40), <1>2, <1>3, <1>6, ObservedSet
    <2> QED
      BY <1>6, <2>1
  <1>11. StateRight(s, d)
    BY <1>3, <1>6, <1>10, EndedRight
  <1>12. /\ unseen \cup tasks \subseteq L!Task /\ Apart(unseen \cup tasks)
         /\ \A t \in unseen \cup tasks : StreamRight(t, d)
    <2>1. /\ node.st.tasks \subseteq L!Task /\ Apart(node.st.tasks)
          /\ \A t \in node.st.tasks : StreamRight(t, d)
      BY <1>3 DEF StateRight, StateType
    <2>2. \A t \in unseen, n \in tasks : t.key # n.key
      BY <1>6
    <2>3. unseen \subseteq node.st.tasks
      BY <1>6
    <2>4. Apart(unseen \cup tasks)
      BY <1>10, <2>1, <2>2, <2>3 DEF Apart
    <2> QED
      BY <1>10, <2>1, <2>3, <2>4
  <1>13. StateRight(b, d) /\ b.tasks = unseen \cup tasks
    BY <1>8, <1>11, <1>12, TasksRight
  <1>14. StateRight(p, d) /\ p.tasks = unseen \cup tasks
    BY <1>3, <1>13, PrefilledRight
  <1>15. \A e \in L!Ended(p, unseen) : StateRight(e, d)
    BY <1>3, <1>10, <1>14, EndedRight
  <1>16. CASE \E e \in L!Ended(p, unseen) : \E state \in L!Recorded(e) : L!Finish(state)
    <2>1. PICK e \in L!Ended(p, unseen) : \E state \in L!Recorded(e) : L!Finish(state)
      BY <1>16
    <2>2. PICK state \in L!Recorded(e) : L!Finish(state)
      BY <2>1
    <2>3. StateRight(state, d)
      BY <1>2, <1>3, <1>15, RecordedRight
    <2> QED
      BY <1>1, <1>3, <2>2, <2>3, FinishStep
  <1>17. CASE \E state \in L!Ended(p, unseen) : L!Finish(state)
    BY <1>1, <1>3, <1>15, <1>17, FinishStep
  <1>18. CASE \E t \in tasks : /\ L!Cardinality(tasks) = 1
                               /\ node' = [node EXCEPT !.st = p]
                               /\ poll' = [poll EXCEPT !.pc = "counters", !.key = t.key]
    <2>1. PICK t \in tasks : /\ L!Cardinality(tasks) = 1
                             /\ node' = [node EXCEPT !.st = p]
                             /\ poll' = [poll EXCEPT !.pc = "counters", !.key = t.key]
      BY <1>18
    <2>2. L!Cardinality(tasks) = Cardinality(tasks)
      BY Zenon DEF Cardinality, L!Cardinality
    <2>3. tasks = {t}
      BY <1>10, <2>1, <2>2, FS_Singleton
    <2>4. t.key \in Keys
      BY <1>10 DEF L!Task, Keys
    <2>5. \A u \in p.tasks : u.key # t.key => \A r \in u.reqs : Over(r)
      BY <1>10, <1>14, <2>3
    <2>6. node'.st = p /\ node'.def = node.def
      BY <1>14, <2>1, LiveParts DEF StateRight
    <2>7. /\ poll' \in [pc : {"idle", "status", "slots", "counters"}, def : Servers \cup {L!None},
                        shared : BOOLEAN, key : Keys \cup {L!None}]
          /\ poll'.def = poll.def /\ poll'.key = t.key
      BY <2>1, <2>4, LiveParts
    <2>8. ReadingRight'
      BY <1>1, <1>2, <1>3, <2>5, <2>6, <2>7, ServersKept DEF ReadingRight
    <2> QED
      BY <1>1, <1>3, <1>14, <2>1, <2>8, LiveParts, NodeChanges
  <1> QED
    BY <1>9, <1>16, <1>17, <1>18

\* What the counters make of a stream is a stream of the same requests.
LEMMA CountedRight ==
    ASSUME NEW d \in Servers, NEW s, StateRight(s, d), NEW t \in s.tasks, NEW read,
           \/ read \subseteq Requests /\ \A r \in read : Begun(r, d)
           \/ read = {L!None},
           d # L!None, NEW c, c = L!Counted(s, t, read)
    PROVE  StateRight(c, d) /\ s.tasks \ {t} \subseteq c.tasks
  <1>1. /\ s.tasks \subseteq L!Task /\ Apart(s.tasks)
        /\ \A u \in s.tasks : StreamRight(u, d)
    BY DEF StateRight, StateType
  <1>2. PICK m : m = (t.phase = "decode" /\ L!None \notin read /\ t.base \subseteq read /\ t.base # read)
    OBVIOUS
  <1>3. PICK p : p = (t.prefill \/ m)
    OBVIOUS
  <1>4. PICK new : new = IF t.phase = "prefill" THEN [t EXCEPT !.base = read]
                         ELSE [t EXCEPT !.base = {L!None}, !.prefill = p]
    OBVIOUS
  <1>5. p \in BOOLEAN
    BY <1>1, <1>2, <1>3 DEF L!Task
  <1>6. new \in L!Task /\ new.key = t.key /\ new.reqs = t.reqs
    <2>1. L!Task = TaskOf(Keys, 0..2, SUBSET (Requests \cup {L!None}))
      BY DEF L!Task, TaskOf, Lives, Keys
    <2>2. PICK K, T, B : L!Task = TaskOf(K, T, B) /\ read \in B /\ {L!None} \in B
      BY <2>1
    <2>3. new \in TaskOf(K, T, B) /\ new.key = t.key /\ new.reqs = t.reqs
      BY <1>1, <1>4, <1>5, <2>2 DEF TaskOf
    <2> QED
      BY <2>2, <2>3
  <1>7. PICK T : T = (s.tasks \ {t}) \cup {new}
    OBVIOUS
  <1>8. /\ T \subseteq L!Task /\ Apart(T) /\ \A u \in T : StreamRight(u, d)
        /\ s.tasks \ {t} \subseteq T
    BY <1>1, <1>6, <1>7 DEF Apart, StreamRight
  <1>9. PICK kept : kept = WithTasks(s, T)
    OBVIOUS
  <1>10. StateRight(kept, d) /\ kept.tasks = T
    BY <1>8, <1>9, TasksRight
  <1>11. c = IF m THEN Exactly(kept, read \ t.base) ELSE kept
    BY <1>2, <1>3, <1>4, <1>7, <1>9 DEF L!Counted, WithTasks, Exactly
  <1>12. CASE m
    <2>1. PICK moved : moved = read \ t.base
      OBVIOUS
    <2>2. moved \subseteq Requests /\ \A r \in moved : Begun(r, d)
      BY <1>2, <1>12, <2>1
    <2> QED
      BY <1>8, <1>10, <1>11, <1>12, <2>1, <2>2, PrefillRight
  <1>13. CASE ~m
    BY <1>8, <1>10, <1>11, <1>13
  <1> QED
    BY <1>12, <1>13

LEMMA CountersStep ==
    ASSUME LiveInv, L!CountersArrive
    PROVE  LiveInv'
  <1>1. ServersStay /\ UNCHANGED <<where, poked>> /\ poll.pc = "counters" /\ poll.shared
    BY DEF L!CountersArrive, L!servers, ServersStay
  <1>2. PICK d : d = poll.def
    OBVIOUS
  <1>3. d = node.def /\ d \in Servers /\ d # L!None /\ StateRight(node.st, d)
    BY <1>1, <1>2, LiveParts
  <1>4. PICK t \in node.st.tasks :
          /\ t.key = poll.key
          /\ \/ \E state \in L!Ended(L!Counted(node.st, t, flushed[d]), node.st.tasks \ {t}) :
                   L!Finish(state)
             \/ \E state \in L!Ended(L!Counted(node.st, t, {L!None}), node.st.tasks \ {t}) :
                   L!Finish(state)
    BY <1>2 DEF L!CountersArrive
  <1>5. PICK read : /\ read = flushed[d] \/ read = {L!None}
                    /\ \E state \in L!Ended(L!Counted(node.st, t, read), node.st.tasks \ {t}) :
                          L!Finish(state)
    BY <1>4
  <1>6. \/ read \subseteq Requests /\ \A r \in read : Begun(r, d)
        \/ read = {L!None}
    BY <1>3, <1>5 DEF LiveInv, FlushedOwn
  <1>7. PICK c : c = L!Counted(node.st, t, read)
    OBVIOUS
  <1>8. StateRight(c, d) /\ node.st.tasks \ {t} \subseteq c.tasks
    BY <1>3, <1>6, <1>7, CountedRight
  <1>9. \A u \in node.st.tasks \ {t} : \A r \in u.reqs : Over(r)
    <2>1. \A u \in node.st.tasks \ {t} : u.key # poll.key
      BY <1>3, <1>4 DEF StateRight, Apart
    <2> QED
      BY <1>1, <2>1 DEF LiveInv, ReadingRight
  <1>10. PICK state \in L!Ended(c, node.st.tasks \ {t}) : L!Finish(state)
    BY <1>5, <1>7
  <1>11. StateRight(state, d)
    BY <1>3, <1>8, <1>9, EndedRight
  <1> QED
    BY <1>1, <1>3, <1>10, <1>11, FinishStep

LEMMA LiveStep ==
    ASSUME LiveInv, L!Next
    PROVE  LiveInv'
  BY ServerStep, OutsideStep, PollStartStep, StatusStep, SlotsStep, CountersStep, FailsStep
     DEF L!Next

\* The invariant of the live part: what it says of TypeOK and of the figures shown.
LiveHolds == part = "live" => LiveInv

LEMMA LiveHoldsIsOwn == LiveHolds => LiveIsOwn
  <1> SUFFICES ASSUME LiveInv PROVE L!TypeOK /\ L!NothingCarriesOver /\ L!LastHasEnded
    BY DEF LiveHolds, LiveIsOwn
  <1>1. node.st \in StateType /\ StateRight(node.st, node.def)
    BY LiveParts
  <1>2. L!TypeOK
    BY <1>1, LiveParts DEF L!TypeOK, LiveInv, FlushedOwn, StateType, StateRight, Apart
  <1>3. L!LastHasEnded
    BY <1>1 DEF L!LastHasEnded, StateRight, Over
  <1>4. L!NothingCarriesOver
    BY <1>1 DEF L!NothingCarriesOver, StateRight, StreamRight, Begun
  <1> QED
    BY <1>2, <1>3, <1>4

LEMMA LiveUntouched == ASSUME LiveHolds, UNCHANGED <<part, liveVars>> PROVE LiveHolds'
  <1>1. CASE part # "live"
    BY <1>1 DEF LiveHolds
  <1>2. CASE part = "live"
    <2>1. ServersStay /\ UNCHANGED <<part, where, poked, node, poll>>
      BY DEF liveVars, ServersStay
    <2>2. NodeRight' /\ ReadingRight'
      BY <1>2, <2>1, ServersKept DEF LiveHolds, LiveInv, NodeRight, ReadingRight
    <2> QED
      BY <1>2, <2>1, <2>2, ServersKept DEF LiveHolds, LiveInv
  <1> QED
    BY <1>1, <1>2

\* live.js:139-145, 152-156, 200-217: whatever the servers, the detector and a reload do
\* while a reading waits, everything shown of a node came from the engine it is read from,
\* no two of its streams share a key, and the figures of the last request are of one that
\* has finished.
THEOREM LiveOwn == PartsSpec => []LiveIsOwn
  <1>1. PartsInit => LiveHolds
    BY LiveInit DEF PartsInit, LiveHolds
  <1>2. LiveHolds /\ [PartsNext]_<<part, vars, liveVars>> => LiveHolds'
    <2> SUFFICES ASSUME LiveHolds, [PartsNext]_<<part, vars, liveVars>> PROVE LiveHolds'
      OBVIOUS
    <2>1. CASE part = "live" /\ L!Next /\ UNCHANGED part
      BY <2>1, LiveStep DEF LiveHolds
    <2>2. CASE UNCHANGED <<part, liveVars>>
      BY <2>2, LiveUntouched
    <2> QED
      BY <2>1, <2>2 DEF PartsNext
  <1>3. LiveHolds => LiveIsOwn
    BY LiveHoldsIsOwn
  <1> QED
    BY <1>1, <1>2, <1>3, PTL DEF PartsSpec

=============================================================================
