-------------------------- MODULE SchedulerProofs ---------------------------
(***************************************************************************)
(* What holds of the scheduler for every set of targets, every sequence of *)
(* configurations and every number of reloads.                             *)
(***************************************************************************)
EXTENDS Scheduler, SequenceTheorems, TLAPS

\* The targets whose results come only from their own polls.
Own == Machines \cup {Nodes}

\* Configurations are numbered upwards: a poll of the current one is of a target it polls,
\* and a poll under way is never older than the result a poll of its target last wrote.
GenOrder ==
    /\ \A p \in polls : p.gen <= gen /\ (p.gen = gen => Polled(config, p.id))
    /\ \A i \in Own :
          /\ snapshot[i].gen <= gen
          /\ snapshot[i].by = "none" => snapshot[i].gen = 0
          /\ snapshot[i].by = "poll" => \A p \in polls : p.id = i => snapshot[i].gen <= p.gen

IInv == TypeOK /\ OnePollPerTarget /\ GenOrder

\* Of a step: a target keeps its entry, is dropped with its configuration, is written by its
\* poll, or by a push or a sweep of the current configuration.
Written ==
    \A i \in Own :
        \/ snapshot'[i] = snapshot[i]
        \/ snapshot'[i] = NoEntry /\ config'[i] = "off"
        \/ \E p \in polls : i = p.id /\ snapshot'[i].by = "poll" /\ snapshot'[i].gen = p.gen
        \/ snapshot'[i].by \in {"push", "sweep"} /\ snapshot'[i].gen = gen /\ gen' = gen

-----------------------------------------------------------------------------
(* What starting, ending and moving on a poll do to the set of polls. *)

LEMMA NewPollTyped ==
    ASSUME NEW c \in [Ids -> Kinds], NEW g \in Nat, NEW ids,
           \A i \in ids : i \in Ids /\ Polled(c, i)
    PROVE  NewPolls(ids, c, g) \subseteq Poll
<1>1. ASSUME NEW i \in ids PROVE FirstWait[c[i]] \in {"fetch", "sources", "names"}
  <2>1. c[i] \in {"probe", "nodes", "usage", "projects"}
    BY <1>1 DEF Polled, Kinds
  <2>2. CASE c[i] = "probe" BY <2>2 DEF FirstWait
  <2>3. CASE c[i] = "nodes" BY <2>3 DEF FirstWait
  <2>4. CASE c[i] = "usage" BY <2>4 DEF FirstWait
  <2>5. CASE c[i] = "projects" BY <2>5 DEF FirstWait
  <2> QED BY <2>1, <2>2, <2>3, <2>4, <2>5
<1>2. ASSUME NEW i \in ids
      PROVE  [id |-> i, gen |-> g, at |-> FirstWait[c[i]], fresh |-> FALSE] \in Poll
  BY <1>1, <1>2 DEF Poll
<1> QED BY <1>2 DEF NewPolls

\* Starting polls for targets that are not being polled keeps one poll per target.
LEMMA BeginKeepsOne ==
    ASSUME OnePollPerTarget, NEW ids, NEW c, NEW g,
           ids \cap inflight = {}, Begin(ids, c, g)
    PROVE  OnePollPerTarget'
<1> DEFINE new == NewPolls(ids, c, g)
<1>1. polls' = polls \cup new /\ inflight' = inflight \cup ids
  BY DEF Begin
<1>2. \A p \in new : p.id \in ids
  BY DEF NewPolls
<1>3. \A i \in ids : \E p \in new : p.id = i
  <2> SUFFICES ASSUME NEW i \in ids PROVE \E p \in new : p.id = i
    OBVIOUS
  <2>1. [id |-> i, gen |-> g, at |-> FirstWait[c[i]], fresh |-> FALSE] \in new
    BY DEF NewPolls
  <2> QED BY <2>1
<1>4. \A p, q \in new : p.id = q.id => p = q
  <2>1. \A p \in new :
           p = [id |-> p.id, gen |-> g, at |-> FirstWait[c[p.id]], fresh |-> FALSE]
    BY DEF NewPolls
  <2> HIDE DEF new
  <2> QED BY <2>1
<1>5. inflight' = {p.id : p \in polls'}
  <2>1. \A p \in polls' : p.id \in inflight'
    BY <1>1, <1>2 DEF OnePollPerTarget
  <2>2. \A i \in inflight' : \E p \in polls' : p.id = i
    BY <1>1, <1>3 DEF OnePollPerTarget
  <2> HIDE DEF new
  <2> QED BY <2>1, <2>2
<1>6. \A p \in polls, q \in new : p.id # q.id
  BY <1>2 DEF OnePollPerTarget
<1>7. \A p, q \in polls' : p.id = q.id => p = q
  BY <1>1, <1>4, <1>6 DEF OnePollPerTarget
<1> QED BY <1>5, <1>7 DEF OnePollPerTarget

\* Ending a poll frees its target.
LEMMA EndKeepsOne ==
    ASSUME OnePollPerTarget, NEW p \in polls, Ends(p)
    PROVE  OnePollPerTarget'
<1>1. \A q \in polls' : q \in polls /\ q.id # p.id
  BY DEF Ends, OnePollPerTarget
<1>2. \A q \in polls : q.id # p.id => q \in polls'
  BY DEF Ends
<1>3. inflight' = {q.id : q \in polls'}
  BY <1>1, <1>2 DEF Ends, OnePollPerTarget
<1> QED BY <1>1, <1>3 DEF OnePollPerTarget

\* A poll that goes on to its next wait is still the poll of its target.
LEMMA MoveKeepsOne ==
    ASSUME OnePollPerTarget, NEW p \in polls, NEW q, q.id = p.id,
           polls' = (polls \ {p}) \cup {q}, inflight' = inflight
    PROVE  OnePollPerTarget'
<1>1. \A r \in polls \ {p} : r.id # q.id
  BY DEF OnePollPerTarget
<1>2. {r.id : r \in polls'} = {r.id : r \in polls}
  OBVIOUS
<1> QED BY <1>1, <1>2 DEF OnePollPerTarget

-----------------------------------------------------------------------------
(* The invariant, action by action. *)

Naming == [by : {Usage, Projects}, gen : Nat, fresh : BOOLEAN]

LEMMA DueFree ==
    ASSUME NEW S, NEW snap
    PROVE  Due(S, snap) \subseteq S /\ Due(S, snap) \cap inflight = {}
BY DEF Due

\* Starting polls of configuration c, numbered g, no older than any before it.
LEMMA BeginKeeps ==
    ASSUME IInv, NEW c \in [Ids -> Kinds], NEW g \in Nat, NEW ids,
           gen < g \/ (gen = g /\ c = config), gen' = g, config' = c,
           ids \subseteq Ids, ids \cap inflight = {},
           \A i \in ids : Polled(c, i),
           Begin(ids, c, g),
           \A i \in Own : snapshot'[i] = snapshot[i] \/ snapshot'[i] = NoEntry
    PROVE  /\ polls' \subseteq Poll /\ inflight' \subseteq Ids /\ naming' \in Seq(Naming)
           /\ OnePollPerTarget' /\ GenOrder'
<1> USE DEF IInv
<1>1. polls' \subseteq Poll
  BY NewPollTyped DEF Begin, TypeOK
<1>2. inflight' \subseteq Ids
  BY DEF Begin, TypeOK
<1>3. naming' \in Seq(Naming)
  <2>1. naming \in Seq(Naming)
    BY DEF Naming, TypeOK
  <2>2. [by |-> Projects, gen |-> g, fresh |-> shown] \in Naming
    BY DEF Naming, TypeOK
  <2>3. Append(naming, [by |-> Projects, gen |-> g, fresh |-> shown]) \in Seq(Naming)
    BY <2>1, <2>2
  <2> QED BY <2>1, <2>3 DEF Begin, NamingOf
<1>4. OnePollPerTarget'
  BY BeginKeepsOne
<1>5. \A p \in NewPolls(ids, c, g) : p.gen = g /\ Polled(c, p.id)
  BY DEF NewPolls
<1>6. \A p \in polls' : p \in polls \/ (p.gen = g /\ Polled(c, p.id))
  BY <1>5 DEF Begin
<1>7. gen \in Nat /\ \A p \in polls : p.gen \in Nat
  BY DEF TypeOK, Poll
<1>8. \A i \in Own : i \in Ids /\ snapshot[i].gen \in Nat
  BY DEF TypeOK, Entry, Own, Ids
<1>9. ASSUME NEW p \in polls' PROVE p.gen <= gen' /\ (p.gen = gen' => Polled(config', p.id))
  <2>1. CASE p \in polls
    <3>1. p.gen \in Nat /\ p.gen <= gen /\ (p.gen = gen => Polled(config, p.id))
      BY <1>7, <2>1 DEF GenOrder
    <3> QED BY <1>7, <3>1
  <2>2. CASE p.gen = g /\ Polled(c, p.id)
    BY <2>2
  <2> QED BY <1>6, <2>1, <2>2
<1>10. ASSUME NEW i \in Own
       PROVE  /\ snapshot'[i].gen <= gen'
              /\ snapshot'[i].by = "none" => snapshot'[i].gen = 0
              /\ snapshot'[i].by = "poll" =>
                    \A p \in polls' : p.id = i => snapshot'[i].gen <= p.gen
  <2>1. CASE snapshot'[i] = NoEntry
    BY <2>1 DEF NoEntry
  <2>2. CASE snapshot'[i] = snapshot[i]
    <3>1. /\ snapshot[i].gen <= gen /\ (snapshot[i].by = "none" => snapshot[i].gen = 0)
          /\ snapshot[i].by = "poll" => \A p \in polls : p.id = i => snapshot[i].gen <= p.gen
      BY DEF GenOrder
    <3>2. snapshot[i].gen <= g
      BY <1>7, <1>8, <3>1
    <3> QED BY <1>6, <2>2, <3>1, <3>2
  <2> QED BY <2>1, <2>2
<1>11. GenOrder'
  BY <1>9, <1>10 DEF GenOrder, Own
<1> QED BY <1>1, <1>2, <1>3, <1>4, <1>11

LEMMA ApplyStep ==
    ASSUME IInv, NEW c \in Configs, Apply(c)
    PROVE  IInv' /\ Written
<1> USE DEF IInv
<1> DEFINE ids == Due({i \in Ids : Polled(c, i)}, Pruned(c))
<1>1. c \in [Ids -> Kinds]
  BY ConfigsAssumption
<1>2. gen + 1 \in Nat /\ gen < gen + 1 /\ gen' = gen + 1 /\ config' = c
  BY DEF Apply, TypeOK
<1>3. ids \subseteq Ids /\ ids \cap inflight = {} /\ \A i \in ids : Polled(c, i)
  BY DueFree
<1>4. Begin(ids, c, gen + 1)
  BY DEF Apply
<1>5. snapshot' \in [Ids -> Entry]
  BY DEF Apply, Pruned, TypeOK, NoEntry, Entry
<1>6. \A i \in Own : snapshot'[i] = snapshot[i] \/ (snapshot'[i] = NoEntry /\ c[i] = "off")
  BY DEF Apply, Pruned, Own, Ids
<1> HIDE DEF ids
<1>7. /\ polls' \subseteq Poll /\ inflight' \subseteq Ids /\ naming' \in Seq(Naming)
      /\ OnePollPerTarget' /\ GenOrder'
  BY <1>1, <1>2, <1>3, <1>4, <1>6, BeginKeeps
<1>8. TypeOK'
  BY <1>1, <1>2, <1>5, <1>7 DEF TypeOK, Apply, Naming
<1> QED BY <1>2, <1>6, <1>7, <1>8 DEF Written

LEMMA TickStep ==
    ASSUME IInv, NEW i \in Ids, Tick(i)
    PROVE  IInv' /\ Written
<1> USE DEF IInv
<1>1. {i} \subseteq Ids /\ {i} \cap inflight = {} /\ \A j \in {i} : Polled(config, j)
  BY DueFree DEF Tick, Due
<1>2. config \in [Ids -> Kinds] /\ gen \in Nat /\ gen' = gen /\ config' = config
  BY DEF TypeOK, Tick
<1>3. Begin({i}, config, gen) /\ UNCHANGED snapshot
  BY DEF Tick
<1>4. /\ polls' \subseteq Poll /\ inflight' \subseteq Ids /\ naming' \in Seq(Naming)
      /\ OnePollPerTarget' /\ GenOrder'
  BY <1>1, <1>2, <1>3, BeginKeeps
<1>5. TypeOK'
  BY <1>4 DEF TypeOK, Tick, Naming, engine
<1> QED BY <1>3, <1>4, <1>5 DEF Written

\* Polls that stay or go on, and results written by a poll, a push or a sweep, keep the
\* order.
LEMMA OrderKept ==
    ASSUME IInv, gen' = gen, config' = config,
           \A q \in polls' : \E r \in polls :
               q.gen = r.gen /\ (q.id = r.id \/ (q.id \notin Own /\ Polled(config, q.id))),
           Written
    PROVE  GenOrder'
<1> USE DEF IInv
<1>1. /\ gen \in Nat
      /\ \A q \in polls : q.gen \in Nat /\ q.gen <= gen /\ (q.gen = gen => Polled(config, q.id))
  BY DEF TypeOK, Poll, GenOrder
<1>2. \A q \in polls' : q.gen <= gen' /\ (q.gen = gen' => Polled(config', q.id))
  BY <1>1
<1>3. ASSUME NEW i \in Own
      PROVE  /\ snapshot'[i].gen <= gen'
             /\ snapshot'[i].by = "none" => snapshot'[i].gen = 0
             /\ snapshot'[i].by = "poll" =>
                   \A q \in polls' : q.id = i => snapshot'[i].gen <= q.gen
  <2>1. CASE snapshot'[i] = snapshot[i]
    BY <2>1 DEF GenOrder
  <2>2. CASE snapshot'[i] = NoEntry
    BY <1>1, <2>2 DEF NoEntry
  <2>3. CASE \E p \in polls : i = p.id /\ snapshot'[i].by = "poll" /\ snapshot'[i].gen = p.gen
    <3>1. PICK p \in polls : i = p.id /\ snapshot'[i].by = "poll" /\ snapshot'[i].gen = p.gen
      BY <2>3
    <3>2. ASSUME NEW q \in polls', q.id = i PROVE q.gen = p.gen
      BY <3>1, <3>2 DEF OnePollPerTarget
    <3> QED BY <1>1, <3>1, <3>2
  <2>4. CASE snapshot'[i].by \in {"push", "sweep"} /\ snapshot'[i].gen = gen
    BY <1>1, <2>4
  <2> QED BY <2>1, <2>2, <2>3, <2>4 DEF Written
<1> QED BY <1>2, <1>3 DEF GenOrder, Own

LEMMA OwnTargets ==
    /\ Own \subseteq Ids /\ Usage \notin Own /\ Projects \notin Own
    /\ Usage \in Ids /\ Nodes \in Ids /\ Projects \in Ids /\ Usage # Nodes
BY TargetsAssumption DEF Own, Ids

LEMMA PollFailsStep ==
    ASSUME IInv, NEW p \in polls, PollFails(p)
    PROVE  IInv' /\ Written
<1> USE DEF IInv
<1>1. p \in Poll
  BY DEF TypeOK
<1>2. OnePollPerTarget'
  BY EndKeepsOne DEF PollFails
<1>3. snapshot' \in [Ids -> Entry]
  BY <1>1 DEF PollFails, TypeOK, Failure, Entry, Poll
<1>4. TypeOK'
  BY <1>3 DEF PollFails, Ends, TypeOK, engine
<1>5. \A q \in polls' : q \in polls
  BY DEF PollFails, Ends
<1>6. Written
  BY <1>1 DEF PollFails, TypeOK, Failure, Entry, Own, Ids, Written
<1>7. gen' = gen /\ config' = config
  BY DEF PollFails, engine
<1>8. GenOrder'
  BY <1>5, <1>6, <1>7, OrderKept
<1> QED BY <1>6, <1>2, <1>4, <1>8

LEMMA ProbeArrivesStep ==
    ASSUME IInv, NEW p \in polls, ProbeArrives(p)
    PROVE  IInv' /\ Written
<1> USE DEF IInv
<1> DEFINE report == Report("poll", p.gen, FALSE)
           e == snapshot'[p.id]
<1>1. p \in Poll
  BY DEF TypeOK
<1>2. OnePollPerTarget'
  BY EndKeepsOne DEF ProbeArrives
<1>3. report \in Entry /\ Failure(report, "poll", p.gen) \in Entry
  BY <1>1 DEF Report, Failure, Entry, Poll
<1>4. /\ report.gen = p.gen /\ Failure(report, "poll", p.gen).gen = p.gen
      /\ report.by = "poll" /\ Failure(report, "poll", p.gen).by = "poll"
  BY DEF Report, Failure
<1>5. PICK w \in Entry : /\ w.gen = p.gen /\ w.by = "poll"
                        /\ snapshot' = [snapshot EXCEPT ![p.id] = w]
  <2>1. \/ snapshot' = [snapshot EXCEPT ![p.id] = report]
        \/ snapshot' = [snapshot EXCEPT ![p.id] = Failure(report, "poll", p.gen)]
    BY DEF ProbeArrives
  <2> HIDE DEF report
  <2> QED BY <1>3, <1>4, <2>1
<1>6. snapshot' \in [Ids -> Entry]
  BY <1>5 DEF TypeOK
<1>7. TypeOK'
  BY <1>6 DEF ProbeArrives, Ends, TypeOK, engine
<1>8. \A q \in polls' : q \in polls
  BY DEF ProbeArrives, Ends
<1>9. Written
  BY <1>5, OwnTargets DEF TypeOK, Written
<1>10. gen' = gen /\ config' = config
  BY DEF ProbeArrives, engine
<1>11. GenOrder'
  BY <1>8, <1>9, <1>10, OrderKept
<1> QED BY <1>9, <1>2, <1>7, <1>11

\* What the nodes poll writes: its card, with values, and that the usage card lags behind.
LEMMA NodesCard ==
    ASSUME TypeOK, NEW p \in polls, NodesArrive(p)
    PROVE  \E card \in Entry :
               /\ card.by = "poll" /\ card.gen = p.gen /\ card.value = TRUE
               /\ snapshot' = [snapshot EXCEPT ![Nodes] = card, ![Usage].fresh = FALSE]
<1>1. PICK kept \in BOOLEAN : NodesCome(p, kept)
  BY DEF NodesArrive
<1>2. p \in Poll
  BY DEF TypeOK
<1> DEFINE report == Report("poll", p.gen, FALSE)
           card == IF kept THEN report ELSE Failure(report, "poll", p.gen)
<1>3. /\ card \in Entry /\ card.by = "poll" /\ card.gen = p.gen /\ card.value = TRUE
  BY <1>2 DEF Report, Failure, Entry, Poll
<1>4. snapshot' = [snapshot EXCEPT ![Nodes] = card, ![Usage].fresh = FALSE]
  BY <1>1 DEF NodesCome
<1> HIDE DEF card
<1> QED BY <1>3, <1>4

LEMMA NodesArriveStep ==
    ASSUME IInv, NEW p \in polls, NodesArrive(p)
    PROVE  IInv' /\ Written
<1> USE DEF IInv
<1>0. PICK kept \in BOOLEAN : NodesCome(p, kept)
  BY DEF NodesArrive
<1> DEFINE follow == kept /\ config[Usage] = "usage" /\ Usage \notin inflight
           faded(q) == [q EXCEPT !.fresh = FALSE]
           stale == {faded(q) : q \in polls \ {p}}
           next == [id |-> Usage, gen |-> p.gen, at |-> "sources", fresh |-> FALSE]
<1>1. p \in Poll /\ p.id = Nodes
  BY <1>0 DEF TypeOK, NodesCome
<1>2. next \in Poll /\ next.id = Usage /\ next.gen = p.gen
  BY <1>1, OwnTargets DEF Poll
<1>3. \A q \in stale : \E r \in polls \ {p} : q = faded(r)
  OBVIOUS
<1>4. \A r \in polls \ {p} : faded(r) \in stale
  OBVIOUS
<1>5. \A r \in polls : faded(r) \in Poll /\ faded(r).id = r.id /\ faded(r).gen = r.gen
  BY DEF TypeOK, Poll
<1>6. polls' = IF follow THEN stale \cup {next} ELSE stale
  BY <1>0 DEF NodesCome
<1>7. inflight' = (inflight \ {Nodes}) \cup (IF follow THEN {Usage} ELSE {})
  BY <1>0 DEF NodesCome
<1>8. follow => Usage \notin inflight /\ Polled(config, Usage)
  BY DEF Polled
<1>9. PICK card \in Entry :
         /\ card.by = "poll" /\ card.gen = p.gen /\ card.value = TRUE
         /\ snapshot' = [snapshot EXCEPT ![Nodes] = card, ![Usage].fresh = FALSE]
  BY NodesCard
<1> HIDE DEF stale, next, follow, faded
<1>10. \A q \in stale : q \in Poll /\ \E r \in polls \ {p} : q.id = r.id /\ q.gen = r.gen
  BY <1>3, <1>5
<1>11. \A r \in polls \ {p} : \E q \in stale : q.id = r.id
  BY <1>4, <1>5
<1>12. \A q, s \in stale : q.id = s.id => q = s
  BY <1>3, <1>5 DEF OnePollPerTarget
<1>13. \A r \in polls \ {p} : r.id # Nodes /\ r.id \in inflight
  BY <1>1 DEF OnePollPerTarget
<1>14. \A i \in inflight \ {Nodes} : \E r \in polls \ {p} : r.id = i
  BY <1>1 DEF OnePollPerTarget
<1>15. OnePollPerTarget'
  <2>1. \A q \in polls' : q.id \in inflight'
    BY <1>2, <1>6, <1>7, <1>10, <1>13
  <2>2. \A i \in inflight' : \E q \in polls' : q.id = i
    BY <1>2, <1>6, <1>7, <1>11, <1>14
  <2>3. \A q, s \in polls' : q.id = s.id => q = s
    BY <1>2, <1>6, <1>8, <1>10, <1>12, <1>13
  <2> QED BY <2>1, <2>2, <2>3 DEF OnePollPerTarget
<1>16. snapshot' \in [Ids -> Entry]
  BY ZenonT(40), <1>9 DEF TypeOK, Entry
<1>17. polls' \subseteq Poll /\ inflight' \subseteq Ids
  BY <1>2, <1>6, <1>7, <1>10, OwnTargets DEF TypeOK
<1>18. TypeOK'
  BY <1>0, <1>16, <1>17 DEF NodesCome, TypeOK, engine
<1>19. \A q \in polls' : \E r \in polls :
           q.gen = r.gen /\ (q.id = r.id \/ (q.id \notin Own /\ Polled(config, q.id)))
  BY <1>2, <1>6, <1>8, <1>10, OwnTargets
<1>20. Written
  BY <1>1, <1>9, OwnTargets DEF TypeOK, Written
<1>21. gen' = gen /\ config' = config
  BY <1>0 DEF NodesCome, engine
<1>22. GenOrder'
  BY <1>19, <1>20, <1>21, OrderKept
<1> QED BY <1>20, <1>15, <1>18, <1>22

LEMMA UsageReadsStep ==
    ASSUME IInv, NEW p \in polls, UsageReads(p)
    PROVE  IInv' /\ Written
<1> USE DEF IInv
<1> DEFINE q == [p EXCEPT !.at = "spend", !.fresh = TRUE]
<1>1. p \in Poll
  BY DEF TypeOK
<1>2. q \in Poll /\ q.id = p.id /\ q.gen = p.gen
  BY <1>1 DEF Poll
<1>3. polls' = (polls \ {p}) \cup {q} /\ inflight' = inflight
  BY DEF UsageReads
<1>4. pending' \in BOOLEAN
  BY DEF UsageReads
<1> HIDE DEF q
<1>5. OnePollPerTarget'
  BY <1>2, <1>3, MoveKeepsOne
<1>6. polls' \subseteq Poll
  BY <1>2, <1>3 DEF TypeOK
<1>7. TypeOK'
  BY <1>4, <1>6 DEF UsageReads, TypeOK
<1>8. \A r \in polls' : \E s \in polls : r.gen = s.gen /\ r.id = s.id
  BY <1>2, <1>3
<1>9. gen' = gen /\ config' = config /\ snapshot' = snapshot
  BY DEF UsageReads
<1>10. GenOrder'
  BY <1>8, <1>9, OrderKept DEF Written
<1> QED BY <1>5, <1>7, <1>10, <1>9 DEF Written

LEMMA UsageHoldsBackStep ==
    ASSUME IInv, NEW p \in polls, UsageHoldsBack(p)
    PROVE  IInv' /\ Written
<1> USE DEF IInv
<1>1. OnePollPerTarget'
  BY EndKeepsOne DEF UsageHoldsBack
<1>2. TypeOK'
  BY DEF UsageHoldsBack, Ends, TypeOK
<1>3. \A q \in polls' : q \in polls
  BY DEF UsageHoldsBack, Ends
<1>4. gen' = gen /\ config' = config /\ snapshot' = snapshot
  BY DEF UsageHoldsBack
<1>5. GenOrder'
  BY <1>3, <1>4, OrderKept DEF Written
<1> QED BY <1>1, <1>2, <1>5, <1>4 DEF Written

LEMMA SupersededTyped ==
    ASSUME naming \in Seq(Naming)
    PROVE  Superseded \in Seq(Naming)
<1>1. \A n \in DOMAIN naming : [naming[n] EXCEPT !.fresh = FALSE] \in Naming
  <2> SUFFICES ASSUME NEW n \in DOMAIN naming
               PROVE  [naming[n] EXCEPT !.fresh = FALSE] \in Naming
    OBVIOUS
  <2>1. naming[n] \in Naming
    OBVIOUS
  <2> QED BY <2>1 DEF Naming
<1>2. Len(naming) \in Nat /\ DOMAIN naming = 1 .. Len(naming)
  OBVIOUS
<1>3. Superseded \in [1 .. Len(naming) -> Naming]
  BY <1>1, <1>2 DEF Superseded
<1> QED BY <1>2, <1>3

\* Publishing the usage card writes no entry of the targets with results of their own.
LEMMA PublishKeeps ==
    ASSUME TypeOK, NEW p \in Poll, Publish(p)
    PROVE  /\ snapshot' \in [Ids -> Entry]
           /\ \A i \in Own : snapshot'[i] = snapshot[i]
<1>1. snapshot' \in [Ids -> Entry]
  BY ZenonT(40) DEF Publish, TypeOK, Report, Entry, Poll
<1>2. \A i \in Own : snapshot'[i] = snapshot[i]
  BY OwnTargets DEF Publish, TypeOK
<1> QED BY <1>1, <1>2

LEMMA UsagePublishesStep ==
    ASSUME IInv, NEW p \in polls, UsagePublishes(p)
    PROVE  IInv' /\ Written
<1> USE DEF IInv
<1> DEFINE q == [p EXCEPT !.at = "names"]
           entry == [by |-> Usage, gen |-> p.gen, fresh |-> TRUE]
<1>1. p \in Poll /\ naming \in Seq(Naming)
  BY DEF TypeOK, Naming
<1>2. /\ snapshot' \in [Ids -> Entry]
      /\ \A i \in Own : snapshot'[i] = snapshot[i]
  BY <1>1, PublishKeeps DEF UsagePublishes
<1>3. q \in Poll /\ q.id = p.id /\ q.gen = p.gen
  BY <1>1 DEF Poll
<1>4. Superseded \in Seq(Naming)
  BY <1>1, SupersededTyped
<1>5. entry \in Naming
  BY <1>1 DEF Naming, Poll
<1>6. /\ OnePollPerTarget'
      /\ polls' \subseteq Poll /\ inflight' \subseteq Ids /\ naming' \in Seq(Naming)
      /\ \A r \in polls' : \E s \in polls : r.gen = s.gen /\ r.id = s.id
  <2>1. CASE config[Projects] = "projects"
    <3>1. /\ polls' = (polls \ {p}) \cup {q} /\ inflight' = inflight
          /\ naming' = Append(Superseded, entry)
      BY <2>1 DEF UsagePublishes
    <3> HIDE DEF q, entry
    <3>2. OnePollPerTarget'
      BY <1>3, <3>1, MoveKeepsOne
    <3>3. naming' \in Seq(Naming)
      BY <1>4, <1>5, <3>1
    <3>4. polls' \subseteq Poll /\ inflight' \subseteq Ids
      BY <1>3, <3>1 DEF TypeOK
    <3>5. \A r \in polls' : \E s \in polls : r.gen = s.gen /\ r.id = s.id
      BY <1>3, <3>1
    <3> QED BY <3>2, <3>3, <3>4, <3>5
  <2>2. CASE config[Projects] # "projects"
    <3>1. Ends(p) /\ naming' = Superseded
      BY <2>2 DEF UsagePublishes
    <3>2. OnePollPerTarget'
      BY <3>1, EndKeepsOne
    <3>3. polls' \subseteq polls /\ inflight' \subseteq inflight
      BY <3>1 DEF Ends
    <3> QED BY <1>4, <3>1, <3>2, <3>3 DEF TypeOK
  <2> QED BY <2>1, <2>2
<1>7. TypeOK'
  BY <1>2, <1>6 DEF UsagePublishes, TypeOK, Naming
<1>8. gen' = gen /\ config' = config
  BY DEF UsagePublishes, engine
<1>9. GenOrder'
  BY <1>2, <1>6, <1>8, OrderKept DEF Written
<1> QED BY <1>6, <1>7, <1>9, <1>2 DEF Written

LEMMA NamesArriveStep ==
    ASSUME IInv, NamesArrive
    PROVE  IInv' /\ Written
<1> USE DEF IInv
<1> DEFINE h == Head(naming)
<1>1. naming \in Seq(Naming) /\ naming # <<>>
  BY DEF NamesArrive, TypeOK, Naming
<1>2. h \in Naming /\ Tail(naming) \in Seq(Naming)
  BY <1>1
<1>3. snapshot' = [snapshot EXCEPT ![Projects] = Report("poll", h.gen, h.fresh)]
  BY DEF NamesArrive
<1> HIDE DEF h
<1>4. snapshot' \in [Ids -> Entry]
  BY <1>2, <1>3 DEF TypeOK, Report, Entry, Naming
<1>5. PICK p \in polls : Ends(p)
  BY DEF NamesArrive
<1>6. OnePollPerTarget'
  BY <1>5, EndKeepsOne
<1>7. polls' \subseteq polls /\ inflight' \subseteq inflight
  BY <1>5 DEF Ends
<1>8. naming' \in Seq(Naming)
  BY <1>2 DEF NamesArrive
<1>9. TypeOK'
  BY <1>4, <1>7, <1>8 DEF NamesArrive, TypeOK, Naming, engine
<1>10. \A i \in Own : snapshot'[i] = snapshot[i]
  BY <1>3, OwnTargets DEF TypeOK
<1>11. gen' = gen /\ config' = config
  BY DEF NamesArrive, engine
<1>12. GenOrder'
  BY <1>7, <1>10, <1>11, OrderKept DEF Written
<1> QED BY <1>6, <1>9, <1>12, <1>10 DEF Written

\* Steps that start and end no poll.
LEMMA QuietStep ==
    ASSUME IInv, TypeOK', UNCHANGED <<config, gen, polls, inflight>>, Written
    PROVE  IInv'
<1>1. OnePollPerTarget'
  BY DEF IInv, OnePollPerTarget
<1>2. GenOrder'
  BY OrderKept
<1> QED BY <1>1, <1>2 DEF IInv

LEMMA PushStep ==
    ASSUME IInv, NEW j \in Ids, Push(j)
    PROVE  IInv' /\ Written
<1>1. snapshot' \in [Ids -> Entry]
  BY DEF IInv, Push, TypeOK, Report, Entry
<1>2. TypeOK'
  BY <1>1 DEF IInv, Push, TypeOK, engine
<1>3. UNCHANGED <<config, gen, polls, inflight>>
  BY DEF Push, engine
<1>4. Written
  BY <1>3, OwnTargets DEF IInv, Push, TypeOK, Report, Written
<1> QED BY <1>2, <1>3, <1>4, QuietStep

LEMMA SweepStep ==
    ASSUME IInv, Sweep
    PROVE  IInv' /\ Written
<1>1. snapshot' \in [Ids -> Entry]
  BY DEF IInv, Sweep, TypeOK, Failure, Entry
<1>2. TypeOK'
  BY <1>1 DEF IInv, Sweep, TypeOK, engine
<1>3. UNCHANGED <<config, gen, polls, inflight>>
  BY DEF Sweep, engine
<1>4. Written
  <2> SUFFICES ASSUME NEW i \in Own
               PROVE  \/ snapshot'[i] = snapshot[i]
                      \/ snapshot'[i].by = "sweep" /\ snapshot'[i].gen = gen /\ gen' = gen
    BY DEF Written
  <2>1. snapshot'[i] = snapshot[i] \/ snapshot'[i] = Failure(snapshot[i], "sweep", gen)
    BY OwnTargets DEF Sweep
  <2>2. /\ Failure(snapshot[i], "sweep", gen).by = "sweep"
        /\ Failure(snapshot[i], "sweep", gen).gen = gen
    BY OwnTargets DEF IInv, TypeOK, Failure, Entry
  <2> QED BY <1>3, <2>1, <2>2
<1> QED BY <1>2, <1>3, <1>4, QuietStep

LEMMA InitHolds == Init => IInv
<1> SUFFICES ASSUME Init PROVE IInv
  OBVIOUS
<1>1. config \in [Ids -> Kinds] /\ pushed \in [Ids -> {"never", "fresh", "late"}]
  BY DEF Init, Kinds
<1>2. snapshot \in [Ids -> Entry]
  BY DEF Init, NoEntry, Entry
<1>3. naming \in Seq([by : {Usage, Projects}, gen : Nat, fresh : BOOLEAN])
  BY DEF Init
<1>4. TypeOK
  BY <1>1, <1>2, <1>3 DEF Init, TypeOK
<1>5. OnePollPerTarget
  BY DEF Init, OnePollPerTarget
<1>6. GenOrder
  BY OwnTargets DEF Init, GenOrder, NoEntry
<1> QED BY <1>4, <1>5, <1>6 DEF IInv

LEMMA StepHolds == IInv /\ [Next]_vars => IInv' /\ Written
<1> SUFFICES ASSUME IInv, [Next]_vars PROVE IInv' /\ Written
  OBVIOUS
<1>1. CASE \E c \in Configs : Apply(c)
  BY <1>1, ApplyStep
<1>2. CASE \E i \in Ids : Tick(i)
  BY <1>2, TickStep
<1>3. CASE \E i \in Ids : Push(i)
  BY <1>3, PushStep
<1>4. CASE \E i \in Ids : GraceEnds(i)
  <2>1. TypeOK' /\ UNCHANGED <<config, gen, polls, inflight, snapshot>>
    BY <1>4 DEF IInv, GraceEnds, TypeOK, engine
  <2> QED BY <2>1, QuietStep DEF Written
<1>5. CASE \E p \in polls : PollStep(p)
  BY <1>5, PollFailsStep, ProbeArrivesStep, NodesArriveStep, UsageReadsStep,
     UsageHoldsBackStep, UsagePublishesStep DEF PollStep
<1>6. CASE NamesArrive
  BY <1>6, NamesArriveStep
<1>7. CASE Sweep
  BY <1>7, SweepStep
<1>8. CASE WarmsUp
  <2>1. TypeOK' /\ UNCHANGED <<config, gen, polls, inflight, snapshot>>
    BY <1>8 DEF IInv, WarmsUp, TypeOK, engine
  <2> QED BY <2>1, QuietStep DEF Written
<1>9. CASE UNCHANGED vars
  <2>1. TypeOK' /\ UNCHANGED <<config, gen, polls, inflight, snapshot>>
    BY <1>9 DEF IInv, vars, TypeOK
  <2> QED BY <2>1, QuietStep DEF Written
<1> QED BY <1>1, <1>2, <1>3, <1>4, <1>5, <1>6, <1>7, <1>8, <1>9 DEF Next

-----------------------------------------------------------------------------
(* The theorems. *)

\* The invariant the others follow from.
THEOREM Invariance == Spec => []IInv
BY InitHolds, StepHolds, PTL DEF Spec

\* Every variable holds what its field can hold.
THEOREM TypeCorrect == Spec => []TypeOK
<1>1. IInv => TypeOK
  BY DEF IInv
<1> QED BY Invariance, <1>1, PTL

\* No target is polled twice at once, and none is locked out by a stale mark.
THEOREM OnePoll == Spec => []OnePollPerTarget
<1>1. IInv => OnePollPerTarget
  BY DEF IInv
<1> QED BY Invariance, <1>1, PTL

\* No target goes back to a result of an older configuration, but for a late poll over a push
\* or a sweep: the poll that writes was the only one of its target, so no newer poll wrote
\* since it began, and pushes and sweeps write under the configuration in force.
THEOREM NewerConfig == Spec => NewerConfigStays
<1> DEFINE A == \A i \in Machines \cup {Nodes} :
          snapshot'[i].gen < snapshot[i].gen =>
              \/ config'[i] = "off" /\ snapshot'[i] = NoEntry
              \/ /\ snapshot[i].by \in {"push", "sweep"} /\ snapshot'[i].by = "poll"
                 /\ \E p \in polls : p.id = i /\ p.gen = snapshot'[i].gen
<1>1. ASSUME IInv, [Next]_vars, NEW i \in Own, snapshot'[i].gen < snapshot[i].gen
      PROVE  \/ config'[i] = "off" /\ snapshot'[i] = NoEntry
             \/ /\ snapshot[i].by \in {"push", "sweep"} /\ snapshot'[i].by = "poll"
                /\ \E p \in polls : p.id = i /\ p.gen = snapshot'[i].gen
  <2>1. Written
    BY <1>1, StepHolds
  <2>2. /\ gen \in Nat /\ snapshot[i].gen \in Nat
        /\ snapshot[i].by \in {"none", "poll", "push", "sweep"}
    BY <1>1, OwnTargets DEF IInv, TypeOK, Entry
  <2>3. /\ snapshot[i].gen <= gen
        /\ snapshot[i].by = "none" => snapshot[i].gen = 0
        /\ snapshot[i].by = "poll" => \A p \in polls : p.id = i => snapshot[i].gen <= p.gen
    BY <1>1 DEF IInv, GenOrder
  <2>4. CASE snapshot'[i] = snapshot[i]
    BY <1>1, <2>2, <2>4
  <2>5. CASE snapshot'[i] = NoEntry /\ config'[i] = "off"
    BY <2>5
  <2>6. CASE \E p \in polls : i = p.id /\ snapshot'[i].by = "poll" /\ snapshot'[i].gen = p.gen
    <3>1. PICK p \in polls : i = p.id /\ snapshot'[i].by = "poll" /\ snapshot'[i].gen = p.gen
      BY <2>6
    <3>2. p.gen \in Nat
      BY <1>1 DEF IInv, TypeOK, Poll
    <3>3. snapshot[i].by \in {"push", "sweep"}
      BY <1>1, <2>2, <2>3, <3>1, <3>2
    <3> QED BY <3>1, <3>3
  <2>7. CASE snapshot'[i].by \in {"push", "sweep"} /\ snapshot'[i].gen = gen
    BY <1>1, <2>2, <2>3, <2>7
  <2> QED BY <2>1, <2>4, <2>5, <2>6, <2>7 DEF Written
<1>2. IInv /\ [Next]_vars => [A]_vars
  BY <1>1 DEF Own
<1> QED BY <1>2, Invariance, PTL DEF Spec, NewerConfigStays

\* What a poll does to a target that showed values: it still does.
LEMMA PollKeepsGood ==
    ASSUME TypeOK, NEW p \in polls, PollStep(p), NEW i \in Ids, snapshot[i].value
    PROVE  snapshot'[i].value
<1>1. CASE PollFails(p)
  <2>1. snapshot'[i] = snapshot[i] \/ snapshot'[i] = Failure(snapshot[i], "poll", p.gen)
    BY <1>1 DEF PollFails, TypeOK
  <2> QED BY <2>1 DEF Failure, TypeOK, Entry
<1>2. CASE ProbeArrives(p)
  <2> DEFINE report == Report("poll", p.gen, FALSE)
  <2>1. report.value = TRUE /\ Failure(report, "poll", p.gen).value = TRUE
    BY DEF Report, Failure
  <2>2. \/ snapshot'[i] = snapshot[i] \/ snapshot'[i] = report
        \/ snapshot'[i] = Failure(report, "poll", p.gen)
    BY <1>2 DEF ProbeArrives, TypeOK
  <2> HIDE DEF report
  <2> QED BY <2>1, <2>2
<1>3. CASE NodesArrive(p)
  <2>1. PICK card \in Entry :
           /\ card.value = TRUE
           /\ snapshot' = [snapshot EXCEPT ![Nodes] = card, ![Usage].fresh = FALSE]
    BY <1>3, NodesCard
  <2> QED BY <2>1 DEF TypeOK, Entry
<1>4. CASE UsageReads(p)
  BY <1>4 DEF UsageReads
<1>5. CASE UsageHoldsBack(p)
  BY <1>5 DEF UsageHoldsBack
<1>6. CASE UsagePublishes(p)
  BY <1>6 DEF UsagePublishes, Publish, Report, TypeOK, Entry
<1> QED BY <1>1, <1>2, <1>3, <1>4, <1>5, <1>6 DEF PollStep

\* Whatever fails, goes silent or is reloaded, a target that stays configured keeps the
\* last good values it showed.
THEOREM LastGood == Spec => LastGoodKept
<1>1. ASSUME TypeOK, [Next]_vars, NEW i \in Ids, snapshot[i].value, config'[i] # "off"
      PROVE  snapshot'[i].value
  <2>1. CASE \E c \in Configs : Apply(c)
    BY <1>1, <2>1 DEF Apply, Pruned
  <2>2. CASE \E j \in Ids : Tick(j) \/ Push(j) \/ GraceEnds(j)
    <3>1. CASE \E j \in Ids : Push(j)
      BY <1>1, <3>1 DEF Push, Report, TypeOK, Entry
    <3>2. CASE \E j \in Ids : Tick(j) \/ GraceEnds(j)
      BY <1>1, <3>2 DEF Tick, GraceEnds
    <3> QED BY <2>2, <3>1, <3>2
  <2>3. CASE \E p \in polls : PollStep(p)
    BY <1>1, <2>3, PollKeepsGood
  <2>4. CASE NamesArrive
    BY <1>1, <2>4 DEF NamesArrive, Report, TypeOK, Entry
  <2>5. CASE Sweep
    <3>1. snapshot'[i] = snapshot[i] \/ snapshot'[i] = Failure(snapshot[i], "sweep", gen)
      BY <2>5 DEF Sweep
    <3> QED BY <1>1, <3>1 DEF Failure, TypeOK, Entry
  <2>6. CASE WarmsUp \/ UNCHANGED vars
    BY <1>1, <2>6 DEF WarmsUp, vars
  <2> QED BY <1>1, <2>1, <2>2, <2>3, <2>4, <2>5, <2>6 DEF Next
<1>2. TypeOK /\ [Next]_vars =>
          [\A i \in Ids : snapshot[i].value /\ config'[i] # "off" => snapshot'[i].value]_vars
  BY <1>1
<1> QED BY <1>2, TypeCorrect, PTL DEF Spec, LastGoodKept

\* A machine that pushes in time goes offline only by a poll of its own that was begun under
\* an older configuration: none is begun under one in which it pushes.
THEOREM PushOnline == Spec => FreshPushStaysOnline
<1> DEFINE A == \A i \in Ids :
          /\ config[i] = "push" /\ config'[i] = "push" /\ pushed[i] = "fresh"
          /\ snapshot[i].online /\ ~snapshot'[i].online
          => \E p \in polls : p.id = i /\ p.gen < gen
<1>1. ASSUME TypeOK, [Next]_vars, NEW i \in Ids,
             config[i] = "push", config'[i] = "push", pushed[i] = "fresh",
             snapshot[i].online, \A p \in polls : p.id # i
      PROVE  snapshot'[i].online
  <2>1. CASE \E c \in Configs : Apply(c)
    BY <1>1, <2>1 DEF Apply, Pruned
  <2>2. CASE \E j \in Ids : Push(j)
    BY <1>1, <2>2 DEF Push, Report, TypeOK, Entry
  <2>3. CASE \E j \in Ids : Tick(j) \/ GraceEnds(j)
    BY <1>1, <2>3 DEF Tick, GraceEnds
  <2>4. CASE \E p \in polls : PollFails(p)
    BY <1>1, <2>4 DEF PollFails, TypeOK
  <2>5. CASE \E p \in polls : ProbeArrives(p)
    <3>1. snapshot'[i] = snapshot[i]
      BY <1>1, <2>5 DEF ProbeArrives, TypeOK
    <3> QED BY <1>1, <3>1
  <2>6. CASE \E p \in polls : NodesArrive(p)
    <3>1. PICK p \in polls : NodesArrive(p)
      BY <2>6
    <3>2. p.id = Nodes
      BY <3>1 DEF NodesArrive, NodesCome
    <3>3. PICK card \in Entry :
             snapshot' = [snapshot EXCEPT ![Nodes] = card, ![Usage].fresh = FALSE]
      BY <1>1, <3>1, NodesCard
    <3> QED BY <1>1, <3>2, <3>3 DEF TypeOK, Entry
  <2>7. CASE \E p \in polls : UsageReads(p) \/ UsageHoldsBack(p)
    BY <1>1, <2>7 DEF UsageReads, UsageHoldsBack
  <2>8. CASE \E p \in polls : UsagePublishes(p)
    <3>1. PICK p \in polls : Publish(p)
      BY <2>8 DEF UsagePublishes
    <3> QED BY <1>1, <3>1 DEF Publish, Report, TypeOK, Entry
  <2>9. CASE NamesArrive
    BY <1>1, <2>9 DEF NamesArrive, Report, TypeOK, Entry
  <2>10. CASE Sweep
    BY <1>1, <2>10 DEF Sweep, Stale
  <2>11. CASE WarmsUp \/ UNCHANGED vars
    BY <1>1, <2>11 DEF WarmsUp, vars
  <2> QED BY <1>1, <2>1, <2>2, <2>3, <2>4, <2>5, <2>6, <2>7, <2>8, <2>9, <2>10, <2>11
             DEF Next, PollStep
<1>2. ASSUME IInv, NEW i \in Ids, config[i] = "push", NEW p \in polls, p.id = i
      PROVE  p.gen < gen
  <2>1. gen \in Nat /\ p.gen \in Nat /\ p.gen <= gen /\ p.gen # gen
    BY <1>2 DEF IInv, TypeOK, Poll, GenOrder, Polled
  <2> QED BY <2>1
<1>3. IInv /\ [Next]_vars => [A]_vars
  BY <1>1, <1>2 DEF IInv
<1> QED BY <1>3, Invariance, PTL DEF Spec, FreshPushStaysOnline

\* The two invariants together, as the run checks them.
THEOREM BoardSound == Spec => []BoardInvariant
BY TypeCorrect, OnePoll, PTL DEF BoardInvariant

\* The three action properties together, as the run checks them.
THEOREM StepsSound == Spec => BoardSteps
BY NewerConfig, LastGood, PushOnline DEF BoardSteps

-----------------------------------------------------------------------------
(* The rows of the projects card belong to the total of the usage card.    *)

\* The projects card is in every configuration.
ProjectsStay == \A c \in Configs : c[Projects] = "projects"

\* Nothing is polled before the first configuration.
ConfigRight ==
    /\ config = [i \in Ids |-> "off"] \/ config \in Configs
    /\ polls # {} => config \in Configs

\* A poll waits for what its target is asked for.
WaitsRight ==
    \A p \in polls :
        /\ p.id = Projects => p.at = "names"
        /\ p.id = Usage => p.at # "fetch"
        /\ p.at \in {"sources", "spend"} => p.id = Usage

Named == \E p \in polls : p.id = Usage /\ p.at = "names"

\* While the usage card has values: until rows are shown its own poll awaits their names and
\* the view is the one it shows, and the rows written last are rows of that view.
RowsBelong ==
    snapshot[Usage].value =>
        /\ ~snapshot[Projects].online => Named /\ shown
        /\ IF naming = <<>> THEN snapshot[Projects].fresh ELSE naming[Len(naming)].fresh

RowsInv == ConfigRight /\ WaitsRight /\ RowsBelong

LEMMA ConfigKinds ==
    ASSUME ProjectsStay, ConfigRight, NEW i \in Ids
    PROVE  /\ config[i] = "off" \/ config \in Configs
           /\ config[Usage] \in {"off", "usage"} /\ config[Nodes] \in {"off", "nodes"}
           /\ config[Projects] \in {"off", "projects"}
           /\ i \in Machines => config[i] \in {"off", "probe", "push"}
           /\ config \in Configs => config[Projects] = "projects"
BY OwnTargets, ConfigsAssumption DEF ConfigRight, ProjectsStay

\* A step that writes neither card nor its rows.
LEMMA RowsKept ==
    ASSUME RowsInv, ConfigRight', WaitsRight',
           snapshot'[Usage].value => snapshot[Usage].value,
           snapshot'[Projects].online = snapshot[Projects].online,
           snapshot'[Projects].fresh = snapshot[Projects].fresh,
           naming' = naming, Named => Named', Named => shown' = shown
    PROVE  RowsInv'
BY DEF RowsInv, RowsBelong

\* Polls that start wait for what their target is asked for.
LEMMA NewWaits ==
    ASSUME NEW c \in Configs, NEW g, NEW ids, \A i \in ids : i \in Ids /\ Polled(c, i),
           NEW p \in NewPolls(ids, c, g)
    PROVE  /\ p.id = Projects => p.at = "names"
           /\ p.id = Usage => p.at # "fetch"
           /\ p.at \in {"sources", "spend"} => p.id = Usage
<1>1. PICK i \in ids : p = [id |-> i, gen |-> g, at |-> FirstWait[c[i]], fresh |-> FALSE]
  BY DEF NewPolls
<1>2. p.id = i /\ p.at = FirstWait[c[i]]
  BY <1>1
<1>3. i \in Machines \cup {Nodes, Usage, Projects}
  BY <1>1 DEF Ids
<1>4. c[i] \notin {"off", "push"}
  BY <1>1 DEF Polled
<1>5. CASE i \in Machines
  <2>1. c[i] = "probe"
    BY <1>4, <1>5, ConfigsAssumption
  <2>2. p.at = "fetch"
    BY <1>2, <2>1 DEF FirstWait
  <2> QED BY <1>2, <1>5, <2>2, TargetsAssumption
<1>6. CASE i = Nodes
  <2>1. c[i] = "nodes"
    BY <1>4, <1>6, ConfigsAssumption
  <2>2. p.at = "fetch"
    BY <1>2, <2>1 DEF FirstWait
  <2> QED BY <1>2, <1>6, <2>2, TargetsAssumption
<1>7. CASE i = Usage
  <2>1. c[i] = "usage"
    BY <1>4, <1>7, ConfigsAssumption
  <2>2. p.at = "sources"
    BY <1>2, <2>1 DEF FirstWait
  <2> QED BY <1>2, <1>7, <2>2, TargetsAssumption
<1>8. CASE i = Projects
  <2>1. c[i] = "projects"
    BY <1>4, <1>8, ConfigsAssumption
  <2>2. p.at = "names"
    BY <1>2, <2>1 DEF FirstWait
  <2> QED BY <1>2, <2>2
<1> QED BY <1>3, <1>5, <1>6, <1>7, <1>8

\* What starting polls does to the rows that wait for names: rows taken now are rows of the
\* view shown, and are taken only while no rows are shown.
LEMMA BeginRows ==
    ASSUME IInv, RowsInv, NEW c \in Configs, NEW g, NEW ids, NEW snap,
           \A i \in ids : i \in Ids /\ Polled(c, i) /\ HasWork(i, snap),
           Begin(ids, c, g), snapshot' = snap, config' = c, shown' = shown,
           snap[Usage].value => snapshot[Usage].value,
           snap[Projects].online = snapshot[Projects].online,
           snap[Projects].fresh = snapshot[Projects].fresh
    PROVE  RowsInv'
<1>1. polls' = polls \cup NewPolls(ids, c, g) /\ naming' = NamingOf(ids, g)
  BY DEF Begin
<1>2. ConfigRight'
  BY DEF ConfigRight
<1>3. WaitsRight'
  BY <1>1, NewWaits DEF RowsInv, WaitsRight
<1>4. Named => Named'
  BY <1>1 DEF Named
<1>5. CASE Projects \notin ids
  <2>1. naming' = naming
    BY <1>1, <1>5 DEF NamingOf
  <2> QED BY <1>2, <1>3, <1>4, <2>1, RowsKept
<1>6. CASE Projects \in ids
  <2>1. PICK e : e = [by |-> Projects, gen |-> g, fresh |-> shown]
    OBVIOUS
  <2>2. naming' = Append(naming, e) /\ e.fresh = shown
    BY <1>1, <1>6, <2>1 DEF NamingOf
  <2>3. ~snapshot[Projects].online
    BY <1>6 DEF HasWork
  <2>4. naming \in Seq(Naming)
    BY DEF IInv, TypeOK, Naming
  <2>5. naming' # <<>> /\ naming'[Len(naming')] = e
    BY <2>2, <2>4
  <2>6. RowsBelong'
    BY <1>4, <2>2, <2>3, <2>5 DEF RowsInv, RowsBelong
  <2> QED BY <1>2, <1>3, <2>6 DEF RowsInv
<1> QED BY <1>5, <1>6

LEMMA ApplyRows ==
    ASSUME ProjectsStay, IInv, RowsInv, NEW c \in Configs, Apply(c)
    PROVE  RowsInv'
<1> DEFINE ids == Due({i \in Ids : Polled(c, i)}, Pruned(c))
<1>1. Begin(ids, c, gen + 1) /\ snapshot' = Pruned(c) /\ config' = c /\ shown' = shown
  BY DEF Apply
<1>2. \A i \in ids : i \in Ids /\ Polled(c, i) /\ HasWork(i, Pruned(c))
  BY DEF Due
<1>3. c[Projects] # "off"
  BY DEF ProjectsStay
<1>4. /\ Pruned(c)[Usage].value => snapshot[Usage].value
      /\ Pruned(c)[Projects] = snapshot[Projects]
  BY <1>3, OwnTargets DEF Pruned, NoEntry
<1> HIDE DEF ids
<1> QED BY <1>1, <1>2, <1>4, BeginRows

LEMMA TickRows ==
    ASSUME ProjectsStay, IInv, RowsInv, NEW i \in Ids, Tick(i)
    PROVE  RowsInv'
<1>1. config \in Configs
  BY ConfigKinds DEF Tick, Polled, RowsInv
<1>2. /\ Begin({i}, config, gen) /\ snapshot' = snapshot /\ config' = config
      /\ shown' = shown /\ Polled(config, i) /\ HasWork(i, snapshot)
  BY DEF Tick, Due, engine
<1> QED BY <1>1, <1>2, BeginRows

LEMMA PollRows ==
    ASSUME ProjectsStay, IInv, RowsInv, NEW p \in polls, PollStep(p)
    PROVE  RowsInv'
<1>0. /\ config \in Configs /\ config[Projects] = "projects"
      /\ p \in Poll /\ naming \in Seq(Naming) /\ snapshot \in [Ids -> Entry]
      /\ \A q \in polls : q.id = p.id => q = p
  BY OwnTargets, ConfigKinds DEF RowsInv, ConfigRight, IInv, TypeOK, Naming, OnePollPerTarget
<1>1. CASE PollFails(p)
  <2>1. /\ p.at # "names" /\ Ends(p) /\ UNCHANGED <<config, naming, shown>>
        /\ snapshot' = [snapshot EXCEPT ![p.id] = Failure(snapshot[p.id], "poll", p.gen)]
    BY <1>1 DEF PollFails, engine
  <2>2. p.id # Projects
    BY <2>1 DEF RowsInv, WaitsRight
  <2>3. snapshot'[Projects] = snapshot[Projects] /\ snapshot'[Usage].value = snapshot[Usage].value
    BY <1>0, <2>1, <2>2, OwnTargets DEF Failure, Entry, Poll
  <2>4. Named => Named'
    BY <2>1 DEF Ends, Named
  <2>5. ConfigRight' /\ WaitsRight'
    BY <1>0, <2>1 DEF ConfigRight, RowsInv, WaitsRight, Ends
  <2> QED BY <2>1, <2>3, <2>4, <2>5, RowsKept
<1>2. CASE ProbeArrives(p)
  <2>1. /\ p.at = "fetch" /\ p.id # Nodes /\ Ends(p) /\ UNCHANGED <<config, naming, shown>>
        /\ \A i \in Ids : i # p.id => snapshot'[i] = snapshot[i]
    BY <1>0, <1>2 DEF ProbeArrives, engine
  <2>2. p.id # Projects
    BY <2>1 DEF RowsInv, WaitsRight
  <2>4. Named => Named'
    BY <2>1 DEF Ends, Named
  <2>5. ConfigRight' /\ WaitsRight'
    BY <1>0, <2>1 DEF ConfigRight, RowsInv, WaitsRight, Ends
  <2>6. p.id # Usage
    BY <2>1 DEF RowsInv, WaitsRight
  <2> QED BY <2>1, <2>2, <2>4, <2>5, <2>6, OwnTargets, RowsKept
<1>3. CASE NodesArrive(p)
  <2> DEFINE stale == {[q EXCEPT !.fresh = FALSE] : q \in polls \ {p}}
             next == [id |-> Usage, gen |-> p.gen, at |-> "sources", fresh |-> FALSE]
  <2>1. /\ p.at = "fetch" /\ p.id = Nodes /\ UNCHANGED <<config, naming, shown>>
        /\ polls' = stale \/ polls' = stale \cup {next}
    BY <1>3 DEF NodesArrive, NodesCome, engine
  <2>2. snapshot'[Projects] = snapshot[Projects] /\ snapshot'[Usage].value = snapshot[Usage].value
    <3>1. PICK card \in Entry :
             snapshot' = [snapshot EXCEPT ![Nodes] = card, ![Usage].fresh = FALSE]
      BY <1>3, NodesCard DEF IInv
    <3> QED BY <1>0, <3>1, OwnTargets, TargetsAssumption DEF Entry
  <2>3. \A q \in polls : [q EXCEPT !.fresh = FALSE].id = q.id /\ [q EXCEPT !.fresh = FALSE].at = q.at
    BY DEF IInv, TypeOK, Poll
  <2>4. Named => Named'
    BY <2>1, <2>3 DEF Named
  <2>5. \A q \in polls' : q = next \/ \E r \in polls : q.id = r.id /\ q.at = r.at
    BY ZenonT(40), <2>1, <2>3
  <2>6. WaitsRight'
    BY <2>5, TargetsAssumption DEF RowsInv, WaitsRight
  <2>7. ConfigRight'
    BY <1>0, <2>1 DEF ConfigRight
  <2> QED BY <2>1, <2>2, <2>4, <2>6, <2>7, RowsKept
<1>4. CASE UsageReads(p)
  <2>1. PICK q : q = [p EXCEPT !.at = "spend", !.fresh = TRUE]
    OBVIOUS
  <2>2. q.id = p.id /\ q.at = "spend"
    BY <1>0, <2>1 DEF Poll
  <2>3. /\ p.at = "sources" /\ polls' = (polls \ {p}) \cup {q}
        /\ UNCHANGED <<config, snapshot, naming, shown>>
    BY <1>4, <2>1 DEF UsageReads
  <2>4. Named => Named'
    BY <2>3 DEF Named
  <2>5. ConfigRight' /\ WaitsRight'
    BY <1>0, <2>2, <2>3 DEF ConfigRight, RowsInv, WaitsRight
  <2> QED BY <2>3, <2>4, <2>5, RowsKept
<1>5. CASE UsageHoldsBack(p)
  <2>1. /\ p.at = "spend" /\ Ends(p) /\ UNCHANGED <<config, snapshot, naming>>
    BY <1>5 DEF UsageHoldsBack
  <2>2. p.id = Usage
    BY <2>1 DEF RowsInv, WaitsRight
  <2>3. ~Named
    BY <1>0, <2>1, <2>2 DEF Named
  <2>4. ConfigRight' /\ WaitsRight'
    BY <1>0, <2>1 DEF ConfigRight, RowsInv, WaitsRight, Ends
  <2> QED BY <2>1, <2>3, <2>4, RowsKept
<1>6. CASE UsagePublishes(p)
  <2>1. PICK q, e : q = [p EXCEPT !.at = "names"] /\ e = [by |-> Usage, gen |-> p.gen, fresh |-> TRUE]
    OBVIOUS
  <2>2. q.id = p.id /\ q.at = "names" /\ e.fresh = TRUE
    BY <1>0, <2>1 DEF Poll
  <2>3. /\ p.at = "spend" /\ polls' = (polls \ {p}) \cup {q} /\ shown' = TRUE
        /\ naming' = Append(Superseded, e) /\ config' = config
    BY <1>0, <1>6, <2>1 DEF UsagePublishes
  <2>4. p.id = Usage
    BY <2>3 DEF RowsInv, WaitsRight
  <2>5. naming' # <<>> /\ naming'[Len(naming')] = e
    BY <1>0, <2>3, SupersededTyped
  <2>6. Named'
    BY <2>2, <2>3, <2>4 DEF Named
  <2>7. RowsBelong'
    BY <2>2, <2>3, <2>5, <2>6 DEF RowsBelong
  <2>8. ConfigRight' /\ WaitsRight'
    BY <1>0, <2>2, <2>3, <2>4, TargetsAssumption DEF ConfigRight, RowsInv, WaitsRight
  <2> QED BY <2>7, <2>8 DEF RowsInv
<1> QED BY <1>1, <1>2, <1>3, <1>4, <1>5, <1>6 DEF PollStep

\* The last of a sequence stays its last when its head is taken.
LEMMA LastStays ==
    ASSUME NEW S, NEW s \in Seq(S), s # <<>>, NEW t, t = Tail(s)
    PROVE  IF t = <<>> THEN Head(s) = s[Len(s)] ELSE t[Len(t)] = s[Len(s)]
<1>1. Len(s) \in Nat /\ Len(s) >= 1 /\ t \in Seq(S) /\ Len(t) = Len(s) - 1
  OBVIOUS
<1>2. Head(s) = s[1] /\ \A n \in 1 .. Len(s) - 1 : t[n] = s[n + 1]
  OBVIOUS
<1>3. Len(<<>>) = 0 /\ (t # <<>> => Len(t) # 0)
  BY <1>1, EmptySeq
<1>4. CASE t = <<>>
  <2>1. Len(t) = 0
    BY <1>3, <1>4
  <2>2. Len(s) = 1
    BY <1>1, <2>1
  <2> QED BY <1>2, <1>4, <2>2
<1>5. CASE t # <<>>
  <2>1. Len(s) - 1 \in 1 .. Len(s) - 1
    BY <1>1, <1>3, <1>5
  <2>2. t[Len(s) - 1] = s[Len(s) - 1 + 1]
    BY <1>2, <2>1
  <2> QED BY <1>1, <1>5, <2>2
<1> QED BY <1>4, <1>5

LEMMA NamesRows ==
    ASSUME ProjectsStay, IInv, RowsInv, NamesArrive
    PROVE  RowsInv'
<1>1. naming \in Seq(Naming) /\ snapshot \in [Ids -> Entry]
  BY DEF IInv, TypeOK, Naming
<1>2. PICK h : h = Head(naming)
  OBVIOUS
<1>3. /\ naming # <<>> /\ naming' = Tail(naming) /\ config' = config
      /\ snapshot' = [snapshot EXCEPT ![Projects] = Report("poll", h.gen, h.fresh)]
  BY <1>2 DEF NamesArrive
<1>4. /\ snapshot'[Usage] = snapshot[Usage] /\ snapshot'[Projects].online = TRUE
      /\ snapshot'[Projects].fresh = h.fresh
  BY <1>1, <1>3, OwnTargets, TargetsAssumption DEF Report
<1>5. PICK p \in polls : Ends(p)
  BY DEF NamesArrive
<1>6. ConfigRight' /\ WaitsRight'
  BY <1>3, <1>5 DEF RowsInv, ConfigRight, WaitsRight, Ends
<1>7. IF naming' = <<>> THEN h = naming[Len(naming)]
      ELSE naming'[Len(naming')] = naming[Len(naming)]
  BY <1>1, <1>2, <1>3, LastStays
<1>8. RowsBelong'
  BY <1>3, <1>4, <1>7 DEF RowsInv, RowsBelong
<1> QED BY <1>6, <1>8 DEF RowsInv

LEMMA RowsStep ==
    ASSUME ProjectsStay, IInv, RowsInv, [Next]_vars
    PROVE  RowsInv'
<1>0. snapshot \in [Ids -> Entry]
  BY DEF IInv, TypeOK
<1>1. CASE \E i \in Ids : Push(i)
  <2>1. PICK i \in Ids : Push(i)
    BY <1>1
  <2>2. i # Usage /\ i # Projects
    BY <2>1, ConfigKinds DEF Push, RowsInv
  <2>3. snapshot'[Usage] = snapshot[Usage] /\ snapshot'[Projects] = snapshot[Projects]
        /\ UNCHANGED <<config, polls, naming, shown>>
    BY <1>0, <2>1, <2>2, OwnTargets DEF Push, engine
  <2>4. ConfigRight' /\ WaitsRight' /\ Named' = Named
    BY <2>3 DEF RowsInv, ConfigRight, WaitsRight, Named
  <2> QED BY <2>3, <2>4, RowsKept
<1>2. CASE Sweep
  <2>1. snapshot'[Usage] = snapshot[Usage] /\ snapshot'[Projects] = snapshot[Projects]
        /\ UNCHANGED <<config, polls, naming, shown>>
    BY <1>2, ConfigKinds, OwnTargets DEF Sweep, RowsInv, engine
  <2>2. ConfigRight' /\ WaitsRight' /\ Named' = Named
    BY <2>1 DEF RowsInv, ConfigRight, WaitsRight, Named
  <2> QED BY <2>1, <2>2, RowsKept
<1>3. CASE (\E i \in Ids : GraceEnds(i)) \/ WarmsUp \/ UNCHANGED vars
  <2>1. UNCHANGED <<config, snapshot, polls, naming, shown>>
    BY <1>3 DEF GraceEnds, WarmsUp, vars, engine
  <2> QED BY <2>1 DEF RowsInv, ConfigRight, WaitsRight, RowsBelong, Named
<1> QED BY <1>1, <1>2, <1>3, ApplyRows, TickRows, PollRows, NamesRows DEF Next

\* usage.js, collectors/index.js: while the projects card stays configured, whatever is
\* reloaded, fails or comes late, the rows it shows once no names are awaited are those of
\* the refresh whose total the usage card shows.
THEOREM RowsMatch == ASSUME ProjectsStay PROVE Spec => []RowsMatchCard
<1>1. Init => RowsInv
  BY OwnTargets DEF Init, RowsInv, ConfigRight, WaitsRight, RowsBelong, NoEntry
<1>2. IInv /\ RowsInv /\ [Next]_vars => RowsInv'
  BY RowsStep
<1>3. RowsInv => RowsMatchCard
  BY DEF RowsInv, RowsBelong, RowsMatchCard
<1> QED BY <1>1, <1>2, <1>3, Invariance, PTL DEF Spec

=============================================================================
