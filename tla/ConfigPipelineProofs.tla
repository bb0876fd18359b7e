------------------------ MODULE ConfigPipelineProofs ------------------------
(***************************************************************************)
(* What holds of the configuration served for any target ids and any files *)
(* that may be written over one another, and of the charts of the page for *)
(* any targets and windows.                                                *)
(***************************************************************************)
EXTENDS MCConfigPipeline, TLAPS

Loaded == [content : Content, demo : BOOLEAN]

Current == Merged(cfg, userT, userC)

\* What a rebuild leaves: a refusal has a cause, and without one the three agree.
RowsServed ==
    /\ ~refused => eff.file = cfg.content
    /\ ~half /\ refused => ~Fits(Current)
    /\ ~half /\ ~refused => Etag(eff) = Etag(Current)

Served ==
    /\ eff \in Effective /\ applied \in Effective
    /\ refused \in BOOLEAN /\ half \in BOOLEAN
    /\ refused => userT # {}
    /\ EffectiveFits /\ AppliedIsEffective /\ RowsServed

\* A cleared demo is gone from what was loaded, and not only from what is served.
DemoCleared == dismissed /\ ~disk.own /\ ~pending => cfg.content.targets = {}

IInv == TypeOK /\ Served /\ CardsHaveTargets /\ DemoCleared

LEMMA ContentsTyped == Contents \subseteq Content /\ Example \in Content
  BY PipelineAssumption DEF Content

FilesRight(d) ==
    /\ d \in [own : BOOLEAN, ok : BOOLEAN, content : Content]
    /\ d.own \/ d = NoFiles

LEMMA FilesTyped ==
    /\ FilesRight(NoFiles)
    /\ \A c \in Contents, ok \in BOOLEAN : FilesRight(Own(c, ok))
<1>1. FilesRight(NoFiles)
  BY ContentsTyped DEF FilesRight, NoFiles
<1>2. ASSUME NEW c \in Contents, NEW ok \in BOOLEAN PROVE FilesRight(Own(c, ok))
  <2>1. c \in Content
    BY ContentsTyped
  <2> QED BY <2>1 DEF FilesRight, Own
<1> QED BY <1>1, <1>2

\* loadConfig() gives a document, without targets when the demo was cleared.
LEMMA LoadTyped ==
    ASSUME NEW d \in [own : BOOLEAN, ok : BOOLEAN, content : Content], NEW gone \in BOOLEAN
    PROVE  /\ Load(d, gone) \in Loaded
           /\ gone /\ ~d.own => Load(d, gone).content.targets = {}
  BY DEF Load, Loaded, Stripped, Content

LEMMA MergedTyped ==
    ASSUME NEW c \in Loaded, NEW T \in SUBSET Ids, NEW C \in SUBSET Ids
    PROVE  Merged(c, T, C) \in Effective
  BY DEF Merged, Loaded, Effective

LEMMA NothingToRefuse ==
    ASSUME NEW c, NEW T, NEW C, C \subseteq T, T = {}
    PROVE  Fits(Merged(c, T, C))
  BY DEF Fits, Merged

LEMMA InitHolds == Init => IInv
<1> SUFFICES ASSUME Init PROVE IInv
  OBVIOUS
<1>1. disk \in [own : BOOLEAN, ok : BOOLEAN, content : Content] /\ (disk.own \/ disk = NoFiles)
  BY FilesTyped DEF Init, FilesRight
<1>2. cfg \in Loaded
  BY <1>1, LoadTyped DEF Init
<1>3. Fits(Merged(cfg, {}, {}))
  BY NothingToRefuse
<1>4. eff \in Effective
  BY <1>2, MergedTyped DEF Init
<1>5. TypeOK
  BY <1>1, <1>2, <1>4 DEF Init, TypeOK, Loaded
<1>6. EffectiveFits
  BY <1>3 DEF Init, EffectiveFits, Fits
<1>7. RowsServed
  BY <1>3 DEF Init, RowsServed, Current, Merged
<1> QED BY <1>4, <1>5, <1>6, <1>7 DEF Init, IInv, Served, AppliedIsEffective, CardsHaveTargets, DemoCleared

\* Whatever was loaded and whatever the rows are, a rebuild serves something that fits.
LEMMA RebuildServes ==
    ASSUME IInv, NEW again \in BOOLEAN, Rebuild(cfg', userT', userC', again),
           cfg' \in Loaded, userT' \subseteq Ids, userC' \subseteq userT'
    PROVE  Served'
<1> DEFINE e == Merged(cfg', userT', userC')
<1>1. e \in Effective
  BY MergedTyped
<1>2. /\ eff' = IF Fits(e) THEN e ELSE eff
      /\ refused' = ~Fits(e)
      /\ half' = FALSE
  BY DEF Rebuild, Kept
<1>3. applied' = IF Etag(eff') # Etag(eff) \/ (again /\ refused') THEN eff' ELSE applied
  BY DEF Rebuild, Applied
<1>4. eff' \in Effective /\ applied' \in Effective
  BY <1>1, <1>2, <1>3 DEF IInv, Served
<1>5. refused' \in BOOLEAN /\ half' \in BOOLEAN
  BY <1>2 DEF Fits
<1>6. refused' => userT' # {}
  BY <1>2, NothingToRefuse
<1>7. EffectiveFits'
  <2>1. CASE Fits(e)
    BY <1>2, <2>1 DEF EffectiveFits, Fits
  <2>2. CASE ~Fits(e)
    BY <1>2, <2>2 DEF IInv, Served, EffectiveFits
  <2> QED BY <2>1, <2>2
<1>8. AppliedIsEffective'
  BY <1>3 DEF IInv, Served, AppliedIsEffective, Etag
<1>9. RowsServed'
  <2>1. Current' = e
    BY DEF Current, Merged
  <2>2. CASE Fits(e)
    BY <1>2, <2>1, <2>2 DEF RowsServed, Merged, Etag
  <2>3. CASE ~Fits(e)
    BY <1>2, <2>1, <2>3 DEF RowsServed
  <2> QED BY <2>2, <2>3
<1> QED BY <1>4, <1>5, <1>6, <1>7, <1>8, <1>9 DEF Served

\* Loading files again: nothing moves, or a rebuild follows.
LEMMA ReloadServes ==
    ASSUME IInv, NEW gone \in BOOLEAN, ReloadWith(gone), UNCHANGED <<disk, rows>>
    PROVE  /\ cfg' \in Loaded /\ Served'
           /\ gone /\ ~disk.own => cfg'.content.targets = {}
<1> DEFINE next == Load(disk, gone)
<1>1. next \in Loaded /\ (gone /\ ~disk.own => next.content.targets = {})
  BY LoadTyped DEF IInv, TypeOK
<1>2. userT' \subseteq Ids /\ userC' \subseteq userT'
  BY DEF IInv, TypeOK, CardsHaveTargets, rows
<1>3. CASE ~Valid(disk)
  <2>1. UNCHANGED <<cfg, eff, refused, applied, half, userT, userC>>
    BY <1>3 DEF ReloadWith, rows
  <2>2. disk.own
    BY <1>3 DEF IInv, TypeOK, Valid, NoFiles
  <2>3. Served'
    BY <2>1 DEF IInv, Served, EffectiveFits, AppliedIsEffective, RowsServed, Current, Fits, Merged, Etag
  <2> QED BY <2>1, <2>2, <2>3 DEF IInv, TypeOK, Loaded
<1>4. CASE Valid(disk) /\ Changed(next)
  <2>1. cfg' = next /\ Rebuild(cfg', userT', userC', TRUE)
    BY <1>4 DEF ReloadWith, rows
  <2>2. Served'
    BY <1>1, <1>2, <2>1, RebuildServes
  <2> QED BY <1>1, <2>1, <2>2
<1>5. CASE Valid(disk) /\ ~Changed(next)
  <2>1. cfg' = next /\ UNCHANGED <<eff, refused, applied, half, userT, userC>>
    BY <1>5 DEF ReloadWith, rows
  <2>2. cfg'.content = cfg.content
    BY <1>5, <2>1 DEF Changed
  <2>3. Served'
    BY <2>1, <2>2 DEF IInv, Served, EffectiveFits, AppliedIsEffective, RowsServed, Current, Fits, Merged, Etag
  <2> QED BY <1>1, <2>1, <2>3
<1> QED BY <1>3, <1>4, <1>5

LEMMA StepHolds == IInv /\ [Next]_vars => IInv'
<1> SUFFICES ASSUME IInv, [Next]_vars PROVE IInv'
  OBVIOUS
<1> USE DEF IInv
<1>1. CASE EditFiles
  <2>1. disk' \in [own : BOOLEAN, ok : BOOLEAN, content : Content] /\ (disk'.own \/ disk' = NoFiles)
    BY <1>1, FilesTyped DEF EditFiles, FilesRight
  <2>2. pending' = TRUE
    BY <1>1 DEF EditFiles, Watched, TypeOK
  <2>3. UNCHANGED <<dismissed, cfg, userT, userC, eff, refused, applied, half>>
    BY <1>1 DEF EditFiles, rows
  <2>4. TypeOK'
    BY <2>1, <2>2, <2>3 DEF TypeOK, NoFiles
  <2>5. Served'
    BY <2>3 DEF Served, EffectiveFits, AppliedIsEffective, RowsServed, Current, Fits, Merged, Etag
  <2> QED BY <2>2, <2>3, <2>4, <2>5 DEF CardsHaveTargets, DemoCleared
<1>2. CASE Reload
  <2>1. ReloadWith(dismissed) /\ dismissed \in BOOLEAN /\ UNCHANGED <<disk, dismissed, userT, userC>>
    BY <1>2 DEF Reload, TypeOK, rows
  <2>2. /\ cfg' \in Loaded /\ Served'
        /\ dismissed /\ ~disk.own => cfg'.content.targets = {}
    BY <2>1, ReloadServes DEF rows
  <2>3. pending' = FALSE
    BY <1>2 DEF Reload
  <2>4. TypeOK'
    BY <2>1, <2>2, <2>3 DEF TypeOK, Loaded, Served, NoFiles
  <2> QED BY <2>1, <2>2, <2>3, <2>4 DEF CardsHaveTargets, DemoCleared
<1>3. CASE Dismiss
  <2>1. ReloadWith(TRUE) /\ dismissed' = TRUE /\ UNCHANGED <<disk, pending, userT, userC>>
    BY <1>3 DEF Dismiss, rows
  <2>2. /\ cfg' \in Loaded /\ Served'
        /\ ~disk.own => cfg'.content.targets = {}
    BY <2>1, ReloadServes DEF rows
  <2>3. TypeOK'
    BY <2>1, <2>2 DEF TypeOK, Loaded, Served, NoFiles
  <2> QED BY <2>1, <2>2, <2>3 DEF CardsHaveTargets, DemoCleared
<1>4. ASSUME NEW i \in Ids, AddTarget(i) PROVE IInv'
  <2>1. /\ userT' = userT \cup {i} /\ userC' = userC \cup {i}
        /\ Rebuild(cfg', userT', userC', FALSE)
        /\ UNCHANGED <<disk, dismissed, pending, cfg>>
    BY <1>4 DEF AddTarget
  <2>2. userT' \subseteq Ids /\ userC' \subseteq userT'
    BY <2>1 DEF TypeOK, CardsHaveTargets
  <2>3. cfg' \in Loaded
    BY <2>1 DEF TypeOK, Loaded
  <2>4. Served'
    BY <2>1, <2>2, <2>3, RebuildServes
  <2>5. TypeOK'
    BY <2>1, <2>2, <2>4 DEF TypeOK, Served, NoFiles
  <2> QED BY <2>1, <2>2, <2>4, <2>5 DEF CardsHaveTargets, DemoCleared
<1>5. ASSUME NEW i \in Ids, AddFails(i) PROVE IInv'
  <2>1. /\ userT' = userT \cup {i} /\ half' = TRUE
        /\ UNCHANGED <<disk, dismissed, pending, cfg, userC, eff, refused, applied>>
    BY <1>5 DEF AddFails
  <2>2. TypeOK'
    BY <2>1 DEF TypeOK, NoFiles
  <2>3. Served'
    BY <2>1 DEF Served, TypeOK, EffectiveFits, AppliedIsEffective, RowsServed, Etag
  <2> QED BY <2>1, <2>2, <2>3 DEF CardsHaveTargets, DemoCleared
<1>6. ASSUME NEW i \in Ids, DeleteTarget(i) PROVE IInv'
  <2>1. /\ userT' = userT \ {i} /\ userC' = userC \ {i}
        /\ Rebuild(cfg', userT', userC', FALSE)
        /\ UNCHANGED <<disk, dismissed, pending, cfg>>
    BY <1>6 DEF DeleteTarget, CardsWithout
  <2>2. userT' \subseteq Ids /\ userC' \subseteq userT'
    BY <2>1 DEF TypeOK, CardsHaveTargets
  <2>3. cfg' \in Loaded
    BY <2>1 DEF TypeOK, Loaded
  <2>4. Served'
    BY <2>1, <2>2, <2>3, RebuildServes
  <2>5. TypeOK'
    BY <2>1, <2>2, <2>4 DEF TypeOK, Served, NoFiles
  <2> QED BY <2>1, <2>2, <2>4, <2>5 DEF CardsHaveTargets, DemoCleared
<1>7. CASE Restart
  <2> DEFINE e == Merged(cfg', userT, userC)
  <2>1. /\ cfg' = Load(disk, dismissed) /\ pending' = FALSE /\ half' = FALSE
        /\ UNCHANGED <<disk, dismissed, userT, userC>>
        /\ applied' = eff'
    BY <1>7 DEF Restart, rows
  <2>2. eff' = (IF Fits(e) THEN e ELSE [e EXCEPT !.user = {}, !.cards = {}]) /\ refused' = ~Fits(e)
    BY <1>7 DEF Restart, Booted
  <2>3. cfg' \in Loaded /\ (dismissed /\ ~disk.own => cfg'.content.targets = {})
    BY <2>1, LoadTyped DEF TypeOK
  <2>4. e \in Effective
    BY <2>3, MergedTyped DEF TypeOK
  <2>5. /\ eff' \in Effective
        /\ ~Fits(e) => eff'.user = {} /\ eff'.cards = {}
    BY <2>2, <2>4 DEF Effective
  <2>6. EffectiveFits'
    BY <2>2, <2>5 DEF EffectiveFits, Fits
  <2>7. refused' \in BOOLEAN /\ (refused' => userT' # {})
    BY <2>1, <2>2, NothingToRefuse DEF CardsHaveTargets, Fits
  <2>8. Current' = e
    BY <2>1 DEF Current, Merged
  <2>9. RowsServed'
    <3>1. CASE Fits(e)
      BY <2>1, <2>2, <2>8, <3>1 DEF RowsServed, Merged, Etag
    <3>2. CASE ~Fits(e)
      BY <2>1, <2>2, <2>8, <3>2 DEF RowsServed
    <3> QED BY <3>1, <3>2
  <2>10. Served'
    BY <2>1, <2>5, <2>6, <2>7, <2>9 DEF Served, AppliedIsEffective, Etag
  <2>11. TypeOK'
    BY <2>1, <2>3, <2>10 DEF TypeOK, Loaded, Served, NoFiles
  <2> QED BY <2>1, <2>3, <2>10, <2>11 DEF CardsHaveTargets, DemoCleared
<1>8. CASE UNCHANGED vars
  BY <1>8 DEF vars, rows, TypeOK, NoFiles, Served, EffectiveFits, AppliedIsEffective,
     RowsServed, Current, Fits, Merged, Etag, CardsHaveTargets, DemoCleared
<1> QED BY <1>1, <1>2, <1>3, <1>4, <1>5, <1>6, <1>7, <1>8 DEF Next

LEMMA InvariantHolds == Spec => []IInv
<1> QED BY InitHolds, StepHolds, PTL DEF Spec

\* Every variable keeps its type; the files alone are never refused.
THEOREM TypeCorrect == Spec => []TypeOK
<1>1. IInv => TypeOK
  BY DEF IInv
<1> QED BY <1>1, InvariantHolds, PTL

\* effective.js: what is served passed the gate, whatever was refused on the way.
THEOREM ServedFits == Spec => []EffectiveFits
<1>1. IInv => EffectiveFits
  BY DEF IInv, Served
<1> QED BY <1>1, InvariantHolds, PTL

\* index.js: the scheduler polls what is served.
THEOREM SchedulerFollows == Spec => []AppliedIsEffective
<1>1. IInv => AppliedIsEffective
  BY DEF IInv, Served
<1> QED BY <1>1, InvariantHolds, PTL

\* effective.js: once the rows fit the files again, both are served.
THEOREM RefusalsHeal == Spec => []RefusalHeals
<1>1. IInv => RefusalHeals
  BY DEF IInv, Served, RowsServed, RefusalHeals, Current
<1> QED BY <1>1, InvariantHolds, PTL

\* user_store.js: no card outlives its target.
THEOREM NoOrphanCards == Spec => []CardsHaveTargets
<1>1. IInv => CardsHaveTargets
  BY DEF IInv
<1> QED BY <1>1, InvariantHolds, PTL

\* A demo that was cleared does not come back.
THEOREM DemoGone == Spec => []DemoStaysGone
<1>1. IInv => DemoStaysGone
  BY DEF IInv, Served, RowsServed, DemoCleared, DemoStaysGone
<1> QED BY <1>1, InvariantHolds, PTL

\* The five invariants together, as the run checks them.
THEOREM ConfigSound == Spec => []ConfigInvariant
BY TypeCorrect, ServedFits, SchedulerFollows, RefusalsHeal, DemoGone, PTL DEF ConfigInvariant

-----------------------------------------------------------------------------
(* The charts of the web client. *)

configVars == <<part, vars, boardVars, chartVars>>

What == (Targets \cup Views) \X Ranges

\* Requests at the places P, for some target or view and window.
RequestsAt(P) == [at : P, what : What, owner : BOOLEAN, here : BOOLEAN]

\* Loads, with what is asked for as a function of the place.
Sent(rs, ps, w) ==
    {IF q.at \in ps THEN [q EXCEPT !.owner = FALSE] ELSE q : q \in {r \in rs : r.owner \/ r.at \notin ps}}
        \cup {[at |-> p, what |-> w[p], owner |-> TRUE, here |-> TRUE] : p \in ps}

\* After Loads the new requests are those that the places of ps wait for, and the requests
\* of the other places are what they were.
SentRight(P, rs, ps, w, S) ==
    /\ S \subseteq RequestsAt(P)
    /\ \A q \in S : q.owner /\ q.at \in ps =>
                      q = [at |-> q.at, what |-> w[q.at], owner |-> TRUE, here |-> TRUE]
    /\ \A q \in S : q.at \notin ps => q \in rs
    /\ \A q \in rs : q.at \notin ps => q \in S
    /\ \A p \in ps : \E q \in S : q.at = p /\ q.owner
    /\ \A q \in S : ~q.here => \E r \in rs : ~r.here

LEMMA SentFacts ==
    ASSUME NEW P, NEW rs, rs \subseteq RequestsAt(P), NEW ps, ps \subseteq P,
           NEW w, \A p \in ps : w[p] \in What,
           NEW S, S = Sent(rs, ps, w)
    PROVE  SentRight(P, rs, ps, w, S)
  <1>1. ASSUME NEW q \in rs
        PROVE  /\ [q EXCEPT !.owner = FALSE] \in RequestsAt(P)
               /\ [q EXCEPT !.owner = FALSE].at = q.at
               /\ [q EXCEPT !.owner = FALSE].here = q.here
               /\ [q EXCEPT !.owner = FALSE].owner = FALSE
    <2>1. q \in [at : P, what : What, owner : BOOLEAN, here : BOOLEAN]
      BY DEF RequestsAt
    <2> HIDE DEF What
    <2> QED
      BY <2>1 DEF RequestsAt
  <1>2. ASSUME NEW p \in ps
        PROVE  [at |-> p, what |-> w[p], owner |-> TRUE, here |-> TRUE] \in RequestsAt(P)
    BY DEF RequestsAt
  <1>3. ASSUME NEW q \in S
        PROVE  \/ \E r \in rs : /\ r.at \in ps /\ q = [r EXCEPT !.owner = FALSE]
               \/ q \in rs /\ q.at \notin ps
               \/ \E p \in ps : q = [at |-> p, what |-> w[p], owner |-> TRUE, here |-> TRUE]
    BY DEF Sent
  <1>4. S \subseteq RequestsAt(P)
    BY <1>1, <1>2, <1>3
  <1>5. ASSUME NEW q \in S
        PROVE  /\ q.owner /\ q.at \in ps =>
                    q = [at |-> q.at, what |-> w[q.at], owner |-> TRUE, here |-> TRUE]
               /\ q.at \notin ps => q \in rs
               /\ ~q.here => \E r \in rs : ~r.here
    <2>1. CASE \E r \in rs : r.at \in ps /\ q = [r EXCEPT !.owner = FALSE]
      BY <1>1, <2>1
    <2>2. CASE q \in rs /\ q.at \notin ps
      BY <2>2
    <2>3. CASE \E p \in ps : q = [at |-> p, what |-> w[p], owner |-> TRUE, here |-> TRUE]
      BY <2>3
    <2> QED
      BY <1>3, <2>1, <2>2, <2>3
  <1>6. \A q \in rs : q.at \notin ps => q \in S
    BY DEF Sent
  <1>7. ASSUME NEW p \in ps
        PROVE  \E q \in S : q.at = p /\ q.owner
    <2>1. [at |-> p, what |-> w[p], owner |-> TRUE, here |-> TRUE] \in S
      BY DEF Sent
    <2> QED
      BY <2>1
  <1> QED
    BY <1>4, <1>5, <1>6, <1>7 DEF SentRight

OneOwner(rs) == \A q, r \in rs : q.owner /\ r.owner /\ q.at = r.at => q = r

\* The panes: the one request a pane waits for is for what it names and will be drawn, or
\* the pane's new canvas is empty.
PanesInv ==
    /\ ~modal.open
    /\ pane \in [Panes -> Targets] /\ curRange \in Ranges
    /\ chart \in [Panes \cup {G!Modal} -> What \cup {G!NoChart}]
    /\ err \in [Panes \cup {G!Modal} -> BOOLEAN]
    /\ requests \subseteq RequestsAt(Panes) /\ OneOwner(requests)
    /\ \A q \in requests : q.owner =>
          IF q.here THEN q.what = <<pane[q.at], curRange>> ELSE chart[q.at] = G!NoChart
    /\ \A p \in Panes : ~G!inflight(p) /\ ~err[p] =>
          chart[p] \in {G!NoChart, <<pane[p], curRange>>}

LEMMA PaneConstants == G!Modal \notin Panes /\ M!Modal = G!Modal
  BY PartsAssumption DEF G!ChartsAssumption, M!Modal, G!Modal

\* A step that sends requests for some panes, for what they name from then on; what the
\* other panes name stays.
LEMMA PanesLoad ==
    ASSUME PanesInv, NEW ps, ps \subseteq Panes,
           pane' \in [Panes -> Targets], curRange' \in Ranges,
           requests' = Sent(requests, ps, [p \in Panes |-> <<pane'[p], curRange'>>]),
           \A p \in Panes \ ps : <<pane'[p], curRange'>> = <<pane[p], curRange>> /\ err'[p] = err[p],
           UNCHANGED <<modal, chart>>, err' \in [Panes \cup {G!Modal} -> BOOLEAN]
    PROVE  PanesInv'
  <1>1. PICK w : w = [p \in Panes |-> <<pane'[p], curRange'>>]
    OBVIOUS
  <1>2. \A p \in Panes : w[p] = <<pane'[p], curRange'>> /\ w[p] \in What
    BY <1>1 DEF What
  <1>3. PICK rs, S : rs = requests /\ S = requests'
    OBVIOUS
  <1>4. /\ requests' \subseteq RequestsAt(Panes)
        /\ \A q \in requests' : q.owner /\ q.at \in ps =>
              q = [at |-> q.at, what |-> w[q.at], owner |-> TRUE, here |-> TRUE]
        /\ \A q \in requests' : q.at \notin ps => q \in requests
        /\ \A q \in requests : q.at \notin ps => q \in requests'
        /\ \A p \in ps : \E q \in requests' : q.at = p /\ q.owner
    <2>1. rs \subseteq RequestsAt(Panes) /\ S = Sent(rs, ps, w) /\ \A p \in ps : w[p] \in What
      BY <1>1, <1>2, <1>3 DEF PanesInv
    <2>2. SentRight(Panes, rs, ps, w, S)
      BY <2>1, SentFacts
    <2> QED
      BY <1>3, <2>2 DEF SentRight
  <1>5. \A q \in requests' : q.at \in Panes
    BY <1>4 DEF RequestsAt
  <1>6. OneOwner(requests')
    <2> SUFFICES ASSUME NEW q \in requests', NEW r \in requests', q.owner, r.owner, q.at = r.at
                 PROVE  q = r
      BY DEF OneOwner
    <2>1. CASE q.at \in ps
      <3>1. q = [at |-> q.at, what |-> w[q.at], owner |-> TRUE, here |-> TRUE]
        BY <1>4, <2>1
      <3>2. r = [at |-> q.at, what |-> w[q.at], owner |-> TRUE, here |-> TRUE]
        BY <1>4, <2>1
      <3> QED
        BY <3>1, <3>2, Zenon
    <2>2. CASE q.at \notin ps
      BY <1>4, <2>2 DEF PanesInv, OneOwner
    <2> QED
      BY <2>1, <2>2
  <1>7. ASSUME NEW q \in requests', q.owner
        PROVE  IF q.here THEN q.what = <<pane'[q.at], curRange'>> ELSE chart'[q.at] = G!NoChart
    <2>1. CASE q.at \in ps
      <3>1. q = [at |-> q.at, what |-> w[q.at], owner |-> TRUE, here |-> TRUE]
        BY <1>4, <1>7, <2>1
      <3>2. q.here = TRUE /\ q.what = w[q.at]
        BY <3>1
      <3> QED
        BY <1>2, <1>5, <3>2
    <2>2. CASE q.at \notin ps
      BY <1>4, <1>5, <1>7, <2>2 DEF PanesInv
    <2> QED
      BY <2>1, <2>2
  <1>8. ASSUME NEW p \in Panes, ~G!inflight(p)', ~err'[p]
        PROVE  chart'[p] \in {G!NoChart, <<pane'[p], curRange'>>}
    <2>1. p \notin ps
      BY <1>4, <1>8 DEF G!inflight
    <2>2. ~G!inflight(p)
      BY <1>4, <1>8, <2>1 DEF G!inflight
    <2> QED
      BY <1>8, <2>1, <2>2 DEF PanesInv
  <1>9. \A p \in Panes : ~G!inflight(p)' /\ ~err'[p] =>
          chart'[p] \in {G!NoChart, <<pane'[p], curRange'>>}
    BY <1>8
  <1> QED
    BY <1>4, <1>6, <1>7, <1>9 DEF PanesInv, G!inflight

\* initHistory: what is under way will draw on the old canvases, and the new ones are
\* empty.
LEMMA PanesReInit ==
    ASSUME PanesInv, G!ReInit
    PROVE  PanesInv'
  <1> DEFINE old(q) == IF q.at \in Panes THEN [q EXCEPT !.here = FALSE] ELSE q
             free == {p \in Panes : ~G!inflight(p)}
  <1>1. PICK rs : rs = {old(q) : q \in requests}
    OBVIOUS
  <1>2. PICK w : w = [p \in Panes |-> <<pane'[p], curRange'>>]
    OBVIOUS
  <1>3. PICK S, ps : S = requests' /\ ps = free
    OBVIOUS
  <1>4. /\ pane' \in [Panes -> Targets] /\ curRange' \in Ranges /\ modal' = modal
        /\ chart' = [p \in G!Places |-> IF p \in Panes THEN G!NoChart ELSE chart[p]]
        /\ err' = [p \in G!Places |-> p = G!Modal /\ err[p]]
    BY DEF G!ReInit
  <1>5. ps \subseteq Panes /\ S = Sent(rs, ps, w)
    BY <1>1, <1>2, <1>3 DEF G!ReInit, G!Loads, Sent
  <1>6. ASSUME NEW q \in requests
        PROVE  /\ old(q) \in RequestsAt(Panes) /\ old(q).at = q.at /\ old(q).owner = q.owner
               /\ old(q).here = FALSE
    <2>1. q \in RequestsAt(Panes)
      BY DEF PanesInv
    <2> QED
      BY <2>1 DEF RequestsAt
  <1>7. rs \subseteq RequestsAt(Panes) /\ OneOwner(rs) /\ \A q \in rs : ~q.here
    <2>1. \A q \in rs : \E r \in requests : q = old(r)
      BY <1>1
    <2> HIDE DEF old
    <2>2. OneOwner(rs)
      <3> SUFFICES ASSUME NEW q \in rs, NEW r \in rs, q.owner, r.owner, q.at = r.at
                   PROVE  q = r
        BY DEF OneOwner
      <3>1. PICK a \in requests, b \in requests : q = old(a) /\ r = old(b)
        BY <2>1
      <3>2. a = b
        BY <1>6, <3>1 DEF PanesInv, OneOwner
      <3> QED
        BY <3>1, <3>2
    <2> QED
      BY <1>6, <2>1, <2>2
  <1>8. \A p \in Panes : w[p] = <<pane'[p], curRange'>> /\ w[p] \in What
    BY <1>2, <1>4 DEF What
  <1> HIDE DEF old
  <1>9. SentRight(Panes, rs, ps, w, S)
    BY <1>5, <1>7, <1>8, SentFacts
  <1>10. ASSUME NEW q \in S, NEW r \in S, q.owner, r.owner, q.at = r.at
         PROVE  q = r
    <2>1. CASE q.at \in ps
      <3>1. q = [at |-> q.at, what |-> w[q.at], owner |-> TRUE, here |-> TRUE]
        BY <1>9, <1>10, <2>1 DEF SentRight
      <3>2. r = [at |-> q.at, what |-> w[q.at], owner |-> TRUE, here |-> TRUE]
        BY <1>9, <1>10, <2>1 DEF SentRight
      <3> QED
        BY <3>1, <3>2, Zenon
    <2>2. CASE q.at \notin ps
      BY <1>7, <1>9, <1>10, <2>2 DEF OneOwner, SentRight
    <2> QED
      BY <2>1, <2>2
  <1>11. /\ chart' \in [Panes \cup {G!Modal} -> What \cup {G!NoChart}]
         /\ err' \in [Panes \cup {G!Modal} -> BOOLEAN]
         /\ \A p \in Panes : chart'[p] = G!NoChart
    BY <1>4 DEF PanesInv, G!Places
  <1>12. \A q \in S : q.at \in Panes
    BY <1>9 DEF SentRight, RequestsAt
  <1>13. ASSUME NEW q \in S, q.owner
         PROVE  IF q.here THEN q.what = <<pane'[q.at], curRange'>> ELSE chart'[q.at] = G!NoChart
    <2>1. CASE q.at \in ps
      <3>1. q = [at |-> q.at, what |-> w[q.at], owner |-> TRUE, here |-> TRUE]
        BY <1>9, <1>13, <2>1 DEF SentRight
      <3>2. q.here = TRUE /\ q.what = w[q.at]
        BY <3>1
      <3> QED
        BY <1>8, <1>12, <3>2
    <2>2. CASE q.at \notin ps
      BY <1>7, <1>9, <1>11, <1>12, <2>2 DEF SentRight
    <2> QED
      BY <2>1, <2>2
  <1>14. OneOwner(requests')
    BY <1>3, <1>10 DEF OneOwner
  <1>15. requests' \subseteq RequestsAt(Panes)
    BY <1>3, <1>9 DEF SentRight
  <1> QED
    BY <1>3, <1>4, <1>11, <1>13, <1>14, <1>15 DEF PanesInv

\* A request ends: drawn, under an error, or unseen when another took its place.
LEMMA PanesEnd ==
    ASSUME PanesInv, NEW q \in requests, G!Answered(q) \/ G!Fails(q)
    PROVE  PanesInv'
  <1>1. /\ UNCHANGED <<pane, curRange, modal>> /\ requests' = requests \ {q}
    BY DEF G!Answered, G!Fails, G!Ended
  <1>2. /\ q \in RequestsAt(Panes) /\ q.at \in Panes
        /\ chart \in [Panes \cup {G!Modal} -> What \cup {G!NoChart}]
        /\ err \in [Panes \cup {G!Modal} -> BOOLEAN]
    BY DEF PanesInv, RequestsAt
  <1>3. \A r \in requests' : r \in requests /\ (q.owner /\ r.owner => r.at # q.at)
    BY <1>1 DEF PanesInv, OneOwner
  <1>4. \A p \in Panes : p # q.at \/ ~q.owner => G!inflight(p)' = G!inflight(p)
    BY <1>1 DEF G!inflight
  <1>5. CASE ~q.owner
    <2>1. UNCHANGED <<chart, err>>
      BY <1>5 DEF G!Answered, G!Fails, G!Owns, G!dom
    <2>2. OneOwner(requests') /\ requests' \subseteq RequestsAt(Panes)
      BY <1>3 DEF PanesInv, OneOwner
    <2>3. \A p \in Panes : ~G!inflight(p)' /\ ~err'[p] =>
             chart'[p] \in {G!NoChart, <<pane'[p], curRange'>>}
      BY <1>1, <1>4, <1>5, <2>1 DEF PanesInv
    <2>4. \A r \in requests' : r.owner =>
             IF r.here THEN r.what = <<pane'[r.at], curRange'>> ELSE chart'[r.at] = G!NoChart
      BY <1>1, <1>3, <2>1 DEF PanesInv
    <2> QED
      BY <1>1, <2>1, <2>2, <2>3, <2>4 DEF PanesInv
  <1>6. CASE q.owner
    <2>1. /\ chart' \in [Panes \cup {G!Modal} -> What \cup {G!NoChart}]
          /\ err' \in [Panes \cup {G!Modal} -> BOOLEAN]
          /\ \A p \in Panes : p # q.at => chart'[p] = chart[p] /\ err'[p] = err[p]
          /\ ~err'[q.at] => chart'[q.at] \in {G!NoChart, <<pane[q.at], curRange>>}
      <3>1. CASE G!Answered(q)
        <4>1. /\ chart' = (IF q.here THEN [chart EXCEPT ![q.at] = q.what] ELSE chart)
              /\ err' = [err EXCEPT ![q.at] = FALSE]
          BY <1>6, <3>1 DEF G!Answered, G!Owns
        <4>2. q.what \in What
          BY <1>2 DEF RequestsAt
        <4>3. IF q.here THEN q.what = <<pane[q.at], curRange>> ELSE chart[q.at] = G!NoChart
          BY <1>6 DEF PanesInv
        <4> QED
          BY <1>2, <4>1, <4>2, <4>3
      <3>2. CASE G!Fails(q)
        <4>1. chart' = chart /\ err' = [err EXCEPT ![q.at] = TRUE]
          BY <1>6, <3>2 DEF G!Fails, G!Owns
        <4> QED
          BY <1>2, <4>1
      <3> QED
        BY <3>1, <3>2
    <2>2. OneOwner(requests') /\ requests' \subseteq RequestsAt(Panes)
      BY <1>3 DEF PanesInv, OneOwner
    <2>3. ASSUME NEW p \in Panes, ~G!inflight(p)', ~err'[p]
          PROVE  chart'[p] \in {G!NoChart, <<pane'[p], curRange'>>}
      <3>1. CASE p = q.at
        BY <1>1, <2>1, <2>3, <3>1
      <3>2. CASE p # q.at
        BY <1>1, <1>4, <2>1, <2>3, <3>2 DEF PanesInv
      <3> QED
        BY <3>1, <3>2
    <2>4. ASSUME NEW r \in requests', r.owner
          PROVE  IF r.here THEN r.what = <<pane'[r.at], curRange'>> ELSE chart'[r.at] = G!NoChart
      <3>1. r \in requests /\ r.at # q.at /\ r.at \in Panes
        BY <1>3, <1>6, <2>4 DEF PanesInv, RequestsAt
      <3> QED
        BY <1>1, <2>1, <2>4, <3>1 DEF PanesInv
    <2> QED
      BY <1>1, <2>1, <2>2, <2>3, <2>4 DEF PanesInv, G!inflight
  <1> QED
    BY <1>5, <1>6

LEMMA PanesInit == G!Init => PanesInv
  <1> SUFFICES ASSUME G!Init PROVE PanesInv
    OBVIOUS
  <1>1. /\ pane \in [Panes -> Targets] /\ curRange \in Ranges /\ modal.open = FALSE
        /\ chart = [p \in G!Places |-> G!NoChart] /\ err = [p \in G!Places |-> FALSE]
    BY DEF G!Init
  <1>2. PICK w, S : w = [p \in Panes |-> <<pane[p], curRange>>] /\ S = requests
    OBVIOUS
  <1>3. S = Sent({}, Panes, w)
    BY <1>2, PaneConstants DEF G!Init, G!Loads, G!Wanted, Sent
  <1>4. {} \subseteq RequestsAt(Panes) /\ \A p \in Panes : w[p] \in What
    BY <1>1, <1>2 DEF What
  <1>5. SentRight(Panes, {}, Panes, w, S)
    BY <1>3, <1>4, SentFacts
  <1>6. \A q \in requests : q.at \in Panes /\ q.owner =>
           q = [at |-> q.at, what |-> w[q.at], owner |-> TRUE, here |-> TRUE]
    BY <1>2, <1>5 DEF SentRight
  <1>7. requests \subseteq RequestsAt(Panes) /\ \A q \in requests : q.at \in Panes
    BY <1>2, <1>5 DEF SentRight, RequestsAt
  <1>8. OneOwner(requests)
    BY <1>6, <1>7, Zenon DEF OneOwner
  <1>9. \A q \in requests : q.owner => q.here = TRUE /\ q.what = w[q.at]
    BY <1>6, <1>7
  <1> QED
    BY <1>1, <1>2, <1>7, <1>8, <1>9 DEF PanesInv, G!Places

LEMMA PanesStep ==
    ASSUME PanesInv, G!Next
    PROVE  PanesInv'
  <1> DEFINE w == [p \in Panes |-> <<pane'[p], curRange'>>]
  <1>0. /\ G!Modal \notin Panes /\ pane \in [Panes -> Targets] /\ curRange \in Ranges
        /\ err \in [Panes \cup {G!Modal} -> BOOLEAN]
        /\ \A p \in Panes : G!Wanted(p) = <<pane[p], curRange>>
    BY PaneConstants DEF PanesInv, G!Wanted
  <1>1. ASSUME NEW p \in Panes, NEW t \in Targets, G!PickTarget(p, t)
        PROVE  PanesInv'
    <2>1. /\ pane' = [pane EXCEPT ![p] = t] /\ UNCHANGED <<curRange, modal, chart, err>>
      BY <1>1 DEF G!PickTarget, G!dom
    <2>2. requests' = Sent(requests, {p}, w)
      BY <1>0, <1>1, <2>1 DEF G!PickTarget, G!Loads, Sent
    <2> QED
      BY <1>0, <2>1, <2>2, PanesLoad
  <1>2. ASSUME NEW r \in Ranges, G!PickRange(r)
        PROVE  PanesInv'
    <2>1. curRange' = r /\ UNCHANGED <<pane, modal, chart, err>>
      BY <1>2 DEF G!PickRange, G!dom
    <2>2. requests' = Sent(requests, Panes, w)
      BY <1>2, <2>1 DEF G!PickRange, G!Loads, Sent
    <2> QED
      BY <1>0, <2>1, <2>2, PanesLoad
  <1>3. CASE G!Reload
    <2>1. PICK ps : ps = {p \in Panes : ~G!inflight(p)}
      OBVIOUS
    <2>2. UNCHANGED <<pane, curRange, modal, chart, err>>
      BY <1>3 DEF G!Reload, G!dom
    <2>3. requests' = Sent(requests, ps, w)
      BY <1>0, <1>3, <2>1, <2>2 DEF G!Reload, G!Loads, Sent
    <2>4. ps \subseteq Panes
      BY <2>1
    <2> QED
      BY <1>0, <2>2, <2>3, <2>4, PanesLoad
  <1>4. ASSUME NEW p \in G!Places, G!Retry(p)
        PROVE  PanesInv'
    <2>1. p \in Panes
      BY <1>4 DEF G!Retry, G!Places, PanesInv
    <2>2. err' = [err EXCEPT ![p] = FALSE] /\ UNCHANGED <<pane, curRange, modal, chart>>
      BY <1>4 DEF G!Retry
    <2>3. requests' = Sent(requests, {p}, w)
      BY <1>0, <1>4, <2>1, <2>2 DEF G!Retry, G!Loads, Sent
    <2> QED
      BY ZenonT(40), <1>0, <2>1, <2>2, <2>3, PanesLoad
  <1>5. CASE \E q \in requests : G!Answered(q) \/ G!Fails(q)
    BY <1>5, PanesEnd
  <1>6. ~G!Relocalize /\ ~G!CloseModal /\ \A r \in Ranges : ~G!PickModalRange(r)
    BY DEF PanesInv, G!Relocalize, G!CloseModal, G!PickModalRange
  <1> QED
    BY <1>1, <1>2, <1>3, <1>4, <1>5, <1>6, PanesReInit DEF G!Next

LEMMA PanesStutter ==
    ASSUME PanesInv, UNCHANGED chartVars
    PROVE  PanesInv'
  BY DEF chartVars, PanesInv, OneOwner, G!inflight

-----------------------------------------------------------------------------
(* The modal. *)

\* The modal waits only while it is open, for what it shows; a line about an agent is of
\* the machine shown.
ModalInv ==
    /\ inits = 0
    /\ modal \in [open : BOOLEAN, view : Views \cup {M!None}, range : Ranges]
    /\ modal.open => modal.view \in Views
    /\ chart \in [{M!Modal} -> What \cup {M!NoChart}]
    /\ err \in [{M!Modal} -> BOOLEAN]
    /\ requests \subseteq RequestsAt({M!Modal}) /\ \A q \in requests : q.here
    /\ \A q \in requests : q.owner => modal.open /\ q.what = <<modal.view, modal.range>>
    /\ modal.open /\ ~M!inflight(M!Modal) /\ ~err[M!Modal] =>
          chart[M!Modal] = <<modal.view, modal.range>>
    /\ modal.open /\ agent # M!None => agent = modal.view

LEMMA ModalInit == M!Init => ModalInv
  <1> SUFFICES ASSUME M!Init PROVE ModalInv
    OBVIOUS
  <1>1. (CHOOSE r \in Ranges : TRUE) \in Ranges
    BY DEF M!Init
  <1>2. requests = {}
    BY DEF M!Init, M!Loads
  <1>3. /\ modal \in [open : BOOLEAN, view : Views \cup {M!None}, range : Ranges]
        /\ modal.open = FALSE /\ inits = 0
    BY <1>1 DEF M!Init
  <1>4. /\ chart \in [{M!Modal} -> What \cup {M!NoChart}]
        /\ err \in [{M!Modal} -> BOOLEAN]
    BY DEF M!Init, M!Places
  <1> QED
    BY <1>2, <1>3, <1>4 DEF ModalInv

\* A step that has the open modal ask for what it shows from then on.
LEMMA ModalLoad ==
    ASSUME ModalInv, modal' \in [open : BOOLEAN, view : Views \cup {M!None}, range : Ranges],
           modal'.open, modal'.view \in Views,
           requests' = Sent(requests, {M!Modal},
                            [p \in {M!Modal} |-> <<modal'.view, modal'.range>>]),
           err' \in [{M!Modal} -> BOOLEAN], UNCHANGED <<chart, inits>>,
           agent' # M!None => agent' = modal'.view
    PROVE  ModalInv'
  <1>1. PICK w : w = [p \in {M!Modal} |-> <<modal'.view, modal'.range>>]
    OBVIOUS
  <1>2. PICK rs, S, P : rs = requests /\ S = requests' /\ P = {M!Modal}
    OBVIOUS
  <1>3. /\ rs \subseteq RequestsAt(P) /\ S = Sent(rs, P, w) /\ \A p \in P : w[p] \in What
    BY <1>1, <1>2 DEF ModalInv, What
  <1>4. SentRight(P, rs, P, w, S)
    BY <1>3, SentFacts
  <1>5. requests' \subseteq RequestsAt({M!Modal}) /\ \A q \in requests' : q.at = M!Modal
    BY <1>2, <1>4 DEF SentRight, RequestsAt
  <1>6. /\ \A q \in requests' : q.here
        /\ \E q \in requests' : q.at = M!Modal /\ q.owner
    BY <1>2, <1>4 DEF SentRight, ModalInv
  <1>7. ASSUME NEW q \in requests', q.owner
        PROVE  q.what = <<modal'.view, modal'.range>>
    <2>1. q = [at |-> q.at, what |-> w[q.at], owner |-> TRUE, here |-> TRUE]
      BY <1>2, <1>4, <1>5, <1>7 DEF SentRight
    <2>2. q.what = w[M!Modal]
      BY <1>5, <2>1
    <2> QED
      BY <1>1, <2>2
  <1>8. M!inflight(M!Modal)'
    BY <1>6 DEF M!inflight
  <1> QED
    BY <1>5, <1>6, <1>7, <1>8 DEF ModalInv

LEMMA ModalStep ==
    ASSUME ModalInv, M!Next
    PROVE  ModalInv'
  <1> DEFINE w == [p \in {M!Modal} |-> <<modal'.view, modal'.range>>]
  <1>0. /\ modal \in [open : BOOLEAN, view : Views \cup {M!None}, range : Ranges]
        /\ err \in [{M!Modal} -> BOOLEAN]
        /\ M!Wanted(M!Modal) = <<modal.view, modal.range>> /\ inits = 0
    BY DEF ModalInv, M!Wanted
  <1>1. ASSUME NEW v \in Views, NEW r \in Ranges, M!OpenModal(v, r)
        PROVE  ModalInv'
    <2>1. /\ modal' = [open |-> TRUE, view |-> v, range |-> r]
          /\ err' = [err EXCEPT ![M!Modal] = FALSE] /\ UNCHANGED <<chart, inits>>
          /\ agent' = M!None
      BY <1>1 DEF M!OpenModal, M!counts
    <2>2. requests' = Sent(requests, {M!Modal}, w)
      BY <1>1, <2>1 DEF M!OpenModal, M!Loads, Sent
    <2> QED
      BY <1>0, <2>1, <2>2, ModalLoad
  <1>2. ASSUME NEW r \in Ranges, M!PickModalRange(r)
        PROVE  ModalInv'
    <2>1. /\ modal.open /\ modal' = [modal EXCEPT !.range = r]
          /\ UNCHANGED <<chart, err, agent, inits>>
      BY <1>2 DEF M!PickModalRange, M!dom, M!agents, M!counts
    <2>2. /\ modal'.open /\ modal'.view = modal.view /\ modal'.range = r
          /\ modal' \in [open : BOOLEAN, view : Views \cup {M!None}, range : Ranges]
      BY <1>0, <2>1
    <2>3. requests' = Sent(requests, {M!Modal}, w)
      BY <1>2, <2>2 DEF M!PickModalRange, M!Loads, Sent
    <2>4. modal'.view \in Views /\ (agent' # M!None => agent' = modal'.view)
      BY <2>1, <2>2 DEF ModalInv
    <2> QED
      BY <1>0, <2>1, <2>2, <2>3, <2>4, ModalLoad
  <1>3. CASE M!Relocalize
    <2>1. modal.open /\ UNCHANGED <<modal, chart, err, inits>> /\ agent' = M!None
      BY <1>3 DEF M!Relocalize, M!dom, M!counts
    <2>2. requests' = Sent(requests, {M!Modal}, w)
      BY <1>0, <1>3, <2>1 DEF M!Relocalize, M!Loads, Sent
    <2>3. modal'.view \in Views
      BY <2>1 DEF ModalInv
    <2> QED
      BY <1>0, <2>1, <2>2, <2>3, ModalLoad
  <1>4. ASSUME NEW p \in M!Places, M!Retry(p)
        PROVE  ModalInv'
    <2>1. p = M!Modal
      BY DEF M!Places
    <2>2. /\ modal.open /\ err' = [err EXCEPT ![p] = FALSE]
          /\ UNCHANGED <<modal, chart, agent, inits>>
      BY <1>4, <2>1 DEF M!Retry, M!agents, M!counts
    <2>3. requests' = Sent(requests, {M!Modal}, w)
      BY <1>0, <1>4, <2>1, <2>2 DEF M!Retry, M!Loads, Sent
    <2>4. modal'.view \in Views /\ (agent' # M!None => agent' = modal'.view)
      BY <2>2 DEF ModalInv
    <2> QED
      BY <1>0, <2>1, <2>2, <2>3, <2>4, ModalLoad
  <1>5. CASE M!CloseModal
    <2>1. /\ modal' = [modal EXCEPT !.open = FALSE, !.view = M!None]
          /\ UNCHANGED <<chart, err, agent, inits>>
      BY <1>5 DEF M!CloseModal, M!dom, M!agents, M!counts
    <2>2. /\ modal' \in [open : BOOLEAN, view : Views \cup {M!None}, range : Ranges]
          /\ modal'.open = FALSE
      BY <1>0, <2>1
    <2>3. ASSUME NEW q \in requests'
          PROVE  q \in RequestsAt({M!Modal}) /\ q.here /\ ~q.owner
      <3>1. PICK r \in requests : q = IF r.at = M!Modal THEN [r EXCEPT !.owner = FALSE] ELSE r
        BY <1>5 DEF M!CloseModal
      <3>2. r \in RequestsAt({M!Modal}) /\ r.here
        BY DEF ModalInv
      <3> HIDE DEF What
      <3> QED
        BY <3>1, <3>2 DEF RequestsAt
    <2> QED
      BY <2>1, <2>2, <2>3 DEF ModalInv
  <1>6. ASSUME NEW q \in requests, M!Answered(q) \/ M!Fails(q)
        PROVE  ModalInv'
    <2>1. /\ UNCHANGED <<modal, agent, inits>> /\ requests' = requests \ {q}
      BY <1>6 DEF M!Answered, M!Fails, M!Ended, M!agents, M!counts
    <2>2. /\ q \in RequestsAt({M!Modal}) /\ q.at = M!Modal /\ q.here /\ q.what \in What
          /\ q.owner \in BOOLEAN
      BY DEF ModalInv, RequestsAt
    <2>3. CASE ~q.owner
      <3>1. UNCHANGED <<chart, err>>
        BY <1>6, <2>3 DEF M!Answered, M!Fails, M!Owns, M!dom
      <3>2. M!inflight(M!Modal)' = M!inflight(M!Modal)
        BY <2>1, <2>3 DEF M!inflight
      <3> QED
        BY <2>1, <3>1, <3>2 DEF ModalInv
    <2>4. CASE q.owner
      <3>1. \/ chart' = [chart EXCEPT ![q.at] = q.what] /\ err' = [err EXCEPT ![q.at] = FALSE]
            \/ chart' = chart /\ err' = [err EXCEPT ![q.at] = TRUE]
        BY <1>6, <2>2, <2>4 DEF M!Answered, M!Fails, M!Owns
      <3>2. modal.open /\ q.what = <<modal.view, modal.range>>
        BY <2>4 DEF ModalInv
      <3>3. /\ chart' \in [{M!Modal} -> What \cup {M!NoChart}]
            /\ err' \in [{M!Modal} -> BOOLEAN]
            /\ ~err'[M!Modal] => chart'[M!Modal] = <<modal.view, modal.range>>
        BY <2>2, <3>1, <3>2 DEF ModalInv
      <3> QED
        BY <2>1, <3>3 DEF ModalInv
    <2> QED
      BY <2>2, <2>3, <2>4
  <1>7. ASSUME NEW v \in Pushed, M!AgentCompared(v)
        PROVE  ModalInv'
    <2>1. /\ UNCHANGED <<modal, chart, err, requests, inits>>
          /\ agent' = IF modal.view = v THEN v ELSE agent
      BY <1>7 DEF M!AgentCompared, M!dom, M!counts
    <2> QED
      BY <2>1 DEF ModalInv, M!inflight
  <1>8. ASSUME NEW r \in Ranges, M!PickRange(r)
        PROVE  ModalInv'
    <2>1. /\ UNCHANGED <<modal, chart, err, agent, inits>>
          /\ requests' = requests
      BY <1>8 DEF M!PickRange, M!Loads, M!dom, M!agents, M!counts
    <2> QED
      BY <2>1 DEF ModalInv, M!inflight
  <1>9. ~M!ReInit /\ ~M!Reload
    <2>1. ~(inits < 0)
      BY <1>0
    <2>2. ~M!ReInit
      BY <2>1 DEF M!ReInit
    <2>3. {p \in {} : ~M!inflight(p)} = {}
      OBVIOUS
    <2> QED
      BY <2>2, <2>3 DEF M!Reload
  <1> QED
    BY <1>1, <1>2, <1>3, <1>4, <1>5, <1>6, <1>7, <1>8, <1>9 DEF M!Next

LEMMA ModalStutter ==
    ASSUME ModalInv, UNCHANGED chartVars
    PROVE  ModalInv'
  BY DEF chartVars, ModalInv, M!inflight

\* A chart that waits for nothing is of the target and window its place names, whatever
\* was picked, opened, configured or answered late (history.js:43-82,
\* machine_detail.js:285-368).
THEOREM ChartsRight == PartsSpec => []IdleChartIsRight
<1> DEFINE Inv == (part = "panes" => PanesInv) /\ (part = "modal" => ModalInv)
  <1>1. PartsInit => Inv
    BY PanesInit, ModalInit DEF PartsInit
  <1>2. Inv /\ [PartsNext]_configVars => Inv'
    <2> SUFFICES ASSUME Inv, [PartsNext]_configVars PROVE Inv'
      OBVIOUS
    <2>1. CASE part = "panes" /\ PartsNext
      <3>1. part' = part /\ (G!Next \/ UNCHANGED chartVars)
        BY <2>1 DEF PartsNext
      <3> QED
        BY <2>1, <3>1, PanesStep, PanesStutter
    <2>2. CASE part = "modal" /\ PartsNext
      <3>1. part' = part /\ (M!Next \/ UNCHANGED chartVars)
        BY <2>2 DEF PartsNext
      <3> QED
        BY <2>2, <3>1, ModalStep, ModalStutter
    <2>3. CASE part \notin {"panes", "modal"} /\ PartsNext
      BY <2>3 DEF PartsNext
    <2>4. CASE UNCHANGED configVars
      BY <2>4, PanesStutter, ModalStutter DEF configVars
    <2> QED
      BY <2>1, <2>2, <2>3, <2>4
  <1>3. Inv => IdleChartIsRight
    <2>1. PanesInv => G!IdleChartIsRight
      BY PaneConstants DEF PanesInv, G!IdleChartIsRight, G!Wanted
    <2>2. ModalInv => M!IdleChartIsRight
      BY DEF ModalInv, M!IdleChartIsRight, M!Wanted
    <2> QED
      BY <2>1, <2>2 DEF IdleChartIsRight
  <1> QED
    BY <1>1, <1>2, <1>3, PTL DEF PartsSpec, configVars

=============================================================================
