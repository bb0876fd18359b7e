--------------------------- MODULE ConfigPipeline ---------------------------
(***************************************************************************)
(* How a configuration takes effect: server/config/watch.js, loader.js and *)
(* effective.js, server/store/user_store.js, and the handlers of           *)
(* server/index.js that tie them together.                                 *)
(*                                                                         *)
(* Three copies follow one another: the files on disk, the configuration   *)
(* last loaded from them, and the effective configuration, which adds the  *)
(* targets and cards users have added.  Each hand-over has a gate that may *)
(* refuse, and then the copy behind it stays as it was.  The etag is a     *)
(* hash of everything but the demo flag, and is modelled as that content.  *)
(***************************************************************************)
EXTENDS Naturals

CONSTANTS
    Ids,       \* target ids
    Contents,  \* what files may hold: [targets, metric]
    Example    \* what config.example holds

ASSUME PipelineAssumption ==
    /\ Contents \subseteq [targets : SUBSET Ids, metric : BOOLEAN]
    /\ Example \in Contents

VARIABLES
    disk,       \* the files: config/ when own, else config.example/
    dismissed,  \* the demo_dismissed setting
    pending,    \* the debounce timer of the watcher is set
    cfg,        \* ConfigStore.current
    userT,      \* ids of the rows of user_targets
    userC,      \* ids of the targets that have a row in user_cards
    eff,        \* EffectiveStore.current
    refused,    \* EffectiveStore.lastError is set
    applied,    \* what scheduler.apply was last given
    half        \* auxiliary: a target was written without its card, and nothing rebuilt since

vars == <<disk, dismissed, pending, cfg, userT, userC, eff, refused, applied, half>>
rows == <<userT, userC>>

Own(c, ok) == [own |-> TRUE, ok |-> ok, content |-> c]
NoFiles == [own |-> FALSE, ok |-> TRUE, content |-> Example]

\* stripDemoContent: the templates stay, the example targets and cards go.
Stripped(c) == [c EXCEPT !.targets = {}]

\* loadConfig().
Load(d, gone) ==
    [content |-> IF ~d.own /\ gone THEN Stripped(d.content) ELSE d.content,
     demo |-> ~d.own /\ ~gone]

\* buildEffective(): a user card shows a metric the files define.
Merged(c, T, C) == [file |-> c.content, demo |-> c.demo, user |-> T, cards |-> C]

\* The gate: no id twice, no card without its target or its metric.
Fits(e) ==
    /\ e.user \cap e.file.targets = {}
    /\ e.cards \subseteq e.file.targets \cup e.user
    /\ e.cards # {} => e.file.metric

Etag(e) == <<e.file, e.user, e.cards>>

\* A boot has no previous configuration to keep: the files alone are served.
Booted(e) == IF Fits(e) THEN e ELSE [e EXCEPT !.user = {}, !.cards = {}]

Init ==
    /\ disk \in {NoFiles} \cup {Own(c, TRUE) : c \in Contents}
    /\ dismissed = FALSE /\ pending = FALSE
    /\ cfg = Load(disk, FALSE)
    /\ userT = {} /\ userC = {}
    /\ eff = Merged(cfg, {}, {}) /\ refused = FALSE
    /\ applied = eff /\ half = FALSE

\* applyEffective: after a rebuild that changed something, and for new files also after
\* one that was refused.
Applied(again) == IF Etag(eff') # Etag(eff) \/ (again /\ refused') THEN eff' ELSE applied

\* What is current after a refused rebuild.
Kept(e) == eff

\* rebuild(): a refusal keeps the previous configuration.
Rebuild(c, T, C, again) ==
    LET e == Merged(c, T, C)
    IN  /\ eff' = IF Fits(e) THEN e ELSE Kept(e)
        /\ refused' = ~Fits(e)
        /\ applied' = Applied(again)
        /\ half' = FALSE

-----------------------------------------------------------------------------
(* The files. *)

\* Wrong on purpose, to show that EditsTakeEffect sees it: removed files raise no event.
MissesUnlink == disk'.own

\* add, change and unlink are watched.
Watched == TRUE

EditFiles ==
    /\ disk' \in {NoFiles} \cup {Own(c, ok) : c \in Contents, ok \in BOOLEAN}
    /\ disk' # disk
    /\ pending' = (pending \/ Watched)
    /\ UNCHANGED <<dismissed, cfg, rows, eff, refused, applied, half>>

\* Wrong on purpose, to show that ConfigInvariant sees it: the etag of the targets alone.
ChangedTargets(next) == next.content.targets # cfg.content.targets

\* next.etag !== this.current.etag.
Changed(next) == next.content # cfg.content

\* loadConfig() throws on files that do not validate.
Valid(d) == d.ok

\* _reload(), and the 'change' handler when it emits.
ReloadWith(gone) ==
    LET next == Load(disk, gone)
    IN  IF Valid(disk)
        THEN /\ cfg' = next
             /\ IF Changed(next) THEN Rebuild(next, userT, userC, TRUE)
                                 ELSE UNCHANGED <<eff, refused, applied, half>>
        ELSE UNCHANGED <<cfg, eff, refused, applied, half>>

Reload ==
    /\ pending /\ pending' = FALSE
    /\ ReloadWith(dismissed)
    /\ UNCHANGED <<disk, dismissed, rows>>

\* POST /api/demo/dismiss.
Dismiss ==
    /\ dismissed' = TRUE
    /\ ReloadWith(TRUE)
    /\ UNCHANGED <<disk, pending, rows>>

-----------------------------------------------------------------------------
(* The user layer. *)

\* POST /api/user_targets: refused when already added or when the merge would be.
Admits(i) ==
    /\ i \notin userT
    /\ Fits(Merged(cfg, userT \cup {i}, userC \cup {i}))

AddTarget(i) ==
    /\ Admits(i)
    /\ userT' = userT \cup {i} /\ userC' = userC \cup {i}
    /\ Rebuild(cfg, userT', userC', FALSE)
    /\ UNCHANGED <<disk, dismissed, pending, cfg>>

\* The second of the two writes fails, or the process dies before it.
AddFails(i) ==
    /\ Admits(i)
    /\ userT' = userT \cup {i}
    /\ half' = TRUE
    /\ UNCHANGED <<disk, dismissed, pending, cfg, userC, eff, refused, applied>>

\* deleteTarget takes the cards along, in the same transaction.
CardsWithout(i) == userC \ {i}

DeleteTarget(i) ==
    /\ i \in userT
    /\ userT' = userT \ {i} /\ userC' = CardsWithout(i)
    /\ Rebuild(cfg, userT', userC', FALSE)
    /\ UNCHANGED <<disk, dismissed, pending, cfg>>

\* A bad configuration at boot is fatal; bad rows are not.
Restart ==
    /\ Valid(disk)
    /\ cfg' = Load(disk, dismissed)
    /\ eff' = Booted(Merged(cfg', userT, userC))
    /\ refused' = ~Fits(Merged(cfg', userT, userC))
    /\ applied' = eff'
    /\ pending' = FALSE /\ half' = FALSE
    /\ UNCHANGED <<disk, dismissed, rows>>

Next ==
    \/ EditFiles \/ Reload \/ Dismiss
    \/ \E i \in Ids : AddTarget(i) \/ AddFails(i) \/ DeleteTarget(i)
    \/ Restart

Spec == Init /\ [][Next]_vars

\* The debounce timer fires.
FairSpec == Spec /\ WF_vars(Reload)

-----------------------------------------------------------------------------
(* Properties. *)

Content == [targets : SUBSET Ids, metric : BOOLEAN]
Effective == [file : Content, demo : BOOLEAN, user : SUBSET Ids, cards : SUBSET Ids]

\* Every variable holds what it can hold: the example is never invalid, and the files
\* alone are never refused.
TypeOK ==
    /\ disk \in [own : BOOLEAN, ok : BOOLEAN, content : Content]
    /\ dismissed \in BOOLEAN /\ pending \in BOOLEAN
    /\ cfg \in [content : Content, demo : BOOLEAN]
    /\ userT \subseteq Ids /\ userC \subseteq Ids
    /\ eff \in Effective /\ applied \in Effective
    /\ refused \in BOOLEAN /\ half \in BOOLEAN
    /\ disk.own \/ disk = NoFiles
    /\ refused => userT # {}

\* effective.js: whatever the files and the rows go through, what is served fits together.
EffectiveFits ==
    /\ eff.user \cap eff.file.targets = {}
    /\ eff.cards \subseteq eff.file.targets \cup eff.user
    /\ eff.cards # {} => eff.file.metric

\* The scheduler polls what is served, through refused rebuilds, reloads that change
\* nothing and restarts on rows that no longer fit.
AppliedIsEffective == Etag(applied) = Etag(eff)

\* A refusal lasts no longer than its cause: as soon as the rows fit the files loaded,
\* by whatever edit or deletion, what is served is exactly the two of them.
RefusalHeals ==
    ~half /\ Fits(Merged(cfg, userT, userC)) => Etag(eff) = Etag(Merged(cfg, userT, userC))

\* No card outlives its target, which would make every later rebuild refuse.
CardsHaveTargets == userC \subseteq userT

\* Clearing the demo takes the demo targets off the board at once, unless something else
\* on the board is refused at the time; no reload, edit or restart brings them back.
DemoStaysGone ==
    dismissed /\ ~disk.own /\ ~pending /\ ~refused => eff.file.targets = {}

\* Files that validate are served in the end, unless the users' rows do not fit them or
\* the files stop being valid.
EditsTakeEffect ==
    []<>(eff.file = Load(disk, dismissed).content \/ refused \/ ~Valid(disk))

\* What is served: well formed, fitting, given to the scheduler, refused no longer than its
\* cause, and without a demo that was dismissed.
ConfigInvariant ==
    TypeOK /\ EffectiveFits /\ AppliedIsEffective /\ RefusalHeals /\ DemoStaysGone

=============================================================================
