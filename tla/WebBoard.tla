------------------------------- MODULE WebBoard -------------------------------
\* The board of one tab of the web client (src/web/app.js): overlapping polls whose
\* answers come in any order or not at all, the event stream of the live view with its
\* polled fallback, and a tab that is hidden and shown.  The session is AdminPage's.
EXTENDS Integers, FiniteSets

CONSTANTS
    RECONNECT_AT, OFFLINE_AT,   \* failed polls in a row that change the badge
    MaxViews, MaxConfigs,       \* bounds: live views and configurations of the hub
    MaxOverlap,                 \* bound: answers of a kind under way after a timer goes off
    MaxFaults                   \* bound: answers that never come, streams that break, and
                                \* sessions that begin or end

WebAssumption == RECONNECT_AT \in Nat \ {0} /\ OFFLINE_AT >= RECONNECT_AT

VARIABLES
    view, cfg,        \* the hub: its newest live view and configuration
    allowed,          \* it may be viewed without a login, or this tab's session is valid
    answers,          \* answers under way: [kind, n], n the version answered, or 401
    visible, CONFIG, CONFIG_ETAG, snap,   \* the tab; 0 before the first answer
    live, quiet,      \* liveView, and no message of the stream for 6 s
    stream,           \* liveES: [pc, at], at the last view it has delivered
    badge, failStreak,
    loaded,           \* the first configuration was answered, or failed: the timers run
    faults

hub == <<view, cfg, allowed>>
page == <<visible, loaded, CONFIG, CONFIG_ETAG, snap>>
liveState == <<live, quiet, stream>>
conn == <<badge, failStreak>>
vars == <<hub, answers, page, liveState, conn, faults>>

NoStream == [pc |-> "none", at |-> 0]
SAME == 304
LOGIN == 401

\* What the hub answers to each request when it is asked, with the tag that goes with it.
Answer(kind) ==
    [kind |-> kind,
     n |-> CASE ~allowed -> LOGIN
             [] allowed /\ kind = "config" -> IF CONFIG_ETAG = cfg THEN SAME ELSE cfg
             [] OTHER -> view]

Asked(kind) == {a \in answers : a.kind = kind}
CanAsk(kind) == Cardinality(Asked(kind)) < MaxOverlap

\* The page loads: the configuration is asked for first, then the rest.
Init ==
    /\ view = 1 /\ cfg = 1 /\ allowed \in BOOLEAN
    /\ visible = TRUE /\ loaded = FALSE /\ CONFIG = 0 /\ CONFIG_ETAG = 0 /\ snap = 0
    /\ live = 0 /\ quiet = TRUE /\ stream = NoStream
    /\ badge = "connecting" /\ failStreak = 0
    /\ faults = 0
    /\ answers = {Answer("config")}

-----------------------------------------------------------------------------
\* The hub reads a new live view, or its configuration is edited; a session that may
\* view begins or ends.
HubReads ==
    /\ view < MaxViews /\ view' = view + 1
    /\ UNCHANGED <<cfg, allowed, answers, page, liveState, conn, faults>>

HubEdited ==
    /\ cfg < MaxConfigs /\ cfg' = cfg + 1
    /\ UNCHANGED <<view, allowed, answers, page, liveState, conn, faults>>

SessionChanges ==
    /\ faults < MaxFaults /\ faults' = faults + 1
    /\ allowed' = ~allowed
    /\ UNCHANGED <<view, cfg, answers, page, liveState, conn>>

-----------------------------------------------------------------------------
\* The fallback polls while the stream is silent, and the card is on the board.
WantsLive == quiet /\ CONFIG # 0

\* The timers of a visible tab: snapTick, configTick and the fallback of the live view.
Tick(kind) ==
    /\ visible /\ loaded /\ CanAsk(kind) /\ Answer(kind) \notin answers
    /\ kind = "live" => WantsLive
    /\ answers' = answers \cup {Answer(kind)}
    /\ UNCHANGED <<hub, page, liveState, conn, faults>>

\* A panel has edited the configuration and refreshes the board by the same request; the
\* demo bar drops the tag first.
PanelChanges ==
    /\ visible /\ loaded /\ allowed /\ CanAsk("config")
    /\ cfg < MaxConfigs /\ cfg' = cfg + 1
    /\ CONFIG_ETAG' \in {CONFIG_ETAG, 0}
    /\ answers' = answers \cup {[kind |-> "config", n |-> cfg']}
    /\ UNCHANGED <<view, allowed, visible, loaded, CONFIG, snap, liveState, conn, faults>>

\* The first configuration starts the snapshots.
Took(a) == answers' = (answers \ {a}) \cup (IF a.kind = "config" /\ ~loaded THEN {Answer("snap")} ELSE {})
Loaded(a) == loaded' = (loaded \/ a.kind = "config")

\* A 401 is told by the badge, and ends no streak.
Locked(a) ==
    /\ badge' = "locked"
    /\ UNCHANGED <<CONFIG, CONFIG_ETAG, snap, failStreak>>

SnapArrives ==
    \E a \in Asked("snap") :
       /\ \/ a.n = LOGIN /\ Locked(a)
          \/ /\ a.n # LOGIN
             /\ snap' = a.n /\ failStreak' = 0 /\ badge' = "ok"
             /\ UNCHANGED <<CONFIG, CONFIG_ETAG>>
       /\ Took(a)
       /\ UNCHANGED <<hub, visible, loaded, liveState, faults>>

\* Wrong on purpose, to show that BoardCatchesUp sees it: the tag of the newest
\* configuration goes with an older one.
TagOfNewest(a) == cfg

\* The tag is the one of the configuration that is shown.
TagOf(a) == a.n

ConfigArrives ==
    \E a \in Asked("config") :
       /\ \/ a.n = LOGIN /\ Locked(a)
          \/ a.n = SAME /\ UNCHANGED <<CONFIG, CONFIG_ETAG, snap, conn>>
          \/ /\ a.n \notin {LOGIN, SAME}
             /\ CONFIG' = a.n /\ CONFIG_ETAG' = TagOf(a)
             /\ UNCHANGED <<snap, conn>>
       /\ Took(a) /\ Loaded(a)
       /\ UNCHANGED <<hub, visible, liveState, faults>>

\* onLiveView takes whatever arrives.
LiveArrives ==
    \E a \in Asked("live") :
       /\ live' = IF a.n = LOGIN THEN live ELSE a.n
       /\ Took(a)
       /\ UNCHANGED <<hub, page, quiet, stream, conn, faults>>

\* A request fails or times out; only the failures of snapshots are counted.
BadgeOf(streak) == IF streak >= OFFLINE_AT THEN "offline" ELSE IF streak >= RECONNECT_AT THEN "reconnecting" ELSE badge

AnswerFails ==
    /\ faults < MaxFaults /\ faults' = faults + 1
    /\ \E a \in answers :
         /\ Took(a) /\ Loaded(a)
         /\ \/ a.kind # "snap" /\ UNCHANGED conn
            \/ /\ a.kind = "snap"
               /\ failStreak' = failStreak + 1
               /\ badge' = BadgeOf(failStreak')
    /\ UNCHANGED <<hub, visible, CONFIG, CONFIG_ETAG, snap, liveState>>

-----------------------------------------------------------------------------
\* openLiveStream; EventSource retries by itself, but not after an answer like 401.
StreamOpens ==
    /\ stream.pc = "connecting"
    /\ IF allowed
       THEN stream' = [pc |-> "open", at |-> view] /\ live' = view /\ quiet' = FALSE
       ELSE stream' = [NoStream EXCEPT !.pc = "dead"] /\ UNCHANGED <<live, quiet>>
    /\ UNCHANGED <<hub, answers, page, conn, faults>>

StreamMessage ==
    /\ stream.pc = "open" /\ stream.at < view
    /\ stream' = [stream EXCEPT !.at = @ + 1]
    /\ live' = stream.at + 1 /\ quiet' = FALSE
    /\ UNCHANGED <<hub, answers, page, conn, faults>>

StreamBreaks ==
    /\ stream.pc = "open" /\ faults < MaxFaults
    /\ faults' = faults + 1
    /\ stream' = [NoStream EXCEPT !.pc = "connecting"]
    /\ UNCHANGED <<hub, answers, page, live, quiet, conn>>

\* 6 s without a message.
GoesQuiet == ~quiet /\ quiet' = TRUE /\ UNCHANGED <<hub, answers, page, live, stream, conn, faults>>

\* startLive, once the page has loaded in a visible tab.
StartLive ==
    /\ stream.pc = "none" /\ visible /\ loaded
    /\ stream' = [NoStream EXCEPT !.pc = "connecting"]
    /\ UNCHANGED <<hub, answers, page, live, quiet, conn, faults>>

\* A hidden tab stops its timers and closes the stream; shown again it asks for
\* everything and opens the stream anew.
Hide ==
    /\ visible /\ visible' = FALSE
    /\ stream' = NoStream
    /\ UNCHANGED <<hub, answers, loaded, CONFIG, CONFIG_ETAG, snap, live, quiet, conn, faults>>

Show ==
    /\ ~visible /\ visible' = TRUE
    /\ answers' = answers \cup {Answer("snap"), Answer("config")}
    /\ quiet' = TRUE /\ loaded' = TRUE
    /\ UNCHANGED <<hub, CONFIG, CONFIG_ETAG, snap, live, stream, conn, faults>>

Next ==
    \/ HubReads \/ HubEdited \/ SessionChanges
    \/ \E k \in {"snap", "config", "live"} : Tick(k)
    \/ PanelChanges \/ SnapArrives \/ ConfigArrives \/ LiveArrives \/ AnswerFails
    \/ StreamOpens \/ StreamMessage \/ StreamBreaks \/ GoesQuiet \/ StartLive
    \/ Hide \/ Show

\* A visible tab's timers go off, every request is answered or fails, time passes.
Fairness ==
    /\ \A k \in {"snap", "config", "live"} : WF_vars(Tick(k))
    /\ WF_vars(SnapArrives) /\ WF_vars(ConfigArrives) /\ WF_vars(LiveArrives)
    /\ WF_vars(StreamOpens) /\ WF_vars(StreamMessage) /\ WF_vars(GoesQuiet) /\ WF_vars(StartLive)

Spec == Init /\ [][Next]_vars /\ Fairness
-----------------------------------------------------------------------------
\* Whatever was lost, late or hidden: again and again a visible tab that may look shows
\* the newest configuration, snapshot and live view, and says it is online
\* (app.js:530-549, 587-620).
CaughtUp == visible /\ allowed => CONFIG = cfg /\ snap = view /\ live = view /\ badge = "ok"
BoardCatchesUp == []<>CaughtUp
===============================================================================
