------------------------------ MODULE UsageDays ------------------------------
\* The usage engine (src/server/usage.js) for one node and one kind of counter:
\* every token is counted once, from the node's own counter where the counter
\* covered it and from the LiteLLM request log where it did not.  A completed day
\* is settled once into the hub's database; today is rebuilt at every refresh.
\* One request of one token happens per unit of time, through LiteLLM or directly,
\* a day is DayLen units, and a unit is also the scrape interval of the counter.
EXTENDS CounterWindow, FiniteSets

CONSTANTS
    DayLen,      \* DAY
    Settle,      \* SETTLE_SEC
    LogDays,     \* days SpendLogs keeps a row; a day is suspect a day earlier
    LowSkip,     \* LOW_SKIP_SEC: the newest rows are not compared with the counter
    FirstValue,  \* what the counter shows when the story begins
    MaxNow,      \* bound: the clock
    MaxFaults    \* bound: outages, lost scrapes, late rows, failed reads, restarts

DaysAssumption ==
    /\ {DayLen, Settle, LogDays, MaxNow} \subseteq Nat \ {0}
    /\ {LowSkip, FirstValue, MaxFaults} \subseteq Nat

VARIABLES
    now, traffic, series, boot, lag, pruned, faults,   \* the world outside
    snap,                   \* snapshot.get(inference_nodes)
    saved,                  \* usage_meta: the switch instant, NoSample before it
    done, stored,           \* usage_done; usage_ll and usage_ctr per day
    run, got, live          \* the locals of _refresh between two awaits: where it is,
                            \* the counter just read, the days kept for the view only

outside == <<now, traffic, series, boot, lag, pruned>>
locals == <<run, got, live>>
vars == <<outside, faults, snap, saved, done, stored, locals>>

Days == 0..(MaxNow \div DayLen)
dayOf(t) == t \div DayLen
dayStart(d) == d * DayLen
dayEnd(d) == dayStart(d) + DayLen
UnitsOf(d) == dayStart(d)..(dayEnd(d) - 1)
Carried(kind) == {u \in DOMAIN traffic : traffic[u] = kind}

\* The rows SpendLogs answers with for [a, b): via LiteLLM, logged, not pruned.
llWindow(a, b) ==
    {u \in Carried("ll") : a <= u /\ u < b /\ pruned <= u /\ u < now - lag}

\* A day as it is stored or shown: its rows, the covered ones, the counter.
NoDay == [rows |-> {}, cov |-> {}, ctr |-> NoSample]
NoSnap == [at |-> NoSample, raw |-> NoSample, cover |-> {}]
Before == -1     \* the server started before the story does
NoReading == [ctr |-> NoSample, cover |-> {}, at |-> NoSample]
NoDays == [d \in Days |-> NoDay]
Idle == [pc |-> "idle"]

Init ==
    /\ now = 0 /\ boot = Before /\ lag = 0 /\ pruned = 0 /\ faults = 0
    /\ traffic = [u \in {} |-> "ll"]
    /\ series = <<>>
    /\ snap = NoSnap
    /\ saved = NoSample
    /\ done = {} /\ stored = NoDays
    /\ run = Idle /\ got = NoReading /\ live = NoDays

-----------------------------------------------------------------------------
\* The world: a unit passes.  "off" is a machine that restarts: nothing is served
\* and its counter begins again at 0.  The nodes are polled once a unit at least (or
\* the poll fails), and a refresh lasts no longer than a unit.  A scrape may be missed (Prometheus down),
\* and LiteLLM may log the unit's row one unit late.
Counter == IF boot = Before THEN FirstValue + now ELSE now - boot

Tick(kind, scraped, late) ==
    /\ now < MaxNow
    /\ run.pc # "idle" => now = run.nowSec
    /\ snap = NoSnap \/ snap.at = now
    /\ LET bad == kind = "off" \/ ~scraped \/ late = 1
           start == IF kind = "off" THEN now + 1 ELSE boot
       IN  /\ kind = "off" => late = 0
           /\ bad => faults < MaxFaults
           /\ faults' = IF bad THEN faults + 1 ELSE faults
           /\ boot' = start
           /\ traffic' = [u \in 0..now |-> IF u = now THEN kind ELSE traffic[u]]
           /\ series' = Append(series, IF ~scraped THEN NoSample
                                       ELSE IF kind = "off" THEN 0 ELSE Counter + 1)
    /\ now' = now + 1
    /\ lag' = late
    /\ UNCHANGED <<pruned, snap, saved, done, stored, locals>>

Prune ==
    /\ pruned < now - LogDays * DayLen - 1
    /\ pruned' = now - LogDays * DayLen - 1
    /\ UNCHANGED <<now, traffic, series, boot, lag, faults, snap, saved, done, stored, locals>>

-----------------------------------------------------------------------------
\* The start of the server as the exporter publishes it at time t.
StartAt(t) ==
    LET offs == {o \in Carried("off") : o < t} IN IF offs = {} THEN Before ELSE Max(offs) + 1

\* min_over_time of it: the earliest start that the samples of the window show.
serverStarts(s0, s1) ==
    LET seen == {StartAt(t) : t \in Times(series, s0, s1)}
    IN  IF seen = {} THEN Before ELSE Min(seen)

\* collectNodes: today's counter, and whether it counts less than LiteLLM
\* delivered while it was covering; a failed poll shows the card offline.
PollNodes ==
    LET midnight == dayStart(dayOf(now))
        w == Window(series, midnight, now, serverStarts(midnight, now))
        compared == {u \in llWindow(midnight, now) : InCover(w.cover, u) /\ u < now - LowSkip}
    IN  /\ snap' = [at |-> now, cover |-> w.cover,
                    raw |-> IF w.value < Cardinality(compared) THEN NoSample ELSE w.value]
        /\ UNCHANGED <<outside, faults, saved, done, stored, locals>>

PollNodesFails ==
    /\ snap # NoSnap
    /\ snap' = NoSnap
    /\ UNCHANGED <<outside, faults, saved, done, stored, locals>>

-----------------------------------------------------------------------------
\* ctrToday: the snapshot's figure; one that is due and missing covers nothing.
\* Reading it and the loop's last await are one step of the event loop.
ctrToday(T) ==
    IF T = NoSample \/ snap.raw = NoSample THEN NoReading
    ELSE [ctr |-> snap.raw, cover |-> snap.cover, at |-> snap.at]

\* After day d of refresh r: the next day that was not done when it began, or today.
Continue(r, d) ==
    LET left == {e \in Days \ r.skip : e > d /\ e < dayOf(r.nowSec)}
    IN  /\ run' = [r EXCEPT !.pc = IF left = {} THEN "today" ELSE "counters",
                            !.day = IF left = {} THEN dayOf(r.nowSec) ELSE Min(left)]
        /\ got' = IF left = {} THEN ctrToday(r.T) ELSE NoReading

\* An instant once found is kept; Prometheus down or no sample yet leaves the switch
\* out of this refresh.
switchPoints(answers) ==
    IF saved = NoSample /\ answers THEN FirstSample(series, now) ELSE saved

Begin(answers) ==
    /\ run = Idle
    /\ answers \/ (saved = NoSample /\ faults < MaxFaults)
    /\ faults' = IF answers THEN faults ELSE faults + 1
    /\ saved' = switchPoints(answers)
    /\ Continue([pc |-> "idle", nowSec |-> now, T |-> saved', skip |-> done, day |-> 0], -1)
    /\ UNCHANGED <<outside, snap, done, stored, live>>

Asked == run.T # NoSample /\ run.T < dayEnd(run.day)

\* ctrDay: a counter without a switch before the day's end is not asked for.
CountersCome == run.pc = "counters" /\ run' = [run EXCEPT !.pc = "rows"]

ReadCounters ==
    /\ CountersCome
    /\ got' = IF ~Asked THEN NoReading
              ELSE LET s0 == Max({dayStart(run.day), run.T})
                       w == Window(series, s0, dayEnd(run.day), serverStarts(s0, dayEnd(run.day)))
                   IN  [ctr |-> w.value, cover |-> w.cover, at |-> now]
    /\ UNCHANGED <<outside, faults, snap, saved, done, stored, live>>

\* A row's minute is covered inside the counter's stretches from the switch on.
Tagged(rows) ==
    [rows |-> rows, ctr |-> got.ctr,
     cov |-> IF run.T = NoSample THEN {} ELSE {u \in rows : u >= run.T /\ InCover(got.cover, u)}]

\* llWindow of a completed day, and what becomes of it: suspect of having been
\* pruned, settled in one transaction, or kept for this view only.
DayRows == llWindow(dayStart(run.day), dayEnd(run.day))

Suspect == DayRows = {} /\ run.nowSec - dayEnd(run.day) > (LogDays - 1) * DayLen

\* Wrong on purpose, to show that DaysSettle sees it: a day is final a day later.
SettledNextDay == run.nowSec >= dayEnd(run.day + 1) + Settle

Settled == run.nowSec >= dayEnd(run.day) + Settle

ReadRows ==
    /\ run.pc = "rows"
    /\ IF Settled /\ ~Suspect
       THEN /\ done' = done \cup {run.day}
            /\ stored' = [stored EXCEPT ![run.day] = Tagged(DayRows)]
            /\ UNCHANGED live
       ELSE /\ live' = [live EXCEPT ![run.day] = Tagged(DayRows)]
            /\ UNCHANGED <<done, stored>>
    /\ Continue(run, run.day)
    /\ UNCHANGED <<outside, faults, snap, saved>>

\* Either source failing: the day shows nothing this time.
ReadFails ==
    /\ run.pc = "rows" \/ (run.pc = "counters" /\ Asked)
    /\ faults < MaxFaults
    /\ faults' = faults + 1
    /\ Continue(run, run.day)
    /\ UNCHANGED <<outside, snap, saved, done, stored, live>>

-----------------------------------------------------------------------------
\* build: a past day whose counter is below the rows it covered did not count that
\* day, which then shows its LiteLLM rows alone.
Broken(day) == day.ctr # NoSample /\ day.ctr < Cardinality(day.cov)

Figure(day, past) ==
    LET off == past /\ Broken(day)
        alone == IF off THEN day.rows ELSE day.rows \ day.cov
        ctr == IF off \/ day.ctr = NoSample THEN 0 ELSE day.ctr
    IN  [total |-> Cardinality(alone) + ctr, ll |-> Cardinality(day.rows)]

\* The view built from today's rows: what the token card and the modal show per day.
View(rows) ==
    LET day(d) == IF d = run.day THEN Tagged(rows) ELSE IF d \in done THEN stored[d] ELSE live[d]
    IN  [d \in 0..run.day |-> Figure(day(d), d < run.day)]

TodaysRows == llWindow(dayStart(run.day), run.nowSec + 1)

\* projects: what a day served that did not come through LiteLLM.
Direct(figure) == figure.total - figure.ll

\* Today's rows come, or their query fails; the view is built and the refresh ends.
Finish ==
    /\ run.pc = "today"
    /\ run' = Idle /\ got' = NoReading /\ live' = NoDays
    /\ UNCHANGED <<outside, faults, snap, saved, done, stored>>

\* The hub restarts: its database stays, the snapshot and the refresh are
\* gone.  (Between two refreshes that is what a failed poll does.)
Restart ==
    /\ run # Idle
    /\ faults < MaxFaults
    /\ faults' = faults + 1
    /\ snap' = NoSnap
    /\ run' = Idle /\ got' = NoReading /\ live' = NoDays
    /\ UNCHANGED <<outside, saved, done, stored>>

-----------------------------------------------------------------------------
Next ==
    \/ \E kind \in {"ll", "direct", "off"}, scraped \in BOOLEAN, late \in {0, 1} :
         Tick(kind, scraped, late)
    \/ Prune \/ PollNodes \/ PollNodesFails \/ Restart
    \/ \E answers \in BOOLEAN : Begin(answers)
    \/ ReadCounters \/ ReadRows \/ ReadFails \/ Finish

\* The scheduler refreshes for ever, and its sources stop failing some day.
Fairness == WF_vars(Begin(TRUE)) /\ WF_run(CountersCome) /\ WF_vars(ReadRows) /\ WF_vars(Finish)

Spec == Init /\ [][Next]_vars /\ Fairness

-----------------------------------------------------------------------------
DayRecord == [rows : SUBSET (0..MaxNow), cov : SUBSET (0..MaxNow), ctr : {NoSample} \cup Nat]

\* Every variable has its type, and a row can only be covered if it is a row.
TypeOK ==
    /\ now \in 0..MaxNow /\ boot \in Before..MaxNow /\ lag \in {0, 1} /\ faults \in 0..MaxFaults
    /\ pruned \in 0..MaxNow
    /\ DOMAIN traffic = 0..(now - 1) /\ Len(series) = now
    /\ saved \in {NoSample} \cup 0..MaxNow
    /\ done \subseteq Days
    /\ stored \in [Days -> DayRecord]
    /\ \A d \in Days : stored[d].cov \subseteq stored[d].rows
    /\ run.pc \in {"idle", "counters", "rows", "today"}

\* A settled day misses none of the requests LiteLLM ever logged for it but a part
\* pruned before the day was first read: a day is never settled too early, nor a
\* pruned one stored as if it had been empty (usage.js:294-315, "never store that as
\* a real zero").
SettledDaysKeepTheirRows ==
    \A d \in done :
        LET all == Carried("ll") \cap UnitsOf(d)
            kept == stored[d].rows
        IN  all # {} => kept # {} /\ kept = {u \in all : u >= Min(kept)}

Scraped(t) == t = 0 \/ series[t] # NoSample
OffUnits == Carried("off")

\* Between the two instants every restart of the server was scraped on both sides.
SeenRestarts(a, b) == \A o \in OffUnits : a <= o /\ o < b => Scraped(o) /\ Scraped(o + 1)

\* The days the figures can be held to: no row pruned, the counter scraped at both ends
\* and around every restart.  The samples between may all be missing.
Measured(d) ==
    LET from == Max({dayStart(d), saved})
    IN  /\ stored[d].ctr # NoSample
        /\ stored[d].rows = Carried("ll") \cap UnitsOf(d)
        /\ Scraped(from) /\ Scraped(dayEnd(d))
        /\ SeenRestarts(from, dayEnd(d))

\* A settled day that had its counter adds up to exactly what happened: every
\* request counted once, through LiteLLM or not, however the two sources overlap
\* (usage.js:4-15), from the switch instant on; before it, LiteLLM's requests.
MeasuredDaysAreExact ==
    \A d \in done :
        Measured(d) =>
            Figure(stored[d], TRUE).total =
                Cardinality(UnitsOf(d) \cap (Carried("ll") \cup {u \in Carried("direct") : u >= saved}))

\* No figure of a past day is smaller than its LiteLLM share, whatever the counter
\* lost (usage.js:33-34, "a total is never smaller than its LiteLLM share").
SharesFit ==
    run.pc = "today" =>
        \A rows \in {{}, TodaysRows} :
            \A d \in 0..(run.day - 1) : Direct(View(rows)[d]) >= 0

\* Today's figure never exceeds the requests of today while the snapshot it was read
\* from is of today and the counter was scraped at midnight and around every restart
\* since: what the log adds is only what the counter did not cover (usage.js:4-15, 259-274).
TodaysFigure == View(TodaysRows)[run.day].total
TodayIsCountedOnce ==
    /\ run.pc = "today" /\ got.at >= dayStart(run.day)
    /\ Scraped(dayStart(run.day)) /\ SeenRestarts(dayStart(run.day), got.at)
    => TodaysFigure <= now - dayStart(run.day)

Pending(d) == now >= dayEnd(d) + Settle /\ llWindow(dayStart(d), dayEnd(d)) # {}

\* A completed day whose requests are still in the log is settled sooner or later,
\* whatever read failed or restart came in between (usage.js:295-318).
AllSettled == \A d \in Days : Pending(d) => d \in done
DaysSettle == <>[]AllSettled
=============================================================================
