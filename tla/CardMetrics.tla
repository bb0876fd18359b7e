------------------------------ MODULE CardMetrics ------------------------------
\* What a machine's push becomes on its card and in the history: the metrics of a machine
\* with several cards (normalize.js), the measured speed with its age, and the rule for
\* cards that spin without work (idle_spin.js).  Values are small numbers on one scale.
EXTENDS Integers, FiniteSets, FiniteSetsExt

CONSTANTS
    Cards,         \* the cards the agent found, of a machine that has or should have several
    Values,        \* what a sensor may read
    Warn, Danger,  \* the thresholds
    PowerCap,      \* a card's power_cap_w
    MaxAge,        \* freshness.max_age
    FreshLive      \* FRESH_LIVE_SEC

CardsAssumption ==
    /\ Values \subseteq Nat /\ Values # {} /\ IsFiniteSet(Values) /\ IsFiniteSet(Cards) /\ "all" \notin Cards
    /\ {Warn, Danger, PowerCap, MaxAge, FreshLive} \subseteq Nat

Null == -1
Read == Values \cup {Null}
Fields == {"util", "vram", "temp", "power"}

VARIABLES
    gpus,          \* card -> what was read of it, with its memory clock being idle or not
    speed,         \* a measured speed and its age
    live,          \* the live reader's node: none of Strata, quiet for long enough, or not
    metrics        \* owner (a card or all), name and metric; empty before the push is normalised

vars == <<gpus, speed, live, metrics>>

Init ==
    /\ gpus \in [Cards -> [util : {Null, Max(Values)}, vram : Read, temp : {Null, Max(Values)}, power : Read,
                           cap : {Null, PowerCap}, clock : {"idle", "busy"}]]
    /\ speed \in [value : {Max(Values)}, age : {0, FreshLive + 1, MaxAge + 1}]
    /\ live \in {"none", "serving", "quiet"}
    /\ metrics = {}

-----------------------------------------------------------------------------
\* computeLevel, and the worst of several.
LevelOf(v) == IF v = Null THEN "cool" ELSE IF v >= Danger THEN "danger" ELSE IF v >= Warn THEN "warn" ELSE "ok"
Rank == [cool |-> 0, ok |-> 1, warn |-> 2, danger |-> 3]
Worst(levels) == CHOOSE l \in levels : \A k \in levels : Rank[k] <= Rank[l]

\* sanitizeGpuPower: a power half as much again as the card can draw is a glitch.
Sane(g) == IF g.cap > 0 /\ 2 * g.power > 3 * g.cap THEN [g EXCEPT !.power = Null] ELSE g

Metric(v, l) == [value |-> v, level |-> l, held |-> FALSE, spin |-> FALSE]

\* A total needs every card.
Every(read, f) == Cards # {} /\ \A c \in Cards : read[c][f] # Null

\* applyGpuMulti: use is an average and takes its colour from it; the others take that of
\* the worst card.
Seen(read, f) == {c \in Cards : read[c][f] # Null}
SumOf(read, f) == MapThenSumSet(LAMBDA c : read[c][f], Seen(read, f))
TotalOf(read, f) ==
    CASE f \in {"util", "vram"} -> SumOf(read, f) \div Cardinality(Seen(read, f))
      [] f = "temp" -> Max({read[c][f] : c \in Seen(read, f)})
      [] OTHER -> SumOf(read, f)

Total(read, f) ==
    IF ~Every(read, f) THEN Metric(Null, "cool")
    ELSE LET v == TotalOf(read, f)
         IN  Metric(v, IF f = "util" THEN LevelOf(v) ELSE Worst({LevelOf(read[c][f]) : c \in Seen(read, f)}))

\* applyFreshness: an old value is shown but not written again, an older one is not shown.
Fresh(s) ==
    IF s.age > MaxAge THEN Metric(Null, "cool")
    ELSE [Metric(s.value, LevelOf(s.value)) EXCEPT !.held = s.age > FreshLive]

\* applyIdleSpin: the cards read busy, their memory is idle and nothing has been served
\* for a while; the value stays, its colour goes.
Spins(read, use) ==
    /\ live = "quiet" /\ Cardinality(Cards) >= 2 /\ use.value >= Danger
    /\ \A c \in Cards : read[c].clock = "idle"
Grey(m, spinning) == IF spinning THEN [m EXCEPT !.level = "cool", !.spin = TRUE] ELSE m

Normalize ==
    /\ metrics = {}
    /\ LET read == [c \in Cards |-> Sane(gpus[c])]
           use == Total(read, "util")
           spinning == Spins(read, use)
       IN  metrics' = {<<"all", f, Grey(Total(read, f), spinning /\ f = "util")>> : f \in Fields}
             \cup {<<"all", "speed", Fresh(speed)>>}
             \cup {<<c, f, Grey(Metric(read[c][f], LevelOf(read[c][f])), spinning /\ f = "util")>>
                     : c \in Cards, f \in Fields}
             \cup (IF live = "none" \/ Cardinality(Cards) < 2 \/ use.value = Null THEN {}
                   ELSE {<<"all", "idle_spin", Metric(IF spinning THEN 1 ELSE 0, "none")>>})
    /\ UNCHANGED <<gpus, speed, live>>

Spec == Init /\ [][Normalize]_vars
-----------------------------------------------------------------------------
\* samplableRows: what goes into the history.
Rows == {m \in metrics : ~m[3].held /\ m[3].value # Null}

\* What was measured of a card: nothing that its sensor did not read, and no power it cannot
\* draw.
Glitch(c) == gpus[c].cap > 0 /\ 2 * gpus[c].power > 3 * gpus[c].cap
Measured(c, f) == gpus[c][f] # Null /\ ~(f = "power" /\ Glitch(c))
OfAll(f) == Cards # {} /\ \A c \in Cards : Measured(c, f)

\* A total has a value exactly if every card was measured, so a glitch of one sensor takes the
\* total of the power away and no other; and, but for the use, which is coloured by its
\* average, its colour is never better than that of its worst card (normalize.js:201-212,
\* 271-289).
TotalsStandForEveryCard ==
    \A m \in metrics : m[1] = "all" /\ m[2] \in Fields =>
       /\ m[3].value # Null <=> OfAll(m[2])
       /\ m[2] # "util" /\ OfAll(m[2]) =>
            \A c \in Cards : Rank[m[3].level] >= Rank[LevelOf(gpus[c][m[2]])]

\* The history gets what was measured now and nothing else.  Of a card: a row for each thing
\* measured, with the value that was read, whether it spins or not, and none for what was not
\* read or is a glitch; of all cards: a row for each total they all stand for; and a speed
\* only while it is fresh (normalize.js:201-212, 229-246, 271-273, idle_spin.js:29-33).
HistoryIsMeasured ==
    metrics # {} =>
      /\ \A c \in Cards, f \in Fields :
           {m[3].value : m \in {r \in Rows : r[1] = c /\ r[2] = f}}
             = IF Measured(c, f) THEN {gpus[c][f]} ELSE {}
      /\ \A f \in Fields : (\E m \in Rows : m[1] = "all" /\ m[2] = f) <=> OfAll(f)
      /\ (\E m \in Rows : m[2] = "speed") <=> speed.age <= FreshLive /\ speed.age <= MaxAge
================================================================================
