---------------------------- MODULE CounterWindow ----------------------------
\* What src/server/collectors/nodes.js reads from a cumulative counter in
\* Prometheus: how much it grew over a window, and which stretches of that
\* window it really covered.  Time is counted in scrape intervals; a series is
\* a sequence whose t-th element is the value scraped at time t, or NoSample.
EXTENDS Integers, Sequences, FiniteSetsExt, Folds

CONSTANTS
    FreshLen,   \* [1h]: a sample this recent says the server ran through the start
    GapLen,     \* GAP_SEC: samples further apart than this are a missing stretch
    TailLen     \* TAIL_SEC: a series whose last sample is this recent still runs

\* The hour and the five minutes are both longer than a scrape interval.
WindowAssumption == {FreshLen, GapLen} \subseteq Nat \ {0} /\ TailLen \in Nat

NoSample == -1

Times(series, a, b) == {t \in DOMAIN series : a < t /\ t <= b /\ series[t] # NoSample}

\* What a fold over the samples carries: the sum, the previous sample's time and
\* value, the start of the open stretch, the stretches already closed.
Start(from, base) == [inc |-> 0, at |-> from, prev |-> base, open |-> from, closed |-> {}]

\* counterIncrease: a drop is a restart, and the new process counted from 0.
Increase(x, prev) == IF prev = NoSample THEN 0 ELSE IF x >= prev THEN x - prev ELSE x

\* coverOf: a drop across a missing stretch closes the stretch before it.
Hole(w, t, x) == w.prev # NoSample /\ x < w.prev /\ t - w.at > GapLen

Step(series, w, t) ==
    LET x == series[t]
        hole == Hole(w, t, x)
    IN  [inc |-> w.inc + Increase(x, w.prev), at |-> t, prev |-> x,
         open |-> IF hole THEN t ELSE w.open,
         closed |-> IF hole /\ w.at > w.open THEN w.closed \cup {<<w.open, w.at>>}
                                             ELSE w.closed]

\* Wrong on purpose, to show that DaysAreExact sees it: a series seen before the window
\* counts from 0.
BaseIgnoresFresh(series, s0, start) ==
    IF Times(series, 0, s0) # {} \/ start >= s0 THEN 0 ELSE NoSample

\* promCounterWindow's baseline: the value the series had at the start, 0 when it
\* was seen earlier but not lately, or when its server is known to have started
\* inside the window; NoSample for a brand-new series.
Base(series, s0, start) ==
    LET fresh == Times(series, s0 - FreshLen, s0)
    IN  IF fresh # {} THEN series[Max(fresh)]
        ELSE IF Times(series, 0, s0) # {} \/ start >= s0 THEN 0 ELSE NoSample

From(series, s0, s1, start) ==
    LET new == Times(series, 0, s0) = {}
        inside == Times(series, s0, s1)
    IN  IF ~new THEN s0 ELSE IF start >= s0 THEN start
        ELSE IF inside = {} THEN s1 ELSE Min(inside)

\* promCounterWindow for one selector with one series: the samples of the window in the
\* order of time.  start is the earliest start of the server that they show.
Window(series, s0, s1, start) ==
    LET ts == Times(series, s0, s1)
        w == MapThenFoldSet(LAMBDA t, acc : Step(series, acc, t),
                            Start(From(series, s0, s1, start), Base(series, s0, start)),
                            LAMBDA t : t, Max, ts)
    IN  [value |-> w.inc,
         cover |-> IF ts = {} THEN {}
                   ELSE w.closed \cup {<<w.open, IF s1 - w.at <= TailLen THEN s1 ELSE w.at>>}]

\* covered: a bucket is covered when it starts inside a covered stretch.
InCover(cover, u) == \E s \in cover : s[1] <= u /\ u < s[2]

\* promFirstSample: when the counter started being collected.
FirstSample(series, upTo) ==
    LET ts == Times(series, 0, upTo) IN IF ts = {} THEN NoSample ELSE Min(ts)
=============================================================================
