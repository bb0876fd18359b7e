------------------------------ MODULE RateReaders ------------------------------
\* The collectors that turn a machine's counters into shares and rates: node_exporter
\* (collectors/prometheus.js) and ssh (collectors/ssh.js).  A counter starts again with
\* its machine or its interface, and a reading may fail or lack a family.
EXTENDS Integers, FiniteSets, FiniteSetsExt

CONSTANTS
    Ifaces,        \* network interfaces, loopback left out
    MaxCount,      \* bound: a counter
    MaxGap         \* bound: the time and the traffic between two readings that matter

RateAssumption == {MaxCount, MaxGap} \subseteq Nat \ {0} /\ IsFiniteSet(Ifaces)

Null == -1         \* no number
NoReading == [idle |-> Null, total |-> Null, rx |-> Null]
NoRate == [amount |-> Null, over |-> Null]

VARIABLES
    idle, busy,    \* the machine's cpu counters
    rx,            \* interface -> its counter, Null while it is absent
    prev,          \* the reading kept
    gap,           \* since it: the time the hub's clock saw, the traffic, the cpu's idle
                   \* and busy time
    rebooted,      \* the machine or an interface started again since then
    share, rate    \* the answer being given: idle over total, traffic over time

host == <<idle, busy, rx>>
vars == <<host, prev, gap, rebooted, share, rate>>

NoGap == [time |-> 0, rx |-> 0, idle |-> 0, busy |-> 0]
Init ==
    /\ idle = 0 /\ busy = 0 /\ rx = [i \in Ifaces |-> 0]
    /\ prev = NoReading /\ gap = NoGap /\ rebooted = FALSE
    /\ share = NoRate /\ rate = NoRate

-----------------------------------------------------------------------------
NoAnswer == share' = NoRate /\ rate' = NoRate

\* A unit of time: the cpu was idle or busy and some interfaces carried a byte.
Runs ==
    /\ gap.time < MaxGap
    /\ \E b \in 0..1, on \in SUBSET {i \in Ifaces : rx[i] # Null} :
         /\ idle + busy < MaxCount /\ \A i \in on : rx[i] < MaxCount
         /\ idle' = idle + 1 - b /\ busy' = busy + b
         /\ rx' = [i \in Ifaces |-> IF i \in on THEN rx[i] + 1 ELSE rx[i]]
         /\ gap' = [time |-> gap.time + 1, rx |-> gap.rx + Cardinality(on),
                    idle |-> gap.idle + 1 - b, busy |-> gap.busy + b]
    /\ NoAnswer /\ UNCHANGED <<prev, rebooted>>

\* The machine starts again, at most once between two readings.
Reboot ==
    /\ ~rebooted
    /\ idle' = 0 /\ busy' = 0 /\ rx' = [i \in Ifaces |-> 0]
    /\ rebooted' = TRUE
    /\ NoAnswer /\ UNCHANGED <<prev, gap>>

\* An interface goes, or comes (back) with a counter of its own.
IfaceChanges ==
    /\ ~rebooted
    /\ \E i \in Ifaces : rx' = [rx EXCEPT ![i] = IF @ = Null THEN 0 ELSE Null]
    /\ rebooted' = TRUE
    /\ NoAnswer /\ UNCHANGED <<idle, busy, prev, gap>>

\* The hub's clock is set back past the last reading.
ClockStepsBack ==
    /\ prev # NoReading
    /\ gap' = [gap EXCEPT !.time = -1]
    /\ NoAnswer /\ UNCHANGED <<host, prev, rebooted>>

-----------------------------------------------------------------------------
Present == {i \in Ifaces : rx[i] # Null}
Carried == MapThenSumSet(LAMBDA i : rx[i], Present)

\* Wrong on purpose, to show that ShownWasMeasured sees it: the share is not kept between
\* none and all.
Unclamped(r) ==
    IF r.idle = Null \/ prev.total = Null \/ r.total <= prev.total \/ r.idle < prev.idle THEN NoRate
    ELSE [amount |-> r.idle - prev.idle, over |-> r.total - prev.total]

\* A share or a rate needs two readings between which the counters and the clock went
\* forward; after a restart the idle part may have grown by more than the whole.
Share(r) ==
    IF r.idle = Null \/ prev.total = Null \/ r.total <= prev.total \/ r.idle < prev.idle THEN NoRate
    ELSE [amount |-> Min({r.idle - prev.idle, r.total - prev.total}), over |-> r.total - prev.total]

Rate(r) ==
    IF r.rx = Null \/ prev.rx = Null \/ gap.time <= 0 \/ r.rx < prev.rx THEN NoRate
    ELSE [amount |-> r.rx - prev.rx, over |-> gap.time]

Read(r, theShare, theRate) ==
    /\ share' = theShare /\ rate' = theRate
    /\ prev' = r /\ gap' = NoGap /\ rebooted' = FALSE
    /\ UNCHANGED host

\* collectPrometheus: a scrape may lack a family; loopback alone makes a sum of nothing.
Scrape ==
    \E families \in SUBSET {"cpu", "network"} :
       LET r == [idle |-> IF "cpu" \in families THEN idle ELSE Null,
                 total |-> IF "cpu" \in families THEN idle + busy ELSE Null,
                 rx |-> IF "network" \in families THEN Carried ELSE Null]
       IN  Read(r, Share(r), Rate(r))

\* parseReport: the same over ssh, where loopback alone makes no number.
Report ==
    \E files \in SUBSET {"stat", "dev"} :
       LET r == [idle |-> IF "stat" \in files THEN idle ELSE Null,
                 total |-> IF "stat" \in files THEN idle + busy ELSE Null,
                 rx |-> IF "dev" \in files /\ Present # {} THEN Carried ELSE Null]
       IN  Read(r, Share(r), Rate(r))

\* A poll that fails keeps the reading for the next one.
ReadFails ==
    /\ NoAnswer
    /\ UNCHANGED <<host, prev, gap, rebooted>>

\* The hub starts again.
Forget ==
    /\ prev' = NoReading /\ gap' = NoGap /\ rebooted' = FALSE
    /\ NoAnswer
    /\ UNCHANGED host

Next == Runs \/ Reboot \/ IfaceChanges \/ ClockStepsBack \/ Scrape \/ Report \/ ReadFails \/ Forget

Spec == Init /\ [][Next]_vars
-----------------------------------------------------------------------------
\* What is shown after a reading was measured: a share lies between none and all, the
\* traffic shown never exceeds what passed since the reading before, and without a
\* restart in between both are exact (prometheus.js:15-19, 162-172; ssh.js:160-167).
MeasuredStep ==
    (Scrape \/ Report) =>
       /\ share' # NoRate => 0 <= share'.amount /\ share'.amount <= share'.over
       /\ rate' # NoRate => rate'.amount <= gap.rx /\ rate'.over > 0
       /\ ~rebooted /\ share' # NoRate => share'.amount = gap.idle /\ share'.over = gap.idle + gap.busy
       /\ ~rebooted /\ rate' # NoRate => rate'.amount = gap.rx

ShownWasMeasured == [][MeasuredStep]_vars
================================================================================
