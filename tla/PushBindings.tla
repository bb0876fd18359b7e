----------------------------- MODULE PushBindings -----------------------------
\* Which machine a push target belongs to (store/push_bindings.js), for one target: the
\* first push that names its machine binds it, every other machine is then refused and
\* the card warns of it.  The command line works on the same row in another process.
EXTENDS Naturals

CONSTANTS
    Machines,      \* what holds the token: a machine id with its host name, both compared
    AlertTtl,      \* ALERT_TTL_MS
    LogEvery       \* LOG_EVERY_MS

Unbound == "unbound"
NoAlert == [from |-> "none", age |-> 0]

\* The rows the code has not got are none of its machines.
PushAssumption ==
    /\ AlertTtl \in Nat /\ LogEvery \in Nat \ {0}
    /\ Unbound \notin Machines /\ NoAlert.from \notin Machines

VARIABLES
    agent,         \* machine -> its agent: off, old (names no machine), new
    row,           \* the machine the target is bound to
    alert,         \* the last refusal: by whom, how long ago
    logged,        \* the hub's throttle: the machine of the last line, how long ago
    written,       \* the machines whose samples were recorded since the last reset,
                   \* the ones that named themselves
    refused        \* machine -> how long ago it was last refused; AlertTtl + 1 is long ago

vars == <<agent, row, alert, logged, written, refused>>

Never == AlertTtl + 1
NoLine == [from |-> "none", age |-> LogEvery]
Forgotten == [m \in Machines |-> Never]

Init ==
    /\ agent \in [Machines -> {"off", "old", "new"}]
    /\ row = Unbound /\ alert = NoAlert /\ logged = NoLine
    /\ written = {} /\ refused = Forgotten

\* The agent of a machine is installed, upgraded or stopped.
AgentChanges ==
    /\ \E m \in Machines, kind \in {"off", "old", "new"} : agent' = [agent EXCEPT ![m] = kind]
    /\ UNCHANGED <<row, alert, logged, written, refused>>

-----------------------------------------------------------------------------
\* Wrong on purpose, to show that OneMachineAndWarned sees it: the throttle of the log also
\* keeps the warning as it was.
RefusedQuietly(m) ==
    IF logged.from = m /\ logged.age < LogEvery
    THEN UNCHANGED <<alert, logged>>
    ELSE alert' = [from |-> m, age |-> 0] /\ logged' = [from |-> m, age |-> 0]

\* A refusal: the warning names the machine, the log at most every LogEvery.
Refused(m) ==
    /\ alert' = [from |-> m, age |-> 0]
    /\ logged' = IF logged.from = m /\ logged.age < LogEvery THEN logged ELSE [from |-> m, age |-> 0]

\* check: an unbound target takes a push without a name, and is bound by the first with one.
Push(m) ==
    /\ agent[m] # "off"
    /\ LET named == agent[m] = "new"
       IN  \/ /\ row = Unbound
              /\ row' = (IF named THEN m ELSE Unbound)
              /\ written' = IF named THEN written \cup {m} ELSE written
              /\ UNCHANGED <<alert, logged, refused>>
           \/ /\ row = m /\ named
              /\ written' = written \cup {m}
              /\ UNCHANGED <<row, alert, logged, refused>>
           \/ /\ row # Unbound /\ ~(row = m /\ named)
              /\ Refused(m)
              /\ refused' = [refused EXCEPT ![m] = 0]
              /\ UNCHANGED <<row, written>>
    /\ UNCHANGED agent

\* The command line: it deletes the row, or only its warning.  The throttle it clears is
\* its own process's.
Reset ==
    /\ row # Unbound
    /\ row' = Unbound /\ alert' = NoAlert
    /\ written' = {} /\ refused' = Forgotten
    /\ UNCHANGED <<agent, logged>>

ClearAlert ==
    /\ row # Unbound
    /\ alert' = NoAlert /\ refused' = Forgotten
    /\ UNCHANGED <<agent, row, logged, written>>

\* The hub starts again: the row is kept, the throttle is not.
HubRestarts ==
    /\ logged' = NoLine
    /\ UNCHANGED <<agent, row, alert, written, refused>>

Older(age, limit) == IF age < limit THEN age + 1 ELSE limit
Tick ==
    /\ alert' = IF alert = NoAlert THEN NoAlert ELSE [alert EXCEPT !.age = Older(@, Never)]
    /\ logged' = [logged EXCEPT !.age = Older(@, LogEvery)]
    /\ refused' = [m \in Machines |-> Older(refused[m], Never)]
    /\ UNCHANGED <<agent, row, written>>

Next ==
    \/ AgentChanges \/ Reset \/ ClearAlert \/ HubRestarts \/ Tick
    \/ \E m \in Machines : Push(m)

Spec == Init /\ [][Next]_vars
-----------------------------------------------------------------------------
\* alertOf: what the card says.
Warned == alert # NoAlert /\ alert.age <= AlertTtl

\* The history of a target between two resets is that of one machine, and a machine that
\* was refused within the last AlertTtl is on the card, whatever the log kept to itself
\* (push_bindings.js:3-20).
OneMachineAndWarned ==
    /\ \A m1, m2 \in written : m1 = m2
    /\ Warned <=> \E m \in Machines : refused[m] <= AlertTtl
    /\ Warned => refused[alert.from] = alert.age /\ \A m \in Machines : refused[m] >= alert.age
================================================================================
