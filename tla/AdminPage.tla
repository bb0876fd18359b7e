------------------------------ MODULE AdminPage ------------------------------
\* The admin half of the web client: the session a tab believes in, the password, key
\* and credential panels (renderers/session.js, clients.js, credentials.js) whose answers
\* arrive after the panel may have been closed.
EXTENDS Integers, FiniteSets

CONSTANTS
    MaxSessions    \* bound: logins, logouts, expiries and failed checks of the session

Boxes == {"login", "passwd", "setup"}     \* the password panels; they share one busy flag
Panels == Boxes \cup {"cred", "clients"}

VARIABLES
    configured, auth,   \* the hub: an admin exists, this tab's session is valid
    known, asked,       \* state.authenticated, and the /api/session answers under way
    open, filled,       \* panel -> shown; a password panel's box holds something
    key,                \* the reveal box of a minted client key holds it
    post,               \* panel -> its request: idle, posted, refreshing
    sessions

session == <<configured, auth, known, asked, sessions>>
panels == <<open, filled, key, post>>
vars == <<session, panels>>

Init ==
    /\ configured \in BOOLEAN /\ auth \in (IF configured THEN BOOLEAN ELSE {FALSE})
    /\ known = FALSE /\ asked = {[n |-> auth, for |-> "load", ok |-> FALSE]}
    /\ open = [p \in Panels |-> FALSE] /\ filled = [p \in Boxes |-> FALSE]
    /\ key = FALSE /\ post = [p \in Panels |-> "idle"]
    /\ sessions = 0

-----------------------------------------------------------------------------
Busy(p) == \E q \in IF p \in Boxes THEN Boxes ELSE {p} : post[q] # "idle"

\* Closing clears the password boxes and the revealed key.
Closed(ps) ==
    /\ open' = [p \in Panels |-> open[p] /\ p \notin ps]
    /\ filled' = [p \in Boxes |-> filled[p] /\ p \notin ps]
    /\ key' = (key /\ "clients" \notin ps)

Emptied(p) == [q \in Boxes |-> filled[q] /\ q # p]

\* Opening clears the panel's box.  An install without an admin is led to its set-up.
Open(p) ==
    LET q == IF p = "login" /\ ~configured THEN "setup" ELSE p
    IN  /\ IF p \in {"login", "setup"} THEN ~known ELSE known
        /\ p = "setup" => ~configured
        /\ ~open[q]
        /\ open' = [open EXCEPT ![q] = TRUE]
        /\ filled' = Emptied(q)
        /\ key' = (key /\ q # "clients")
        /\ UNCHANGED <<session, post>>

Close(p) ==
    /\ open[p]
    /\ Closed({p})
    /\ UNCHANGED <<session, post>>

Type(p) ==
    /\ p \in Boxes /\ open[p]
    /\ filled' = [filled EXCEPT ![p] = TRUE]
    /\ UNCHANGED <<session, open, key, post>>

\* A submit; two passwords that do not match only clear their boxes.
Submit(p) ==
    /\ open[p] /\ ~Busy(p) /\ (p \in Boxes => filled[p])
    /\ \/ p \in {"passwd", "setup"} /\ filled' = Emptied(p) /\ UNCHANGED <<key, post>>
       \/ /\ post' = [post EXCEPT ![p] = "posted"]
          /\ key' = (key /\ p # "clients")
          /\ UNCHANGED filled
    /\ UNCHANGED <<session, open>>

\* A password is accepted, and the session asked for before its panel goes.
PasswordAccepted(p) ==
    /\ post[p] = "posted"
    /\ sessions < MaxSessions /\ sessions' = sessions + 1
    /\ p = "passwd" => auth
    /\ p = "setup" <=> ~configured
    /\ auth' = TRUE /\ configured' = TRUE
    /\ post' = [post EXCEPT ![p] = "refreshing"]
    /\ asked' = asked \cup {[n |-> TRUE, for |-> p, ok |-> TRUE]}
    /\ UNCHANGED <<known, open, filled, key>>

SecretStored ==
    /\ post["cred"] = "posted" /\ auth
    /\ post' = [post EXCEPT !["cred"] = "idle"]
    /\ UNCHANGED <<session, open, filled, key>>

\* The key is revealed, whether or not its panel is still open.
KeyMinted ==
    /\ post["clients"] = "posted" /\ auth
    /\ post' = [post EXCEPT !["clients"] = "idle"]
    /\ key' = TRUE
    /\ UNCHANGED <<session, open, filled>>

Accepted(p) ==
    \/ p \in Boxes /\ PasswordAccepted(p)
    \/ p = "cred" /\ SecretStored
    \/ p = "clients" /\ KeyMinted

\* Wrong on purpose, to show that NothingStaysBusy sees it: a request that fails leaves its
\* panel busy.
RefusedStaysBusy(p) == filled' = Emptied(p) /\ UNCHANGED post

\* Every other outcome clears the box and the busy flag.
Ended(p) == filled' = Emptied(p) /\ post' = [post EXCEPT ![p] = "idle"]

\* A refusal or a failure.  A password change without a session says it was lost, and a
\* set-up that came second, which ask what the session is now before they end.
AsksAgain(p) == (p = "passwd" /\ ~auth) \/ (p = "setup" /\ configured)

Refused(p) ==
    /\ post[p] = "posted"
    /\ \/ Ended(p) /\ UNCHANGED <<known, asked>>
       \/ /\ AsksAgain(p)
          /\ known' = (known /\ p # "passwd")
          /\ post' = [post EXCEPT ![p] = "refreshing"]
          /\ asked' = asked \cup {[n |-> auth, for |-> p, ok |-> FALSE]}
          /\ UNCHANGED filled
    /\ UNCHANGED <<configured, auth, sessions, open, key>>

\* refreshSession: what the tab believes is the last answer to arrive, and what it was
\* when the request fails.  A login, a set-up, a password change and a logout then close
\* the panels of the admin.
SessionArrives ==
    \E a \in asked :
       /\ asked' = asked \ {a}
       /\ \/ known' = a.n /\ UNCHANGED sessions
          \/ known' = known /\ sessions < MaxSessions /\ sessions' = sessions + 1
       /\ post' = [p \in Panels |-> IF p = a.for THEN "idle" ELSE post[p]]
       /\ filled' = Emptied(a.for)
       /\ open' = [p \in Panels |-> open[p] /\ ~(a.ok /\ p \in {"cred", "clients"} \cup ({a.for} \cap {"login", "setup"}))]
       /\ key' = (key /\ ~a.ok)
       /\ UNCHANGED <<configured, auth>>

\* A logout clears the tab even when its request fails.
Logout ==
    /\ known /\ sessions < MaxSessions /\ sessions' = sessions + 1
    /\ auth' \in {FALSE, auth}
    /\ asked' = asked \cup {[n |-> auth', for |-> "logout", ok |-> TRUE]}
    /\ Closed({"passwd"})
    /\ UNCHANGED <<configured, known, post>>

\* The session ends elsewhere, and a tick of the board is answered 401.
Expires ==
    /\ auth /\ sessions < MaxSessions /\ sessions' = sessions + 1
    /\ auth' = FALSE
    /\ UNCHANGED <<configured, known, asked, panels>>

\* Another tab of the LAN sets the admin up first.
SetUpElsewhere ==
    /\ ~configured /\ configured' = TRUE
    /\ UNCHANGED <<auth, known, asked, sessions, panels>>

SessionLost ==
    /\ ~auth /\ known
    /\ known' = FALSE
    /\ asked' = asked \cup {[n |-> auth, for |-> "lost", ok |-> FALSE]}
    /\ UNCHANGED <<configured, auth, sessions, panels>>

Next ==
    \/ \E p \in Panels : Open(p) \/ Close(p) \/ Type(p) \/ Submit(p) \/ Accepted(p) \/ Refused(p)
    \/ SessionArrives \/ Logout \/ Expires \/ SetUpElsewhere \/ SessionLost

\* Every request is answered or fails.
Fairness ==
    /\ \A p \in Panels : WF_vars(Accepted(p) \/ Refused(p))
    /\ WF_vars(SessionArrives)

Spec == Init /\ [][Next]_vars /\ Fairness
-----------------------------------------------------------------------------
\* A password is in the page only while its panel is open: every path out of it, the
\* answer of a request that outlives it included, clears the box (session.js:10-12,
\* 35-40, 140-153).
ClosedBoxesAreEmpty == \A p \in Boxes : filled[p] => open[p]

\* No panel stays busy: again and again each can be used; the password panels share one
\* flag (session.js:117-121).
PanelsUnstick ==
    /\ []<>(\A p \in Boxes : post[p] = "idle")
    /\ \A p \in Panels \ Boxes : []<>(post[p] = "idle")
===============================================================================
