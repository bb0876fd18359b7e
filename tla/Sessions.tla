------------------------------ MODULE Sessions ------------------------------
(***************************************************************************)
(* The admin password and its sessions: server/auth.js (createAuth,        *)
(* setupAdminPassword), server/store/admin_store.js and the setup, login,  *)
(* logout and password routes of server/index.js.                          *)
(*                                                                         *)
(* The row of the database is copied into memory when the gate is created  *)
(* and every request is judged by the copy.  Deriving a key is             *)
(* asynchronous, so each request is split there.  The salt and the signing *)
(* secret are always drawn together and one number stands for both; a      *)
(* password hash is the pair of a password and that number.                *)
(*                                                                         *)
(* The operator's recovery empties the table while the process runs, and   *)
(* restarts it afterwards.  Another process may put a row into an empty    *)
(* table; that it changes a password too is left out.                      *)
(***************************************************************************)
EXTENDS Naturals, FiniteSets

CONSTANTS
    Requests,     \* requests served at the same time
    Passwords,    \* passwords that satisfy validatePassword
    EnvPasswords, \* what ADMIN_PASSWORD may be at a boot, when it is set
    TTL,          \* SESSION_TTL_MS
    MaxSecret,    \* bound: secrets drawn
    MaxSession,   \* bound: sessions issued
    MaxClock      \* bound: the clock

ASSUME SessionsAssumption ==
    /\ EnvPasswords \subseteq Passwords
    /\ TTL \in Nat /\ MaxSecret \in Nat /\ MaxSession \in Nat /\ MaxClock \in Nat

VARIABLES
    now,            \* Date.now()
    up,             \* whether the process runs
    row,            \* the row of admin_auth
    auth,           \* the copy the gate was created with; NoRow is the disabled gate
    drawn,          \* how many secrets were ever drawn
    sessions,       \* every session ever issued
    revoked,        \* those in the `revoked` map
    changing,       \* `changing`
    setupInFlight,  \* `setupInFlight`
    call,           \* per request, what it derives a key for
    out,            \* auxiliary: sessions logged out since the process started
    emptied         \* auxiliary: the table was emptied under the gate, which has not written
                    \* a row since

vars == <<now, up, row, auth, drawn, sessions, revoked, changing, setupInFlight, call, out,
          emptied>>
flags == <<changing, setupInFlight>>

NoRow == [set |-> FALSE, pw |-> "none", secret |-> 0]
Row(pw, secret) == [set |-> TRUE, pw |-> pw, secret |-> secret]

\* A request and the gate it found when it began to derive (of which only the salt is used).
Idle == [op |-> "none", pw |-> "none", next |-> "none", gate |-> NoRow]
Setup(pw) == [Idle EXCEPT !.op = "setup", !.pw = pw]
Login(pw) == [Idle EXCEPT !.op = "login", !.pw = pw, !.gate = auth]
Check(pw, next) == [op |-> "check", pw |-> pw, next |-> next, gate |-> auth]

\* issue(): a session of the gate's password, signed with its secret.
Issued(gate) == [id |-> Cardinality(sessions), pw |-> gate.pw, secret |-> gate.secret,
                 exp |-> now + TTL]

\* verify(): signed with the secret of the gate, not expired, not logged out.
Verifies(s) ==
    auth.set /\ s.secret = auth.secret /\ s.exp > now /\ s \notin revoked

\* Rows that createAuth can find or bootstrap when the table holds r.
Booted(r) ==
    IF r.set THEN {r} ELSE {NoRow} \cup {Row(pw, drawn + 1) : pw \in EnvPasswords}

Init ==
    /\ now = 0 /\ drawn = 1
    /\ row \in {NoRow} \cup {Row(pw, 1) : pw \in EnvPasswords}
    /\ up = TRUE /\ auth = row
    /\ sessions = {} /\ revoked = {} /\ out = {}
    /\ changing = FALSE /\ setupInFlight = FALSE /\ emptied = FALSE
    /\ call = [r \in Requests |-> Idle]

Enter(r, c) == call[r] = Idle /\ call' = [call EXCEPT ![r] = c]
Answer(r) == call' = [call EXCEPT ![r] = Idle]

-----------------------------------------------------------------------------
(* POST /api/admin/setup. *)

BeginSetup(r) ==
    /\ up /\ ~auth.set /\ ~setupInFlight
    /\ \E pw \in Passwords : Enter(r, Setup(pw))
    /\ setupInFlight' = TRUE
    /\ UNCHANGED <<now, up, row, auth, drawn, sessions, revoked, changing, out, emptied>>

\* AdminStore.bootstrap: INSERT ... ON CONFLICT DO NOTHING.
Bootstrap(pw) == IF row.set THEN row ELSE Row(pw, drawn + 1)

\* The finally clause of the route.
SetupOver(r) == setupInFlight' = FALSE

SetupSucceeds(r) ==
    /\ call[r].op = "setup" /\ ~row.set
    /\ drawn < MaxSecret /\ Cardinality(sessions) < MaxSession
    /\ row' = Bootstrap(call[r].pw)
    /\ drawn' = drawn + 1
    /\ auth' = row'
    /\ sessions' = sessions \cup {Issued(row')}
    /\ revoked' = {}
    /\ SetupOver(r)
    /\ Answer(r)
    /\ UNCHANGED <<now, up, changing, out, emptied>>

\* Another process has created the row meanwhile: 409, and the gate is left as it is.
SetupLoses(r) ==
    /\ call[r].op = "setup" /\ row.set
    /\ drawn < MaxSecret
    /\ row' = Bootstrap(call[r].pw)
    /\ drawn' = drawn + 1
    /\ SetupOver(r)
    /\ Answer(r)
    /\ UNCHANGED <<now, up, auth, sessions, revoked, changing, out, emptied>>

\* The derivation failed.
SetupFails(r) ==
    /\ call[r].op = "setup"
    /\ SetupOver(r)
    /\ Answer(r)
    /\ UNCHANGED <<now, up, row, auth, drawn, sessions, revoked, changing, out, emptied>>

\* A second process on the same database file boots with a password of its own.
OtherBoots ==
    /\ ~row.set /\ drawn < MaxSecret
    /\ \E pw \in Passwords : row' = Row(pw, drawn + 1)
    /\ drawn' = drawn + 1
    /\ UNCHANGED <<now, up, auth, sessions, revoked, flags, call, out, emptied>>

-----------------------------------------------------------------------------
(* POST /api/login and POST /api/logout. *)

BeginLogin(r) ==
    /\ auth.set
    /\ \E pw \in Passwords : Enter(r, Login(pw))
    /\ UNCHANGED <<now, up, row, auth, drawn, sessions, revoked, flags, out, emptied>>

\* matches(): the salt was read before the derivation, the hash after it.
Matches(c) == c.pw = auth.pw /\ c.gate.secret = auth.secret

LoginSucceeds(r) ==
    /\ call[r].op = "login" /\ Matches(call[r])
    /\ Cardinality(sessions) < MaxSession
    /\ sessions' = sessions \cup {[Issued(auth) EXCEPT !.pw = call[r].pw]}
    /\ Answer(r)
    /\ UNCHANGED <<now, up, row, auth, drawn, revoked, flags, out, emptied>>

\* A wrong password, or a derivation that failed.
LoginFails(r) ==
    /\ call[r].op = "login"
    /\ Answer(r)
    /\ UNCHANGED <<now, up, row, auth, drawn, sessions, revoked, flags, out, emptied>>

\* The entries the map may forget.
Pruned(R) == {s \in R : s.exp > now}

Logout ==
    /\ \E s \in sessions :
          /\ Verifies(s)
          /\ revoked' = Pruned(revoked) \cup {s}
          /\ out' = out \cup {s}
    /\ UNCHANGED <<now, up, row, auth, drawn, sessions, flags, call, emptied>>

-----------------------------------------------------------------------------
(* POST /api/admin/password. *)

\* Wrong on purpose, to show that SessionSteps sees it: two changes at a time.
NeverBusy == FALSE

Busy == changing

\* A session is asked for; what it is asked for with is checked later.
BeginChange(r) ==
    /\ \E s \in sessions : Verifies(s)
    /\ ~Busy
    /\ \E pw, next \in Passwords : Enter(r, Check(pw, next))
    /\ changing' = TRUE
    /\ UNCHANGED <<now, up, row, auth, drawn, sessions, revoked, setupInFlight, out, emptied>>

\* The current password is right: the new one is hashed.
CheckPasses(r) ==
    /\ call[r].op = "check" /\ Matches(call[r])
    /\ call[r].next # call[r].pw
    /\ call' = [call EXCEPT ![r].op = "change"]
    /\ UNCHANGED <<now, up, row, auth, drawn, sessions, revoked, flags, out, emptied>>

\* Wrong on purpose, to show that FlagsClear sees it: the flag is cleared on success only.
ChangeStaysBusy(r) == changing' = changing

\* The finally clause of changePassword.
ChangeOver(r) == changing' = FALSE

\* A wrong current password, an unchanged one, or a derivation that failed.
ChangeFails(r) ==
    /\ call[r].op \in {"check", "change"}
    /\ ChangeOver(r)
    /\ Answer(r)
    /\ UNCHANGED <<now, up, row, auth, drawn, sessions, revoked, setupInFlight, out, emptied>>

\* Wrong on purpose, to show that SessionInvariant sees it: the copy keeps the old secret.
SecretKept(pw) == Row(pw, auth.secret)

\* What the bindings of the gate become after setPassword.
Rotated(pw) == Row(pw, drawn + 1)

\* setPassword: UPDATE ... WHERE id, which changes nothing when there is no row.  Its caller
\* is not told.
Updated(pw) == IF row.set THEN Row(pw, drawn + 1) ELSE row

ChangeSucceeds(r) ==
    /\ call[r].op = "change"
    /\ drawn < MaxSecret /\ Cardinality(sessions) < MaxSession
    /\ drawn' = drawn + 1
    /\ row' = Updated(call[r].next)
    /\ auth' = Rotated(call[r].next)
    /\ sessions' = sessions \cup {Issued(auth')}
    /\ revoked' = {}
    /\ ChangeOver(r)
    /\ Answer(r)
    /\ emptied' = (emptied /\ ~row.set)
    /\ UNCHANGED <<now, up, setupInFlight, out>>

-----------------------------------------------------------------------------
(* Time and restarts. *)

Tick ==
    /\ now < MaxClock /\ now' = now + 1
    /\ UNCHANGED <<up, row, auth, drawn, sessions, revoked, flags, call, out, emptied>>

\* The process dies, with everything it held in memory.
Stop ==
    /\ up /\ up' = FALSE
    /\ auth' = NoRow /\ revoked' = {} /\ out' = {}
    /\ changing' = FALSE /\ setupInFlight' = FALSE /\ emptied' = FALSE
    /\ call' = [r \in Requests |-> Idle]
    /\ UNCHANGED <<now, row, drawn, sessions>>

\* The operator's recovery: DELETE FROM admin_auth, while the process runs or not.
EmptyTable ==
    /\ row' = NoRow
    /\ emptied' = auth.set
    /\ UNCHANGED <<now, up, auth, drawn, sessions, revoked, flags, call, out>>

\* createAuth: the row that is there, or one bootstrapped from ADMIN_PASSWORD.
Boot ==
    /\ ~up /\ up' = TRUE
    /\ drawn < MaxSecret
    /\ row' \in Booted(row)
    /\ drawn' = drawn + 1
    /\ auth' = row'
    /\ UNCHANGED <<now, sessions, revoked, flags, call, out, emptied>>

Next ==
    \/ \E r \in Requests :
          \/ BeginSetup(r) \/ SetupSucceeds(r) \/ SetupLoses(r) \/ SetupFails(r)
          \/ BeginLogin(r) \/ LoginSucceeds(r) \/ LoginFails(r)
          \/ BeginChange(r) \/ CheckPasses(r) \/ ChangeFails(r) \/ ChangeSucceeds(r)
    \/ Logout \/ OtherBoots \/ Tick
    \/ Stop \/ EmptyTable \/ Boot

Spec == Init /\ [][Next]_vars

\* A derivation ends, one way or the other.
FairSpec ==
    /\ Spec
    /\ \A r \in Requests :
          /\ WF_vars(SetupSucceeds(r) \/ SetupLoses(r) \/ SetupFails(r))
          /\ WF_vars(CheckPasses(r) \/ ChangeFails(r) \/ ChangeSucceeds(r))

-----------------------------------------------------------------------------
(* Properties. *)

Gates == {NoRow} \cup [set : {TRUE}, pw : Passwords, secret : Nat]

\* Every variable holds what it can hold.
TypeOK ==
    /\ now \in Nat /\ up \in BOOLEAN /\ drawn \in Nat
    /\ row \in Gates /\ auth \in Gates
    /\ sessions \subseteq [id : Nat, pw : Passwords, secret : Nat, exp : Nat]
    /\ revoked \subseteq sessions /\ out \subseteq sessions
    /\ changing \in BOOLEAN /\ setupInFlight \in BOOLEAN /\ emptied \in BOOLEAN
    /\ call \in [Requests -> [op : {"none", "setup", "login", "check", "change"},
                              pw : Passwords \cup {"none"}, next : Passwords \cup {"none"},
                              gate : Gates]]
    /\ changing <=> \E r \in Requests : call[r].op \in {"check", "change"}
    /\ setupInFlight <=> \E r \in Requests : call[r].op = "setup"

\* An enabled gate judges requests by what the database holds, and so by what a restart
\* would judge them by: a setup that loses, or a change, never leaves the two apart.  Only
\* the DELETE of the documented recovery does (auth.js:24-26), and then the table is empty,
\* or holds a row that another process made after every secret the gate ever had.
GateAndRow ==
    auth.set => IF emptied THEN row.set => row.secret > auth.secret
                ELSE auth = row

\* auth.js:241: a change replaces the password its caller gave as the current one, never
\* one another change has put there while this one was being derived: neither in the gate
\* nor, unless the table was emptied under it, in the database.  A setup or a boot replaces
\* nothing.
ChangesChain ==
    [][/\ auth.set /\ auth'.set /\ auth' # auth =>
             \E r \in Requests : call[r].op = "change" /\ call[r].pw = auth.pw
       /\ row.set /\ row'.set /\ row' # row =>
             \E r \in Requests : call[r].op = "change" /\ (emptied \/ call[r].pw = row.pw)]_vars

\* A session is given only to who knows the gate's password when it is given, though a
\* change may have ended while the key was derived.
NoStaleLogin ==
    [][\A s \in sessions' \ sessions : s.pw = auth'.pw /\ s.secret = auth'.secret]_vars

\* README.md:368-380: what verifies after a restart was signed with the secret of the row
\* that was there before it.  So when the table was emptied no session outlives the restart,
\* nor one that the gate gave between the DELETE and the restart.
RestartForgets ==
    [][~up /\ up' => \A s \in sessions : Verifies(s)' => row.set /\ s.secret = row.secret]_vars

\* A change of the password ends every session of the password before it.
OldSessionsDie == \A s \in sessions : Verifies(s) => s.pw = auth.pw

\* A session logged out stays out while the process lives, through the pruning of the map
\* and its replacement by a change.
LogoutHolds == \A s \in out : ~Verifies(s)

\* The flags that admit one change and one setup at a time are let go of, however it ends.
FlagsClear ==
    /\ []<>~changing
    /\ []<>~setupInFlight

\* The gate and the sessions it admits: judged by the stored password unless that was deleted
\* since, and none that a change or a logout has ended.
SessionInvariant == TypeOK /\ GateAndRow /\ OldSessionsDie /\ LogoutHolds

\* What no step may do: replace a password its caller did not give, admit with an old one, or
\* let a session outlive a restart without the row it was signed by.
SessionSteps == ChangesChain /\ NoStaleLogin /\ RestartForgets

=============================================================================
