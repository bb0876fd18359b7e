--------------------------- MODULE SessionsProofs ---------------------------
(***************************************************************************)
(* What holds of the admin password and its sessions for any number of     *)
(* requests, passwords, restarts and secrets drawn; and of the gates of    *)
(* the hub for any machines, hosts, keys and limits: the limiter in front  *)
(* of the password, the machines that may push, the hosts the hub logs in  *)
(* to, the decisions about who asks and which port is probed.  Each part   *)
(* has an inductive invariant of its own; a step of one part leaves the    *)
(* variables of the others alone.                                          *)
(***************************************************************************)
EXTENDS MCSessions, FiniteSetTheorems, SequenceTheorems, WellFoundedInduction, TLAPS

\* What TypeOK says of a request, and of a session.
CallType == [op : {"none", "setup", "login", "check", "change"},
             pw : Passwords \cup {"none"}, next : Passwords \cup {"none"}, gate : Gates]
SessionType == [id : Nat, pw : Passwords, secret : Nat, exp : Nat]

Changes(c) == c.op \in {"check", "change"}

\* A request in the middle of a derivation found the gate as it still is: one setup, or
\* one change, at a time, and the current password of a change is still in force.
CallRight(c) ==
    /\ c.op # "none" => up /\ c.pw \in Passwords
    /\ Changes(c) => c.next \in Passwords
    /\ c.op = "setup" => ~auth.set
    /\ c.op \in {"login", "check", "change"} => auth.set
    /\ c.op = "change" => c.pw = auth.pw

CallsRight == \A r \in Requests : CallRight(call[r])

OneAtATime ==
    \A r, q \in Requests :
        /\ Changes(call[r]) /\ Changes(call[q]) => r = q
        /\ call[r].op = "setup" /\ call[q].op = "setup" => r = q

\* A secret, once drawn, is never drawn again: what was signed with it belongs to the row
\* and to the gate that have it.
SecretsRight ==
    /\ row.secret <= drawn /\ auth.secret <= drawn
    /\ \A s \in sessions :
          /\ s.secret <= drawn
          /\ row.set /\ s.secret = row.secret => s.pw = row.pw
          /\ auth.set /\ s.secret = auth.secret => s.pw = auth.pw

\* A table is emptied under an enabled gate only.
EmptiedRight == emptied => auth.set

\* What became of the sessions logged out.
OutRight ==
    /\ ~up => ~auth.set /\ out = {}
    /\ \A s \in out : \/ s \in revoked \/ s.exp <= now
                      \/ s.secret # auth.secret \/ ~auth.set

IInv ==
    /\ TypeOK /\ IsFiniteSet(sessions)
    /\ CallsRight /\ OneAtATime
    /\ GateAndRow /\ SecretsRight /\ EmptiedRight /\ OutRight

LEMMA InitHolds == Init => IInv
<1> SUFFICES ASSUME Init PROVE IInv
  OBVIOUS
<1> USE SessionsAssumption
<1>1. row \in Gates /\ row.secret <= drawn
  <2>1. CASE row = NoRow
    BY <2>1 DEF Init, Gates, NoRow
  <2>2. ASSUME NEW pw \in EnvPasswords, row = Row(pw, 1)
        PROVE  row \in Gates /\ row.secret <= drawn
    BY <2>2 DEF Init, Gates, Row
  <2> QED BY <2>1, <2>2 DEF Init
<1>2. IsFiniteSet(sessions)
  BY FS_EmptySet DEF Init
<1>3. call \in [Requests -> CallType] /\ \A r \in Requests : call[r].op = "none"
  BY DEF Init, Idle, CallType, Gates
<1>4. TypeOK
  BY <1>1, <1>3 DEF Init, TypeOK, CallType
<1>5. CallsRight /\ OneAtATime
  BY <1>3 DEF CallsRight, CallRight, OneAtATime, Changes
<1>6. GateAndRow /\ SecretsRight /\ EmptiedRight /\ OutRight
  BY <1>1 DEF Init, GateAndRow, SecretsRight, EmptiedRight, OutRight
<1> QED BY <1>2, <1>4, <1>5, <1>6 DEF IInv

-----------------------------------------------------------------------------
(* What a request may turn into. *)

LEMMA GateFacts ==
    ASSUME NEW g \in Gates
    PROVE  g.set \in BOOLEAN /\ g.secret \in Nat /\ (g.set => g.pw \in Passwords)
<1>1. CASE g = NoRow
  BY <1>1 DEF NoRow
<1>2. CASE g \in [set : {TRUE}, pw : Passwords, secret : Nat]
  BY <1>2
<1> QED BY <1>1, <1>2 DEF Gates

\* A request that is admitted, or moves on.
LEMMA CallBecomes ==
    ASSUME IInv, NEW r \in Requests, NEW c \in CallType, call' = [call EXCEPT ![r] = c]
    PROVE  /\ call' \in [Requests -> CallType]
           /\ call'[r] = c
           /\ \A q \in Requests : q # r => call'[q] = call[q]
BY DEF IInv, TypeOK, CallType

\* A session issued for a password with a secret.
LEMMA IssuedRight ==
    ASSUME IInv, NEW pw \in Passwords, NEW k \in Nat, NEW s,
           s = [id |-> Cardinality(sessions), pw |-> pw, secret |-> k, exp |-> now + TTL]
    PROVE  s \in SessionType /\ IsFiniteSet(sessions \cup {s})
<1> USE SessionsAssumption DEF IInv
<1>1. Cardinality(sessions) \in Nat
  BY FS_CardinalityType
<1>2. IsFiniteSet(sessions \cup {s})
  BY FS_AddElement
<1> QED BY <1>1, <1>2 DEF SessionType, TypeOK

\* The request ends, and everything else but the flags stays.
LEMMA AnswerHolds ==
    ASSUME IInv, NEW r \in Requests, Answer(r),
           UNCHANGED <<now, up, row, auth, drawn, sessions, revoked, out, emptied>>,
           changing' = IF Changes(call[r]) THEN FALSE ELSE changing,
           setupInFlight' = IF call[r].op = "setup" THEN FALSE ELSE setupInFlight
    PROVE  IInv'
<1> USE DEF IInv
<1>1. Idle \in CallType /\ Idle.op = "none"
  BY DEF Idle, CallType, Gates
<1>2. /\ call' \in [Requests -> CallType] /\ call'[r] = Idle
      /\ \A q \in Requests : q # r => call'[q] = call[q]
  BY <1>1, CallBecomes DEF Answer
<1>3. changing' \in BOOLEAN /\ setupInFlight' \in BOOLEAN
  BY DEF TypeOK
<1>4. (changing <=> \E q \in Requests : Changes(call[q]))'
  <2>1. CASE Changes(call[r])
    BY <1>1, <1>2, <2>1 DEF OneAtATime, Changes
  <2>2. CASE ~Changes(call[r])
    <3>1. \A q \in Requests : Changes(call[q])' <=> Changes(call[q])
      BY <1>1, <1>2, <2>2 DEF Changes
    <3> QED BY <2>2, <3>1 DEF TypeOK, Changes
  <2> QED BY <2>1, <2>2
<1>5. (setupInFlight <=> \E q \in Requests : call[q].op = "setup")'
  <2>1. CASE call[r].op = "setup"
    BY <1>1, <1>2, <2>1 DEF OneAtATime
  <2>2. CASE call[r].op # "setup"
    BY <1>1, <1>2, <2>2 DEF TypeOK
  <2> QED BY <2>1, <2>2
<1>6. TypeOK'
  BY <1>2, <1>3, <1>4, <1>5 DEF TypeOK, CallType, Changes
<1>7. CallsRight' /\ OneAtATime'
  BY <1>1, <1>2 DEF CallsRight, CallRight, OneAtATime, Changes
<1>8. GateAndRow' /\ SecretsRight' /\ EmptiedRight' /\ OutRight'
  BY DEF GateAndRow, SecretsRight, EmptiedRight, OutRight
<1> QED BY <1>6, <1>7, <1>8

\* A request is admitted, and everything else but the flags stays.
LEMMA EnterHolds ==
    ASSUME IInv, NEW r \in Requests, NEW c \in CallType, Enter(r, c), CallRight(c),
           UNCHANGED <<now, up, row, auth, drawn, sessions, revoked, out, emptied>>,
           Changes(c) => ~changing,
           changing' = IF Changes(c) THEN TRUE ELSE changing,
           c.op = "setup" => ~setupInFlight,
           setupInFlight' = IF c.op = "setup" THEN TRUE ELSE setupInFlight
    PROVE  IInv'
<1> USE DEF IInv
<1>1. Idle.op = "none" /\ call[r] = Idle
  BY DEF Idle, Enter
<1>2. /\ call' \in [Requests -> CallType] /\ call'[r] = c
      /\ \A q \in Requests : q # r => call'[q] = call[q]
  BY CallBecomes DEF Enter
<1>3. changing' \in BOOLEAN /\ setupInFlight' \in BOOLEAN
  BY DEF TypeOK
<1>4. (changing <=> \E q \in Requests : Changes(call[q]))'
  <2>1. CASE Changes(c)
    BY <1>2, <2>1 DEF Changes
  <2>2. CASE ~Changes(c)
    <3>1. \A q \in Requests : Changes(call[q])' <=> Changes(call[q])
      BY <1>1, <1>2, <2>2 DEF Changes
    <3> QED BY <2>2, <3>1 DEF TypeOK, Changes
  <2> QED BY <2>1, <2>2
<1>5. (setupInFlight <=> \E q \in Requests : call[q].op = "setup")'
  <2>1. CASE c.op = "setup"
    BY <1>2, <2>1
  <2>2. CASE c.op # "setup"
    BY <1>1, <1>2, <2>2 DEF TypeOK
  <2> QED BY <2>1, <2>2
<1>6. TypeOK'
  BY <1>2, <1>3, <1>4, <1>5 DEF TypeOK, CallType, Changes
<1>7. CallsRight'
  BY <1>2 DEF CallsRight, CallRight, Changes
<1>8. /\ Changes(c) => \A q \in Requests : ~Changes(call[q])
      /\ c.op = "setup" => \A q \in Requests : call[q].op # "setup"
  BY DEF TypeOK, Changes
<1>9. OneAtATime'
  BY <1>2, <1>8 DEF OneAtATime, Changes
<1>10. GateAndRow' /\ SecretsRight' /\ EmptiedRight' /\ OutRight'
  BY DEF GateAndRow, SecretsRight, EmptiedRight, OutRight
<1> QED BY <1>6, <1>7, <1>9, <1>10

\* The calls that were under way stay as they are while the gate stays.
LEMMA CallsStay ==
    ASSUME IInv, UNCHANGED <<up, auth, call, changing, setupInFlight>>
    PROVE  CallsRight' /\ OneAtATime'
BY DEF IInv, CallsRight, CallRight, OneAtATime, Changes

-----------------------------------------------------------------------------
(* The steps of requests. *)

LEMMA AdmissionStep ==
    ASSUME IInv, NEW r \in Requests, BeginSetup(r) \/ BeginLogin(r) \/ BeginChange(r)
    PROVE  IInv'
<1> USE DEF IInv
<1>1. CASE BeginSetup(r)
  <2>1. PICK pw \in Passwords : Enter(r, Setup(pw))
    BY <1>1 DEF BeginSetup
  <2> DEFINE c == Setup(pw)
  <2>2. c \in CallType /\ CallRight(c) /\ c.op = "setup"
    BY <1>1 DEF BeginSetup, Setup, Idle, CallType, CallRight, Changes, Gates
  <2>3. ~Changes(c)
    BY <2>2 DEF Changes
  <2> HIDE DEF c
  <2>4. /\ UNCHANGED <<now, up, row, auth, drawn, sessions, revoked, changing, out, emptied>>
        /\ setupInFlight' = TRUE /\ ~setupInFlight
    BY <1>1 DEF BeginSetup
  <2>5. Enter(r, c)
    BY <2>1 DEF c
  <2> QED BY <2>2, <2>3, <2>4, <2>5, EnterHolds
<1>2. CASE BeginLogin(r)
  <2>1. PICK pw \in Passwords : Enter(r, Login(pw))
    BY <1>2 DEF BeginLogin
  <2> DEFINE c == Login(pw)
  <2>2. c \in CallType /\ CallRight(c) /\ c.op = "login"
    BY <1>2 DEF BeginLogin, Login, Idle, CallType, CallRight, Changes, TypeOK, OutRight
  <2>3. ~Changes(c)
    BY <2>2 DEF Changes
  <2> HIDE DEF c
  <2>4. UNCHANGED <<now, up, row, auth, drawn, sessions, revoked, changing, setupInFlight, out, emptied>>
    BY <1>2 DEF BeginLogin, flags
  <2>5. Enter(r, c)
    BY <2>1 DEF c
  <2> QED BY <2>2, <2>3, <2>4, <2>5, EnterHolds
<1>3. CASE BeginChange(r)
  <2>1. PICK pw \in Passwords, next \in Passwords : Enter(r, Check(pw, next))
    BY <1>3 DEF BeginChange
  <2> DEFINE c == Check(pw, next)
  <2>2. auth.set
    BY <1>3 DEF BeginChange, Verifies
  <2>3. c \in CallType /\ CallRight(c) /\ c.op = "check"
    BY <2>2 DEF Check, CallType, CallRight, Changes, TypeOK, OutRight
  <2>4. Changes(c)
    BY <2>3 DEF Changes
  <2> HIDE DEF c
  <2>5. /\ UNCHANGED <<now, up, row, auth, drawn, sessions, revoked, setupInFlight, out, emptied>>
        /\ changing' = TRUE /\ ~changing
    BY <1>3 DEF BeginChange, Busy
  <2>6. Enter(r, c)
    BY <2>1 DEF c
  <2> QED BY <2>3, <2>4, <2>5, <2>6, EnterHolds
<1> QED BY <1>1, <1>2, <1>3

LEMMA FailureStep ==
    ASSUME IInv, NEW r \in Requests, SetupFails(r) \/ LoginFails(r) \/ ChangeFails(r)
    PROVE  IInv'
<1>1. CASE SetupFails(r)
  BY <1>1, AnswerHolds DEF SetupFails, SetupOver, Changes
<1>2. CASE LoginFails(r)
  BY <1>2, AnswerHolds DEF LoginFails, flags, Changes
<1>3. CASE ChangeFails(r)
  BY <1>3, AnswerHolds DEF ChangeFails, ChangeOver, Changes
<1> QED BY <1>1, <1>2, <1>3

LEMMA CheckPassesStep ==
    ASSUME IInv, NEW r \in Requests, CheckPasses(r)
    PROVE  IInv'
<1> USE DEF IInv
<1> DEFINE c == [call[r] EXCEPT !.op = "change"]
<1>1. call[r] \in CallType /\ CallRight(call[r]) /\ Changes(call[r]) /\ call[r].op = "check"
  BY DEF TypeOK, CallType, CheckPasses, CallsRight, Changes
<1>2. c \in CallType /\ c.op = "change" /\ c.pw = call[r].pw /\ c.next = call[r].next
  BY <1>1 DEF CallType
<1>3. call' = [call EXCEPT ![r] = c]
  BY DEF CheckPasses
<1>4. CallRight(c)
  BY <1>1, <1>2 DEF CallRight, CheckPasses, Matches, Changes
<1> HIDE DEF c
<1>5. /\ call' \in [Requests -> CallType] /\ call'[r] = c
      /\ \A q \in Requests : q # r => call'[q] = call[q]
  BY <1>2, <1>3, CallBecomes
<1>6. UNCHANGED <<now, up, row, auth, drawn, sessions, revoked, changing, setupInFlight, out, emptied>>
  BY DEF CheckPasses, flags
<1>7. \A q \in Requests : /\ Changes(call'[q]) <=> Changes(call[q])
                          /\ call'[q].op = "setup" <=> call[q].op = "setup"
  BY <1>1, <1>2, <1>5 DEF Changes
<1>8. changing' <=> \E q \in Requests : Changes(call'[q])
  BY <1>6, <1>7 DEF TypeOK, Changes
<1>9. setupInFlight' <=> \E q \in Requests : call'[q].op = "setup"
  BY <1>6, <1>7 DEF TypeOK
<1>10. TypeOK'
  BY <1>5, <1>6, <1>8, <1>9 DEF TypeOK, CallType, Changes
<1>11. CallsRight' /\ OneAtATime'
  BY <1>4, <1>5, <1>6, <1>7 DEF CallsRight, CallRight, OneAtATime, Changes
<1>12. GateAndRow' /\ SecretsRight' /\ EmptiedRight' /\ OutRight'
  BY <1>6 DEF GateAndRow, SecretsRight, EmptiedRight, OutRight
<1> QED BY <1>6, <1>10, <1>11, <1>12

-----------------------------------------------------------------------------
(* Steps that change the row or the gate. *)

\* A row made with a secret just drawn: nothing was signed with it before.
LEMMA FreshRow ==
    ASSUME IInv, NEW pw \in Passwords, NEW g, g = Row(pw, drawn + 1), drawn' = drawn + 1
    PROVE  /\ g \in Gates /\ g.set /\ g.pw = pw /\ g.secret = drawn + 1
           /\ drawn' \in Nat /\ g.secret <= drawn'
           /\ row.secret < g.secret /\ auth.secret < g.secret
           /\ \A s \in sessions : s.secret <= drawn' /\ s.secret # g.secret
<1> USE DEF IInv
<1>1. drawn \in Nat
  BY DEF TypeOK
<1>2. g \in Gates /\ g.set /\ g.pw = pw /\ g.secret = drawn + 1
  BY <1>1 DEF Row, Gates
<1>3. \A s \in sessions : s.secret \in Nat /\ s.secret <= drawn
  BY DEF TypeOK, SecretsRight
<1>4. /\ row.secret \in Nat /\ row.secret <= drawn
      /\ auth.secret \in Nat /\ auth.secret <= drawn
  BY GateFacts DEF TypeOK, SecretsRight
<1> QED BY <1>1, <1>2, <1>3, <1>4

\* A request ends by rotating the gate, with a session for whoever asked.  The row follows,
\* unless there was none to change.
LEMMA RotationHolds ==
    ASSUME IInv, NEW r \in Requests, NEW pw \in Passwords, Answer(r), up,
           auth' = Row(pw, drawn + 1), drawn' = drawn + 1,
           \/ row' = auth' /\ emptied' = FALSE
           \/ row' = row /\ ~row.set /\ emptied' = TRUE,
           sessions' = sessions \cup {Issued(auth')}, revoked' = {},
           UNCHANGED <<now, up, out>>,
           \/ call[r].op = "setup" /\ changing' = changing /\ setupInFlight' = FALSE
           \/ call[r].op = "change" /\ changing' = FALSE /\ setupInFlight' = setupInFlight
    PROVE  IInv'
<1> USE DEF IInv
<1> DEFINE s == Issued(auth')
<1>1. /\ auth' \in Gates /\ auth'.set /\ auth'.pw = pw /\ auth'.secret = drawn + 1
      /\ drawn' \in Nat /\ auth'.secret <= drawn' /\ row.secret < auth'.secret
      /\ \A t \in sessions : t.secret <= drawn' /\ t.secret # auth'.secret
  <2> DEFINE g == auth'
  <2>1. g = Row(pw, drawn + 1)
    OBVIOUS
  <2> HIDE DEF g
  <2>2. /\ g \in Gates /\ g.set /\ g.pw = pw /\ g.secret = drawn + 1
        /\ drawn' \in Nat /\ g.secret <= drawn' /\ row.secret < g.secret
        /\ \A t \in sessions : t.secret <= drawn' /\ t.secret # g.secret
    BY <2>1, FreshRow
  <2> QED BY <2>2 DEF g
<1>2. drawn + 1 \in Nat
  BY DEF TypeOK
<1>3. s = [id |-> Cardinality(sessions), pw |-> pw, secret |-> drawn + 1, exp |-> now + TTL]
  BY <1>1 DEF Issued
<1> HIDE DEF s
<1>4. s \in SessionType /\ IsFiniteSet(sessions \cup {s})
  BY <1>2, <1>3, IssuedRight
<1>5. sessions' = sessions \cup {s} /\ s.pw = pw /\ s.secret = drawn'
  BY <1>3 DEF s
<1>6. Idle \in CallType /\ Idle.op = "none"
  BY DEF Idle, CallType, Gates
<1>7. /\ call' \in [Requests -> CallType] /\ call'[r] = Idle
      /\ \A q \in Requests : q # r => call'[q] = call[q]
  BY <1>6, CallBecomes DEF Answer
<1>8. \A q \in Requests : call'[q].op \in {"none", "login"} /\ (call'[q].op = "login" =>
                              call'[q].pw \in Passwords)
  <2> SUFFICES ASSUME NEW q \in Requests
               PROVE  call'[q].op \in {"none", "login"} /\ (call'[q].op = "login" =>
                          call'[q].pw \in Passwords)
    OBVIOUS
  <2>1. CASE q = r
    BY <1>6, <1>7, <2>1
  <2>2. CASE q # r
    <3>1. call'[q] = call[q]
      BY <1>7, <2>2
    <3>2. call[q].op \in {"none", "setup", "login", "check", "change"}
      BY DEF TypeOK
    <3>3. CallRight(call[q]) /\ CallRight(call[r])
      BY DEF CallsRight
    <3>4. CASE call[r].op = "setup"
      BY <2>2, <3>1, <3>2, <3>3, <3>4 DEF CallRight, OneAtATime
    <3>5. CASE call[r].op = "change"
      BY <2>2, <3>1, <3>2, <3>3, <3>5 DEF CallRight, OneAtATime, Changes
    <3> QED BY <3>4, <3>5
  <2> QED BY <2>1, <2>2
<1>9. changing' = FALSE /\ setupInFlight' = FALSE
  <2>1. CASE call[r].op = "setup"
    <3>1. \A q \in Requests : ~Changes(call[q])
      BY <2>1 DEF CallsRight, CallRight, Changes
    <3> QED BY <2>1, <3>1 DEF TypeOK, Changes
  <2>2. CASE call[r].op = "change"
    <3>1. \A q \in Requests : call[q].op # "setup"
      BY <2>2 DEF CallsRight, CallRight
    <3> QED BY <2>2, <3>1 DEF TypeOK
  <2> QED BY <2>1, <2>2
<1>10. /\ changing' <=> \E q \in Requests : call'[q].op \in {"check", "change"}
       /\ setupInFlight' <=> \E q \in Requests : call'[q].op = "setup"
  BY <1>8, <1>9
<1>11. TypeOK'
  <2>1. row' \in Gates /\ emptied' \in BOOLEAN
    BY <1>1 DEF TypeOK
  <2> QED BY <1>1, <1>4, <1>5, <1>7, <1>9, <1>10, <2>1 DEF TypeOK, CallType, SessionType
<1>12. CallsRight' /\ OneAtATime'
  BY <1>1, <1>8 DEF CallsRight, CallRight, OneAtATime, Changes
<1>13. GateAndRow' /\ EmptiedRight'
  BY <1>1 DEF GateAndRow, EmptiedRight
<1>14. SecretsRight'
  <2>1. row'.secret <= drawn'
    <3>1. row.secret \in Nat /\ row.secret <= drawn /\ drawn \in Nat
      BY GateFacts DEF TypeOK, SecretsRight
    <3> QED BY <1>1, <3>1
  <2>2. row'.set => row' = auth'
    OBVIOUS
  <2>3. \A t \in sessions' : t.secret <= drawn' /\ (t.secret = auth'.secret => t.pw = auth'.pw)
    BY <1>1, <1>5
  <2> QED BY <1>1, <2>1, <2>2, <2>3 DEF SecretsRight
<1>15. OutRight'
  <2>1. \A t \in out : t.secret # auth'.secret
    BY <1>1 DEF TypeOK
  <2> QED BY <2>1 DEF OutRight
<1> QED BY <1>4, <1>5, <1>11, <1>12, <1>13, <1>14, <1>15

LEMMA SuccessStep ==
    ASSUME IInv, NEW r \in Requests, SetupSucceeds(r) \/ ChangeSucceeds(r)
    PROVE  IInv'
<1> USE DEF IInv
<1>1. CASE SetupSucceeds(r)
  <2>1. call[r].op = "setup" /\ up /\ call[r].pw \in Passwords /\ ~auth.set
    BY <1>1 DEF SetupSucceeds, CallsRight, CallRight
  <2>2. /\ auth' = row' /\ auth' = Row(call[r].pw, drawn + 1)
        /\ Issued(auth') = Issued(row')
    BY <1>1 DEF SetupSucceeds, Bootstrap
  <2>3. emptied' = FALSE
    BY <1>1, <2>1 DEF SetupSucceeds, EmptiedRight, TypeOK
  <2> QED BY <1>1, <2>1, <2>2, <2>3, RotationHolds DEF SetupSucceeds, SetupOver
<1>2. CASE ChangeSucceeds(r)
  <2>1. call[r].op = "change" /\ up /\ call[r].next \in Passwords /\ auth.set
    BY <1>2 DEF ChangeSucceeds, CallsRight, CallRight, Changes
  <2>2. auth' = Row(call[r].next, drawn + 1)
    BY <1>2 DEF ChangeSucceeds, Rotated
  <2>3. \/ row' = auth' /\ emptied' = FALSE
        \/ row' = row /\ ~row.set /\ emptied' = TRUE
    <3>1. CASE row.set
      BY <1>2, <2>2, <3>1 DEF ChangeSucceeds, Updated
    <3>2. CASE ~row.set
      <4>1. emptied
        BY <2>1, <3>2 DEF GateAndRow
      <4> QED BY <1>2, <3>2, <4>1 DEF ChangeSucceeds, Updated
    <3> QED BY <3>1, <3>2
  <2> QED BY <1>2, <2>1, <2>2, <2>3, RotationHolds DEF ChangeSucceeds, ChangeOver
<1> QED BY <1>1, <1>2

LEMMA LoginSucceedsStep ==
    ASSUME IInv, NEW r \in Requests, LoginSucceeds(r)
    PROVE  IInv'
<1> USE DEF IInv
<1> DEFINE s == [Issued(auth) EXCEPT !.pw = call[r].pw]
<1>1. call[r].op = "login" /\ auth.set /\ call[r].pw = auth.pw
  BY DEF LoginSucceeds, Matches, CallsRight, CallRight
<1>2. auth.pw \in Passwords /\ auth.secret \in Nat
  BY <1>1, GateFacts DEF TypeOK
<1>3. s = [id |-> Cardinality(sessions), pw |-> auth.pw, secret |-> auth.secret,
           exp |-> now + TTL]
  BY <1>1 DEF Issued
<1> HIDE DEF s
<1>4. s \in SessionType /\ IsFiniteSet(sessions \cup {s})
  BY <1>2, <1>3, IssuedRight
<1>5. sessions' = sessions \cup {s} /\ s.pw = auth.pw /\ s.secret = auth.secret
  BY <1>1, <1>3 DEF s, LoginSucceeds
<1>6. Idle \in CallType /\ Idle.op = "none"
  BY DEF Idle, CallType, Gates
<1>7. /\ call' \in [Requests -> CallType] /\ call'[r] = Idle
      /\ \A q \in Requests : q # r => call'[q] = call[q]
  BY <1>6, CallBecomes DEF Answer, LoginSucceeds
<1>8. UNCHANGED <<now, up, row, auth, drawn, revoked, changing, setupInFlight, out, emptied>>
  BY DEF LoginSucceeds, flags
<1>9. \A q \in Requests : /\ Changes(call'[q]) <=> Changes(call[q])
                          /\ call'[q].op = "setup" <=> call[q].op = "setup"
  BY <1>1, <1>6, <1>7 DEF Changes
<1>10. /\ changing' <=> \E q \in Requests : Changes(call'[q])
       /\ setupInFlight' <=> \E q \in Requests : call'[q].op = "setup"
  BY <1>8, <1>9 DEF TypeOK, Changes
<1>11. TypeOK'
  BY <1>4, <1>5, <1>7, <1>8, <1>10 DEF TypeOK, CallType, SessionType, Changes
<1>12. CallsRight' /\ OneAtATime'
  BY <1>6, <1>7, <1>8 DEF CallsRight, CallRight, OneAtATime, Changes
<1>13. row.set /\ row.secret = auth.secret => row.pw = auth.pw
  <2>1. row.secret \in Nat /\ auth.secret \in Nat
    BY GateFacts DEF TypeOK
  <2> QED BY <1>1, <2>1 DEF GateAndRow
<1>14. SecretsRight'
  BY <1>5, <1>8, <1>13 DEF SecretsRight
<1>15. GateAndRow' /\ EmptiedRight' /\ OutRight'
  BY <1>8 DEF GateAndRow, EmptiedRight, OutRight
<1> QED BY <1>4, <1>5, <1>11, <1>12, <1>14, <1>15

LEMMA SetupLosesStep ==
    ASSUME IInv, NEW r \in Requests, SetupLoses(r)
    PROVE  IInv'
<1> USE DEF IInv
<1>1. /\ call[r].op = "setup" /\ row' = row /\ drawn' = drawn + 1 /\ Answer(r)
      /\ setupInFlight' = FALSE
      /\ UNCHANGED <<now, up, auth, sessions, revoked, changing, out, emptied>>
  BY DEF SetupLoses, Bootstrap, SetupOver
<1>2. Idle \in CallType /\ Idle.op = "none"
  BY DEF Idle, CallType, Gates
<1>3. /\ call' \in [Requests -> CallType] /\ call'[r] = Idle
      /\ \A q \in Requests : q # r => call'[q] = call[q]
  BY <1>1, <1>2, CallBecomes DEF Answer
<1>4. \A q \in Requests : Changes(call'[q]) <=> Changes(call[q])
  BY <1>1, <1>2, <1>3 DEF Changes
<1>5. \A q \in Requests : call'[q].op # "setup"
  BY <1>1, <1>2, <1>3 DEF OneAtATime
<1>6. /\ changing' <=> \E q \in Requests : Changes(call'[q])
      /\ setupInFlight' <=> \E q \in Requests : call'[q].op = "setup"
  BY <1>1, <1>4, <1>5 DEF TypeOK, Changes
<1>7. TypeOK'
  <2>1. drawn' \in Nat
    BY <1>1 DEF TypeOK
  <2>2. setupInFlight' \in BOOLEAN /\ changing' \in BOOLEAN
    BY <1>1 DEF TypeOK
  <2> QED BY <1>1, <1>3, <1>6, <2>1, <2>2 DEF TypeOK, CallType, Changes
<1>8. CallsRight' /\ OneAtATime'
  BY <1>1, <1>2, <1>3 DEF CallsRight, CallRight, OneAtATime, Changes
<1>9. SecretsRight'
  <2>1. /\ drawn \in Nat /\ row.secret \in Nat /\ auth.secret \in Nat
        /\ \A s \in sessions : s.secret \in Nat
    BY GateFacts DEF TypeOK
  <2> QED BY <1>1, <2>1 DEF SecretsRight
<1>10. GateAndRow' /\ EmptiedRight' /\ OutRight'
  BY <1>1 DEF GateAndRow, EmptiedRight, OutRight
<1> QED BY <1>1, <1>7, <1>8, <1>9, <1>10

-----------------------------------------------------------------------------
(* The steps of the rest of the system. *)

LEMMA LogoutStep ==
    ASSUME IInv, Logout
    PROVE  IInv'
<1> USE DEF IInv
<1>1. PICK s \in sessions : /\ Verifies(s) /\ revoked' = Pruned(revoked) \cup {s}
                            /\ out' = out \cup {s}
  BY DEF Logout
<1>2. UNCHANGED <<now, up, row, auth, drawn, sessions, changing, setupInFlight, call, emptied>>
  BY DEF Logout, flags
<1>3. CallsRight' /\ OneAtATime'
  BY <1>2, CallsStay
<1>4. TypeOK'
  BY <1>1, <1>2 DEF TypeOK, Pruned
<1>5. GateAndRow' /\ SecretsRight' /\ EmptiedRight'
  BY <1>2 DEF GateAndRow, SecretsRight, EmptiedRight
<1>6. now \in Nat /\ \A t \in out : t.exp \in Nat
  BY DEF TypeOK
<1>7. \A t \in revoked : t \in out => t \in revoked' \/ t.exp <= now
  BY <1>1, <1>6 DEF Pruned
<1>8. OutRight'
  BY <1>1, <1>2, <1>7 DEF OutRight, Verifies
<1> QED BY <1>2, <1>3, <1>4, <1>5, <1>8

LEMMA OtherBootsStep ==
    ASSUME IInv, OtherBoots
    PROVE  IInv'
<1> USE DEF IInv
<1>1. PICK pw \in Passwords : row' = Row(pw, drawn + 1)
  BY DEF OtherBoots
<1>2. /\ drawn' = drawn + 1 /\ ~row.set
      /\ UNCHANGED <<now, up, auth, sessions, revoked, changing, setupInFlight, call, out,
                     emptied>>
  BY DEF OtherBoots, flags
<1>3. /\ row' \in Gates /\ row'.set /\ drawn' \in Nat /\ row'.secret <= drawn'
      /\ auth.secret < row'.secret
      /\ \A s \in sessions : s.secret <= drawn' /\ s.secret # row'.secret
  <2> DEFINE g == row'
  <2>1. g = Row(pw, drawn + 1)
    BY <1>1
  <2> HIDE DEF g
  <2>2. /\ g \in Gates /\ g.set /\ drawn' \in Nat /\ g.secret <= drawn'
        /\ auth.secret < g.secret
        /\ \A s \in sessions : s.secret <= drawn' /\ s.secret # g.secret
    BY <1>2, <2>1, FreshRow
  <2> QED BY <2>2 DEF g
<1>4. CallsRight' /\ OneAtATime'
  BY <1>2, CallsStay
<1>5. TypeOK'
  BY <1>2, <1>3 DEF TypeOK
<1>6. auth.secret \in Nat /\ row'.secret \in Nat /\ auth.secret <= drawn'
  BY <1>3, GateFacts DEF TypeOK
<1>7. SecretsRight'
  BY <1>2, <1>3, <1>6 DEF SecretsRight
<1>8. GateAndRow' /\ EmptiedRight' /\ OutRight'
  BY <1>2, <1>3, <1>6 DEF GateAndRow, EmptiedRight, OutRight
<1> QED BY <1>2, <1>4, <1>5, <1>7, <1>8

LEMMA TickStep ==
    ASSUME IInv, Tick
    PROVE  IInv'
<1> USE DEF IInv
<1>1. /\ now' = now + 1
      /\ UNCHANGED <<up, row, auth, drawn, sessions, revoked, changing, setupInFlight, call, out,
                     emptied>>
  BY DEF Tick, flags
<1>2. CallsRight' /\ OneAtATime'
  BY <1>1, CallsStay
<1>3. TypeOK'
  BY <1>1 DEF TypeOK
<1>4. GateAndRow' /\ SecretsRight' /\ EmptiedRight'
  BY <1>1 DEF GateAndRow, SecretsRight, EmptiedRight
<1>5. \A s \in out : s.exp <= now => s.exp <= now'
  BY <1>1 DEF TypeOK
<1>6. OutRight'
  BY <1>1, <1>5 DEF OutRight
<1> QED BY <1>1, <1>2, <1>3, <1>4, <1>6

LEMMA StopStep ==
    ASSUME IInv, Stop
    PROVE  IInv'
<1> USE DEF IInv
<1>1. /\ up' = FALSE /\ auth' = NoRow /\ revoked' = {} /\ out' = {}
      /\ changing' = FALSE /\ setupInFlight' = FALSE /\ emptied' = FALSE
      /\ UNCHANGED <<now, row, drawn, sessions>>
  BY DEF Stop
<1>2. NoRow \in Gates /\ ~NoRow.set
  BY DEF Gates, NoRow
<1>3. call' \in [Requests -> CallType] /\ \A q \in Requests : call'[q].op = "none"
  BY <1>2 DEF Stop, Idle, CallType
<1>4. TypeOK'
  BY <1>1, <1>2, <1>3 DEF TypeOK, CallType
<1>5. CallsRight' /\ OneAtATime'
  BY <1>3 DEF CallsRight, CallRight, OneAtATime, Changes
<1>6. NoRow.secret <= drawn
  BY DEF NoRow, TypeOK
<1>7. GateAndRow' /\ SecretsRight' /\ EmptiedRight' /\ OutRight'
  BY <1>1, <1>2, <1>6 DEF GateAndRow, SecretsRight, EmptiedRight, OutRight
<1> QED BY <1>1, <1>4, <1>5, <1>7

LEMMA EmptyTableStep ==
    ASSUME IInv, EmptyTable
    PROVE  IInv'
<1> USE DEF IInv
<1>1. /\ row' = NoRow /\ emptied' = auth.set
      /\ UNCHANGED <<now, up, auth, drawn, sessions, revoked, changing, setupInFlight, call, out>>
  BY DEF EmptyTable, flags
<1>2. NoRow \in Gates /\ ~NoRow.set /\ NoRow.secret <= drawn
  BY DEF Gates, NoRow, TypeOK
<1>3. CallsRight' /\ OneAtATime'
  BY <1>1, CallsStay
<1>4. TypeOK'
  <2>1. auth.set \in BOOLEAN
    BY GateFacts DEF TypeOK
  <2> QED BY <1>1, <1>2, <2>1 DEF TypeOK
<1>5. GateAndRow' /\ SecretsRight' /\ EmptiedRight' /\ OutRight'
  BY <1>1, <1>2 DEF GateAndRow, SecretsRight, EmptiedRight, OutRight
<1> QED BY <1>1, <1>3, <1>4, <1>5

LEMMA BootStep ==
    ASSUME IInv, Boot
    PROVE  IInv'
<1> USE DEF IInv
<1>1. /\ up' = TRUE /\ ~up /\ drawn' = drawn + 1 /\ auth' = row' /\ row' \in Booted(row)
      /\ UNCHANGED <<now, sessions, revoked, changing, setupInFlight, call, out,
                     emptied>>
  BY DEF Boot, flags
<1> DEFINE Good ==
        /\ row' \in Gates /\ row'.secret <= drawn' /\ drawn' \in Nat
        /\ \A s \in sessions : s.secret <= drawn' /\
               (row'.set /\ s.secret = row'.secret => s.pw = row'.pw)
<1>2. Good
  <2>1. drawn' \in Nat /\ drawn <= drawn'
    BY <1>1 DEF TypeOK
  <2>2. CASE row' = row
    <3>1. row.secret \in Nat /\ drawn \in Nat /\ \A s \in sessions : s.secret \in Nat
      BY GateFacts DEF TypeOK
    <3> QED BY <2>1, <2>2, <3>1, <1>1 DEF TypeOK, SecretsRight
  <2>3. CASE row' = NoRow
    <3>1. drawn \in Nat /\ \A s \in sessions : s.secret \in Nat
      BY DEF TypeOK
    <3> QED BY <1>1, <2>1, <2>3, <3>1 DEF SecretsRight, Gates, NoRow
  <2>4. ASSUME NEW pw \in Passwords, row' = Row(pw, drawn + 1)
        PROVE  Good
    <3> DEFINE g == row'
    <3>1. g = Row(pw, drawn + 1)
      BY <2>4
    <3> HIDE DEF g
    <3>2. /\ g \in Gates /\ drawn' \in Nat /\ g.secret <= drawn'
          /\ \A s \in sessions : s.secret <= drawn' /\ s.secret # g.secret
      BY <1>1, <3>1, FreshRow
    <3> QED BY <3>2 DEF g
  <2>5. \/ row' = row \/ row' = NoRow
        \/ \E pw \in Passwords : row' = Row(pw, drawn + 1)
    BY <1>1, SessionsAssumption DEF Booted
  <2> HIDE DEF Good
  <2> QED BY <2>2, <2>3, <2>4, <2>5
<1>3. out = {} /\ emptied = FALSE /\ \A q \in Requests : call[q].op = "none"
  BY <1>1 DEF OutRight, EmptiedRight, CallsRight, CallRight, TypeOK
<1>4. TypeOK'
  BY <1>1, <1>2 DEF TypeOK
<1>5. CallsRight' /\ OneAtATime'
  BY <1>1, <1>3 DEF CallsRight, CallRight, OneAtATime, Changes
<1>6. GateAndRow' /\ SecretsRight' /\ EmptiedRight' /\ OutRight'
  BY <1>1, <1>2, <1>3 DEF GateAndRow, SecretsRight, EmptiedRight, OutRight
<1> QED BY <1>1, <1>4, <1>5, <1>6

-----------------------------------------------------------------------------
(* The invariant, and the theorems. *)

LEMMA StepHolds == IInv /\ [Next]_vars => IInv'
<1> SUFFICES ASSUME IInv, [Next]_vars PROVE IInv'
  OBVIOUS
<1>1. CASE UNCHANGED vars
  <2>1. CallsRight' /\ OneAtATime'
    BY <1>1, CallsStay DEF vars
  <2> QED BY <1>1, <2>1 DEF vars, IInv, TypeOK, GateAndRow, SecretsRight, EmptiedRight, OutRight
<1>2. ASSUME NEW r \in Requests,
             \/ BeginSetup(r) \/ SetupSucceeds(r) \/ SetupLoses(r) \/ SetupFails(r)
             \/ BeginLogin(r) \/ LoginSucceeds(r) \/ LoginFails(r)
      PROVE  IInv'
  BY <1>2, AdmissionStep, SuccessStep, SetupLosesStep, FailureStep, LoginSucceedsStep
<1>3. ASSUME NEW r \in Requests,
             BeginChange(r) \/ CheckPasses(r) \/ ChangeFails(r) \/ ChangeSucceeds(r)
      PROVE  IInv'
  BY <1>3, AdmissionStep, CheckPassesStep, FailureStep, SuccessStep
<1>4. CASE Logout \/ OtherBoots \/ Tick \/ Stop \/ EmptyTable \/ Boot
  BY <1>4, LogoutStep, OtherBootsStep, TickStep, StopStep, EmptyTableStep, BootStep
<1> QED BY <1>1, <1>2, <1>3, <1>4 DEF Next

LEMMA Invariance == Spec => []IInv
BY InitHolds, StepHolds, PTL DEF Spec

\* Every variable holds what it can hold, for any number of requests and passwords.
THEOREM TypeCorrect == Spec => []TypeOK
<1>1. IInv => TypeOK
  BY DEF IInv
<1> QED BY <1>1, Invariance, PTL

\* The gate and the row are one, unless the table was emptied under the gate.
THEOREM GateIsRow == Spec => []GateAndRow
<1>1. IInv => GateAndRow
  BY DEF IInv
<1> QED BY <1>1, Invariance, PTL

\* No session outlives the password it was given for.
THEOREM OldDie == Spec => []OldSessionsDie
<1>1. IInv => OldSessionsDie
  BY DEF IInv, OldSessionsDie, Verifies, SecretsRight
<1> QED BY <1>1, Invariance, PTL

\* A session logged out stays out while the process lives.
THEOREM LoggedOut == Spec => []LogoutHolds
<1>1. IInv => LogoutHolds
  <2> SUFFICES ASSUME IInv, NEW s \in out, Verifies(s) PROVE FALSE
    BY DEF LogoutHolds
  <2>1. s.exp \in Nat /\ now \in Nat
    BY DEF IInv, TypeOK
  <2> QED BY <2>1 DEF IInv, OutRight, Verifies
<1> QED BY <1>1, Invariance, PTL

\* A change replaces the password its caller gave, never one put there meanwhile, in the
\* gate and, unless that was emptied under it, in the table.
THEOREM Chained == Spec => ChangesChain
<1> DEFINE GateChain == auth.set /\ auth'.set /\ auth' # auth =>
        \E r \in Requests : call[r].op = "change" /\ call[r].pw = auth.pw
<1> DEFINE RowChain == row.set /\ row'.set /\ row' # row =>
        \E r \in Requests : call[r].op = "change" /\ (emptied \/ call[r].pw = row.pw)
<1>1. ~NoRow.set
  BY DEF NoRow
<1>2. ASSUME IInv, NEW r \in Requests, ChangeSucceeds(r)
      PROVE  /\ call[r].op = "change" /\ call[r].pw = auth.pw
             /\ row.set => emptied \/ call[r].pw = row.pw
  <2>1. CallRight(call[r]) /\ call[r].op = "change"
    BY <1>2 DEF ChangeSucceeds, IInv, CallsRight
  <2>2. auth.set /\ call[r].pw = auth.pw
    BY <2>1 DEF CallRight
  <2>3. emptied \/ auth = row
    BY <1>2, <2>2 DEF IInv, GateAndRow
  <2> QED BY <2>1, <2>2, <2>3
<1>3. ASSUME IInv, [Next]_vars PROVE GateChain
  <2> SUFFICES ASSUME auth.set, auth'.set, auth' # auth
               PROVE  \E r \in Requests : call[r].op = "change" /\ call[r].pw = auth.pw
    OBVIOUS
  <2>1. \A r \in Requests : call[r].op # "setup"
    BY <1>3 DEF IInv, CallsRight, CallRight
  <2>2. up
    BY <1>3 DEF IInv, OutRight
  <2>3. \E r \in Requests : ChangeSucceeds(r)
    BY <1>1, <1>3, <2>1, <2>2 DEF Next, vars, BeginSetup, SetupSucceeds, SetupLoses, SetupFails,
       BeginLogin, LoginSucceeds, LoginFails, BeginChange, CheckPasses, ChangeFails, Logout,
       OtherBoots, Tick, Stop, EmptyTable, Boot
  <2> QED BY <1>2, <1>3, <2>3
<1>4. ASSUME IInv, [Next]_vars PROVE RowChain
  <2> SUFFICES ASSUME row.set, row'.set, row' # row
               PROVE  \E r \in Requests :
                          call[r].op = "change" /\ (emptied \/ call[r].pw = row.pw)
    OBVIOUS
  <2>1. PICK r \in Requests : SetupSucceeds(r) \/ SetupLoses(r) \/ ChangeSucceeds(r)
    BY <1>1, <1>4 DEF Next, vars, BeginSetup, SetupFails, BeginLogin, LoginSucceeds,
       LoginFails, BeginChange, CheckPasses, ChangeFails, Logout, OtherBoots, Tick, Stop,
       EmptyTable, Boot, Booted
  <2>2. ChangeSucceeds(r)
    BY <2>1 DEF SetupSucceeds, SetupLoses, Bootstrap
  <2> QED BY <1>2, <1>4, <2>2
<1>5. ASSUME IInv, [Next]_vars PROVE [GateChain /\ RowChain]_vars
  BY <1>3, <1>4, <1>5
<1> QED BY <1>5, Invariance, PTL DEF Spec, ChangesChain

\* A session is given only for the gate's password when it is given.
THEOREM LoginsCurrent == Spec => NoStaleLogin
<1> DEFINE Given == \A s \in sessions' \ sessions : s.pw = auth'.pw /\ s.secret = auth'.secret
<1>1. ASSUME IInv, [Next]_vars PROVE Given
  <2> SUFFICES ASSUME NEW s \in sessions', s \notin sessions
               PROVE  s.pw = auth'.pw /\ s.secret = auth'.secret
    OBVIOUS
  <2>1. PICK r \in Requests : SetupSucceeds(r) \/ LoginSucceeds(r) \/ ChangeSucceeds(r)
    BY <1>1 DEF Next, vars, BeginSetup, SetupLoses, SetupFails, BeginLogin,
       LoginFails, BeginChange, CheckPasses, ChangeFails, Logout, OtherBoots, Tick, Stop,
       EmptyTable, Boot
  <2>2. CASE SetupSucceeds(r)
    BY <2>2 DEF SetupSucceeds, Issued
  <2>3. CASE ChangeSucceeds(r)
    BY <2>3 DEF ChangeSucceeds, Issued
  <2>4. CASE LoginSucceeds(r)
    <3>1. auth' = auth /\ call[r].pw = auth.pw
      BY <2>4 DEF LoginSucceeds, Matches
    <3> QED BY <2>4, <3>1 DEF LoginSucceeds, Issued
  <2> QED BY <2>1, <2>2, <2>3, <2>4
<1>2. ASSUME IInv, [Next]_vars PROVE [Given]_vars
  BY <1>1, <1>2
<1> QED BY <1>2, Invariance, PTL DEF Spec, NoStaleLogin

\* No session outlives a restart but those signed with the secret of the row that was there.
THEOREM Forgotten == Spec => RestartForgets
<1> DEFINE Forgets == ~up /\ up' => \A s \in sessions : Verifies(s)' => row.set /\ s.secret = row.secret
<1>1. ASSUME IInv, [Next]_vars PROVE Forgets
  <2> SUFFICES ASSUME ~up, up', NEW s \in sessions, Verifies(s)'
               PROVE  row.set /\ s.secret = row.secret
    OBVIOUS
  <2>1. \A r \in Requests : call[r].op = "none"
    BY <1>1 DEF IInv, CallsRight, CallRight, TypeOK
  <2>2. Boot
    BY <1>1 DEF Next, vars, BeginSetup, SetupSucceeds, SetupLoses, SetupFails, BeginLogin,
       LoginSucceeds, LoginFails, BeginChange, CheckPasses, ChangeFails, ChangeSucceeds, Logout,
       OtherBoots, Tick, Stop, EmptyTable
  <2>3. auth' = row' /\ row' \in Booted(row) /\ auth'.set /\ s.secret = auth'.secret
    BY <2>2 DEF Boot, Verifies
  <2>4. CASE row.set
    BY <2>3, <2>4 DEF Booted
  <2>5. CASE ~row.set
    <3>1. row'.secret = drawn + 1
      BY <2>3, <2>5 DEF Booted, NoRow, Row
    <3>2. s.secret \in Nat /\ drawn \in Nat /\ s.secret <= drawn
      BY <1>1 DEF IInv, TypeOK, SecretsRight
    <3> QED BY <2>3, <3>1, <3>2
  <2> QED BY <2>4, <2>5
<1>2. ASSUME IInv, [Next]_vars PROVE [Forgets]_vars
  BY <1>1, <1>2
<1> QED BY <1>2, Invariance, PTL DEF Spec, RestartForgets

\* The four invariants together, as the run checks them.
THEOREM SessionsSound == Spec => []SessionInvariant
BY TypeCorrect, GateIsRow, OldDie, LoggedOut, PTL DEF SessionInvariant

\* The three action properties together, as the run checks them.
THEOREM StepsSound == Spec => SessionSteps
BY Chained, LoginsCurrent, Forgotten DEF SessionSteps

-----------------------------------------------------------------------------
(* The gates. *)


allVars == <<part, vars, gates>>

-----------------------------------------------------------------------------
(* Machines that push. *)

\* The last refusal is the most recent of all, and what was recorded since the last reset
\* is the bound machine's.
PushInv ==
    /\ bound \in Machines \cup {P!Unbound}
    /\ written \subseteq Machines
    /\ \A m \in written : m = bound
    /\ refused \in [Machines -> 0..P!Never]
    /\ \/ alert = P!NoAlert /\ \A m \in Machines : refused[m] = P!Never
       \/ /\ alert \in [from : Machines, age : 0..P!Never]
          /\ refused[alert.from] = alert.age
          /\ \A m \in Machines : refused[m] >= alert.age

LEMMA PushInit == P!Init => PushInv
  BY GatesAssumption DEF P!Init, P!PushAssumption, P!Forgotten, P!Never, PushInv

LEMMA PushStep ==
    ASSUME PushInv, P!Next
    PROVE  PushInv'
  <1>0. /\ AlertTtl \in Nat /\ P!Unbound \notin Machines /\ P!NoAlert.from \notin Machines
        /\ P!Never = AlertTtl + 1
    BY GatesAssumption DEF P!PushAssumption, P!Never
  <1>1. CASE P!AgentChanges \/ P!HubRestarts
    BY <1>1 DEF P!AgentChanges, P!HubRestarts, PushInv
  <1>2. CASE P!Reset
    BY <1>0, <1>2 DEF P!Reset, P!Forgotten, PushInv
  <1>3. CASE P!ClearAlert
    BY <1>0, <1>3 DEF P!ClearAlert, P!Forgotten, PushInv
  <1>4. CASE P!Tick
    <2>1. bound' = bound /\ written' = written
      BY <1>4 DEF P!Tick
    <2>2. \A a \in 0..P!Never : P!Older(a, P!Never) \in 0..P!Never
      BY <1>0 DEF P!Older
    <2>3. refused' = [m \in Machines |-> P!Older(refused[m], P!Never)]
      BY <1>4 DEF P!Tick
    <2>4. CASE alert = P!NoAlert
      <3>1. alert' = P!NoAlert
        BY <1>4, <2>4 DEF P!Tick
      <3>2. \A m \in Machines : refused[m] = P!Never
        BY <1>0, <2>4 DEF PushInv
      <3>3. P!Older(P!Never, P!Never) = P!Never
        BY <1>0 DEF P!Older
      <3> QED
        BY <2>1, <2>2, <2>3, <3>1, <3>2, <3>3 DEF PushInv
    <2>5. CASE alert # P!NoAlert
      <3>1. alert \in [from : Machines, age : 0..P!Never]
        BY <2>5 DEF PushInv
      <3>2. alert' = [from |-> alert.from, age |-> P!Older(alert.age, P!Never)]
        BY <1>4, <2>5, <3>1 DEF P!Tick
      <3>3. \A m \in Machines : P!Older(refused[m], P!Never) >= P!Older(alert.age, P!Never)
        BY <1>0, <2>5, <3>1 DEF PushInv, P!Older
      <3>4. refused[alert.from] = alert.age
        BY <2>5 DEF PushInv
      <3> QED
        BY <2>1, <2>2, <2>3, <3>1, <3>2, <3>3, <3>4 DEF PushInv
    <2> QED
      BY <2>4, <2>5
  <1>5. ASSUME NEW m \in Machines, P!Push(m)
        PROVE  PushInv'
    <2>1. CASE bound = P!Unbound
      BY <1>0, <1>5, <2>1 DEF P!Push, PushInv
    <2>2. CASE bound = m /\ agent[m] = "new"
      BY <1>0, <1>5, <2>2 DEF P!Push, PushInv
    <2>3. CASE bound # P!Unbound /\ ~(bound = m /\ agent[m] = "new")
      <3>1. /\ alert' = [from |-> m, age |-> 0] /\ refused' = [refused EXCEPT ![m] = 0]
            /\ bound' = bound /\ written' = written
        BY <1>5, <2>3 DEF P!Push, P!Refused
      <3>2. refused' \in [Machines -> 0..P!Never] /\ refused'[m] = 0
        BY <1>0, <3>1 DEF PushInv
      <3>3. \A n \in Machines : refused'[n] >= 0
        BY <1>0, <3>2
      <3> QED
        BY <1>0, <3>1, <3>2, <3>3 DEF PushInv
    <2> QED
      BY <2>1, <2>2, <2>3
  <1> QED
    BY <1>1, <1>2, <1>3, <1>4, <1>5 DEF P!Next

\* push_bindings.js:3-20: for any number of machines and any lifetime of a warning, one
\* machine writes a target's history, and one that was refused is on the card.
THEOREM OneMachine == PartsSpec => []OneMachineAndWarned
  <1> DEFINE Inv == part = "pushes" => PushInv
  <1>1. PartsInit => Inv
    BY PushInit DEF PartsInit
  <1>2. Inv /\ [PartsNext]_allVars => Inv'
    <2>1. CASE PartsNext
      BY <2>1, PushStep DEF PartsNext
    <2>2. CASE UNCHANGED allVars
      BY <2>2 DEF allVars, gates, pushVars, PushInv
    <2> QED
      BY <2>1, <2>2
  <1>3. Inv => OneMachineAndWarned
    <2> SUFFICES ASSUME PushInv PROVE P!OneMachineAndWarned
      BY DEF OneMachineAndWarned
    <2>0. AlertTtl \in Nat /\ P!Never = AlertTtl + 1 /\ P!NoAlert.from \notin Machines
      BY GatesAssumption DEF P!PushAssumption, P!Never
    <2>1. CASE alert = P!NoAlert
      <3>1. \A m \in Machines : refused[m] = AlertTtl + 1
        BY <2>0, <2>1 DEF PushInv
      <3> QED
        BY <2>0, <2>1, <3>1 DEF PushInv, P!OneMachineAndWarned, P!Warned
    <2>2. CASE alert # P!NoAlert
      BY <2>0, <2>2 DEF PushInv, P!OneMachineAndWarned, P!Warned
    <2> QED
      BY <2>1, <2>2
  <1> QED
    BY <1>1, <1>2, <1>3, PTL DEF PartsSpec, allVars

-----------------------------------------------------------------------------
(* Hosts the hub logs in to. *)

\* Every host has a key it answers with, so the one it is remembered by is never forgotten
\* for another.
SshInv ==
    /\ sealed \in [Creds -> {S!None, meta}]
    /\ vault \in {S!None, meta}
    /\ target \in [Hosts -> Creds \cup {S!None}]
    /\ \A h \in Hosts : target[h] # S!None => sealed[target[h]] # S!None
    /\ known \in [Hosts -> HostKeys \cup {S!None}]
    /\ hostKey \in [Hosts -> HostKeys]
    /\ sent \subseteq Hosts \X HostKeys
    /\ \A s \in sent : known[s[1]] = s[2]

LEMMA SshInit == S!Init => SshInv
  BY DEF S!Init, SshInv

LEMMA SshStep ==
    ASSUME SshInv, S!Next
    PROVE  SshInv'
  <1> USE DEF S!store
  <1>1. CASE S!Boot
    BY <1>1 DEF S!Boot, S!OpenVault, SshInv
  <1>2. ASSUME NEW c \in Creds, S!CreateCredential(c)
        PROVE  SshInv'
    BY <1>2 DEF S!CreateCredential, SshInv
  <1>3. ASSUME NEW c \in Creds, S!DeleteCredential(c)
        PROVE  SshInv'
    BY <1>3 DEF S!DeleteCredential, SshInv
  <1>4. ASSUME NEW h \in Hosts, NEW c \in Creds, S!AddTarget(h, c)
        PROVE  SshInv'
    BY <1>4 DEF S!AddTarget, SshInv
  <1>5. ASSUME NEW h \in Hosts, S!RemoveTarget(h)
        PROVE  SshInv'
    BY <1>5 DEF S!RemoveTarget, SshInv
  <1>6. ASSUME NEW h \in Hosts, S!PollStart(h) \/ S!Exec(h) \/ S!Closes(h) \/ S!Timer(h)
        PROVE  SshInv'
    BY <1>6 DEF S!PollStart, S!Exec, S!Closes, S!Timer, SshInv
  <1>7. ASSUME NEW h \in Hosts, S!Rekeyed(h)
        PROVE  SshInv'
    BY <1>7 DEF S!Rekeyed, SshInv
  <1>8. ASSUME NEW h \in Hosts, S!Verify(h)
        PROVE  SshInv'
    <2>1. UNCHANGED <<meta, sealed, target, vault, hostKey>>
      BY <1>8 DEF S!Verify
    <2>2. hostKey[h] \in HostKeys /\ S!None \notin HostKeys
      BY GatesAssumption DEF SshInv, S!SshAssumption
    <2>3. /\ known' \in [Hosts -> HostKeys \cup {S!None}]
          /\ \A g \in Hosts : known[g] # S!None => known'[g] = known[g]
      BY <1>8, <2>2 DEF S!Verify, SshInv
    <2>4. \A s \in sent : s[1] \in Hosts /\ s[2] \in HostKeys /\ known'[s[1]] = s[2]
      BY <2>2, <2>3 DEF SshInv
    <2>5. sent' = sent \/ (sent' = sent \cup {<<h, hostKey[h]>>} /\ known'[h] = hostKey[h])
      BY <1>8 DEF S!Verify
    <2> QED
      BY <2>1, <2>2, <2>3, <2>4, <2>5 DEF SshInv
  <1> QED
    BY <1>1, <1>2, <1>3, <1>4, <1>5, <1>6, <1>7, <1>8 DEF S!Next

\* vault.js:36-40, cred_store.js:105-116, ssh.js:13-16: for any hosts, credentials and
\* keys, one key reads every stored secret, and a secret goes only to the key its host is
\* remembered by.
THEOREM OneKey == PartsSpec => []OneKeyReadsAll
  <1> DEFINE Inv == part = "ssh" => SshInv
  <1>1. PartsInit => Inv
    BY SshInit DEF PartsInit
  <1>2. Inv /\ [PartsNext]_allVars => Inv'
    <2>1. CASE PartsNext
      BY <2>1, SshStep DEF PartsNext
    <2>2. CASE UNCHANGED allVars
      BY <2>2 DEF allVars, gates, sshVars, SshInv
    <2> QED
      BY <2>1, <2>2
  <1>3. Inv => OneKeyReadsAll
    BY DEF OneKeyReadsAll, SshInv, S!OneKeyReadsAll
  <1> QED
    BY <1>1, <1>2, <1>3, PTL DEF PartsSpec, allVars

-----------------------------------------------------------------------------
(* Who asks, and which port is probed. *)

ChoiceInv ==
    /\ hops \in UNION {[1..n -> D!Addresses] : n \in 0..MaxHops}
    /\ cf \in {D!None, "internet"}
    /\ configured \in Ports
    /\ port # 0 => client = D!ClientOf /\ port = D!PortOf

\* The last entry of the header is the last of the strangers, when it is one of them.
LEMMA LastStranger ==
    ASSUME ChoiceInv, hops # <<>>, hops[Len(hops)] # "proxy"
    PROVE  D!Strangers # {} /\ D!Max(D!Strangers) = Len(hops)
  <1>1. PICK n \in 0..MaxHops : hops \in [1..n -> D!Addresses]
    BY DEF ChoiceInv
  <1>2. MaxHops \in Nat
    BY GatesAssumption DEF D!ChoicesAssumption
  <1>3. Len(hops) = n /\ DOMAIN hops = 1..n /\ n \in Nat /\ n # 0
    BY <1>1, <1>2
  <1>4. n \in D!Strangers /\ \A i \in D!Strangers : i \in Nat /\ n >= i
    BY <1>3 DEF D!Strangers
  <1> DEFINE top == D!Max(D!Strangers)
  <1>5. top \in D!Strangers /\ \A i \in D!Strangers : top >= i
    BY <1>4 DEF D!Max
  <1>6. top \in Nat /\ top >= n /\ n >= top
    BY <1>4, <1>5
  <1> HIDE DEF top
  <1>7. top = n
    BY <1>3, <1>6
  <1> QED
    BY <1>3, <1>4, <1>7 DEF top

\* A set of numbers that is not empty has a least one.
LEMMA SmallestSubset ==
    ASSUME NEW A, IsFiniteSet(A), NEW C, C \subseteq SUBSET A, C # {}
    PROVE  \E T \in C : \A U \in C : ~(U \subseteq T /\ U # T)
  <1>1. IsWellFoundedOn(StrictSubsetOrdering(A), SUBSET A)
    BY FS_StrictSubsetOrderingWellFounded, FS_FiniteSubsetsOfFinite
  <1>2. PICK T \in C : \A U \in C : ~(<<U, T>> \in StrictSubsetOrdering(A))
    BY <1>1, WFMin
  <1> QED
    BY <1>2 DEF StrictSubsetOrdering

LEMMA Smallest ==
    ASSUME NEW T, T \subseteq Nat, T # {}
    PROVE  \E t \in T : \A u \in T : t <= u
  <1>1. PICK top \in T : TRUE
    OBVIOUS
  <1> DEFINE C == {0..t : t \in {u \in T : u <= top}}
             upTo == 0..top
  <1>2. C \subseteq SUBSET upTo /\ C # {}
    BY <1>1
  <1>3. IsFiniteSet(upTo)
    BY <1>1, FS_Interval
  <1>4. PICK I \in C : \A J \in C : ~(J \subseteq I /\ J # I)
    <2> HIDE DEF C, upTo
    <2> QED
      BY <1>2, <1>3, SmallestSubset
  <1>5. PICK t \in T : t <= top /\ I = 0..t
    BY <1>4
  <1>6. ASSUME NEW u \in T, ~(t <= u)
        PROVE  FALSE
    <2>1. u \in Nat /\ t \in Nat /\ top \in Nat /\ u < t
      BY <1>1, <1>5, <1>6
    <2>2. 0..u \in C
      BY <1>5, <2>1
    <2>3. 0..u \subseteq I /\ t \in I /\ t \notin 0..u
      BY <1>5, <2>1
    <2> HIDE DEF C
    <2> QED
      BY <1>4, <2>2, <2>3
  <1> QED
    BY <1>6

\* client_ip.js:14-22, comfy_follow.js:1-16: for headers of any length and any ports, a
\* visitor through the tunnel is not taken for a local machine, and what is probed is
\* reachable whenever anything is.
THEOREM Choices == PartsSpec => []ChoicesHold
  <1> DEFINE Inv == part = "choice" => ChoiceInv
  <1>1. PartsInit => Inv
    <2> SUFFICES ASSUME D!Init PROVE ChoiceInv
      BY DEF PartsInit
    <2>1. port = 0
      BY DEF D!Init
    <2> QED
      BY <2>1 DEF D!Init, ChoiceInv
  <1>2. Inv /\ [PartsNext]_allVars => Inv'
    <2>1. ASSUME ChoiceInv, D!Decide
          PROVE  ChoiceInv'
      <3>1. UNCHANGED <<peer, hops, cf, listen, cmd, configured>>
        BY <2>1 DEF D!Decide
      <3>2. D!ClientOf' = D!ClientOf /\ D!PortOf' = D!PortOf
        BY <3>1 DEF D!ClientOf, D!Strangers, D!Hop, D!PortOf, D!Reachable
      <3> QED
        BY <2>1, <3>1, <3>2 DEF D!Decide, ChoiceInv
    <2>2. CASE UNCHANGED choiceVars
      <3>1. D!ClientOf' = D!ClientOf /\ D!PortOf' = D!PortOf
        BY <2>2 DEF choiceVars, D!ClientOf, D!Strangers, D!Hop, D!PortOf, D!Reachable
      <3> QED
        BY <2>2, <3>1 DEF choiceVars, ChoiceInv, PartsNext, allVars
    <2>3. CASE UNCHANGED <<part, choiceVars>>
      BY <2>2, <2>3
    <2> QED
      BY <2>1, <2>2, <2>3 DEF PartsNext, allVars, gates
  <1>3. Inv => ChoicesHold
    <2> SUFFICES ASSUME ChoiceInv, port # 0
                 PROVE  /\ peer = "proxy" /\ hops # <<>> /\ hops[Len(hops)] = "loopback"
                              => ~D!Local(client)
                        /\ D!Reachable # {} => port \in D!Reachable
      BY DEF ChoicesHold, D!DecisionsHold
    <2>1. ASSUME peer = "proxy", hops # <<>>, hops[Len(hops)] = "loopback"
          PROVE  ~D!Local(client)
      <3>1. D!Strangers # {} /\ D!Max(D!Strangers) = Len(hops)
        BY <2>1, LastStranger
      <3>2. client = cf
        BY <2>1, <3>1 DEF ChoiceInv, D!ClientOf, D!Hop
      <3> QED
        BY <3>2 DEF ChoiceInv, D!Local, D!None
    <2>2. ASSUME D!Reachable # {}
          PROVE  port \in D!Reachable
      <3>1. D!Reachable \subseteq Nat
        BY GatesAssumption DEF D!ChoicesAssumption, D!Reachable
      <3>2. D!Min(D!Reachable) \in D!Reachable
        BY <2>2, <3>1, Smallest DEF D!Min
      <3> QED
        BY <2>2, <3>2 DEF ChoiceInv, D!PortOf
    <2> QED
      BY <2>1, <2>2
  <1> QED
    BY <1>1, <1>2, <1>3, PTL DEF PartsSpec, allVars

-----------------------------------------------------------------------------
(* The limiter in front of the password. *)

\* What is left of the first n entries, for every n up to the length.
RemainsIs(bs, gone, f) ==
    f = [n \in 0..Len(bs) |->
           IF n = 0 THEN <<>>
           ELSE IF n \in gone THEN f[n - 1] ELSE Append(f[n - 1], bs[n])]

Remains(bs, gone) == CHOOSE f : RemainsIs(bs, gone, f)

LEMMA WithoutRemains ==
    ASSUME NEW bs, NEW gone
    PROVE  L!Without(bs, gone) = Remains(bs, gone)[Len(bs)]
  BY DEF L!Without, Remains, RemainsIs

\* The same as far as n, to show that there is such a function.
UpTo(bs, gone, n, f) ==
    f = [m \in 0..n |->
           IF m = 0 THEN <<>>
           ELSE IF m \in gone THEN f[m - 1] ELSE Append(f[m - 1], bs[m])]

LEMMA RemainsExists ==
    ASSUME NEW bs, NEW gone, Len(bs) \in Nat
    PROVE  RemainsIs(bs, gone, Remains(bs, gone))
  <1> DEFINE Bad == {n \in Nat : ~\E f : UpTo(bs, gone, n, f)}
  <1>1. Bad = {}
    <2>1. SUFFICES ASSUME Bad # {} PROVE FALSE
      OBVIOUS
    <2>2. PICK n \in Bad : \A m \in Bad : n <= m
      <3>1. Bad \subseteq Nat
        OBVIOUS
      <3> HIDE DEF Bad
      <3> QED
        BY <2>1, <3>1, Smallest
    <2>3. n # 0
      <3>1. UpTo(bs, gone, 0, [m \in 0..0 |-> <<>>])
        BY DEF UpTo
      <3> QED
        BY <2>2, <3>1
    <2>4. n - 1 \in Nat /\ n - 1 \notin Bad
      BY <2>2, <2>3
    <2>5. PICK f : UpTo(bs, gone, n - 1, f)
      BY <2>4
    <2> DEFINE last == IF n \in gone THEN f[n - 1] ELSE Append(f[n - 1], bs[n])
               g == [m \in 0..n |-> IF m = n THEN last ELSE f[m]]
               Step(m) == IF m = 0 THEN <<>>
                          ELSE IF m \in gone THEN g[m - 1] ELSE Append(g[m - 1], bs[m])
    <2>6. ASSUME NEW m \in 0..n PROVE g[m] = Step(m)
      <3>1. CASE m = n
        <4>1. n - 1 \in 0..n /\ n - 1 # n
          BY <2>4
        <4> QED
          BY <2>3, <3>1, <4>1
      <3>2. CASE m # n /\ m = 0
        BY <2>4, <2>5, <3>2 DEF UpTo
      <3>3. CASE m # n /\ m # 0
        <4>1. m \in 0..(n - 1) /\ m - 1 \in 0..n /\ m - 1 # n
          BY <2>2, <3>3
        <4>2. f[m] = IF m \in gone THEN f[m - 1] ELSE Append(f[m - 1], bs[m])
          BY <2>5, <3>3, <4>1 DEF UpTo
        <4> QED
          BY <3>3, <4>1, <4>2
      <3> QED
        BY <3>1, <3>2, <3>3
    <2>7. UpTo(bs, gone, n, g)
      <3>1. g = [m \in 0..n |-> g[m]]
        OBVIOUS
      <3>2. g = [m \in 0..n |-> Step(m)]
        BY <2>6, <3>1
      <3> HIDE DEF g
      <3> QED
        BY <3>2 DEF UpTo
    <2> HIDE DEF g
    <2> QED
      BY <2>2, <2>7
  <1>2. \E f : RemainsIs(bs, gone, f)
    BY <1>1 DEF UpTo, RemainsIs
  <1> QED
    BY <1>2 DEF Remains

\* An entry of the map: its lock within the longest, and past the limit as long as what is
\* left of its window.
Entries ==
    {b \in [key : Clients \cup {Peer}, fails : 0..MaxFails, age : 0..Window + 1, left : Nat] :
        /\ b.left <= (IF b.key = Peer THEN Window ELSE MaxLock)
        /\ b.key # Peer /\ b.fails > ClientMax => b.age + b.left >= Window}

\* At most one entry for each key.
Single(bs) == \A i, j \in DOMAIN bs : bs[i].key = bs[j].key => i = j

MapRight(bs) == bs \in Seq(Entries) /\ Single(bs)

LimiterInv ==
    /\ pending \in [Clients -> Nat]
    /\ MapRight(buckets)
    /\ Len(buckets) <= Cap

LEMMA LimiterConstants ==
    /\ ClientMax \in Nat \ {0} /\ PeerMax \in Nat \ {0} /\ Window \in Nat \ {0}
    /\ MaxLock \in Nat \ {0} /\ Cap \in Nat \ {0} /\ MaxFails \in Nat \ {0}
    /\ Window <= MaxLock
  BY GatesAssumption DEF L!LimiterAssumption

\* A map that loses entries is one of them still, and no longer.
LEMMA WithoutRight ==
    ASSUME NEW bs, MapRight(bs), NEW gone
    PROVE  MapRight(L!Without(bs, gone)) /\ Len(L!Without(bs, gone)) <= Len(bs)
  <1> DEFINE f == Remains(bs, gone)
             From(n) == \A k \in 1..Len(f[n]) : \E i \in 1..n : f[n][k] = bs[i]
             Right(n) == f[n] \in Seq(Entries) /\ Single(f[n]) /\ Len(f[n]) <= n /\ From(n)
             Bad == {n \in 0..Len(bs) : ~Right(n)}
  <1>1. Len(bs) \in Nat /\ DOMAIN bs = 1..Len(bs) /\ \A i \in 1..Len(bs) : bs[i] \in Entries
    BY DEF MapRight
  <1>2. RemainsIs(bs, gone, f)
    BY <1>1, RemainsExists
  <1>3. f[0] = <<>>
    BY <1>1, <1>2 DEF RemainsIs
  <1> HIDE DEF f
  <1>4. ASSUME NEW n \in 1..Len(bs)
        PROVE  f[n] = IF n \in gone THEN f[n - 1] ELSE Append(f[n - 1], bs[n])
    <2> DEFINE Step(m) == IF m = 0 THEN <<>>
                          ELSE IF m \in gone THEN f[m - 1] ELSE Append(f[m - 1], bs[m])
               g == [m \in 0..Len(bs) |-> Step(m)]
    <2>1. f = g
      BY <1>2 DEF RemainsIs
    <2>2. n \in 0..Len(bs) /\ n # 0
      BY <1>1, <1>4
    <2>3. g[n] = Step(n)
      BY <2>2
    <2> HIDE DEF g
    <2> QED
      BY <2>1, <2>2, <2>3
  <1>5. Bad = {}
    <2>1. SUFFICES ASSUME Bad # {} PROVE FALSE
      OBVIOUS
    <2>2. PICK n \in Bad : \A m \in Bad : n <= m
      <3>1. Bad \subseteq Nat
        BY <1>1
      <3> HIDE DEF Bad
      <3> QED
        BY <2>1, <3>1, Smallest
    <2>3. n # 0
      <3>1. Right(0)
        BY <1>3 DEF Single
      <3> QED
        BY <2>2, <3>1
    <2>4. n - 1 \in 0..Len(bs) /\ n \in 1..Len(bs) /\ Right(n - 1)
      <3> HIDE DEF Right
      <3>1. n \in 0..Len(bs)
        BY <2>2
      <3>2. n - 1 \in 0..Len(bs) /\ n \in 1..Len(bs) /\ ~(n <= n - 1)
        BY <1>1, <2>3, <3>1
      <3> QED
        BY <2>2, <3>2
    <2>5. 1..(n - 1) \subseteq 1..n
      BY <1>1, <2>4
    <2>6. CASE n \in gone
      <3>1. f[n] = f[n - 1]
        BY <1>4, <2>4, <2>6
      <3> QED
        BY SMTT(30), <2>2, <2>4, <2>5, <3>1
    <2>7. CASE n \notin gone
      <3> DEFINE old == f[n - 1]
      <3>1. f[n] = Append(old, bs[n])
        BY <1>4, <2>4, <2>7
      <3>2. bs[n] \in Entries /\ old \in Seq(Entries) /\ Len(old) <= n - 1
        BY <1>1, <2>4
      <3>3. /\ f[n] \in Seq(Entries) /\ Len(f[n]) = Len(old) + 1 /\ f[n][Len(old) + 1] = bs[n]
            /\ \A k \in 1..Len(old) : f[n][k] = old[k]
        BY <3>1, <3>2
      <3>4. \A k \in 1..Len(old) : \E i \in 1..(n - 1) : old[k] = bs[i]
        BY <2>4, <3>2
      <3>5. \A k \in 1..Len(old) : old[k].key # bs[n].key
        <4>1. \A i \in 1..(n - 1) : bs[i].key # bs[n].key
          BY <1>1, <2>4 DEF MapRight, Single
        <4> QED
          BY <3>4, <4>1
      <3>6. Single(old)
        BY <2>4
      <3> HIDE DEF old
      <3>7. Single(f[n])
        BY <3>2, <3>3, <3>5, <3>6 DEF Single
      <3>8. From(n)
        BY <1>1, <2>4, <2>5, <3>2, <3>3, <3>4
      <3>9. Len(f[n]) <= n
        BY <1>1, <2>4, <3>2, <3>3
      <3> HIDE DEF From
      <3> QED
        BY <2>2, <3>3, <3>7, <3>8, <3>9
    <2> QED
      BY <2>6, <2>7
  <1>6. Right(Len(bs))
    BY <1>1, <1>5
  <1> QED
    BY <1>6, WithoutRemains DEF f, MapRight

\* There are as many subsets of k numbers, and one of them at least.
LEMMA PowerPositive ==
    ASSUME NEW k \in Nat
    PROVE  2 ^ k \in Nat \ {0}
  <1> DEFINE A == SUBSET (1..k)
  <1>1. IsFiniteSet(A) /\ Cardinality(A) = 2 ^ k
    <2>1. IsFiniteSet(1..k) /\ Cardinality(1..k) = k
      BY FS_Interval
    <2> QED
      BY <2>1, FS_SUBSET
  <1>2. {} \in A
    OBVIOUS
  <1> HIDE DEF A
  <1> QED
    BY <1>1, <1>2, FS_EmptySet, FS_CardinalityType

LEMMA AtMostBetween ==
    ASSUME NEW k \in Nat
    PROVE  L!AtMost(Window * 2 ^ k) \in Window..MaxLock
  <1> DEFINE p == 2 ^ k
             n == Window * p
  <1>1. p \in Nat /\ p >= 1 /\ Window \in Nat /\ MaxLock \in Nat /\ Window <= MaxLock
    BY PowerPositive, LimiterConstants
  <1> HIDE DEF p
  <1>2. n \in Nat /\ n >= Window
    BY <1>1
  <1> HIDE DEF n
  <1>3. L!AtMost(n) \in Window..MaxLock
    BY <1>1, <1>2 DEF L!AtMost
  <1> QED
    BY <1>3 DEF n, p

\* A map with the same keys at the same places is one as well.
LEMMA SameKeys ==
    ASSUME NEW bs, MapRight(bs), NEW new, new = [i \in DOMAIN bs |-> new[i]],
           \A i \in DOMAIN bs : new[i] \in Entries /\ new[i].key = bs[i].key
    PROVE  MapRight(new) /\ Len(new) = Len(bs)
  <1>1. DOMAIN bs = 1..Len(bs) /\ Len(bs) \in Nat
    BY DEF MapRight
  <1>2. new \in [1..Len(bs) -> Entries]
    BY <1>1
  <1>3. new \in Seq(Entries) /\ Len(new) = Len(bs) /\ DOMAIN new = DOMAIN bs
    BY <1>1, <1>2
  <1> QED
    BY <1>3 DEF MapRight, Single

\* What a counted failure makes of an entry is an entry.
LEMMA CountedRight ==
    ASSUME NEW b \in Entries, NEW n, n = L!Counted(b)
    PROVE  [b EXCEPT !.fails = n, !.left = L!LockOf(b.key, n, b.left)] \in Entries
  <1>1. /\ b \in [key : Clients \cup {Peer}, fails : 0..MaxFails, age : 0..Window + 1, left : Nat]
        /\ b.left <= (IF b.key = Peer THEN Window ELSE MaxLock)
        /\ b.key # Peer /\ b.fails > ClientMax => b.age + b.left >= Window
    BY DEF Entries
  <1>2. n \in 0..MaxFails /\ n >= b.fails
    BY <1>1, LimiterConstants DEF L!Counted
  <1> DEFINE lock == L!LockOf(b.key, n, b.left)
             after == [b EXCEPT !.fails = n, !.left = lock]
  <1>3. /\ lock \in Nat
        /\ lock <= (IF b.key = Peer THEN Window ELSE MaxLock)
        /\ b.key # Peer /\ n > ClientMax => b.age + lock >= Window
    <2>1. CASE b.key = Peer
      BY <1>1, <1>2, <2>1, LimiterConstants DEF L!LockOf
    <2>2. CASE b.key # Peer /\ n > ClientMax
      <3>1. n - ClientMax - 1 \in Nat
        BY <1>2, <2>2, LimiterConstants
      <3>2. lock \in Window..MaxLock
        BY <2>2, <3>1, AtMostBetween DEF L!LockOf
      <3> HIDE DEF lock
      <3> QED
        BY <1>1, <2>2, <3>2, LimiterConstants
    <2>3. CASE b.key # Peer /\ ~(n > ClientMax)
      <3>1. lock = b.left
        BY <2>3 DEF L!LockOf
      <3> HIDE DEF lock
      <3> QED
        BY <1>1, <1>2, <2>3, <3>1, LimiterConstants
    <2> QED
      BY <2>1, <2>2, <2>3
  <1> HIDE DEF lock
  <1>4. /\ after \in [key : Clients \cup {Peer}, fails : 0..MaxFails, age : 0..Window + 1,
                      left : Nat]
        /\ after.key = b.key /\ after.fails = n /\ after.age = b.age /\ after.left = lock
    BY <1>1, <1>2, <1>3
  <1> HIDE DEF after
  <1>5. after \in Entries
    BY <1>3, <1>4 DEF Entries
  <1> QED
    BY <1>5 DEF after, lock

LEMMA FreshRight ==
    ASSUME NEW key \in Clients \cup {Peer}
    PROVE  L!Fresh(key) \in Entries
  BY LimiterConstants DEF L!Fresh, Entries

\* The place of a key is found, or made at the end.
LEMMA BucketRight ==
    ASSUME NEW bs, MapRight(bs), NEW key \in Clients \cup {Peer}
    PROVE  MapRight(L!Bucket(bs, key))
  <1>1. bs \in Seq(Entries) /\ Single(bs)
    BY DEF MapRight
  <1>2. CASE L!At(bs, key) = {}
    <2>1. L!Bucket(bs, key) = Append(bs, L!Fresh(key))
      BY <1>2 DEF L!Bucket
    <2>2. \A i \in DOMAIN bs : bs[i].key # key
      BY <1>2 DEF L!At
    <2>3. L!Fresh(key) \in Entries /\ L!Fresh(key).key = key
      BY FreshRight DEF L!Fresh
    <2> DEFINE new == L!Fresh(key)
    <2> HIDE DEF new
    <2>4. Append(bs, new) \in Seq(Entries)
      BY <1>1, <2>3 DEF new
    <2>5. Single(Append(bs, new))
      BY <1>1, <2>2, <2>3 DEF Single, new
    <2> QED
      BY <2>1, <2>4, <2>5 DEF MapRight, new
  <1>3. CASE L!At(bs, key) # {}
    <2> DEFINE found == [i \in DOMAIN bs |->
                           IF bs[i].key = key /\ L!Expired(bs[i]) THEN L!Fresh(key) ELSE bs[i]]
    <2>1. L!Bucket(bs, key) = found
      BY <1>3 DEF L!Bucket
    <2>2. \A i \in DOMAIN bs : found[i] \in Entries /\ found[i].key = bs[i].key
      BY <1>1, FreshRight DEF L!Fresh
    <2>3. found = [i \in DOMAIN bs |-> found[i]]
      OBVIOUS
    <2> HIDE DEF found
    <2> QED
      BY <2>1, <2>2, <2>3, SameKeys
  <1> QED
    BY <1>2, <1>3

LEMMA FailedRight ==
    ASSUME NEW bs, MapRight(bs), NEW key \in Clients \cup {Peer}
    PROVE  MapRight(L!Failed(bs, key))
  <1> DEFINE found == L!Bucket(bs, key)
             Counted(b) == [b EXCEPT !.fails = L!Counted(b),
                                     !.left = L!LockOf(key, L!Counted(b), @)]
             new == [i \in DOMAIN found |->
                       IF found[i].key # key THEN found[i] ELSE Counted(found[i])]
  <1>1. MapRight(found)
    BY BucketRight
  <1>2. L!Failed(bs, key) = new
    BY DEF L!Failed
  <1> HIDE DEF found
  <1>3. \A i \in DOMAIN found : found[i] \in Entries
    BY <1>1 DEF MapRight
  <1>4. ASSUME NEW b \in Entries, b.key = key
        PROVE  Counted(b) \in Entries /\ Counted(b).key = key
    <2>1. [b EXCEPT !.fails = L!Counted(b), !.left = L!LockOf(b.key, L!Counted(b), b.left)]
             \in Entries
      BY CountedRight
    <2>2. b \in [key : Clients \cup {Peer}, fails : 0..MaxFails, age : 0..Window + 1, left : Nat]
      BY DEF Entries
    <2>3. Counted(b).key = b.key
      BY <2>2
    <2> QED
      BY <1>4, <2>1, <2>3
  <1> HIDE DEF Counted
  <1>5. \A i \in DOMAIN found : new[i] \in Entries /\ new[i].key = found[i].key
    BY <1>3, <1>4
  <1>6. new = [i \in DOMAIN found |-> new[i]]
    OBVIOUS
  <1> HIDE DEF new
  <1>7. MapRight(new)
    BY <1>1, <1>5, <1>6, SameKeys
  <1> QED
    BY <1>2, <1>7

LEMMA PrunedRight ==
    ASSUME NEW bs, MapRight(bs)
    PROVE  MapRight(L!Pruned(bs)) /\ Len(L!Pruned(bs)) <= Cap
  <1> DEFINE live == L!Without(bs, L!Passed(bs))
             over == IF Len(live) > Cap THEN Len(live) - Cap ELSE 0
  <1>1. L!Pruned(bs) = IF Len(bs) <= Cap THEN bs ELSE SubSeq(live, over + 1, Len(live))
    BY DEF L!Pruned
  <1>2. MapRight(live)
    BY WithoutRight
  <1>3. Cap \in Nat
    BY LimiterConstants
  <1> HIDE DEF live
  <1>4. live \in Seq(Entries) /\ Len(live) \in Nat /\ DOMAIN live = 1..Len(live)
    BY <1>2 DEF MapRight
  <1>5. over \in Nat /\ over <= Len(live) /\ Len(live) - over <= Cap
    BY <1>3, <1>4
  <1> HIDE DEF over
  <1> DEFINE new == SubSeq(live, over + 1, Len(live))
  <1>6. /\ new \in Seq(Entries) /\ Len(new) = Len(live) - over
        /\ \A i \in 1..Len(new) : new[i] = live[i + over]
    <2>1. \A i \in over + 1 .. Len(live) : live[i] \in Entries
      BY <1>4, <1>5
    <2>2. over + 1 \in Int /\ Len(live) \in Int /\ Len(live) - (over + 1) + 1 = Len(live) - over
      BY <1>4, <1>5
    <2>3. /\ new \in Seq(Entries)
          /\ Len(new) = IF over + 1 <= Len(live) THEN Len(live) - (over + 1) + 1 ELSE 0
          /\ \A i \in 1 .. Len(live) - (over + 1) + 1 : new[i] = live[over + 1 + i - 1]
      BY <2>1, <2>2, SubSeqProperties
    <2> HIDE DEF new
    <2>4. Len(new) = Len(live) - over
      <3>1. PICK n, m : n = Len(live) /\ m = Len(new)
        OBVIOUS
      <3>2. m = IF over + 1 <= n THEN n - (over + 1) + 1 ELSE 0
        BY <2>3, <3>1
      <3>3. n \in Nat /\ over \in Nat /\ over <= n
        BY <1>4, <1>5, <3>1
      <3>4. m = n - over
        BY <3>2, <3>3
      <3> QED
        BY <3>1, <3>4
    <2>5. ASSUME NEW i \in 1..Len(new)
          PROVE  new[i] = live[i + over]
      <3>1. i \in 1 .. Len(live) - (over + 1) + 1 /\ over + 1 + i - 1 = i + over
        BY <1>4, <1>5, <2>4
      <3> QED
        BY <2>3, <3>1
    <2> QED
      BY <2>3, <2>4, <2>5
  <1> HIDE DEF new
  <1>7. Single(new)
    <2> SUFFICES ASSUME NEW i \in DOMAIN new, NEW j \in DOMAIN new, new[i].key = new[j].key
                 PROVE  i = j
      BY DEF Single
    <2>1. i \in 1..Len(new) /\ j \in 1..Len(new)
      BY <1>6
    <2>2. i + over \in DOMAIN live /\ j + over \in DOMAIN live
      BY <1>4, <1>5, <1>6, <2>1
    <2>3. i + over = j + over
      BY <1>2, <1>6, <2>1, <2>2 DEF MapRight, Single
    <2> QED
      BY <1>5, <2>1, <2>3
  <1>8. MapRight(new) /\ Len(new) <= Cap
    BY <1>5, <1>6, <1>7 DEF MapRight
  <1> QED
    BY <1>1, <1>8 DEF new

LEMMA LimiterInit == L!Init => LimiterInv
  <1> SUFFICES ASSUME L!Init PROVE LimiterInv
    OBVIOUS
  <1>1. buckets = <<>> /\ pending \in [Clients -> Nat]
    BY DEF L!Init
  <1>2. MapRight(<<>>) /\ Len(<<>>) <= Cap
    BY LimiterConstants DEF MapRight, Single
  <1> QED
    BY <1>1, <1>2 DEF LimiterInv

LEMMA LimiterStep ==
    ASSUME LimiterInv, L!Next
    PROVE  LimiterInv'
  <1>1. MapRight(buckets) /\ pending \in [Clients -> Nat] /\ Len(buckets) <= Cap
    BY DEF LimiterInv
  <1>2. CASE L!Tick
    <2> DEFINE Older(b) == [b EXCEPT !.age = IF @ > Window THEN @ ELSE @ + 1,
                                     !.left = IF @ > 0 THEN @ - 1 ELSE 0]
               new == [i \in DOMAIN buckets |-> Older(buckets[i])]
    <2>1. buckets' = new /\ pending' = pending
      BY <1>2 DEF L!Tick
    <2>2. ASSUME NEW b \in Entries
          PROVE  Older(b) \in Entries /\ Older(b).key = b.key
      <3>1. /\ b \in [key : Clients \cup {Peer}, fails : 0..MaxFails, age : 0..Window + 1,
                      left : Nat]
            /\ b.left <= (IF b.key = Peer THEN Window ELSE MaxLock)
            /\ b.key # Peer /\ b.fails > ClientMax => b.age + b.left >= Window
        BY DEF Entries
      <3> DEFINE age == IF b.age > Window THEN b.age ELSE b.age + 1
                 left == IF b.left > 0 THEN b.left - 1 ELSE 0
                 after == [b EXCEPT !.age = age, !.left = left]
      <3>2. /\ age \in 0..Window + 1 /\ left \in Nat
            /\ left <= (IF b.key = Peer THEN Window ELSE MaxLock)
            /\ b.key # Peer /\ b.fails > ClientMax => age + left >= Window
        BY <3>1, LimiterConstants
      <3>3. Older(b) = after
        OBVIOUS
      <3> HIDE DEF age, left
      <3>4. /\ after \in [key : Clients \cup {Peer}, fails : 0..MaxFails, age : 0..Window + 1,
                          left : Nat]
            /\ after.key = b.key /\ after.fails = b.fails /\ after.age = age /\ after.left = left
        BY <3>1, <3>2
      <3> HIDE DEF after
      <3>5. after \in Entries
        BY <3>2, <3>4 DEF Entries
      <3> QED
        BY <3>3, <3>4, <3>5
    <2> HIDE DEF Older
    <2>3. \A i \in DOMAIN buckets : new[i] \in Entries /\ new[i].key = buckets[i].key
      BY <1>1, <2>2 DEF MapRight
    <2>4. new = [i \in DOMAIN buckets |-> new[i]]
      OBVIOUS
    <2> HIDE DEF new
    <2>5. MapRight(new) /\ Len(new) = Len(buckets)
      BY <1>1, <2>3, <2>4, SameKeys
    <2> QED
      BY <1>1, <2>1, <2>5 DEF LimiterInv, MapRight, Single
  <1>3. ASSUME NEW c \in Clients, L!LogIn(c) \/ L!Wrong(c) \/ L!Right(c)
        PROVE  LimiterInv'
    <2>1. pending' \in [Clients -> Nat]
      BY <1>1, <1>3 DEF L!LogIn, L!Attempt, L!Wrong, L!Right, L!Verified
    <2>2. PICK bs : MapRight(bs) /\ Len(bs) <= Cap /\ buckets' = bs
      <3>1. CASE L!LogIn(c)
        BY <1>1, <3>1, PrunedRight DEF L!LogIn, L!Attempt
      <3>2. CASE L!Wrong(c)
        <4>1. MapRight(L!Failed(buckets, c))
          BY <1>1, FailedRight
        <4>2. MapRight(L!Failed(L!Failed(buckets, c), Peer))
          BY <4>1, FailedRight
        <4> QED
          BY <3>2, <4>2, PrunedRight DEF L!Wrong
      <3>3. CASE L!Right(c)
        <4> DEFINE bs == L!Without(buckets, L!At(buckets, c))
        <4>1. MapRight(bs) /\ Len(bs) <= Len(buckets) /\ buckets' = bs
          BY <1>1, <3>3, WithoutRight DEF L!Right
        <4>2. Len(bs) \in Nat /\ Len(buckets) \in Nat /\ Cap \in Nat
          BY <1>1, <4>1, LimiterConstants DEF MapRight
        <4> HIDE DEF bs
        <4>3. Len(bs) <= Cap
          BY <1>1, <4>1, <4>2
        <4> QED
          BY <4>1, <4>3
      <3> QED
        BY <1>3, <3>1, <3>2, <3>3
    <2> QED
      BY <2>1, <2>2 DEF LimiterInv, MapRight, Single
  <1> QED
    BY <1>2, <1>3 DEF L!Next

\* auth.js:61, 91-123: for any clients, limits and windows, the map stays within its cap
\* with one entry for each key, no lock is longer than the longest, and a client past its
\* limit stays locked for the rest of its window.
THEOREM Limiter == PartsSpec => []LimiterHolds
  <1> DEFINE Inv == part = "limiter" => LimiterInv
  <1>1. PartsInit => Inv
    BY LimiterInit DEF PartsInit
  <1>2. Inv /\ [PartsNext]_allVars => Inv'
    <2>1. CASE PartsNext
      BY <2>1, LimiterStep DEF PartsNext
    <2>2. CASE UNCHANGED allVars
      BY <2>2 DEF allVars, gates, limitVars, LimiterInv, MapRight, Single
    <2> QED
      BY <2>1, <2>2
  <1>3. Inv => LimiterHolds
    <2> SUFFICES ASSUME LimiterInv PROVE L!LimiterHolds
      BY DEF LimiterHolds
    <2>1. ASSUME NEW i \in DOMAIN buckets
          PROVE  /\ buckets[i].left <= (IF buckets[i].key = Peer THEN Window ELSE MaxLock)
                 /\ buckets[i].key # Peer /\ buckets[i].fails > ClientMax
                       /\ buckets[i].age < Window => buckets[i].left > 0
      <3> DEFINE b == buckets[i]
      <3>1. b \in Entries
        BY DEF LimiterInv, MapRight
      <3> HIDE DEF b
      <3>2. /\ b.left <= (IF b.key = Peer THEN Window ELSE MaxLock)
            /\ b.key # Peer /\ b.fails > ClientMax /\ b.age < Window => b.left > 0
        BY <3>1, LimiterConstants DEF Entries
      <3> QED
        BY <3>2 DEF b
    <2> QED
      BY <2>1 DEF LimiterInv, MapRight, Single, L!LimiterHolds
  <1> QED
    BY <1>1, <1>2, <1>3, PTL DEF PartsSpec, allVars

=============================================================================
