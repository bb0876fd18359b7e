----------------------------- MODULE LoginLimiter -----------------------------
\* The limiter of the login and password forms (auth.js:63-123, index.js:433-451 and
\* 482-507): failures are counted per client and per socket peer, and a password is
\* verified between the check and the count.
EXTENDS Naturals, Sequences

CONSTANTS
    Clients,       \* client addresses
    Peer,          \* the socket peer they all come through
    ClientMax,     \* CLIENT_MAX
    PeerMax,       \* PEER_MAX
    Window,        \* CLIENT_WINDOW_MS and PEER_WINDOW_MS
    MaxLock,       \* CLIENT_MAX_LOCK_MS
    Cap,           \* BUCKET_CAP
    MaxPending,    \* bound: passwords verified at a time
    MaxFails       \* bound: the failures a bucket counts

LimiterAssumption ==
    /\ {ClientMax, PeerMax, Window, MaxLock, Cap, MaxPending, MaxFails} \subseteq Nat \ {0}
    /\ Window <= MaxLock

VARIABLES
    buckets,       \* the map, in insertion order: key, failures, age, lock left
    pending        \* client -> passwords of its being verified

vars == <<buckets, pending>>

Init == buckets = <<>> /\ pending = [c \in Clients |-> 0]

-----------------------------------------------------------------------------
At(bs, key) == {i \in DOMAIN bs : bs[i].key = key}
Fresh(key) == [key |-> key, fails |-> 0, age |-> 0, left |-> 0]
Expired(b) == b.age > Window /\ b.left = 0

\* _bucket: a bucket whose window and lock have passed begins anew in its place.
Bucket(bs, key) ==
    IF At(bs, key) = {} THEN Append(bs, Fresh(key))
    ELSE [i \in DOMAIN bs |-> IF bs[i].key = key /\ Expired(bs[i]) THEN Fresh(key) ELSE bs[i]]

Counted(b) == IF b.fails < MaxFails THEN b.fails + 1 ELSE MaxFails
AtMost(n) == IF n < MaxLock THEN n ELSE MaxLock
LockOf(key, fails, left) ==
    IF key = Peer THEN IF fails > PeerMax THEN Window ELSE left
    ELSE IF fails > ClientMax THEN AtMost(Window * 2 ^ (fails - ClientMax - 1)) ELSE left

Failed(bs, key) ==
    LET found == Bucket(bs, key)
    IN  [i \in DOMAIN found |->
           IF found[i].key # key THEN found[i]
           ELSE [found[i] EXCEPT !.fails = Counted(found[i]),
                                 !.left = LockOf(key, Counted(found[i]), @)]]

\* The entries of a map that loses those at some of its places, in the order they had.
Without(bs, gone) ==
    LET left[n \in 0..Len(bs)] ==
          IF n = 0 THEN <<>>
          ELSE IF n \in gone THEN left[n - 1] ELSE Append(left[n - 1], bs[n])
    IN  left[Len(bs)]

Passed(bs) == {i \in DOMAIN bs : Expired(bs[i])}

\* Wrong on purpose, to show that LimiterHolds sees it: a full map of running entries keeps
\* growing.
PrunedIfOld(bs) == IF Len(bs) <= Cap THEN bs ELSE Without(bs, Passed(bs))

\* _prune: past its cap the map loses what has passed, and then its oldest entries.
Pruned(bs) ==
    LET live == Without(bs, Passed(bs))
    IN  IF Len(bs) <= Cap THEN bs
        ELSE SubSeq(live, (IF Len(live) > Cap THEN Len(live) - Cap ELSE 0) + 1, Len(live))

Locked(bs, key) == \E i \in At(bs, key) : bs[i].left > 0
Refused(c) == Locked(buckets, c) \/ Locked(buckets, Peer)

-----------------------------------------------------------------------------
\* check: a refused request changes nothing.
Admit(c) == ~Refused(c)

\* Wrong on purpose, to show that LocksAndPollsEnd sees it: an attempt during a lock counts
\* as a failure.
AttemptCounts(c) ==
    /\ IF Admit(c)
       THEN pending' = [pending EXCEPT ![c] = @ + 1] /\ buckets' = Pruned(buckets)
       ELSE buckets' = Pruned(Failed(Failed(Pruned(buckets), c), Peer)) /\ UNCHANGED pending

Attempt(c) ==
    /\ buckets' = Pruned(buckets)
    /\ pending' = IF Admit(c) THEN [pending EXCEPT ![c] = @ + 1] ELSE pending

LogIn(c) == pending[c] < MaxPending /\ Attempt(c)

\* The password was verified: a wrong one counts for the client and for the peer, a
\* right one clears the client.
Verified(c) == pending[c] > 0 /\ pending' = [pending EXCEPT ![c] = @ - 1]

Wrong(c) ==
    /\ Verified(c)
    /\ buckets' = Pruned(Failed(Failed(buckets, c), Peer))

Right(c) ==
    /\ Verified(c)
    /\ buckets' = Without(buckets, At(buckets, c))

Tick ==
    /\ buckets # <<>>
    /\ buckets' = [i \in DOMAIN buckets |->
                     [buckets[i] EXCEPT !.age = IF @ > Window THEN @ ELSE @ + 1,
                                        !.left = IF @ > 0 THEN @ - 1 ELSE 0]]
    /\ UNCHANGED pending

Next ==
    \/ Tick
    \/ \E c \in Clients : LogIn(c) \/ Wrong(c) \/ Right(c)

\* Time passes, and a password that is being verified is answered.
Fairness == WF_vars(Tick) /\ \A c \in Clients : WF_pending(Verified(c))

Spec == Init /\ [][Next]_vars /\ Fairness
-----------------------------------------------------------------------------
\* The map stays within its cap with one entry for each key, no lock is longer than the
\* longest, and a client over its limit stays locked for the rest of its window, however
\* many of its passwords were being verified when it got there (auth.js:61, 91-111).
LimiterHolds ==
    /\ Len(buckets) <= Cap
    /\ \A i, j \in DOMAIN buckets : buckets[i].key = buckets[j].key => i = j
    /\ \A i \in DOMAIN buckets :
         LET b == buckets[i]
         IN  /\ b.left <= (IF b.key = Peer THEN Window ELSE MaxLock)
             /\ b.key # Peer /\ b.fails > ClientMax /\ b.age < Window => b.left > 0

\* Nobody is locked out for good: again and again each client may try, whatever it and
\* the others behind the same proxy do meanwhile.
LocksEnd == \A c \in Clients : []<>Admit(c)
================================================================================
