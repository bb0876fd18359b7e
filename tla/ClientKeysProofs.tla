-------------------------- MODULE ClientKeysProofs --------------------------
(***************************************************************************)
(* What holds of the client keys for any number of requests, names and     *)
(* keys, whichever calls fail; and of the parts MCClientKeys puts beside   *)
(* them, the panels of the page, discovery and the ComfyUI collector, for  *)
(* any sessions, hosts, places, workers, jobs and node objects.            *)
(***************************************************************************)
EXTENDS MCClientKeys, Sequences, FiniteSetTheorems, TLAPS

\* What TypeOK says of a request.
CallType == [op : {"none", "show", "mint", "revoke"},
             at : {"idle", "list", "post", "posted"},
             name : Names \cup {"none"}, key : SUBSET Key]

\* A request that mints has the name of a client.
Named(c) == c.op = "mint" => c.name \in Names
AllNamed == \A r \in Requests : Named(call[r])

\* Every key anybody knows of was made: its number is below the next one.
Issued(S) == \A k \in S : k.id < made

KeysIssued == \A r \in Requests : Issued(call[r].key)

AllIssued ==
    /\ Issued(proxy) /\ Issued(cache.keys) /\ Issued(listing.keys)
    /\ Issued(sure) /\ Issued(gone)
    /\ KeysIssued

\* What a listing the proxy has answered, and the cache, hold and do not hold.
ListingRight ==
    /\ listing.at = "read" => sure \cap proxy \subseteq listing.keys
    /\ listing.at # "read" => listing.keys = {}
    /\ listing.keys \cap gone = {}

\* A revoked key is not at the proxy, nor is one whose revocation the proxy has carried out.
RevokedIsAway ==
    /\ proxy \cap gone = {}
    /\ \A r \in Requests : call[r].op = "revoke" /\ call[r].at = "posted" =>
           call[r].key \cap proxy = {}

IInv ==
    /\ TypeOK /\ AllNamed /\ AllIssued /\ ListingRight /\ RevokedIsAway
    /\ MintedKeysListed /\ RevokedKeysGone

LEMMA InitHolds == Init => IInv
BY DEF Init, IInv, TypeOK, AllNamed, Named, AllIssued, KeysIssued, Issued, ListingRight, RevokedIsAway,
       MintedKeysListed, RevokedKeysGone, NoCache, NoListing, Idle

-----------------------------------------------------------------------------
(* Steps that leave the keys alone. *)

LEMMA BeginStep ==
    ASSUME IInv, NEW r \in Requests, BeginShow(r) \/ BeginMint(r) \/ BeginRevoke(r)
    PROVE  IInv'
<1> USE DEF IInv
<1> DEFINE Begun(c) == /\ call' = [call EXCEPT ![r] = c]
                       /\ c \in CallType
                       /\ c.key = {} \/ \E k \in proxy \cup cache.keys : c.key = {k}
                       /\ c.at # "posted" /\ Named(c)
<1>1. PICK c : Begun(c)
  <2>1. CASE BeginShow(r)
    <3>1. Begun(Show)
      BY <2>1 DEF BeginShow, Show, Idle, Named, CallType
    <3> QED BY <3>1
  <2>2. CASE BeginMint(r)
    <3>1. PICK n \in Names : call' = [call EXCEPT ![r] = Mint(n)]
      BY <2>2 DEF BeginMint
    <3>2. Begun(Mint(n))
      BY <3>1 DEF Mint, Idle, Named, CallType
    <3> QED BY <3>2
  <2>3. CASE BeginRevoke(r)
    <3>1. PICK k \in proxy \cup cache.keys : call' = [call EXCEPT ![r] = Revoke(k)]
      BY <2>3 DEF BeginRevoke
    <3>2. k \in Key
      BY <3>1 DEF TypeOK
    <3>3. Begun(Revoke(k))
      BY <3>1, <3>2 DEF Revoke, Idle, Named, CallType
    <3> QED BY <3>3
  <2> QED BY <2>1, <2>2, <2>3
<1>2. UNCHANGED <<proxy, made, cache, confirmed, sure, gone>>
  BY DEF BeginShow, BeginMint, BeginRevoke, audit
<1>3. listing' = listing \/ (listing.at = "none" /\ listing' = Listing)
  BY DEF BeginShow, BeginMint, BeginRevoke, Join
<1>4. TypeOK' /\ AllNamed'
  BY <1>1, <1>2, <1>3 DEF TypeOK, CallType, AllNamed, Listing
<1>5. Issued(c.key)
  BY <1>1 DEF AllIssued, KeysIssued, Issued
<1>6. AllIssued'
  BY <1>1, <1>2, <1>3, <1>5 DEF AllIssued, KeysIssued, Issued, Listing, TypeOK
<1>7. ListingRight'
  BY <1>2, <1>3 DEF ListingRight, Listing
<1>8. RevokedIsAway'
  BY <1>1, <1>2 DEF RevokedIsAway, TypeOK
<1>9. MintedKeysListed' /\ RevokedKeysGone'
  BY <1>2 DEF MintedKeysListed, RevokedKeysGone
<1> QED BY <1>4, <1>6, <1>7, <1>8, <1>9

LEMMA ProxyListsStep ==
    ASSUME IInv, ProxyLists
    PROVE  IInv'
BY DEF IInv, ProxyLists, audit, TypeOK, AllNamed, AllIssued, KeysIssued, Issued, ListingRight, RevokedIsAway,
       MintedKeysListed, RevokedKeysGone

\* Requests that stop waiting keep their key or lose it.
LEMMA CallsEase ==
    ASSUME IInv, UNCHANGED <<proxy, made, gone>>,
           call' \in [Requests -> CallType],
           \A r \in Requests : call'[r] = call[r] \/ call'[r] = Idle
                               \/ (call'[r].key = call[r].key /\ call'[r].at = "post")
    PROVE  /\ KeysIssued'
           /\ RevokedIsAway'
BY DEF IInv, AllIssued, KeysIssued, Issued, RevokedIsAway, Idle

LEMMA ListedStep ==
    ASSUME IInv, Listed
    PROVE  IInv'
<1> USE DEF IInv
<1>1. ASSUME NEW r \in Requests
      PROVE  /\ call'[r] \in CallType /\ Named(call'[r])
             /\ call'[r] = call[r] \/ call'[r] = Idle
                \/ (call'[r].key = call[r].key /\ call'[r].at = "post")
  <2>1. call[r] \in CallType /\ Named(call[r])
    BY DEF TypeOK, CallType, AllNamed
  <2>2. \/ call'[r] = call[r] \/ call'[r] = Idle
        \/ call'[r] = [call[r] EXCEPT !.at = "post"]
    BY DEF Listed, Resumed
  <2>3. Idle \in CallType /\ Named(Idle)
    BY DEF Idle, CallType, Named
  <2>4. CASE call'[r] = [call[r] EXCEPT !.at = "post"]
    <3>1. [call[r] EXCEPT !.at = "post"] \in CallType
      BY <2>1 DEF CallType
    <3>2. /\ [call[r] EXCEPT !.at = "post"].key = call[r].key
          /\ [call[r] EXCEPT !.at = "post"].at = "post"
          /\ [call[r] EXCEPT !.at = "post"].op = call[r].op
          /\ [call[r] EXCEPT !.at = "post"].name = call[r].name
      BY <2>1 DEF CallType
    <3> QED BY <2>1, <2>4, <3>1, <3>2 DEF Named
  <2> QED BY <2>1, <2>2, <2>3, <2>4
<1>2. call' \in [Requests -> CallType] /\ AllNamed'
  BY <1>1 DEF Listed, AllNamed
<1>3. UNCHANGED <<proxy, made, confirmed, sure, gone>>
  BY DEF Listed, audit
<1>4. KeysIssued' /\ RevokedIsAway'
  BY <1>1, <1>2, <1>3, CallsEase
<1>5. cache' = Cached(listing.keys) /\ listing' = NoListing /\ listing.at = "read"
  BY DEF Listed
<1>6. TypeOK'
  BY <1>2, <1>3, <1>5 DEF TypeOK, CallType, Cached, NoListing
<1>7. AllIssued'
  BY <1>3, <1>4, <1>5 DEF AllIssued, Issued, Cached, NoListing
<1>8. ListingRight' /\ MintedKeysListed' /\ RevokedKeysGone'
  BY <1>3, <1>5 DEF ListingRight, MintedKeysListed, RevokedKeysGone, Cached, NoListing
<1> QED BY <1>2, <1>4, <1>6, <1>7, <1>8

LEMMA ListingFailsStep ==
    ASSUME IInv, ListingFails
    PROVE  IInv'
<1> USE DEF IInv
<1>1. call \in [Requests -> CallType] /\ Idle \in CallType /\ Named(Idle)
  BY DEF TypeOK, Idle, CallType, Named
<1>2. /\ call' \in [Requests -> CallType]
      /\ \A r \in Requests : call'[r] = call[r] \/ call'[r] = Idle
  BY <1>1 DEF ListingFails
<1>3. UNCHANGED <<proxy, made, cache, confirmed, sure, gone>> /\ listing' = NoListing
  BY DEF ListingFails, audit, Cleared
<1>4. KeysIssued' /\ RevokedIsAway'
  BY <1>2, <1>3, CallsEase
<1>5. TypeOK' /\ AllNamed'
  BY <1>1, <1>2, <1>3 DEF TypeOK, CallType, AllNamed, NoListing
<1>6. AllIssued'
  BY <1>3, <1>4 DEF AllIssued, Issued, NoListing
<1>7. ListingRight' /\ MintedKeysListed' /\ RevokedKeysGone'
  BY <1>3 DEF ListingRight, MintedKeysListed, RevokedKeysGone, NoListing
<1> QED BY <1>4, <1>5, <1>6, <1>7

LEMMA CacheExpiresStep ==
    ASSUME IInv, CacheExpires
    PROVE  IInv'
BY DEF IInv, CacheExpires, audit, NoCache, TypeOK, AllNamed, AllIssued, KeysIssued, Issued, ListingRight,
       RevokedIsAway, MintedKeysListed, RevokedKeysGone

-----------------------------------------------------------------------------
(* Steps that change the keys. *)

\* A key just made is nobody's but its maker's.
LEMMA NewKeyNew ==
    ASSUME IInv, NEW n \in Names
    PROVE  /\ NewKey(n) \in Key /\ NewKey(n).id = made
           /\ NewKey(n) \notin proxy \cup cache.keys \cup listing.keys \cup sure \cup gone
           /\ \A r \in Requests : NewKey(n) \notin call[r].key
<1>1. NewKey(n) \in Key /\ NewKey(n).id = made
  BY DEF NewKey, Key, IInv, TypeOK
<1>2. ~(made < made)
  BY DEF IInv, TypeOK
<1> QED BY <1>1, <1>2 DEF IInv, AllIssued, KeysIssued, Issued

LEMMA AddKeyKeeps ==
    ASSUME IInv, NEW n \in Names, proxy' = proxy \cup {NewKey(n)}, made' = made + 1,
           UNCHANGED <<cache, listing, confirmed, sure, gone>>,
           \A r \in Requests : call'[r] = call[r] \/
               (call'[r].key = {NewKey(n)} /\ call'[r].op = "mint")
    PROVE  /\ AllIssued' /\ ListingRight' /\ RevokedIsAway'
           /\ MintedKeysListed' /\ RevokedKeysGone'
<1> USE DEF IInv
<1>1. made \in Nat /\ NewKey(n).id = made
  BY NewKeyNew DEF TypeOK
<1>2. \A k \in Key : k.id < made => k.id < made + 1
  BY <1>1 DEF Key
<1>3. /\ proxy \subseteq Key /\ cache.keys \subseteq Key /\ listing.keys \subseteq Key
      /\ sure \subseteq Key /\ gone \subseteq Key
      /\ \A r \in Requests : call[r].key \subseteq Key
  BY DEF TypeOK
<1>4. NewKey(n).id < made'
  BY <1>1
<1>5. AllIssued'
  BY <1>2, <1>3, <1>4 DEF AllIssued, KeysIssued, Issued
<1>6. sure \cap proxy' = sure \cap proxy /\ proxy' \cap gone = {}
  BY NewKeyNew DEF RevokedIsAway
<1>7. RevokedIsAway'
  BY <1>6, NewKeyNew DEF RevokedIsAway
<1>8. ListingRight' /\ MintedKeysListed' /\ RevokedKeysGone'
  BY <1>6 DEF ListingRight, MintedKeysListed, RevokedKeysGone
<1> QED BY <1>5, <1>7, <1>8

LEMMA ProxyMintsStep ==
    ASSUME IInv, NEW r \in Requests, ProxyMints(r)
    PROVE  IInv'
<1> USE DEF IInv
<1> DEFINE n == call[r].name
           c == [call[r] EXCEPT !.at = "posted", !.key = {NewKey(n)}]
<1>1. call[r] \in CallType /\ call[r].op = "mint" /\ n \in Names
  BY DEF TypeOK, CallType, ProxyMints, AllNamed, Named
<1>2. NewKey(n) \in Key
  BY <1>1, NewKeyNew
<1>3. c \in CallType /\ c.op = "mint" /\ c.key = {NewKey(n)} /\ Named(c)
  BY <1>1, <1>2 DEF CallType, Named
<1>4. call' = [call EXCEPT ![r] = c]
  BY <1>1 DEF ProxyMints, CallType
<1>5. call \in [Requests -> CallType]
  BY DEF TypeOK, CallType
<1> HIDE DEF c
<1>6. /\ call' \in [Requests -> CallType]
      /\ \A q \in Requests : call'[q] = call[q] \/ call'[q] = c
  BY <1>3, <1>4, <1>5
<1>7. /\ proxy' = proxy \cup {NewKey(n)} /\ made' = made + 1
      /\ UNCHANGED <<cache, listing, confirmed, sure, gone>>
  BY DEF ProxyMints, audit
<1>8. TypeOK'
  BY <1>2, <1>6, <1>7 DEF TypeOK, CallType
<1>9. AllNamed'
  BY <1>3, <1>6 DEF AllNamed
<1>10. \A q \in Requests : call'[q] = call[q] \/
           (call'[q].key = {NewKey(n)} /\ call'[q].op = "mint")
  BY <1>3, <1>6
<1> QED BY <1>1, <1>7, <1>8, <1>9, <1>10, AddKeyKeeps

LEMMA OthersMintStep ==
    ASSUME IInv, OthersMint
    PROVE  IInv'
<1> USE DEF IInv
<1>1. PICK n \in Names : proxy' = proxy \cup {NewKey(n)}
  BY DEF OthersMint
<1>2. made' = made + 1 /\ UNCHANGED <<cache, listing, call, confirmed, sure, gone>>
  BY DEF OthersMint, audit
<1>3. NewKey(n) \in Key
  BY NewKeyNew
<1>4. TypeOK' /\ AllNamed'
  BY <1>1, <1>2, <1>3 DEF TypeOK, AllNamed
<1> QED BY <1>1, <1>2, <1>4, AddKeyKeeps

\* A request that ends, or moves on with its key, disturbs nothing.
LEMMA CallMoves ==
    ASSUME IInv, NEW r \in Requests, NEW c,
           c = Idle \/ c = [call[r] EXCEPT !.at = "posted"],
           call' = [call EXCEPT ![r] = c], UNCHANGED made
    PROVE  /\ call' \in [Requests -> CallType]
           /\ \A q \in Requests : call'[q] = call[q] \/ call'[q] = c
           /\ AllNamed'
           /\ KeysIssued'
<1> USE DEF IInv
<1>1. call \in [Requests -> CallType]
  BY DEF TypeOK, CallType
<1>2. c \in CallType /\ Named(c) /\ Issued(c.key)
  BY <1>1 DEF CallType, Idle, Named, AllNamed, AllIssued, KeysIssued, Issued
<1>3. /\ call' \in [Requests -> CallType]
      /\ \A q \in Requests : call'[q] = call[q] \/ call'[q] = c
  BY <1>1, <1>2
<1>4. AllNamed'
  BY <1>2, <1>3 DEF AllNamed
<1>5. KeysIssued'
  BY <1>2, <1>3 DEF AllIssued, KeysIssued, Issued
<1> QED BY <1>3, <1>4, <1>5

LEMMA ProxyRevokesStep ==
    ASSUME IInv, NEW r \in Requests, ProxyRevokes(r)
    PROVE  IInv'
<1> USE DEF IInv
<1> DEFINE c == [call[r] EXCEPT !.at = "posted"]
<1>1. call[r] \in CallType
  BY DEF TypeOK, CallType
<1>2. call' = [call EXCEPT ![r] = c] /\ c.key = call[r].key
  BY <1>1 DEF ProxyRevokes, CallType
<1> HIDE DEF c
<1>3. /\ proxy' = proxy \ call[r].key
      /\ UNCHANGED <<made, cache, listing, confirmed, sure, gone>>
  BY DEF ProxyRevokes, audit
<1>4. /\ call' \in [Requests -> CallType]
      /\ \A q \in Requests : call'[q] = call[q] \/ call'[q] = c
      /\ AllNamed' /\ KeysIssued'
  BY <1>2, <1>3, CallMoves DEF c
<1>5. TypeOK'
  BY <1>3, <1>4 DEF TypeOK, CallType
<1>6. AllIssued'
  BY <1>3, <1>4 DEF AllIssued, KeysIssued, Issued
<1>7. RevokedIsAway'
  BY <1>2, <1>3, <1>4 DEF RevokedIsAway
<1>8. ListingRight' /\ MintedKeysListed' /\ RevokedKeysGone'
  BY <1>3 DEF ListingRight, MintedKeysListed, RevokedKeysGone
<1> QED BY <1>4, <1>5, <1>6, <1>7, <1>8

LEMMA MintedStep ==
    ASSUME IInv, NEW r \in Requests, Minted(r)
    PROVE  IInv'
<1> USE DEF IInv
<1>1. /\ call' = [call EXCEPT ![r] = Idle] /\ cache' = NoCache
      /\ UNCHANGED <<proxy, made, listing, gone>>
  BY DEF Minted, DroppedCache
<1>2. /\ call' \in [Requests -> CallType]
      /\ \A q \in Requests : call'[q] = call[q] \/ call'[q] = Idle
      /\ AllNamed' /\ KeysIssued'
  BY <1>1, CallMoves
<1>3. call[r].key \subseteq Key /\ Issued(call[r].key)
  BY DEF TypeOK, AllIssued, KeysIssued
<1>4. TypeOK'
  BY <1>1, <1>2, <1>3 DEF Minted, TypeOK, CallType, NoCache
<1>5. AllIssued'
  BY <1>1, <1>2, <1>3 DEF Minted, AllIssued, KeysIssued, Issued, NoCache
<1>6. ListingRight'
  BY <1>1 DEF Minted, ListingRight, Unread
<1>7. RevokedIsAway' /\ MintedKeysListed' /\ RevokedKeysGone'
  BY <1>1, <1>2 DEF RevokedIsAway, MintedKeysListed, RevokedKeysGone, NoCache, Idle
<1> QED BY <1>2, <1>4, <1>5, <1>6, <1>7

LEMMA RevokedStep ==
    ASSUME IInv, NEW r \in Requests, Revoked(r)
    PROVE  IInv'
<1> USE DEF IInv
<1>1. /\ call' = [call EXCEPT ![r] = Idle] /\ cache' = NoCache
      /\ UNCHANGED <<proxy, made, listing, confirmed, sure>>
  BY DEF Revoked, DroppedCache
<1>2. /\ call' \in [Requests -> CallType]
      /\ \A q \in Requests : call'[q] = call[q] \/ call'[q] = Idle
      /\ AllNamed' /\ KeysIssued'
  BY <1>1, CallMoves
<1>3. call[r].key \subseteq Key /\ Issued(call[r].key) /\ call[r].key \cap proxy = {}
  BY DEF Revoked, TypeOK, AllIssued, KeysIssued, RevokedIsAway
<1>4. TypeOK'
  BY <1>1, <1>2, <1>3 DEF Revoked, TypeOK, CallType, NoCache
<1>5. AllIssued'
  BY <1>1, <1>2, <1>3 DEF Revoked, AllIssued, KeysIssued, Issued, NoCache
<1>6. ListingRight'
  BY <1>1 DEF Revoked, ListingRight, Unread
<1>7. RevokedIsAway' /\ MintedKeysListed' /\ RevokedKeysGone'
  BY <1>1, <1>2, <1>3
     DEF Revoked, RevokedIsAway, MintedKeysListed, RevokedKeysGone, NoCache, Idle
<1> QED BY <1>2, <1>4, <1>5, <1>6, <1>7

LEMMA CallFailsStep ==
    ASSUME IInv, NEW r \in Requests, CallFails(r)
    PROVE  IInv'
<1> USE DEF IInv
<1>1. /\ call' = [call EXCEPT ![r] = Idle]
      /\ UNCHANGED <<proxy, made, cache, listing, confirmed, sure, gone>>
  BY DEF CallFails, audit
<1>2. /\ call' \in [Requests -> CallType]
      /\ \A q \in Requests : call'[q] = call[q] \/ call'[q] = Idle
      /\ AllNamed' /\ KeysIssued'
  BY <1>1, CallMoves
<1>3. TypeOK'
  BY <1>1, <1>2 DEF TypeOK, CallType
<1>4. AllIssued'
  BY <1>1, <1>2 DEF AllIssued, KeysIssued, Issued
<1>5. /\ ListingRight' /\ RevokedIsAway'
      /\ MintedKeysListed' /\ RevokedKeysGone'
  BY <1>1, <1>2 DEF ListingRight, RevokedIsAway, MintedKeysListed, RevokedKeysGone, Idle
<1> QED BY <1>2, <1>3, <1>4, <1>5

-----------------------------------------------------------------------------
(* The invariant, and the theorems. *)

LEMMA StepHolds == IInv /\ [Next]_vars => IInv'
<1> SUFFICES ASSUME IInv, [Next]_vars PROVE IInv'
  OBVIOUS
<1>1. CASE UNCHANGED vars
  BY <1>1 DEF vars, audit, IInv, TypeOK, AllNamed, AllIssued, KeysIssued, Issued, ListingRight,
     RevokedIsAway, MintedKeysListed, RevokedKeysGone
<1>2. ASSUME NEW r \in Requests, BeginShow(r) \/ BeginMint(r) \/ BeginRevoke(r)
      PROVE  IInv'
  BY <1>2, BeginStep
<1>3. ASSUME NEW r \in Requests, ProxyMints(r) \/ ProxyRevokes(r)
      PROVE  IInv'
  BY <1>3, ProxyMintsStep, ProxyRevokesStep
<1>4. ASSUME NEW r \in Requests, Minted(r) \/ Revoked(r) \/ CallFails(r)
      PROVE  IInv'
  BY <1>4, MintedStep, RevokedStep, CallFailsStep
<1>5. CASE ProxyLists \/ Listed \/ ListingFails \/ CacheExpires \/ OthersMint
  BY <1>5, ProxyListsStep, ListedStep, ListingFailsStep, CacheExpiresStep, OthersMintStep
<1> QED BY <1>1, <1>2, <1>3, <1>4, <1>5 DEF Next

LEMMA Invariance == Spec => []IInv
BY InitHolds, StepHolds, PTL DEF Spec

\* Every variable holds what it can hold, for any number of requests, names and keys.
THEOREM TypeCorrect == Spec => []TypeOK
<1>1. IInv => TypeOK
  BY DEF IInv
<1> QED BY <1>1, Invariance, PTL

\* list() serves no listing that lacks a key confirmed while no answered listing was under way.
THEOREM MintedListed == Spec => []MintedKeysListed
<1>1. IInv => MintedKeysListed
  BY DEF IInv
<1> QED BY <1>1, Invariance, PTL

\* list() never again serves a key whose revocation was confirmed under the same condition.
THEOREM RevokedStayGone == Spec => []RevokedKeysGone
<1>1. IInv => RevokedKeysGone
  BY DEF IInv
<1> QED BY <1>1, Invariance, PTL

\* POST /api/clients never asks for a key of a name that a key confirmed earlier has.
THEOREM NoDoubles == Spec => NoSecondMint
<1> DEFINE Once == \A r \in Requests :
        call[r].op = "mint" /\ call[r].at = "list" /\ call'[r].at = "post" =>
            \A k \in sure \cap proxy : k.name # call[r].name
<1>1. ASSUME IInv, [Next]_vars PROVE Once
  <2> SUFFICES ASSUME NEW r \in Requests, call[r].op = "mint", call[r].at = "list",
                      call'[r].at = "post"
               PROVE  \A k \in sure \cap proxy : k.name # call[r].name
    OBVIOUS
  <2>1. CASE Listed
    <3>1. listing.at = "read" /\ call'[r] = Resumed(call[r])
      BY <2>1 DEF Listed
    <3>2. ~Taken(call[r].name)
      BY <3>1 DEF Resumed, Idle
    <3> QED BY <1>1, <3>1, <3>2 DEF Taken, IInv, ListingRight
  <2>2. CASE ~Listed
    <3>1. call \in [Requests -> CallType]
      BY <1>1 DEF IInv, TypeOK, CallType
    <3>2. ASSUME NEW q \in Requests,
                 \/ BeginShow(q) \/ BeginMint(q) \/ BeginRevoke(q)
                 \/ ProxyMints(q) \/ ProxyRevokes(q)
                 \/ Minted(q) \/ Revoked(q) \/ CallFails(q)
          PROVE  call'[r].at # "post"
      <4>1. call[q].at # "list"
        BY <3>2, <3>1 DEF BeginShow, BeginMint, BeginRevoke, ProxyMints, ProxyRevokes,
           Minted, Revoked, CallFails, Idle
      <4>2. q # r
        BY <4>1
      <4>3. \E f : call' = [call EXCEPT ![q] = f]
        BY <3>2, <3>1 DEF BeginShow, BeginMint, BeginRevoke, ProxyMints, ProxyRevokes,
           Minted, Revoked, CallFails
      <4>4. call'[r] = call[r]
        BY <4>2, <4>3, <3>1
      <4> QED BY <4>4
    <3>3. call'[r].at # "post"
      BY <1>1, <2>2, <3>1, <3>2
         DEF Next, ProxyLists, ListingFails, CacheExpires, OthersMint, vars, Idle
    <3> QED BY <3>3
  <2> QED BY <2>1, <2>2
<1>2. ASSUME IInv, [Next]_vars PROVE [Once]_vars
  BY <1>1, <1>2
<1> QED BY <1>2, Invariance, PTL DEF Spec, NoSecondMint

\* The three invariants together, as the run checks them.
THEOREM KeysSound == Spec => []KeysInvariant
BY TypeCorrect, MintedListed, RevokedStayGone, PTL DEF KeysInvariant

-----------------------------------------------------------------------------
(* The other parts of the run: what holds of each is an invariant of its own, and a step   *)
(* of one part leaves the variables of the others alone.                                   *)

allVars == <<part, vars, comfyVars, adminVars>>

(* The admin's page. *)

PageInv ==
    /\ open \in [A!Panels -> BOOLEAN]
    /\ filled \in [A!Boxes -> BOOLEAN]
    /\ A!ClosedBoxesAreEmpty

LEMMA PageInit == A!Init => PageInv
  BY DEF A!Init, PageInv, A!ClosedBoxesAreEmpty, A!Panels, A!Boxes

LEMMA PageStep ==
    ASSUME PageInv, A!Next
    PROVE  PageInv'
  <1> USE DEF PageInv, A!ClosedBoxesAreEmpty, A!Panels, A!Boxes, A!session, A!panels
  <1>1. ASSUME NEW p \in A!Panels, A!Open(p)
        PROVE  PageInv'
    BY <1>1 DEF A!Open, A!Emptied
  <1>2. ASSUME NEW p \in A!Panels, A!Close(p)
        PROVE  PageInv'
    BY <1>2 DEF A!Close, A!Closed
  <1>3. ASSUME NEW p \in A!Panels, A!Type(p)
        PROVE  PageInv'
    BY <1>3 DEF A!Type
  <1>4. ASSUME NEW p \in A!Panels, A!Submit(p)
        PROVE  PageInv'
    BY <1>4 DEF A!Submit, A!Emptied
  <1>5. ASSUME NEW p \in A!Panels, A!Accepted(p)
        PROVE  PageInv'
    BY <1>5 DEF A!Accepted, A!PasswordAccepted, A!SecretStored, A!KeyMinted
  <1>6. ASSUME NEW p \in A!Panels, A!Refused(p)
        PROVE  PageInv'
    BY <1>6 DEF A!Refused, A!Ended, A!Emptied
  <1>7. CASE A!SessionArrives
    BY <1>7 DEF A!SessionArrives, A!Emptied
  <1>8. CASE A!Logout
    BY <1>8 DEF A!Logout, A!Closed
  <1>9. CASE A!Expires \/ A!SetUpElsewhere \/ A!SessionLost
    BY <1>9 DEF A!Expires, A!SetUpElsewhere, A!SessionLost
  <1> QED
    BY <1>1, <1>2, <1>3, <1>4, <1>5, <1>6, <1>7, <1>8, <1>9 DEF A!Next

(* The panel that adds targets. *)

\* While targets are being added nothing is probed, and what is shown is nothing or the
\* host they were picked for.
PanelInv ==
    /\ adding \in [from : Hosts \cup {P!None}, left : SUBSET Caps]
    /\ adding # P!NotAdding => probe = P!None /\ shown \in {P!None, adding.from}
    /\ shown \in Hosts \cup {P!None} /\ probe \in Hosts \cup {P!None}
    /\ P!AddsWhatWasShown

LEMMA PanelInit == P!Init => PanelInv
  BY DEF P!Init, PanelInv, P!NotAdding, P!AddsWhatWasShown

LEMMA PanelStep ==
    ASSUME PanelInv, P!Next
    PROVE  PanelInv'
  <1> USE DEF PanelInv, P!AddsWhatWasShown
  <1>1. ASSUME NEW h \in Hosts, P!Discover(h)
        PROVE  PanelInv'
    BY <1>1 DEF P!Discover, P!CanProbe, P!AddBusy
  <1>2. CASE P!Discarded
    BY <1>2 DEF P!Discarded
  <1>3. CASE P!DiscoverArrives
    BY <1>3 DEF P!DiscoverArrives
  <1>4. CASE P!AddSelected
    BY <1>4 DEF P!AddSelected, P!AddBusy, P!NotAdding
  <1>5. CASE P!AddNext
    <2>1. PICK c \in adding.left :
            /\ posted' = IF shown = P!None THEN posted
                         ELSE posted \cup {<<shown, adding.from, c>>}
            /\ adding' = [adding EXCEPT !.left = @ \ {c}]
      BY <1>5 DEF P!AddNext
    <2>2. adding # P!NotAdding
      BY <2>1 DEF P!NotAdding
    <2>3. /\ adding' \in [from : Hosts \cup {P!None}, left : SUBSET Caps]
          /\ adding'.from = adding.from
      BY <2>1
    <2>4. UNCHANGED <<shown, probe>>
      BY <1>5 DEF P!AddNext
    <2> QED
      BY <2>1, <2>2, <2>3, <2>4
  <1>6. CASE P!AddDone
    BY <1>6 DEF P!AddDone, P!NotAdding
  <1> QED
    BY <1>1, <1>2, <1>3, <1>4, <1>5, <1>6 DEF P!Next

\* session.js:10-12, 35-40, add_target.js:204-255: for any number of sessions, hosts and
\* capabilities, a password is in the page only while its panel is open, and targets are
\* added only for the host whose rows were picked.
THEOREM Panels == PartsSpec => []PanelsHold
  <1> DEFINE Inv == (part = "page" => PageInv) /\ (part = "panel" => PanelInv)
  <1>1. PartsInit => Inv
    BY PageInit, PanelInit DEF PartsInit
  <1>2. Inv /\ [PartsNext]_allVars => Inv'
    <2>1. ASSUME PageInv, UNCHANGED pageVars
          PROVE  PageInv'
      BY <2>1 DEF pageVars, PageInv, A!ClosedBoxesAreEmpty
    <2>2. ASSUME PanelInv, UNCHANGED panelVars
          PROVE  PanelInv'
      BY <2>2 DEF panelVars, PanelInv, P!AddsWhatWasShown
    <2> QED
      BY <2>1, <2>2, PageStep, PanelStep DEF PartsNext, allVars, adminVars
  <1>3. Inv => PanelsHold
    BY DEF PanelsHold, PageInv, PanelInv
  <1> QED
    BY <1>1, <1>2, <1>3, PTL DEF PartsSpec, allVars

-----------------------------------------------------------------------------
(* Discoveries of a host. *)

\* The count speaks of the cardinality of Discovery, the facts of the library of its own.
LEMMA SameCardinality ==
    ASSUME NEW T
    PROVE  D!Cardinality(T) = Cardinality(T)
  BY Zenon DEF Cardinality, D!Cardinality

Under == {r \in Askers : D!Inside(r)}

\* The fields of a pool and of a discovery.
PoolType(p) == p \in [items : {p.items}, next : {p.next}, busy : {p.busy}, hits : {p.hits}]

RunType(d) ==
    /\ d \in [pc : {d.pc}, pool : {d.pool}, late : {d.late}, skipped : {d.skipped},
              open : {d.open}, web : {d.web}, certs : {d.certs}]
    /\ PoolType(d.pool)

\* A discovery knows only ports of the bounded set and probes within its pool; the
\* certificates it has are of open ports, and it has none when its fingerprints were cut.
RunRight(d) ==
    /\ RunType(d)
    /\ IsFiniteSet(d.pool.busy) /\ Cardinality(d.pool.busy) <= Workers
    /\ d.pc = "tcp" => /\ d.pool.items = D!PortOrder /\ d.pool.next \in Nat \ {0}
                       /\ d.pool.busy \subseteq D!Ports /\ d.pool.hits \subseteq D!Ports
                       /\ d.certs = {}
    /\ d.open \subseteq D!Ports
    /\ d.certs \subseteq d.open \cap D!Tls
    /\ d.skipped \in BOOLEAN
    /\ d.skipped => d.certs = {} /\ d.pc # "http"

ManifestRight(m) ==
    /\ m.open \subseteq D!Ports
    /\ m.certs \subseteq m.open \cap D!Tls
    /\ m.partial => m.hint = "unknown" /\ m.certs = {}

ScanInv ==
    /\ run = [r \in Askers |-> run[r]]
    /\ \A r \in Askers : RunRight(run[r])
    /\ IsFiniteSet(Under) /\ inflight = Cardinality(Under) /\ inflight <= MaxInflight
    /\ \A m \in manifest : ManifestRight(m)

LEMMA ScanConstants == MaxInflight \in Nat \ {0} /\ Workers \in Nat \ {0}
  BY PartsAssumption DEF D!DiscoveryAssumption

LEMMA EmptyPool == IsFiniteSet({}) /\ Cardinality({}) = 0 /\ 0 <= Workers
  BY FS_EmptySet, ScanConstants

LEMMA IdleRight == RunRight(D!Idle) /\ D!Idle.pc = "idle"
  BY EmptyPool DEF RunRight, RunType, PoolType, D!Idle, D!NoPool

LEMMA ScanInit == D!Init => ScanInv
  <1> SUFFICES ASSUME D!Init PROVE ScanInv
    OBVIOUS
  <1>1. run = [r \in Askers |-> D!Idle] /\ inflight = 0 /\ manifest = {}
    BY DEF D!Init
  <1>2. \A r \in Askers : RunRight(run[r]) /\ run[r].pc = "idle"
    BY <1>1, IdleRight
  <1>3. Under = {}
    BY <1>2 DEF Under, D!Inside
  <1> QED
    BY <1>1, <1>2, <1>3, FS_EmptySet, ScanConstants DEF ScanInv

\* A discovery that goes on within its place, and one that gives it back.
LEMMA GoesOn ==
    ASSUME ScanInv, NEW r \in Askers, NEW d, D!Moves(r, d), RunRight(d),
           D!Inside(r), d.pc \in {"tcp", "ping", "http", "exporter"},
           UNCHANGED <<inflight, manifest>>
    PROVE  ScanInv'
  <1>1. run' = [run EXCEPT ![r] = d] /\ run = [q \in Askers |-> run[q]]
    BY DEF D!Moves, ScanInv
  <1>2. run' = [q \in Askers |-> run'[q]] /\ run'[r] = d
        /\ \A q \in Askers : q # r => run'[q] = run[q]
    BY <1>1
  <1>3. Under' = Under
    BY <1>2 DEF Under, D!Inside
  <1> QED
    BY <1>2, <1>3 DEF ScanInv

LEMMA Leaves ==
    ASSUME ScanInv, NEW r \in Askers, D!Moves(r, D!Idle), D!Released, D!Inside(r),
           \A m \in manifest' : ManifestRight(m)
    PROVE  ScanInv'
  <1>1. run' = [run EXCEPT ![r] = D!Idle] /\ run = [q \in Askers |-> run[q]]
    BY DEF D!Moves, ScanInv
  <1>2. run' = [q \in Askers |-> run'[q]] /\ run'[r] = D!Idle
        /\ \A q \in Askers : q # r => run'[q] = run[q]
    BY <1>1
  <1>3. Under' = Under \ {r} /\ r \in Under
    BY <1>2, IdleRight DEF Under, D!Inside
  <1>4. IsFiniteSet(Under') /\ Cardinality(Under') = Cardinality(Under) - 1
    BY <1>3, FS_RemoveElement DEF ScanInv
  <1>5. inflight' = inflight - 1 /\ inflight \in Nat
    BY FS_CardinalityType DEF D!Released, ScanInv
  <1> QED
    BY <1>2, <1>4, <1>5, IdleRight, ScanConstants DEF ScanInv

LEMMA AskStep ==
    ASSUME ScanInv, NEW r \in Askers, D!Ask(r)
    PROVE  ScanInv'
  <1>0. PICK d : d = [D!Idle EXCEPT !.pc = "tcp", !.pool = D!PoolOf(D!PortOrder)]
    OBVIOUS
  <1>1. /\ run[r].pc = "idle" /\ inflight < MaxInflight /\ inflight' = inflight + 1
        /\ run' = [run EXCEPT ![r] = d] /\ manifest' = manifest
    BY <1>0 DEF D!Ask, D!Moves
  <1>2. RunRight(d) /\ d.pc = "tcp"
    <2>1. PICK q : q = D!PoolOf(D!PortOrder)
      OBVIOUS
    <2>2. /\ q.items = D!PortOrder /\ q.next = 1 /\ q.busy = {} /\ q.hits = {}
          /\ PoolType(q)
      BY <2>1 DEF D!PoolOf, PoolType
    <2>3. /\ d.pc = "tcp" /\ d.pool = q /\ d.open = {} /\ d.certs = {} /\ d.skipped = FALSE
          /\ RunType(d)
      BY <1>0, <2>1, <2>2 DEF D!Idle, RunType
    <2>4. IsFiniteSet(d.pool.busy) /\ Cardinality(d.pool.busy) <= Workers
      BY <2>2, <2>3, EmptyPool
    <2>5. /\ d.pool.items = D!PortOrder /\ d.pool.next \in Nat \ {0}
          /\ d.pool.busy \subseteq D!Ports /\ d.pool.hits \subseteq D!Ports
      BY <2>2, <2>3
    <2>6. /\ d.open \subseteq D!Ports /\ d.certs = {} /\ d.certs \subseteq d.open \cap D!Tls
          /\ d.skipped \in BOOLEAN /\ d.pc # "http"
      BY <2>3
    <2> QED
      BY <2>3, <2>4, <2>5, <2>6 DEF RunRight
  <1>3. /\ run' = [q \in Askers |-> run'[q]] /\ run'[r] = d
        /\ \A q \in Askers : q # r => run'[q] = run[q]
    BY <1>1 DEF ScanInv
  <1>4. Under' = Under \cup {r} /\ r \notin Under
    BY <1>1, <1>2, <1>3 DEF Under, D!Inside
  <1>5. IsFiniteSet(Under') /\ Cardinality(Under') = Cardinality(Under) + 1
    BY <1>4, FS_AddElement DEF ScanInv
  <1>6. inflight \in Nat
    BY FS_CardinalityType DEF ScanInv
  <1> QED
    BY <1>1, <1>2, <1>3, <1>5, <1>6, ScanConstants DEF ScanInv

\* What a probe, or a worker that takes one, makes of the pool.
LEMMA PoolMoves ==
    ASSUME ScanInv, NEW r \in Askers, NEW q, PoolType(q),
           run[r].pc \in {"tcp", "http"}, D!Moves(r, [run[r] EXCEPT !.pool = q]),
           UNCHANGED <<inflight, manifest>>,
           IsFiniteSet(q.busy), Cardinality(q.busy) <= Workers,
           run[r].pc = "tcp" => /\ q.items = D!PortOrder /\ q.next \in Nat \ {0}
                                /\ q.busy \subseteq D!Ports /\ q.hits \subseteq D!Ports
    PROVE  ScanInv'
  <1>1. PICK d : d = [run[r] EXCEPT !.pool = q]
    OBVIOUS
  <1>2. RunRight(run[r])
    BY DEF ScanInv
  <1>3. /\ d.pool = q /\ d.pc = run[r].pc /\ d.open = run[r].open /\ d.certs = run[r].certs
        /\ d.skipped = run[r].skipped /\ RunType(d)
    BY <1>1, <1>2 DEF RunRight, RunType
  <1>4. RunRight(d)
    BY <1>2, <1>3 DEF RunRight
  <1> QED
    BY <1>1, <1>3, <1>4, GoesOn DEF D!Inside

LEMMA TakeStep ==
    ASSUME ScanInv, NEW r \in Askers, D!Take(r)
    PROVE  ScanInv'
  <1>1. PICK p : p = run[r].pool
    OBVIOUS
  <1>2. PICK q : q = D!Taken(p)
    OBVIOUS
  <1>3. /\ run[r].pc \in {"tcp", "http"} /\ D!CanTake(p)
        /\ D!Moves(r, [run[r] EXCEPT !.pool = q])
        /\ UNCHANGED <<inflight, manifest>>
    BY <1>1, <1>2 DEF D!Take
  <1>4. RunRight(run[r]) /\ PoolType(p)
    BY <1>1 DEF ScanInv, RunRight, RunType
  <1>5. PICK item : item = p.items[p.next]
    OBVIOUS
  <1>6. /\ q.items = p.items /\ q.next = p.next + 1 /\ q.busy = p.busy \cup {item}
        /\ q.hits = p.hits /\ PoolType(q)
    BY <1>2, <1>4, <1>5 DEF D!Taken, PoolType
  <1>7. Cardinality(p.busy) < Workers /\ IsFiniteSet(p.busy)
    BY <1>1, <1>3, <1>4, SameCardinality DEF D!CanTake, RunRight
  <1>8. IsFiniteSet(q.busy) /\ Cardinality(q.busy) <= Workers
    <2>1. /\ IsFiniteSet(p.busy \cup {item}) /\ Cardinality(p.busy) \in Nat
          /\ Cardinality(p.busy \cup {item})
               = IF item \in p.busy THEN Cardinality(p.busy) ELSE Cardinality(p.busy) + 1
      BY <1>7, FS_AddElement, FS_CardinalityType
    <2> QED
      BY <1>6, <1>7, <2>1, ScanConstants
  <1>9. ASSUME run[r].pc = "tcp"
        PROVE  /\ q.items = D!PortOrder /\ q.next \in Nat \ {0}
               /\ q.busy \subseteq D!Ports /\ q.hits \subseteq D!Ports
    <2>1. /\ p.items = D!PortOrder /\ p.next \in Nat \ {0}
          /\ p.busy \subseteq D!Ports /\ p.hits \subseteq D!Ports
      BY <1>1, <1>4, <1>9 DEF RunRight
    <2>2. item \in D!Ports
      BY <1>3, <1>5, <2>1 DEF D!CanTake, D!PortOrder, D!Ports
    <2> QED
      BY <1>6, <2>1, <2>2
  <1> QED
    BY <1>3, <1>6, <1>8, <1>9, PoolMoves

LEMMA ProbeStep ==
    ASSUME ScanInv, NEW r \in Askers, D!TcpProbe(r) \/ D!HttpProbe(r)
    PROVE  ScanInv'
  <1>1. PICK p : p = run[r].pool
    OBVIOUS
  <1>2. /\ run[r].pc \in {"tcp", "http"} /\ UNCHANGED <<inflight, manifest>>
        /\ D!Probe(r)
    BY DEF D!TcpProbe, D!HttpProbe, D!Probe
  <1>3. PICK item \in p.busy, hit \in BOOLEAN :
          D!Moves(r, [run[r] EXCEPT !.pool = D!Probed(p, item, hit)])
    BY <1>1, <1>2 DEF D!Probe
  <1>4. PICK q : q = D!Probed(p, item, hit)
    OBVIOUS
  <1>5. RunRight(run[r]) /\ PoolType(p)
    BY <1>1 DEF ScanInv, RunRight, RunType
  <1>6. /\ q.items = p.items /\ q.next = p.next /\ q.busy = p.busy \ {item}
        /\ q.hits = (IF hit THEN p.hits \cup {item} ELSE p.hits) /\ PoolType(q)
    BY <1>4, <1>5 DEF D!Probed, PoolType
  <1>7. IsFiniteSet(q.busy) /\ Cardinality(q.busy) <= Workers
    <2>1. IsFiniteSet(p.busy) /\ Cardinality(p.busy) <= Workers /\ Cardinality(p.busy) \in Nat
      BY <1>1, <1>5, FS_CardinalityType DEF RunRight
    <2>2. IsFiniteSet(p.busy \ {item}) /\ Cardinality(p.busy \ {item}) = Cardinality(p.busy) - 1
      BY <1>3, <2>1, FS_RemoveElement
    <2> QED
      BY <1>6, <2>1, <2>2, ScanConstants
  <1>8. run[r].pc = "tcp" => /\ q.items = D!PortOrder /\ q.next \in Nat \ {0}
                             /\ q.busy \subseteq D!Ports /\ q.hits \subseteq D!Ports
    BY <1>1, <1>3, <1>5, <1>6 DEF RunRight
  <1>9. D!Moves(r, [run[r] EXCEPT !.pool = q])
    BY <1>3, <1>4
  <1> QED
    BY <1>2, <1>6, <1>7, <1>8, <1>9, PoolMoves

LEMMA PhaseStep ==
    ASSUME ScanInv, NEW r \in Askers,
           D!BudgetEnds(r) \/ D!Swept(r) \/ D!Pinged(r) \/ D!Fingerprinted(r)
    PROVE  ScanInv'
  <1>1. RunRight(run[r]) /\ RunType(run[r])
    BY DEF ScanInv, RunRight
  <1>2. UNCHANGED <<inflight, manifest>> /\ D!Inside(r)
    BY DEF D!BudgetEnds, D!Swept, D!Pinged, D!Fingerprinted, D!Inside
  <1>3. \E d : RunRight(d) /\ d.pc \in {"tcp", "ping", "http", "exporter"} /\ D!Moves(r, d)
    <2>1. CASE D!BudgetEnds(r)
      <3>1. PICK d : d = [run[r] EXCEPT !.late = TRUE]
        OBVIOUS
      <3>2. D!Moves(r, d)
        BY <2>1, <3>1 DEF D!BudgetEnds
      <3>3. /\ d.pc = run[r].pc /\ d.pool = run[r].pool /\ d.open = run[r].open
            /\ d.certs = run[r].certs /\ d.skipped = run[r].skipped /\ RunType(d)
        BY <1>1, <3>1 DEF RunType
      <3>4. RunRight(d)
        BY <1>1, <3>3 DEF RunRight
      <3> QED
        BY <1>2, <3>2, <3>3, <3>4 DEF D!Inside
    <2>2. CASE D!Pinged(r)
      <3>1. PICK d : d = [run[r] EXCEPT !.pc = "exporter"]
        OBVIOUS
      <3>2. D!Moves(r, d)
        BY <2>2, <3>1 DEF D!Pinged
      <3>3. /\ d.pc = "exporter" /\ d.pool = run[r].pool /\ d.open = run[r].open
            /\ d.certs = run[r].certs /\ d.skipped = run[r].skipped /\ RunType(d)
        BY <1>1, <3>1 DEF RunType
      <3>4. RunRight(d)
        BY <1>1, <3>3 DEF RunRight
      <3> QED
        BY <3>2, <3>3, <3>4
    <2>3. CASE D!Fingerprinted(r)
      <3>1. PICK certs \in D!Certificates(r) :
              D!Moves(r, [run[r] EXCEPT !.pc = "exporter", !.certs = certs,
                                        !.web = run[r].pool.hits, !.pool = D!NoPool])
        BY <2>3 DEF D!Fingerprinted
      <3>2. PICK pool : pool = D!NoPool
        OBVIOUS
      <3>3. PICK d : d = [run[r] EXCEPT !.pc = "exporter", !.certs = certs,
                                        !.web = run[r].pool.hits, !.pool = pool]
        OBVIOUS
      <3>4. run[r].pc = "http"
        BY <2>3 DEF D!Fingerprinted
      <3>5. PoolType(pool) /\ pool.busy = {}
        BY <3>2 DEF PoolType, D!NoPool
      <3>6. /\ d.pc = "exporter" /\ d.certs = certs /\ d.pool = pool /\ RunType(d)
            /\ d.open = run[r].open /\ d.skipped = run[r].skipped
        BY <1>1, <3>3, <3>5 DEF RunType
      <3>7. RunRight(d)
        BY <1>1, <3>1, <3>4, <3>5, <3>6, EmptyPool DEF RunRight, D!Certificates
      <3> QED
        BY <3>1, <3>2, <3>3, <3>6, <3>7
    <2>4. CASE D!Swept(r)
      <3> DEFINE hits == run[r].pool.hits
                 web == SelectSeq(D!PortOrder, LAMBDA p : p \in hits \cap D!Http)
                 read == web # <<>> /\ ~run[r].late
      <3>1. PICK pc : pc = IF hits = {} THEN "ping" ELSE IF read THEN "http" ELSE "exporter"
        OBVIOUS
      <3>2. PICK skipped \in BOOLEAN : skipped = (web # <<>> /\ run[r].late)
        OBVIOUS
      <3>3. PICK pool : pool = IF read THEN D!PoolOf(web) ELSE D!NoPool
        OBVIOUS
      <3>4. PICK d : d = [run[r] EXCEPT !.open = hits, !.pc = pc, !.skipped = skipped,
                                        !.pool = pool]
        OBVIOUS
      <3>5. run[r].pc = "tcp" /\ D!Moves(r, d)
        BY <2>4, <3>1, <3>2, <3>3, <3>4 DEF D!Swept
      <3>6. PoolType(pool) /\ pool.busy = {}
        BY <3>3 DEF PoolType, D!NoPool, D!PoolOf
      <3>7. pc \in {"ping", "http", "exporter"} /\ (skipped => pc # "http")
        BY <3>1, <3>2
      <3>8. hits \subseteq D!Ports /\ run[r].certs \subseteq hits
        BY <1>1, <3>5 DEF RunRight
      <3> HIDE DEF hits, web, read
      <3>9. /\ d.pc = pc /\ d.certs = run[r].certs /\ d.pool = pool /\ RunType(d)
            /\ d.open = hits /\ d.skipped = skipped
        BY <1>1, <3>4, <3>6 DEF RunType
      <3>10. RunRight(d)
        BY <1>1, <3>5, <3>6, <3>7, <3>8, <3>9, EmptyPool DEF RunRight
      <3> QED
        BY <3>5, <3>7, <3>9, <3>10
    <2> QED
      BY <2>1, <2>2, <2>3, <2>4
  <1> QED
    BY <1>2, <1>3, GoesOn

LEMMA EndStep ==
    ASSUME ScanInv, NEW r \in Askers, D!Finish(r) \/ D!Rejected(r)
    PROVE  ScanInv'
  <1>1. D!Inside(r) /\ D!Moves(r, D!Idle) /\ D!Released
    BY DEF D!Finish, D!Rejected, D!Inside
  <1>2. CASE D!Rejected(r)
    BY <1>1, <1>2, Leaves DEF D!Rejected, ScanInv
  <1>3. CASE D!Finish(r)
    <2>1. PICK node \in D!Exporter(r), banner \in BOOLEAN :
            manifest' = {[open |-> run[r].open, certs |-> run[r].certs, node |-> node,
                          hint |-> D!Hint(run[r], node, banner), partial |-> run[r].skipped]}
      BY <1>3 DEF D!Finish
    <2>2. RunRight(run[r])
      BY DEF ScanInv
    <2>3. run[r].skipped => D!Hint(run[r], node, banner) = "unknown"
      BY DEF D!Hint
    <2>4. \A m \in manifest' : ManifestRight(m)
      BY <2>1, <2>2, <2>3 DEF ManifestRight, RunRight
    <2> QED
      BY <1>1, <2>4, Leaves
  <1> QED
    BY <1>2, <1>3

LEMMA ScanStep ==
    ASSUME ScanInv, D!Next
    PROVE  ScanInv'
  <1>1. CASE D!HostChanges
    BY <1>1 DEF D!HostChanges, ScanInv, Under, D!Inside
  <1>2. CASE D!CacheExpires
    BY <1>2 DEF D!CacheExpires, ScanInv, Under, D!Inside
  <1> QED
    BY <1>1, <1>2, AskStep, TakeStep, ProbeStep, PhaseStep, EndStep DEF D!Next

\* What the catalogue suggests for a manifest of these ports is what the API builds.
LEMMA SuggestedBuilds ==
    ASSUME NEW m, ManifestRight(m), NEW c \in D!Suggested(m)
    PROVE  D!Builds(c)
  <1>1. CASE c \in {<<"reachability", D!None>>} \cup D!OfMachine(m)
    BY <1>1 DEF D!OfMachine, D!Builds
  <1>2. CASE c \in D!OfPorts(m)
    BY <1>2 DEF D!OfPorts, D!Builds, ManifestRight
  <1> QED
    BY <1>1, <1>2 DEF D!Suggested

\* discovery.js, catalog.js: for any number of requests, places and workers, discoveries
\* keep their bounds and offer what the API builds.
THEOREM Discoveries == PartsSpec => []DiscoveryHolds
  <1> DEFINE Inv == part = "scan" => ScanInv
  <1>1. PartsInit => Inv
    BY ScanInit DEF PartsInit
  <1>2. Inv /\ [PartsNext]_allVars => Inv'
    <2>1. ASSUME ScanInv, UNCHANGED scanVars
          PROVE  ScanInv'
      BY <2>1 DEF scanVars, ScanInv, Under, D!Inside
    <2> QED
      BY <2>1, ScanStep DEF PartsNext, allVars, adminVars
  <1>3. Inv => DiscoveryHolds
    <2> SUFFICES ASSUME ScanInv PROVE D!DiscoveryHolds
      BY DEF DiscoveryHolds
    <2>1. inflight = D!Cardinality({r \in Askers : D!Inside(r)}) /\ inflight <= MaxInflight
      <3>1. Under = {r \in Askers : D!Inside(r)}
        BY DEF Under
      <3> QED
        BY <3>1, SameCardinality DEF ScanInv
    <2>2. \A r \in Askers : D!Cardinality(run[r].pool.busy) <= Workers
      <3> SUFFICES ASSUME NEW r \in Askers PROVE D!Cardinality(run[r].pool.busy) <= Workers
        OBVIOUS
      <3>1. Cardinality(run[r].pool.busy) <= Workers
        BY DEF ScanInv, RunRight
      <3> QED
        BY <3>1, SameCardinality
    <2>3. \A m \in manifest : /\ \A c \in D!Suggested(m) : D!Builds(c)
                              /\ m.certs \subseteq m.open
                              /\ m.partial => m.hint = "unknown" /\ m.certs = {}
      BY SuggestedBuilds DEF ScanInv, ManifestRight
    <2> QED
      BY <2>1, <2>2, <2>3 DEF D!DiscoveryHolds
  <1> QED
    BY <1>1, <1>2, <1>3, PTL DEF PartsSpec, allVars

-----------------------------------------------------------------------------
(* A ComfyUI and the connections to it. *)

\* A poll under way is that of an object, and the finished jobs are jobs.
PollRight ==
    /\ poll \in [pc : {"idle", "asked", "done"}, obj : {0} \cup Objects]
    /\ poll.pc # "idle" => poll.obj \in Objects
    /\ hist \in Seq(Jobs)

\* An object that neither the map nor the poll holds is garbage.
Looked == \A o \in Objects : o \notin {current, poll.obj} => st[o] = C!freshState

\* The job that runs now and was not running at the last answered poll of an object began
\* since, if that poll asked the same port.
BegunSince ==
    \A o \in Objects :
        o \notin moved /\ st[o].up /\ job # C!None /\ job # st[o].running => job \in fresh[o]

\* A connection that has begun is some object's.
Owned == \A s \in Sockets : socks[s].phase # "free" => socks[s].owner \in Objects

ComfyInv ==
    C!TypeOK /\ C!HeldSocketLives /\ PollRight /\ Looked /\ BegunSince /\ Owned

SocketType == [owner : {0} \cup Objects, phase : {"free", "connecting", "open"}, done : BOOLEAN]

LEMMA ComfyConstants ==
    /\ 0 \notin Objects /\ 0 \notin Sockets /\ C!None \notin Jobs /\ 1 \in Objects
    /\ MaxFaults \in Nat /\ C!None = 0
    /\ DONE_FIRST \in Nat \ {0} /\ DONE_NEXT \in Nat \ {0}
  BY PartsAssumption DEF C!ComfyAssumption, C!None

LEMMA FreshStateType ==
    /\ C!freshState \in C!State /\ C!freshState.ws = 0
    /\ C!freshState.up = FALSE /\ C!freshState.running = C!None /\ C!freshState.exact = FALSE
  BY DEF C!freshState, C!State

\* The parts that speak of the objects, of the sockets and of the poll.
LEMMA ComfyParts ==
    ASSUME ComfyInv
    PROVE  /\ st \in [Objects -> C!State] /\ socks \in [Sockets -> SocketType]
           /\ \A o \in Objects : ~st[o].up => st[o].running = C!None
           /\ \A o \in Objects : /\ st[o].ws \in {0} \cup Sockets /\ st[o].up \in BOOLEAN
                                 /\ st[o].running \in Jobs \cup {C!None}
           /\ current \in {0} \cup Objects /\ poll.obj \in {0} \cup Objects
           /\ faults \in 0..MaxFaults /\ up \in BOOLEAN
           /\ fresh \in [Objects -> SUBSET Jobs] /\ job \in Jobs \cup {C!None}
           /\ moved \subseteq Objects
  BY DEF ComfyInv, C!TypeOK, C!State, SocketType, PollRight

LEMMA ComfyInit == C!Init => ComfyInv
  <1> SUFFICES ASSUME C!Init PROVE ComfyInv
    OBVIOUS
  <1>1. C!TypeOK
    BY FreshStateType, ComfyConstants DEF C!Init, C!TypeOK, C!NoSocket, C!Idle
  <1>2. C!HeldSocketLives /\ Looked /\ BegunSince /\ Owned
    BY FreshStateType DEF C!Init, C!HeldSocketLives, Looked, BegunSince, Owned, C!NoSocket
  <1>3. PollRight
    BY DEF C!Init, PollRight, C!Idle
  <1> QED
    BY <1>1, <1>2, <1>3 DEF ComfyInv

\* Steps of ComfyUI: a job starts or finishes, and the server comes back.
LEMMA ServerStep ==
    ASSUME ComfyInv, (\E j \in Jobs : C!StartJob(j)) \/ C!FinishJob \/ C!ServerStarts
    PROVE  ComfyInv'
  <1>1. UNCHANGED <<faults, moved, current, st, poll, socks, table>>
    BY DEF C!StartJob, C!FinishJob, C!ServerStarts, C!ghosts
  <1>2. C!HeldSocketLives' /\ Looked' /\ Owned'
    BY <1>1 DEF ComfyInv, C!HeldSocketLives, Looked, Owned
  <1>3. CASE \E j \in Jobs : C!StartJob(j)
    <2>1. PICK j \in Jobs : C!StartJob(j)
      BY <1>3
    <2>2. /\ job' = j /\ left' = left \ {j} /\ up' = up /\ hist' = hist
          /\ fresh' = [o \in Objects |-> IF o \in {current, poll.obj} THEN fresh[o] \cup {j}
                                         ELSE {}]
      BY <2>1 DEF C!StartJob
    <2>3. fresh' \in [Objects -> SUBSET Jobs]
      BY <2>2, ComfyParts
    <2>4. BegunSince'
      BY <1>1, <2>2, FreshStateType DEF ComfyInv, Looked, BegunSince
    <2> QED
      BY <1>1, <1>2, <2>2, <2>3, <2>4 DEF ComfyInv, C!TypeOK, PollRight
  <1>4. CASE C!FinishJob
    <2>1. /\ job \in Jobs /\ job' = C!None /\ hist' = <<job>> \o hist
          /\ up' = up /\ left' = left /\ fresh' = fresh
      BY <1>4 DEF C!FinishJob, C!ghosts, ComfyInv, C!TypeOK
    <2>2. hist' \in Seq(Jobs)
      BY <2>1 DEF ComfyInv, PollRight
    <2> QED
      BY <1>1, <1>2, <2>1, <2>2 DEF ComfyInv, C!TypeOK, PollRight, BegunSince
  <1>5. CASE C!ServerStarts
    BY <1>1, <1>2, <1>5 DEF C!ServerStarts, C!ghosts, ComfyInv, C!TypeOK, PollRight, BegunSince
  <1> QED
    BY <1>3, <1>4, <1>5

\* The flags and times of a state that may change without its being shown otherwise.
Alike(x, y) == y \in C!State /\ y.up = x.up /\ y.running = x.running /\ y.ws = x.ws

LEMMA Touches ==
    ASSUME NEW x \in C!State, NEW b \in BOOLEAN, NEW j \in Jobs \cup {C!None}
    PROVE  /\ Alike(x, [x EXCEPT !.rest = b]) /\ Alike(x, [x EXCEPT !.wsRest = b])
           /\ Alike(x, [x EXCEPT !.old = b])
           /\ Alike(x, [x EXCEPT !.start = j, !.exact = b])
  BY DEF Alike, C!State

\* Steps that change nothing of an object but its times and flags.
LEMMA TouchStep ==
    ASSUME ComfyInv, (\E s \in Sockets : C!Message(s)) \/ C!RestOver \/ C!WsRestOver \/ C!Ages
    PROVE  /\ ComfyInv'
           /\ \A o \in Objects : st'[o].running = st[o].running
  <1>1. UNCHANGED <<up, job, hist, left, faults, fresh, moved, current, poll, socks, table>>
    BY DEF C!Message, C!RestOver, C!WsRestOver, C!Ages, C!comfyui, C!ghosts
  <1>2. \E o \in Objects : \E x : /\ o \in {current, poll.obj} /\ Alike(st[o], x)
                                  /\ st' = [st EXCEPT ![o] = x]
    <2>1. CASE \E s \in Sockets : C!Message(s)
      <3>1. PICK s \in Sockets : C!Message(s)
        BY <2>1
      <3>2. PICK o : o = socks[s].owner
        OBVIOUS
      <3>3. o \in {current, poll.obj} /\ o \in Objects /\ socks[s].phase = "open"
        BY <3>1, <3>2 DEF C!Message, ComfyInv, Owned
      <3>4. st[o] \in C!State
        BY <3>3, ComfyParts
      <3>5. PICK b \in BOOLEAN : b = (st[o].exact \/ st[o].running = job)
        OBVIOUS
      <3>6. \/ st' = [st EXCEPT ![o] = [st[o] EXCEPT !.start = job, !.exact = b]]
            \/ st' = [st EXCEPT ![o] = [st[o] EXCEPT !.rest = FALSE]]
        BY <3>1, <3>2, <3>5 DEF C!Message
      <3> QED
        BY <3>3, <3>4, <3>6, Touches, ComfyParts
    <2>2. CASE C!RestOver
      <3>1. current \in Objects /\ st' = [st EXCEPT ![current] = [st[current] EXCEPT !.rest = FALSE]]
        BY <2>2, ComfyParts DEF C!RestOver
      <3> QED
        BY <3>1, Touches, ComfyParts, ComfyConstants
    <2>3. CASE C!WsRestOver
      <3>1. PICK o \in {current, poll.obj} \ {0} :
              st' = [st EXCEPT ![o] = [st[o] EXCEPT !.wsRest = FALSE]]
        BY <2>3 DEF C!WsRestOver
      <3>2. o \in Objects
        BY ComfyParts
      <3> QED
        BY <3>1, <3>2, Touches, ComfyParts, ComfyConstants
    <2>4. CASE C!Ages
      <3>1. current \in Objects /\ st' = [st EXCEPT ![current] = [st[current] EXCEPT !.old = TRUE]]
        BY <2>4, ComfyParts DEF C!Ages
      <3> QED
        BY <3>1, Touches, ComfyParts, ComfyConstants
    <2> QED
      BY <2>1, <2>2, <2>3, <2>4
  <1>3. PICK o \in Objects : \E x : /\ o \in {current, poll.obj} /\ Alike(st[o], x)
                                     /\ st' = [st EXCEPT ![o] = x]
    BY <1>2
  <1>4. /\ st' \in [Objects -> C!State]
        /\ \A p \in Objects : /\ st'[p].up = st[p].up /\ st'[p].running = st[p].running
                              /\ st'[p].ws = st[p].ws
                              /\ p \notin {current, poll.obj} => st'[p] = st[p]
    BY <1>3, ComfyParts DEF Alike
  <1>5. C!TypeOK' /\ PollRight'
    BY <1>1, <1>4 DEF ComfyInv, C!TypeOK, PollRight
  <1>6. C!HeldSocketLives' /\ Looked' /\ BegunSince' /\ Owned'
    BY <1>1, <1>4 DEF ComfyInv, C!HeldSocketLives, Looked, BegunSince, Owned
  <1> QED
    BY <1>4, <1>5, <1>6 DEF ComfyInv

\* A state that loses its connection, at once or until it may try again.
LEMMA Loses ==
    ASSUME NEW x \in C!State
    PROVE  /\ C!Closed(x) \in C!State /\ C!Closed(x).ws = 0
           /\ C!Closed(x).up = x.up /\ C!Closed(x).running = x.running
           /\ [x EXCEPT !.ws = 0, !.wsRest = TRUE] \in C!State
           /\ [x EXCEPT !.ws = 0, !.wsRest = TRUE].ws = 0
           /\ [x EXCEPT !.ws = 0, !.wsRest = TRUE].up = x.up
           /\ [x EXCEPT !.ws = 0, !.wsRest = TRUE].running = x.running
  BY DEF C!Closed, C!State

\* onClose: the object that holds the connection loses it, every other state stays.
LEMMA EndedStates ==
    ASSUME ComfyInv, NEW s \in Sockets
    PROVE  /\ C!Ended(s, st) \in [Objects -> C!State]
           /\ \A o \in Objects :
                /\ C!Ended(s, st)[o].up = st[o].up
                /\ C!Ended(s, st)[o].running = st[o].running
                /\ IF o = socks[s].owner /\ st[o].ws = s THEN C!Ended(s, st)[o].ws = 0
                   ELSE C!Ended(s, st)[o] = st[o]
  <1>1. PICK o : o = socks[s].owner
    OBVIOUS
  <1>2. st \in [Objects -> C!State] /\ o \in {0} \cup Objects /\ 0 \notin Objects
    BY <1>1, ComfyParts, ComfyConstants DEF SocketType
  <1>3. CASE o # 0 /\ st[o].ws = s
    <2>1. PICK x : x = [st[o] EXCEPT !.ws = 0, !.wsRest = TRUE]
      OBVIOUS
    <2>2. x \in C!State /\ x.ws = 0 /\ x.up = st[o].up /\ x.running = st[o].running
      BY <1>2, <1>3, <2>1, Loses
    <2>3. C!Ended(s, st) = [st EXCEPT ![o] = x]
      BY <1>1, <1>3, <2>1 DEF C!Ended
    <2> QED
      BY <1>1, <1>2, <1>3, <2>2, <2>3
  <1>4. CASE ~(o # 0 /\ st[o].ws = s)
    <2>1. C!Ended(s, st) = st
      BY <1>1, <1>4 DEF C!Ended
    <2> QED
      BY <1>1, <1>2, <1>4, <2>1
  <1> QED
    BY <1>3, <1>4

LEMMA SocketStep ==
    ASSUME ComfyInv, NEW s \in Sockets, C!Upgraded(s) \/ C!SocketEnds(s)
    PROVE  /\ ComfyInv'
           /\ \A o \in Objects : st'[o].running = st[o].running
  <1>1. UNCHANGED <<up, job, hist, left, fresh, moved, current, poll, table>>
    BY DEF C!Upgraded, C!SocketEnds, C!comfyui, C!ghosts
  <1>2. socks[s] \in SocketType /\ socks \in [Sockets -> SocketType]
    BY ComfyParts
  <1>3. CASE C!Upgraded(s)
    <2>1. /\ socks' = [socks EXCEPT ![s] = [socks[s] EXCEPT !.phase = "open"]]
          /\ st' = st /\ faults' = faults
      BY <1>3 DEF C!Upgraded
    <2>2. PICK x : x = [socks[s] EXCEPT !.phase = "open"]
      OBVIOUS
    <2>3. /\ x \in SocketType /\ x.phase = "open" /\ x.owner = socks[s].owner
          /\ x.done = socks[s].done
      BY <1>2, <2>2 DEF SocketType
    <2>4. /\ socks' \in [Sockets -> SocketType] /\ socks'[s] = x
          /\ \A t \in Sockets : t # s => socks'[t] = socks[t]
      BY <1>2, <2>1, <2>2, <2>3
    <2>5. C!TypeOK' /\ PollRight' /\ Looked' /\ BegunSince'
      BY <1>1, <2>1, <2>4 DEF ComfyInv, C!TypeOK, PollRight, Looked, BegunSince, SocketType
    <2>6. socks[s].phase # "free"
      BY <1>3 DEF C!Upgraded
    <2>7. C!HeldSocketLives' /\ Owned'
      BY <2>1, <2>3, <2>4, <2>6, ComfyParts DEF ComfyInv, C!HeldSocketLives, Owned
    <2> QED
      BY <2>1, <2>5, <2>7 DEF ComfyInv
  <1>4. CASE C!SocketEnds(s)
    <2>1. /\ socks' = [socks EXCEPT ![s] = C!NoSocket]
          /\ st' = IF socks[s].done THEN st ELSE C!Ended(s, st)
          /\ faults' \in 0..MaxFaults
      <3>1. faults' = IF up THEN faults + 1 ELSE faults
        BY <1>4 DEF C!SocketEnds
      <3>2. ~up \/ faults < MaxFaults
        BY <1>4 DEF C!SocketEnds
      <3>3. faults' \in 0..MaxFaults
        BY <3>1, <3>2, ComfyParts, ComfyConstants
      <3> QED
        BY <1>4, <3>3 DEF C!SocketEnds
    <2>2. /\ C!NoSocket \in SocketType /\ C!NoSocket.phase = "free"
      BY DEF C!NoSocket, SocketType
    <2>3. /\ socks' \in [Sockets -> SocketType] /\ socks'[s].phase = "free"
          /\ \A t \in Sockets : t # s => socks'[t] = socks[t]
      BY <1>2, <2>1, <2>2
    <2>4. /\ st' \in [Objects -> C!State]
          /\ \A o \in Objects : /\ st'[o].up = st[o].up /\ st'[o].running = st[o].running
                                /\ st'[o] = st[o] \/ (st[o].ws = s /\ st'[o].ws = 0)
                                /\ st'[o].ws = s => FALSE
      <3>1. CASE socks[s].done
        <4>1. st' = st
          BY <2>1, <3>1
        <4>2. \A o \in Objects : st[o].ws # s
          BY <3>1, ComfyConstants DEF ComfyInv, C!HeldSocketLives
        <4> QED
          BY <4>1, <4>2, ComfyParts
      <3>2. CASE ~socks[s].done
        <4>1. st' = C!Ended(s, st)
          BY <2>1, <3>2
        <4>2. \A o \in Objects : st[o].ws = s => o = socks[s].owner
          BY ComfyConstants DEF ComfyInv, C!HeldSocketLives
        <4> QED
          BY <4>1, <4>2, EndedStates, ComfyConstants
      <3> QED
        BY <3>1, <3>2
    <2>5. C!TypeOK' /\ PollRight' /\ BegunSince'
      BY <1>1, <2>1, <2>3, <2>4 DEF ComfyInv, C!TypeOK, PollRight, BegunSince, SocketType
    <2>6. C!HeldSocketLives' /\ Owned'
      BY <2>3, <2>4, ComfyParts DEF ComfyInv, C!HeldSocketLives, Owned
    <2>7. Looked'
      BY <1>1, <2>4, FreshStateType, ComfyConstants DEF ComfyInv, Looked
    <2> QED
      BY <2>4, <2>5, <2>6, <2>7 DEF ComfyInv
  <1> QED
    BY <1>3, <1>4

\* onClose of every open connection, when ComfyUI dies: each is held no longer.
LEMMA DiesStep ==
    ASSUME ComfyInv, C!ServerDies
    PROVE  /\ ComfyInv'
           /\ \A o \in Objects : st'[o].running = st[o].running
  <1>1. /\ UNCHANGED <<left, fresh, moved, current, poll, table>>
        /\ up' = FALSE /\ job' = C!None /\ hist' = <<>> /\ faults' \in 0..MaxFaults
    <2>1. faults < MaxFaults /\ faults' = faults + 1
      BY DEF C!ServerDies
    <2>2. faults' \in 0..MaxFaults
      BY <2>1, ComfyParts, ComfyConstants
    <2> QED
      BY <2>2 DEF C!ServerDies, C!ghosts
  <1>2. socks' = [s \in Sockets |-> IF socks[s].phase = "open" THEN C!NoSocket ELSE socks[s]]
    BY DEF C!ServerDies
  <1>3. C!NoSocket \in SocketType /\ C!NoSocket.phase = "free"
    BY DEF C!NoSocket, SocketType
  <1>4. /\ socks' \in [Sockets -> SocketType]
        /\ \A s \in Sockets : socks'[s] = socks[s] \/ (socks[s].phase = "open" /\ socks'[s].phase = "free")
    BY <1>2, <1>3, ComfyParts
  <1>5. ASSUME NEW o \in Objects
        PROVE  /\ st'[o] \in C!State
               /\ st'[o].up = st[o].up /\ st'[o].running = st[o].running
               /\ st'[o] = st[o] \/ (st[o].ws # 0 /\ st'[o].ws = 0)
               /\ st[o].ws # 0 /\ socks[st[o].ws].phase = "open" => st'[o].ws = 0
    <2>1. st'[o] = IF st[o].ws # 0 /\ socks[st[o].ws].phase = "open"
                   THEN C!Ended(st[o].ws, st)[o] ELSE st[o]
      BY DEF C!ServerDies
    <2>2. CASE st[o].ws # 0 /\ socks[st[o].ws].phase = "open"
      <3>1. st[o].ws \in Sockets /\ socks[st[o].ws].owner = o
        BY <2>2, ComfyParts DEF ComfyInv, C!HeldSocketLives
      <3>2. PICK s \in Sockets : s = st[o].ws
        BY <3>1
      <3>3. st'[o] = C!Ended(s, st)[o] /\ socks[s].owner = o
        BY <2>1, <2>2, <3>1, <3>2
      <3> QED
        BY <2>2, <3>2, <3>3, EndedStates
    <2>3. CASE ~(st[o].ws # 0 /\ socks[st[o].ws].phase = "open")
      BY <2>1, <2>3, ComfyParts
    <2> QED
      BY <2>2, <2>3
  <1>6. st' \in [Objects -> C!State]
    <2>1. st' = [o \in Objects |->
                   IF st[o].ws # 0 /\ socks[st[o].ws].phase = "open"
                   THEN C!Ended(st[o].ws, st)[o] ELSE st[o]]
      BY DEF C!ServerDies
    <2> QED
      BY <1>5, <2>1
  <1>7. C!TypeOK' /\ PollRight' /\ BegunSince'
    <2>1. \A o \in Objects : ~st'[o].up => st'[o].running = C!None
      BY <1>5, ComfyParts
    <2>2. C!TypeOK'
      BY <1>1, <1>4, <1>6, <2>1 DEF ComfyInv, C!TypeOK, SocketType
    <2>3. PollRight' /\ BegunSince'
      BY <1>1 DEF ComfyInv, PollRight, BegunSince
    <2> QED
      BY <2>2, <2>3
  <1>8. C!HeldSocketLives' /\ Owned'
    <2>1. Owned'
      BY <1>4 DEF ComfyInv, Owned
    <2>2. ASSUME NEW o \in Objects, st'[o].ws # 0
          PROVE  socks'[st'[o].ws] = socks[st[o].ws] /\ st'[o].ws = st[o].ws
      BY <1>4, <1>5, <2>2, ComfyParts
    <2>3. C!HeldSocketLives'
      BY <1>5, <2>2 DEF ComfyInv, C!HeldSocketLives
    <2> QED
      BY <2>1, <2>3
  <1>9. Looked'
    BY <1>1, <1>5, FreshStateType DEF ComfyInv, Looked
  <1> QED
    BY <1>5, <1>7, <1>8, <1>9 DEF ComfyInv

\* _closeWs: the connection the object held is destroyed or marked done, the others stay.
LEMMA Closes ==
    ASSUME ComfyInv, NEW o \in Objects, socks' = C!CloseWs(o)
    PROVE  /\ socks' \in [Sockets -> SocketType]
           /\ \A s \in Sockets : socks'[s].phase # "free" => socks'[s].owner = socks[s].owner
                                                              /\ socks[s].phase # "free"
           /\ \A s \in Sockets : s # st[o].ws => socks'[s] = socks[s]
  <1>1. socks \in [Sockets -> SocketType] /\ st[o].ws \in {0} \cup Sockets
    BY ComfyParts
  <1>2. CASE st[o].ws = 0
    BY <1>1, <1>2 DEF C!CloseWs
  <1>3. CASE st[o].ws # 0
    <2>1. PICK s \in Sockets : s = st[o].ws
      BY <1>1, <1>3
    <2>2. socks' = [socks EXCEPT ![s] = C!Dropped(s)]
      BY <1>3, <2>1 DEF C!CloseWs
    <2>3. /\ C!Dropped(s) \in SocketType
          /\ C!Dropped(s).phase # "free" => C!Dropped(s).owner = socks[s].owner
                                            /\ socks[s].phase # "free"
      <3>1. socks[s] \in SocketType
        BY <1>1
      <3> QED
        BY <3>1 DEF C!Dropped, C!NoSocket, SocketType
    <2> QED
      BY <1>1, <2>1, <2>2, <2>3
  <1> QED
    BY <1>2, <1>3

\* A step that closes the connection of an object, whose state loses it: the others keep
\* theirs.
LEMMA ClosedApart ==
    ASSUME ComfyInv, NEW o \in Objects, socks' = C!CloseWs(o),
           \A p \in Objects : st'[p].ws = 0 \/ (p # o /\ st'[p].ws = st[p].ws)
    PROVE  C!HeldSocketLives' /\ Owned'
  <1>1. Owned'
    BY Closes DEF ComfyInv, Owned
  <1>2. ASSUME NEW p \in Objects, st'[p].ws # 0
        PROVE  st'[p].ws = st[p].ws /\ socks'[st'[p].ws] = socks[st[p].ws]
    <2>1. p # o /\ st'[p].ws = st[p].ws
      BY <1>2
    <2>2. st[p].ws \in Sockets /\ socks[st[p].ws].owner = p
      BY <1>2, <2>1, ComfyParts DEF ComfyInv, C!HeldSocketLives
    <2>3. st[p].ws # st[o].ws
      BY <1>2, <2>1, <2>2 DEF ComfyInv, C!HeldSocketLives
    <2> QED
      BY <2>1, <2>2, <2>3, Closes
  <1>3. C!HeldSocketLives'
    BY <1>2 DEF ComfyInv, C!HeldSocketLives
  <1> QED
    BY <1>1, <1>3

LEMMA ReconfigureStep ==
    ASSUME ComfyInv, NEW n \in {0} \cup Objects, C!Reconfigure(n)
    PROVE  /\ ComfyInv'
           /\ \A o \in Objects : st'[o].exact => st'[o].running = st[o].running
  <1>1. /\ UNCHANGED <<up, job, hist, left, faults, fresh, moved, poll, table>>
        /\ current \in Objects /\ current' = n /\ n # current /\ socks' = C!CloseWs(current)
    BY ComfyParts DEF C!Reconfigure, C!comfyui, C!ghosts
  <1>2. PICK x : x = C!Closed(st[current])
    OBVIOUS
  <1>3. /\ x \in C!State /\ x.ws = 0 /\ x.up = st[current].up
        /\ x.running = st[current].running
    BY <1>1, <1>2, ComfyParts, Loses
  <1>4. st' = [o \in Objects |-> IF o \in {poll.obj} THEN [st EXCEPT ![current] = x][o]
                                 ELSE C!freshState]
    <2>1. st' = C!Kept([st EXCEPT ![current] = C!Closed(st[current])], {poll.obj})
      BY DEF C!Reconfigure
    <2> QED
      BY <1>2, <2>1 DEF C!Kept
  <1>5. /\ st' \in [Objects -> C!State]
        /\ \A o \in Objects : IF o # poll.obj THEN st'[o] = C!freshState
                              ELSE st'[o] = IF o = current THEN x ELSE st[o]
    BY <1>1, <1>3, <1>4, ComfyParts, FreshStateType
  <1>6. \A o \in Objects :
          /\ st'[o] = C!freshState \/ (st'[o].up = st[o].up /\ st'[o].running = st[o].running)
          /\ st'[o].ws = 0 \/ (o # current /\ st'[o].ws = st[o].ws)
    BY <1>3, <1>5, FreshStateType
  <1>7. C!HeldSocketLives' /\ Owned' /\ socks' \in [Sockets -> SocketType]
    BY <1>1, <1>6, Closes, ClosedApart
  <1>8. C!TypeOK'
    BY <1>1, <1>5, <1>6, <1>7, FreshStateType DEF ComfyInv, C!TypeOK, SocketType
  <1>9. PollRight' /\ Looked' /\ BegunSince'
    BY <1>1, <1>5, <1>6, FreshStateType DEF ComfyInv, PollRight, Looked, BegunSince
  <1> QED
    BY <1>6, <1>7, <1>8, <1>9, FreshStateType DEF ComfyInv

\* Another port is followed: the socket is closed, and nothing else that is shown changes.
LEMMA FollowStep ==
    ASSUME ComfyInv, current \in Objects, C!Follow
    PROVE  /\ st' \in [Objects -> C!State] /\ socks' \in [Sockets -> SocketType]
           /\ \A o \in Objects : /\ st'[o].up = st[o].up /\ st'[o].running = st[o].running
                                 /\ o # current => st'[o] = st[o]
           /\ C!HeldSocketLives' /\ Owned'
           /\ faults' \in 0..MaxFaults /\ moved' = moved \cup {current}
           /\ up' \in BOOLEAN /\ job' \in Jobs \cup {C!None} /\ left' \subseteq Jobs
           /\ hist' \in Seq(Jobs)
  <1>1. PICK x : x = [C!Closed(st[current]) EXCEPT !.rest = FALSE, !.wsRest = FALSE]
    OBVIOUS
  <1>2. /\ x \in C!State /\ x.ws = 0 /\ x.up = st[current].up
        /\ x.running = st[current].running
    <2>1. PICK y : y = C!Closed(st[current])
      OBVIOUS
    <2>2. y \in C!State /\ y.ws = 0 /\ y.up = st[current].up /\ y.running = st[current].running
      BY <2>1, ComfyParts, Loses
    <2>3. x = [y EXCEPT !.rest = FALSE, !.wsRest = FALSE]
      BY <1>1, <2>1
    <2> QED
      BY <2>2, <2>3 DEF C!State
  <1>3. st' = [st EXCEPT ![current] = x] /\ socks' = C!CloseWs(current)
    BY <1>1 DEF C!Follow
  <1>4. /\ st' \in [Objects -> C!State] /\ st'[current] = x
        /\ \A o \in Objects : o # current => st'[o] = st[o]
    BY <1>2, <1>3, ComfyParts
  <1>5. C!HeldSocketLives' /\ Owned' /\ socks' \in [Sockets -> SocketType]
    BY <1>2, <1>3, <1>4, Closes, ClosedApart
  <1>6. faults' \in 0..MaxFaults
    <2>1. faults' = (IF up THEN faults + 1 ELSE faults) /\ (~up \/ faults < MaxFaults)
      BY DEF C!Follow
    <2> QED
      BY <2>1, ComfyParts, ComfyConstants
  <1>7. /\ up' \in BOOLEAN /\ job' \in Jobs \cup {C!None} /\ left' \subseteq Jobs
        /\ hist' \in Seq(Jobs)
    <2>1. left \subseteq Jobs
      BY DEF ComfyInv, C!TypeOK
    <2>2. /\ up' \in BOOLEAN
          /\ \/ job' = C!None /\ hist' = <<>> /\ left' = left
             \/ \E j \in left :
                   left' = left \ {j} /\ (\/ job' = j /\ hist' = <<>>
                                          \/ job' = C!None /\ hist' = <<j>>)
      BY DEF C!Follow, C!Elsewhere
    <2>3. CASE job' = C!None /\ hist' = <<>> /\ left' = left
      BY <2>1, <2>2, <2>3
    <2>4. ASSUME NEW j \in left, left' = left \ {j},
                 (job' = j /\ hist' = <<>>) \/ (job' = C!None /\ hist' = <<j>>)
          PROVE  job' \in Jobs \cup {C!None} /\ left' \subseteq Jobs /\ hist' \in Seq(Jobs)
      <3>1. j \in Jobs /\ <<j>> \in Seq(Jobs) /\ <<>> \in Seq(Jobs)
        BY <2>1
      <3> QED
        BY <2>1, <2>4, <3>1
    <2> QED
      BY <2>2, <2>3, <2>4
  <1> QED
    BY <1>2, <1>4, <1>5, <1>6, <1>7 DEF C!Follow

LEMMA PollStartStep ==
    ASSUME ComfyInv, C!PollStart
    PROVE  ComfyInv' /\ \A o \in Objects : st'[o].running = st[o].running
  <1>1. /\ UNCHANGED <<fresh, current, table>>
        /\ current \in Objects /\ poll.obj = 0
        /\ poll' = [pc |-> "asked", obj |-> current]
    BY ComfyParts DEF C!PollStart, C!Idle
  <1>2. CASE C!Follow
    <2>1. C!TypeOK'
      BY <1>1, <1>2, FollowStep, ComfyParts DEF ComfyInv, C!TypeOK, SocketType
    <2>2. /\ \A o \in Objects : o # current => st'[o] = C!freshState
          /\ moved' = moved \cup {current}
      BY <1>1, <1>2, FollowStep, ComfyConstants DEF ComfyInv, Looked
    <2>3. Looked' /\ BegunSince'
      BY <1>1, <2>2, FreshStateType DEF Looked, BegunSince
    <2>4. PollRight'
      BY <1>1, <1>2, FollowStep DEF PollRight
    <2> QED
      BY <1>1, <1>2, <2>1, <2>3, <2>4, FollowStep DEF ComfyInv
  <1>3. CASE UNCHANGED <<up, job, hist, left, faults, moved, st, socks>>
    <2>1. C!TypeOK' /\ PollRight' /\ BegunSince' /\ C!HeldSocketLives' /\ Owned'
      BY <1>1, <1>3 DEF ComfyInv, C!TypeOK, PollRight, BegunSince, C!HeldSocketLives, Owned
    <2>2. Looked'
      BY <1>1, <1>3, ComfyConstants DEF ComfyInv, Looked
    <2> QED
      BY <1>3, <2>1, <2>2 DEF ComfyInv
  <1> QED
    BY <1>2, <1>3 DEF C!PollStart, C!comfyui

\* _ensureWs at the end of a poll of o, whose state is x by then: it keeps its connection
\* or, without one, gets one of its own.
LEMMA Ensures ==
    ASSUME ComfyInv, NEW o \in Objects, o = poll.obj, NEW x \in C!State, x.ws = st[o].ws,
           C!EnsureWs(x)
    PROVE  /\ st' \in [Objects -> C!State] /\ socks' \in [Sockets -> SocketType]
           /\ \A p \in Objects : p # o => st'[p] = st[p]
           /\ IF o # current THEN st'[o] = C!freshState
              ELSE /\ st'[o].up = x.up /\ st'[o].running = x.running
                   /\ st'[o].exact = x.exact
           /\ C!HeldSocketLives' /\ Owned'
  <1>1. socks \in [Sockets -> SocketType] /\ st \in [Objects -> C!State]
    BY ComfyParts
  <1>2. ASSUME NEW y \in C!State, st' = C!Kept([st EXCEPT ![o] = y], {current})
        PROVE  /\ st' \in [Objects -> C!State]
               /\ \A p \in Objects : p # o => st'[p] = st[p]
               /\ st'[o] = IF o # current THEN C!freshState ELSE y
    <2>1. st' = [p \in Objects |-> IF p \in {current} THEN [st EXCEPT ![o] = y][p]
                                   ELSE C!freshState]
      BY <1>2 DEF C!Kept
    <2>2. \A p \in Objects : p # o /\ p # current => st[p] = C!freshState
      BY DEF ComfyInv, Looked
    <2> QED
      BY <1>1, <2>1, <2>2, FreshStateType
  <1>3. CASE st' = C!Kept([st EXCEPT ![poll.obj] = x], {current}) /\ UNCHANGED socks
    <2>1. st' = C!Kept([st EXCEPT ![o] = x], {current})
      BY <1>3
    <2>2. /\ st' \in [Objects -> C!State]
          /\ \A p \in Objects : p # o => st'[p] = st[p]
          /\ st'[o] = IF o # current THEN C!freshState ELSE x
      BY <1>2, <2>1
    <2>3. \A p \in Objects : st'[p].ws = 0 \/ st'[p].ws = st[p].ws
      BY <2>2, FreshStateType
    <2>4. C!HeldSocketLives' /\ Owned'
      BY <1>3, <2>3 DEF ComfyInv, C!HeldSocketLives, Owned
    <2> QED
      BY <1>1, <1>3, <2>2, <2>4
  <1>4. CASE /\ C!Wants(x)
             /\ \E s \in C!Free :
                  /\ socks' = [socks EXCEPT ![s] = [owner |-> poll.obj, phase |-> "connecting",
                                                    done |-> FALSE]]
                  /\ st' = C!Kept([st EXCEPT ![poll.obj] = [x EXCEPT !.ws = s]], {current})
    <2>1. PICK s \in C!Free :
            /\ socks' = [socks EXCEPT ![s] = [owner |-> o, phase |-> "connecting",
                                              done |-> FALSE]]
            /\ st' = C!Kept([st EXCEPT ![o] = [x EXCEPT !.ws = s]], {current})
      BY <1>4
    <2>2. s \in Sockets /\ socks[s].phase = "free"
      BY DEF C!Free
    <2>3. PICK y : y = [x EXCEPT !.ws = s]
      OBVIOUS
    <2>4. /\ y \in C!State /\ y.ws = s /\ y.up = x.up /\ y.running = x.running
          /\ y.exact = x.exact
      BY <2>2, <2>3 DEF C!State
    <2>5. /\ st' \in [Objects -> C!State]
          /\ \A p \in Objects : p # o => st'[p] = st[p]
          /\ st'[o] = IF o # current THEN C!freshState ELSE y
      BY <1>2, <2>1, <2>3, <2>4
    <2>6. PICK c : c = [owner |-> o, phase |-> "connecting", done |-> FALSE]
      OBVIOUS
    <2>7. /\ c \in SocketType /\ c.owner = o /\ c.phase = "connecting" /\ c.done = FALSE
      BY <2>6 DEF SocketType
    <2>8. /\ socks' \in [Sockets -> SocketType] /\ socks'[s] = c
          /\ \A t \in Sockets : t # s => socks'[t] = socks[t]
      BY <1>1, <2>1, <2>2, <2>6, <2>7
    <2>9. Owned'
      BY <2>7, <2>8 DEF ComfyInv, Owned
    <2>10. C!HeldSocketLives'
      <3>1. \A p \in Objects : st[p].ws # 0 => st[p].ws \in Sockets /\ st[p].ws # s
        BY <2>2, ComfyParts DEF ComfyInv, C!HeldSocketLives
      <3>2. ASSUME NEW p \in Objects, st'[p].ws # 0
            PROVE  /\ socks'[st'[p].ws].owner = p /\ socks'[st'[p].ws].phase # "free"
                   /\ ~socks'[st'[p].ws].done
        <4>1. CASE p # o
          BY <2>5, <2>8, <3>1, <3>2, <4>1 DEF ComfyInv, C!HeldSocketLives
        <4>2. CASE p = o
          <5>1. st'[p].ws = s
            BY <2>4, <2>5, <3>2, <4>2, FreshStateType
          <5> QED
            BY <2>7, <2>8, <4>2, <5>1
        <4> QED
          BY <4>1, <4>2
      <3> QED
        BY <3>2 DEF C!HeldSocketLives
    <2> QED
      BY <2>4, <2>5, <2>8, <2>9, <2>10
  <1> QED
    BY <1>3, <1>4 DEF C!EnsureWs

\* What an answer makes of a state.
LEMMA SeesType ==
    ASSUME NEW x \in C!State, NEW j \in Jobs \cup {C!None}, NEW b \in BOOLEAN
    PROVE  /\ C!Sees(x, j, b) \in C!State
           /\ C!Sees(x, j, b).up = TRUE /\ C!Sees(x, j, b).running = j
           /\ C!Sees(x, j, b).ws = x.ws
           /\ C!Sees(x, j, b).exact /\ j # x.running => j # C!None /\ (b \/ x.up)
  <1>1. PICK e : e = IF j = x.running THEN x.exact ELSE j # C!None /\ (b \/ x.up)
    OBVIOUS
  <1>2. PICK d : d = (x.dirty \/ (x.running # C!None /\ x.running # j) \/ ~x.up)
    OBVIOUS
  <1>3. /\ e \in BOOLEAN /\ d \in BOOLEAN
        /\ e /\ j # x.running => j # C!None /\ (b \/ x.up)
    BY <1>1, <1>2, Zenon DEF C!State
  <1>4. C!Sees(x, j, b) = [x EXCEPT !.up = TRUE, !.rest = FALSE, !.running = j, !.exact = e,
                                    !.dirty = d]
    BY <1>1, <1>2 DEF C!Sees
  <1> QED
    BY <1>3, <1>4 DEF C!State

LEMMA PollArrivesStep ==
    ASSUME ComfyInv, C!PollArrives
    PROVE  ComfyInv' /\ C!ExactStep
  <1>1. PICK o : o = poll.obj
    OBVIOUS
  <1>2. /\ UNCHANGED <<up, job, hist, left, faults, current, table>>
        /\ o \in Objects /\ poll.pc = "asked"
        /\ fresh' = [fresh EXCEPT ![o] = {}] /\ moved' = moved \ {o}
    BY <1>1 DEF C!PollArrives, C!comfyui, C!ghosts, ComfyInv, PollRight
  <1>3. PICK b \in BOOLEAN : b = (st[o].start = job)
    OBVIOUS
  <1>4. PICK x : x = C!Sees(st[o], job, b)
    OBVIOUS
  <1>5. /\ x \in C!State /\ x.up = TRUE /\ x.running = job /\ x.ws = st[o].ws
        /\ x.exact /\ job # st[o].running => job # C!None /\ (b \/ st[o].up)
    <2>1. st[o] \in C!State /\ job \in Jobs \cup {C!None}
      BY <1>2, ComfyParts
    <2> QED
      BY ZenonT(40), <1>4, <2>1, SeesType
  <1>6. \/ /\ st' = [st EXCEPT ![o] = x] /\ UNCHANGED socks
           /\ poll' = [poll EXCEPT !.pc = "done"]
        \/ C!EnsureWs(x) /\ poll' = C!Idle
    BY <1>1, <1>3, <1>4 DEF C!PollArrives
  <1>7. /\ st' \in [Objects -> C!State] /\ socks' \in [Sockets -> SocketType]
        /\ \A p \in Objects : p # o => st'[p] = st[p]
        /\ \/ st'[o] = C!freshState
           \/ st'[o].up = x.up /\ st'[o].running = x.running /\ st'[o].exact = x.exact
        /\ C!HeldSocketLives' /\ Owned'
        /\ o # current => st'[o] = C!freshState \/ poll' = [poll EXCEPT !.pc = "done"]
    <2>1. CASE /\ st' = [st EXCEPT ![o] = x] /\ UNCHANGED socks
               /\ poll' = [poll EXCEPT !.pc = "done"]
      <3>1. /\ st' \in [Objects -> C!State] /\ st'[o] = x
            /\ \A p \in Objects : p # o => st'[p] = st[p]
        BY <1>2, <1>5, <2>1, ComfyParts
      <3>2. C!HeldSocketLives' /\ Owned'
        BY <1>5, <2>1, <3>1 DEF ComfyInv, C!HeldSocketLives, Owned
      <3> QED
        BY <2>1, <3>1, <3>2, ComfyParts
    <2>2. CASE C!EnsureWs(x) /\ poll' = C!Idle
      BY <1>1, <1>2, <1>5, <2>2, Ensures
    <2> QED
      BY <1>6, <2>1, <2>2
  <1>8. /\ PollRight'
        /\ poll'.obj = 0 \/ (poll'.obj = o /\ poll' = [poll EXCEPT !.pc = "done"])
    BY <1>1, <1>2, <1>6 DEF ComfyInv, PollRight, C!Idle
  <1>9. /\ fresh' \in [Objects -> SUBSET Jobs]
        /\ \A p \in Objects : p # o => fresh'[p] = fresh[p]
        /\ moved' \subseteq Objects /\ \A p \in Objects : p # o => (p \in moved' <=> p \in moved)
    BY <1>2, ComfyParts
  <1>10. C!TypeOK'
    <2>1. \A p \in Objects : ~st'[p].up => st'[p].running = C!None
      BY <1>5, <1>7, FreshStateType, ComfyParts
    <2>2. poll'.pc \in {"idle", "asked", "done"}
      BY <1>8 DEF PollRight
    <2> QED
      BY <1>2, <1>7, <1>9, <2>1, <2>2 DEF ComfyInv, C!TypeOK, SocketType
  <1>11. BegunSince'
    BY <1>2, <1>5, <1>7, <1>9, FreshStateType DEF ComfyInv, BegunSince
  <1>12. Looked'
    <2>1. ASSUME NEW p \in Objects, p \notin {current', poll'.obj}
          PROVE  st'[p] = C!freshState
      <3>1. CASE p # o
        BY <1>1, <1>2, <1>7, <2>1, <3>1 DEF ComfyInv, Looked
      <3>2. CASE p = o
        <4>1. poll'.obj # o
          BY <2>1, <3>2
        <4>2. poll' # [poll EXCEPT !.pc = "done"]
          BY <1>1, <4>1 DEF ComfyInv, PollRight
        <4> QED
          BY <1>2, <1>7, <2>1, <3>2, <4>2
      <3> QED
        BY <3>1, <3>2
    <2> QED
      BY <2>1 DEF Looked
  <1>13. C!ExactStep
    <2>1. ASSUME NEW p \in Objects, st'[p].exact, st'[p].running # st[p].running
          PROVE  p \in moved \/ st'[p].running \in fresh[p] \cup {st[p].start}
      <3>1. p = o /\ x.exact /\ job # st[o].running /\ st'[p].running = job
        BY <1>5, <1>7, <2>1, FreshStateType
      <3>2. CASE b
        BY <1>3, <3>1, <3>2
      <3>3. CASE st[o].up
        BY <1>2, <1>5, <3>1, <3>3 DEF ComfyInv, BegunSince
      <3> QED
        BY <1>5, <3>1, <3>2, <3>3
    <2> QED
      BY <2>1 DEF C!ExactStep
  <1> QED
    BY <1>7, <1>8, <1>10, <1>11, <1>12, <1>13 DEF ComfyInv

\* A poll that fails: the node is down, without a connection.
LEMMA PollFailsStep ==
    ASSUME ComfyInv, C!PollFails
    PROVE  /\ ComfyInv'
           /\ \A o \in Objects : st'[o].exact => st'[o].running = st[o].running
  <1>1. PICK o : o = poll.obj
    OBVIOUS
  <1>2. /\ UNCHANGED <<up, job, hist, left, fresh, moved, current, table>>
        /\ o \in Objects /\ poll' = C!Idle /\ socks' = C!CloseWs(o)
    BY <1>1 DEF C!PollFails, C!comfyui, C!ghosts, ComfyInv, PollRight
  <1>3. faults' \in 0..MaxFaults
    <2>1. faults' = (IF up THEN faults + 1 ELSE faults) /\ (~up \/ faults < MaxFaults)
      BY DEF C!PollFails
    <2> QED
      BY <2>1, ComfyParts, ComfyConstants
  <1>4. PICK x : x = C!Lost(st[o])
    OBVIOUS
  <1>5. /\ x \in C!State /\ x.ws = 0 /\ x.up = FALSE /\ x.running = C!None
        /\ x.exact = FALSE
    <2>1. C!Closed(st[o]) \in C!State /\ C!Closed(st[o]).ws = 0
      BY <1>2, ComfyParts, Loses
    <2> QED
      BY <1>4, <2>1 DEF C!Lost, C!State
  <1>6. st' = [p \in Objects |-> IF p \in {current} THEN [st EXCEPT ![o] = x][p]
                                 ELSE C!freshState]
    <2>1. st' = C!Kept([st EXCEPT ![o] = C!Lost(st[o])], {current})
      BY <1>1 DEF C!PollFails
    <2> QED
      BY <1>4, <2>1 DEF C!Kept
  <1>7. /\ st' \in [Objects -> C!State]
        /\ \A p \in Objects : IF p # current THEN st'[p] = C!freshState
                              ELSE st'[p] = IF p = o THEN x ELSE st[p]
    BY <1>2, <1>5, <1>6, ComfyParts, FreshStateType
  <1>8. \A p \in Objects :
          /\ \/ st'[p].up = FALSE /\ st'[p].running = C!None /\ st'[p].exact = FALSE
             \/ st'[p] = st[p]
          /\ st'[p].ws = 0 \/ (p # o /\ st'[p].ws = st[p].ws)
    BY <1>5, <1>7, FreshStateType
  <1>9. C!HeldSocketLives' /\ Owned' /\ socks' \in [Sockets -> SocketType]
    BY <1>2, <1>8, Closes, ClosedApart
  <1>10. PollRight' /\ poll'.obj = 0
    BY <1>2 DEF ComfyInv, PollRight, C!Idle
  <1>11. C!TypeOK'
    <2>1. \A p \in Objects : ~st'[p].up => st'[p].running = C!None
      BY <1>8, ComfyParts
    <2>2. poll'.pc \in {"idle", "asked", "done"}
      BY <1>10 DEF PollRight
    <2> QED
      BY <1>2, <1>3, <1>7, <1>9, <2>1, <2>2 DEF ComfyInv, C!TypeOK, SocketType
  <1>12. Looked' /\ BegunSince'
    BY <1>2, <1>7, <1>8, <1>10 DEF ComfyInv, Looked, BegunSince
  <1> QED
    BY <1>8, <1>9, <1>10, <1>11, <1>12 DEF ComfyInv

\* What the history lists are jobs.
LEMMA DoneJobs ==
    ASSUME ComfyInv, NEW b
    PROVE  C!DoneList(b) \subseteq Jobs
  <1>1. PICK n \in Nat : n = IF b THEN DONE_NEXT ELSE DONE_FIRST
    BY ComfyConstants
  <1>2. hist \in Seq(Jobs)
    BY DEF ComfyInv, PollRight
  <1>3. \A i \in 1..(IF n < Len(hist) THEN n ELSE Len(hist)) : hist[i] \in Jobs
    BY <1>2
  <1> QED
    BY <1>1, <1>3 DEF C!DoneList, C!Newest

\* The end of a poll that had asked for the finished jobs, read or not.
LEMMA DoneStep ==
    ASSUME ComfyInv, C!DoneRead \/ C!DoneFails
    PROVE  /\ ComfyInv'
           /\ \A o \in Objects : st'[o].exact => st'[o].running = st[o].running
  <1>1. PICK o : o = poll.obj
    OBVIOUS
  <1>2. /\ UNCHANGED <<up, job, hist, left, fresh, moved, current>>
        /\ o \in Objects /\ poll' = C!Idle
    BY <1>1 DEF C!DoneRead, C!DoneFails, C!comfyui, C!ghosts, ComfyInv, PollRight
  <1>3. faults' \in 0..MaxFaults /\ table' \subseteq Jobs
    <2>1. CASE C!DoneRead
      BY <2>1, DoneJobs DEF C!DoneRead, ComfyInv, C!TypeOK
    <2>2. CASE C!DoneFails
      <3>1. faults' = (IF up THEN faults + 1 ELSE faults) /\ (~up \/ faults < MaxFaults)
        BY <2>2 DEF C!DoneFails
      <3>2. faults' \in 0..MaxFaults
        BY <3>1, ComfyParts, ComfyConstants
      <3> QED
        BY <2>2, <3>2 DEF C!DoneFails, ComfyInv, C!TypeOK
    <2> QED
      BY <2>1, <2>2
  <1>4. PICK x : /\ \/ x = [st[o] EXCEPT !.seeded = TRUE, !.dirty = FALSE, !.old = FALSE]
                    \/ x = [st[o] EXCEPT !.old = FALSE]
                 /\ C!EnsureWs(x)
    BY <1>1 DEF C!DoneRead, C!DoneFails
  <1>5. /\ x \in C!State /\ x.ws = st[o].ws /\ x.up = st[o].up
        /\ x.running = st[o].running
    <2>1. st[o] \in C!State
      BY <1>2, ComfyParts
    <2> QED
      BY <1>4, <2>1 DEF C!State
  <1>6. /\ st' \in [Objects -> C!State] /\ socks' \in [Sockets -> SocketType]
        /\ \A p \in Objects : p # o => st'[p] = st[p]
        /\ IF o # current THEN st'[o] = C!freshState
           ELSE /\ st'[o].up = x.up /\ st'[o].running = x.running /\ st'[o].exact = x.exact
        /\ C!HeldSocketLives' /\ Owned'
    BY <1>1, <1>2, <1>4, <1>5, Ensures
  <1>7. \A p \in Objects :
          \/ st'[p].up = FALSE /\ st'[p].running = C!None /\ st'[p].exact = FALSE
          \/ st'[p].up = st[p].up /\ st'[p].running = st[p].running
    BY <1>5, <1>6, FreshStateType
  <1>8. PollRight' /\ poll'.obj = 0
    BY <1>2 DEF ComfyInv, PollRight, C!Idle
  <1>9. C!TypeOK'
    <2>1. \A p \in Objects : ~st'[p].up => st'[p].running = C!None
      BY <1>7, ComfyParts
    <2>2. poll'.pc \in {"idle", "asked", "done"}
      BY <1>8 DEF PollRight
    <2> QED
      BY <1>2, <1>3, <1>6, <2>1, <2>2 DEF ComfyInv, C!TypeOK, SocketType
  <1>10. Looked'
    <2>1. ASSUME NEW p \in Objects, p \notin {current', poll'.obj}
          PROVE  st'[p] = C!freshState
      BY <1>1, <1>2, <1>6, <2>1 DEF ComfyInv, Looked
    <2> QED
      BY <2>1 DEF Looked
  <1>11. BegunSince'
    BY <1>2, <1>7 DEF ComfyInv, BegunSince
  <1> QED
    BY <1>6, <1>7, <1>8, <1>9, <1>10, <1>11 DEF ComfyInv

\* Every step keeps the invariant, and calls an elapsed time exact only when the hub saw
\* the job begin.
LEMMA ComfyStep ==
    ASSUME ComfyInv, C!Next
    PROVE  ComfyInv' /\ C!ExactStep
  <1>1. CASE C!PollArrives
    BY <1>1, PollArrivesStep
  <1>2. CASE ~C!PollArrives
    <2>1. ComfyInv' /\ \A o \in Objects : st'[o].exact => st'[o].running = st[o].running
      <3>1. CASE (\E j \in Jobs : C!StartJob(j)) \/ C!FinishJob \/ C!ServerStarts
        <4>1. st' = st
          BY <3>1 DEF C!StartJob, C!FinishJob, C!ServerStarts
        <4> QED
          BY <3>1, <4>1, ServerStep
      <3>2. CASE C!ServerDies
        BY <3>2, DiesStep
      <3>3. CASE \E o \in {0} \cup Objects : C!Reconfigure(o)
        BY <3>3, ReconfigureStep
      <3>4. CASE C!PollStart
        BY <3>4, PollStartStep
      <3>5. CASE C!PollFails
        BY <3>5, PollFailsStep
      <3>6. CASE C!DoneRead \/ C!DoneFails
        BY <3>6, DoneStep
      <3>7. CASE (\E s \in Sockets : C!Message(s)) \/ C!RestOver \/ C!WsRestOver \/ C!Ages
        BY <3>7, TouchStep
      <3>8. CASE \E s \in Sockets : C!Upgraded(s) \/ C!SocketEnds(s)
        BY <3>8, SocketStep
      <3> QED
        BY <1>2, <3>1, <3>2, <3>3, <3>4, <3>5, <3>6, <3>7, <3>8 DEF C!Next
    <2> QED
      BY <2>1 DEF C!ExactStep
  <1> QED
    BY <1>1, <1>2

LEMMA ComfyStutter ==
    ASSUME ComfyInv, UNCHANGED comfyVars
    PROVE  ComfyInv'
  <1>1. UNCHANGED <<up, job, hist, left, faults, fresh, moved, current, st, poll, socks, table>>
    BY DEF comfyVars
  <1>2. C!TypeOK' /\ C!HeldSocketLives'
    BY <1>1 DEF ComfyInv, C!TypeOK, C!HeldSocketLives
  <1>3. PollRight' /\ Looked' /\ BegunSince' /\ Owned'
    BY <1>1 DEF ComfyInv, PollRight, Looked, BegunSince, Owned
  <1> QED
    BY <1>2, <1>3 DEF ComfyInv

\* The connection an object of the ComfyUI collector holds is its own and has not ended
\* (comfyui.js:320-338), whatever order polls, reloads, events and restarts come in.
THEOREM Comfy == PartsSpec => []ComfyHolds
<1> DEFINE Inv == part = "comfy" => ComfyInv
  <1>1. PartsInit => Inv
    BY ComfyInit DEF PartsInit
  <1>2. Inv /\ [PartsNext]_allVars => Inv'
    <2> SUFFICES ASSUME Inv, [PartsNext]_allVars PROVE Inv'
      OBVIOUS
    <2>1. part' = part /\ (part = "comfy" => C!Next \/ UNCHANGED comfyVars)
      BY DEF PartsNext, allVars
    <2> QED
      BY <2>1, ComfyStep, ComfyStutter
  <1>3. Inv => ComfyHolds
    BY DEF ComfyInv, ComfyHolds
  <1> QED
    BY <1>1, <1>2, <1>3, PTL DEF PartsSpec, allVars

\* An elapsed time is called exact only when the hub saw the job begin: it started since
\* the last answered poll, or the socket told (comfyui.js:30-33, 256-259).  Of a node that
\* has moved to another port since that poll nothing is claimed (comfyui.js:235-242).
THEOREM Exact == PartsSpec => ExactIsExact
<1> DEFINE Inv == part = "comfy" => ComfyInv
           Step == part = "comfy" => C!ExactStep
  <1>1. PartsInit => Inv
    BY ComfyInit DEF PartsInit
  <1>2. Inv /\ [PartsNext]_allVars => Inv' /\ (Step \/ UNCHANGED comfyVars)
    <2> SUFFICES ASSUME Inv, [PartsNext]_allVars PROVE Inv' /\ (Step \/ UNCHANGED comfyVars)
      OBVIOUS
    <2>1. part' = part /\ (part = "comfy" => C!Next \/ UNCHANGED comfyVars)
      BY DEF PartsNext, allVars
    <2> QED
      BY <2>1, ComfyStep, ComfyStutter
  <1>3. ExactIsExact <=> [][Step]_comfyVars
    BY DEF ExactIsExact
  <1> QED
    BY <1>1, <1>2, <1>3, PTL DEF PartsSpec, allVars

=============================================================================
