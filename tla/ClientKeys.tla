----------------------------- MODULE ClientKeys -----------------------------
(***************************************************************************)
(* The client keys of the LiteLLM proxy as the hub lists, mints and        *)
(* revokes them: server/litellm_keys.js and the /api/clients routes of     *)
(* server/index.js.                                                        *)
(*                                                                         *)
(* The keys themselves live at the proxy.  The hub keeps one listing of    *)
(* them for LIST_TTL_MS and lets concurrent requests share one listing     *)
(* call.  A call is split where the proxy acts on it and where its answer  *)
(* is handled; it may fail before or after the proxy has acted.            *)
(***************************************************************************)
EXTENDS Naturals, FiniteSets

CONSTANTS
    Requests,   \* requests served at the same time
    Names,      \* client names
    MaxKeys     \* bound: keys ever made

ASSUME KeysAssumption == MaxKeys \in Nat

VARIABLES
    proxy,      \* the keys at the proxy: [id, name]
    made,       \* how many were ever made
    cache,      \* `cache`: the keys last listed, or NoCache when absent or expired
    listing,    \* `inflight`: the listing call under way
    call,       \* per request, what it does and waits for
    confirmed,  \* auxiliary: keys whose minting was answered
    sure,       \* auxiliary: those answered while no listing could have missed them
    gone        \* auxiliary: keys whose revocation was answered likewise

vars == <<proxy, made, cache, listing, call, confirmed, sure, gone>>
audit == <<confirmed, sure, gone>>

Key == [id : Nat, name : Names]

NoCache == [set |-> FALSE, keys |-> {}]
Cached(keys) == [set |-> TRUE, keys |-> keys]

NoListing == [at |-> "none", keys |-> {}]
Listing == [at |-> "sent", keys |-> {}]

Idle == [op |-> "none", at |-> "idle", name |-> "none", key |-> {}]
Show == [Idle EXCEPT !.op = "show", !.at = "list"]
Mint(n) == [Idle EXCEPT !.op = "mint", !.at = "list", !.name = n]
Revoke(k) == [Idle EXCEPT !.op = "revoke", !.at = "post", !.key = {k}]

Init ==
    /\ proxy = {} /\ made = 0
    /\ cache = NoCache /\ listing = NoListing
    /\ call = [r \in Requests |-> Idle]
    /\ confirmed = {} /\ sure = {} /\ gone = {}

-----------------------------------------------------------------------------
(* list(): the cache, the listing under way, or a new listing. *)

Join == listing' = IF listing.at = "none" THEN Listing ELSE listing

\* GET /api/clients, and the names of the Per-Project rows.
BeginShow(r) ==
    /\ call[r] = Idle
    /\ ~cache.set
    /\ Join
    /\ call' = [call EXCEPT ![r] = Show]
    /\ UNCHANGED <<proxy, made, cache, audit>>

\* POST /api/clients lists with force: the cache is not asked.
BeginMint(r) ==
    /\ call[r] = Idle
    /\ Join
    /\ \E n \in Names : call' = [call EXCEPT ![r] = Mint(n)]
    /\ UNCHANGED <<proxy, made, cache, audit>>

\* DELETE /api/clients/:id, for the digest of a key that exists or is still shown.
BeginRevoke(r) ==
    /\ call[r] = Idle
    /\ \E k \in proxy \cup cache.keys : call' = [call EXCEPT ![r] = Revoke(k)]
    /\ UNCHANGED <<proxy, made, cache, listing, audit>>

\* The proxy answers the listing with the keys it has now.
ProxyLists ==
    /\ listing.at = "sent"
    /\ listing' = [at |-> "read", keys |-> proxy]
    /\ UNCHANGED <<proxy, made, cache, call, audit>>

\* Wrong on purpose, to show that NoSecondMint sees it: the listing is not looked at.
TakenByNobody(n) == FALSE

\* The listing has a key of this name.
Taken(n) == \E k \in listing.keys : k.name = n

\* What a request that waited for the listing does next.
Resumed(c) == IF c.op = "mint" /\ ~Taken(c.name) THEN [c EXCEPT !.at = "post"] ELSE Idle

\* The answer is handled: it becomes the cache, and everyone who waited goes on.
Listed ==
    /\ listing.at = "read"
    /\ cache' = Cached(listing.keys)
    /\ listing' = NoListing
    /\ call' = [r \in Requests |-> IF call[r].at = "list" THEN Resumed(call[r]) ELSE call[r]]
    /\ UNCHANGED <<proxy, made, audit>>

\* Wrong on purpose, to show that KeysSettle sees it: the failed call stays inflight.
FailedStays == [at |-> "failed", keys |-> {}]

\* What inflight is once a listing has failed.
Cleared == NoListing

\* The listing call fails: everyone who waited fails with it.
ListingFails ==
    /\ listing.at \in {"sent", "read"}
    /\ listing' = Cleared
    /\ call' = [r \in Requests |-> IF call[r].at = "list" THEN Idle ELSE call[r]]
    /\ UNCHANGED <<proxy, made, cache, audit>>

Expirable == cache.set

CacheExpires ==
    /\ Expirable
    /\ cache' = NoCache
    /\ UNCHANGED <<proxy, made, listing, call, audit>>

-----------------------------------------------------------------------------
(* generate() and remove(). *)

\* Wrong on purpose, to show that KeysInvariant sees it: the listing survives the change.
KeepsCache == cache

\* `cache = null`.
DroppedCache == NoCache

NewKey(n) == [id |-> made, name |-> n]

ProxyMints(r) ==
    /\ call[r].op = "mint" /\ call[r].at = "post"
    /\ made < MaxKeys
    /\ proxy' = proxy \cup {NewKey(call[r].name)}
    /\ made' = made + 1
    /\ call' = [call EXCEPT ![r].at = "posted", ![r].key = {NewKey(call[r].name)}]
    /\ UNCHANGED <<cache, listing, audit>>

ProxyRevokes(r) ==
    /\ call[r].op = "revoke" /\ call[r].at = "post"
    /\ proxy' = proxy \ call[r].key
    /\ call' = [call EXCEPT ![r].at = "posted"]
    /\ UNCHANGED <<made, cache, listing, audit>>

\* A listing already read by the proxy was read before, or after, this change.
Unread == listing.at # "read"

Minted(r) ==
    /\ call[r].op = "mint" /\ call[r].at = "posted"
    /\ cache' = DroppedCache
    /\ call' = [call EXCEPT ![r] = Idle]
    /\ confirmed' = confirmed \cup call[r].key
    /\ sure' = IF Unread THEN sure \cup call[r].key ELSE sure
    /\ UNCHANGED <<proxy, made, listing, gone>>

Revoked(r) ==
    /\ call[r].op = "revoke" /\ call[r].at = "posted"
    /\ cache' = DroppedCache
    /\ call' = [call EXCEPT ![r] = Idle]
    /\ gone' = IF Unread THEN gone \cup call[r].key ELSE gone
    /\ UNCHANGED <<proxy, made, listing, confirmed, sure>>

\* The call times out or is answered with an error, whether or not the proxy acted on it.
CallFails(r) ==
    /\ call[r].at \in {"post", "posted"}
    /\ call' = [call EXCEPT ![r] = Idle]
    /\ UNCHANGED <<proxy, made, cache, listing, audit>>

\* Somebody else makes a key, in the proxy's own interface.
OthersMint ==
    /\ made < MaxKeys
    /\ \E n \in Names : proxy' = proxy \cup {NewKey(n)}
    /\ made' = made + 1
    /\ UNCHANGED <<cache, listing, call, audit>>

Next ==
    \/ \E r \in Requests :
          \/ BeginShow(r) \/ BeginMint(r) \/ BeginRevoke(r)
          \/ ProxyMints(r) \/ ProxyRevokes(r)
          \/ Minted(r) \/ Revoked(r) \/ CallFails(r)
    \/ ProxyLists \/ Listed \/ ListingFails
    \/ CacheExpires
    \/ OthersMint

Spec == Init /\ [][Next]_vars

\* Every call has a timeout (TIMEOUT_MS), and the cache a lifetime.
FairSpec ==
    /\ Spec
    /\ WF_vars(ProxyLists) /\ WF_vars(Listed \/ ListingFails) /\ WF_vars(CacheExpires)
    /\ \A r \in Requests : WF_vars(CallFails(r))

-----------------------------------------------------------------------------
(* Properties. *)

\* Every variable holds what it can hold.
TypeOK ==
    /\ proxy \subseteq Key /\ made \in Nat
    /\ cache \in [set : BOOLEAN, keys : SUBSET Key]
    /\ listing \in [at : {"none", "sent", "read"}, keys : SUBSET Key]
    /\ call \in [Requests -> [op : {"none", "show", "mint", "revoke"},
                              at : {"idle", "list", "post", "posted"},
                              name : Names \cup {"none"}, key : SUBSET Key]]
    /\ confirmed \subseteq Key /\ sure \subseteq Key /\ gone \subseteq Key

\* A minted key that still exists is in every listing kept, unless a listing the proxy had
\* already answered was under way when the key was confirmed.
MintedKeysListed == cache.set => sure \cap proxy \subseteq cache.keys

\* A revoked key is in no listing kept, under the same condition.
RevokedKeysGone == cache.keys \cap gone = {}

\* A name is minted only when no key confirmed before the names were compared has it:
\* sharing a listing that an earlier request began does not let a duplicate through.
NoSecondMint ==
    [][\A r \in Requests :
          call[r].op = "mint" /\ call[r].at = "list" /\ call'[r].at = "post" =>
              \A k \in sure \cap proxy : k.name # call[r].name]_vars

\* No request waits for ever on a listing that is over.
EveryRequestEnds == \A r \in Requests : []<>(call[r].at # "list")

\* When the keys stop changing, what is kept of them is right in the end.
StaleListingsEnd ==
    <>[][UNCHANGED proxy]_vars => <>[](cache.set => cache.keys = proxy)

\* The listings kept: well formed, with every key minted and none revoked.
KeysInvariant == TypeOK /\ MintedKeysListed /\ RevokedKeysGone

\* No request hangs, and no listing stays wrong.
KeysSettle == EveryRequestEnds /\ StaleListingsEnd

=============================================================================
