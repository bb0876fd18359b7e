------------------------------- MODULE SshPolls -------------------------------
\* Credentials and the collector that uses them: the vault (vault.js), the table of
\* sealed credentials and remembered host keys (store/cred_store.js), the routes that
\* write it (index.js:695-740, 912-940) and a poll over ssh (collectors/ssh.js).
EXTENDS Naturals

CONSTANTS
    Hosts, Creds,  \* hosts with an ssh target each; credentials
    Passphrases,   \* the VAULT_KEYs a start may find, each of legal length
    HostKeys       \* the keys a host may answer with

None == "none"

SshAssumption == None \notin HostKeys

VARIABLES
    meta, sealed,  \* vault_meta: the key of the verifier; credential -> the key it is under
    known,         \* ssh_known_hosts: host -> fingerprint
    target,        \* host -> the credential its target names
    vault,         \* the process: its key, None while locked
    poll,          \* host -> the poll of it: idle, connecting, ready, running
    hostKey,       \* host -> the key it answers with
    sent           \* the keys secrets were sent to: <<host, key>>

store == <<meta, sealed, known, target>>
vars == <<store, vault, poll, hostKey, sent>>

\* Wrong on purpose, to show that OneKeyReadsAll sees it: any key opens the vault.
OpenUnchecked(k) ==
    /\ vault' = k
    /\ meta' = IF meta = None THEN k ELSE meta

\* openVault: the first key is kept as a verifier, another one leaves the vault locked.
OpenVault(k) ==
    /\ meta' = IF meta = None THEN k ELSE meta
    /\ vault' = IF k = meta' THEN k ELSE None

Init ==
    /\ meta = None /\ vault = None
    /\ sealed = [c \in Creds |-> None]
    /\ known = [h \in Hosts |-> None] /\ target = [h \in Hosts |-> None]
    /\ poll = [h \in Hosts |-> "idle"]
    /\ hostKey \in [Hosts -> HostKeys]
    /\ sent = {}

\* A start, with or without a VAULT_KEY: polls under way are gone.
Boot ==
    /\ \E k \in Passphrases \cup {None} : OpenVault(k)
    /\ poll' = [h \in Hosts |-> "idle"]
    /\ UNCHANGED <<sealed, known, target, hostKey, sent>>

-----------------------------------------------------------------------------
CreateCredential(c) ==
    /\ vault # None /\ sealed[c] = None
    /\ sealed' = [sealed EXCEPT ![c] = vault]
    /\ UNCHANGED <<meta, known, target, vault, poll, hostKey, sent>>

DeleteCredential(c) ==
    /\ sealed[c] # None
    /\ \A h \in Hosts : target[h] # c
    /\ sealed' = [sealed EXCEPT ![c] = None]
    /\ UNCHANGED <<meta, known, target, vault, poll, hostKey, sent>>

AddTarget(h, c) ==
    /\ vault # None /\ sealed[c] # None /\ target[h] = None
    /\ target' = [target EXCEPT ![h] = c]
    /\ UNCHANGED <<meta, sealed, known, vault, poll, hostKey, sent>>

RemoveTarget(h) ==
    /\ target[h] # None
    /\ target' = [target EXCEPT ![h] = None]
    /\ UNCHANGED <<meta, sealed, known, vault, poll, hostKey, sent>>

-----------------------------------------------------------------------------
\* collectSsh: what is refused before anything is opened leaves the poll where it was.
PollStart(h) ==
    /\ poll[h] = "idle" /\ target[h] # None
    /\ vault # None /\ sealed[target[h]] = vault
    /\ poll' = [poll EXCEPT ![h] = "connecting"]
    /\ UNCHANGED <<store, vault, hostKey, sent>>

Ended(h) == poll' = [poll EXCEPT ![h] = "idle"]

\* hostVerifier: the first key is remembered, another one ends the poll unauthenticated.
Verify(h) ==
    /\ poll[h] = "connecting"
    /\ known' = IF known[h] = None THEN [known EXCEPT ![h] = hostKey[h]] ELSE known
    /\ IF known'[h] = hostKey[h]
       THEN poll' = [poll EXCEPT ![h] = "ready"] /\ sent' = sent \cup {<<h, hostKey[h]>>}
       ELSE Ended(h) /\ UNCHANGED sent
    /\ UNCHANGED <<meta, sealed, target, vault, hostKey>>

Exec(h) ==
    /\ poll[h] = "ready"
    /\ poll' = [poll EXCEPT ![h] = "running"]
    /\ UNCHANGED <<store, vault, hostKey, sent>>

\* The stream closes, or the connection fails at any stage.
Closes(h) ==
    /\ poll[h] # "idle" /\ Ended(h)
    /\ UNCHANGED <<store, vault, hostKey, sent>>

\* The poll's own deadline covers a hung command as well.
Due(h) == poll[h] # "idle"

Timer(h) ==
    /\ Due(h) /\ Ended(h)
    /\ UNCHANGED <<store, vault, hostKey, sent>>

\* A host is installed anew, or another one answers at its address.
Rekeyed(h) ==
    /\ \E k \in HostKeys : hostKey' = [hostKey EXCEPT ![h] = k]
    /\ UNCHANGED <<store, vault, poll, sent>>

Next ==
    \/ Boot
    \/ \E c \in Creds : CreateCredential(c) \/ DeleteCredential(c)
    \/ \E h \in Hosts, c \in Creds : AddTarget(h, c)
    \/ \E h \in Hosts : \/ RemoveTarget(h) \/ PollStart(h) \/ Verify(h) \/ Exec(h)
                        \/ Closes(h) \/ Timer(h) \/ Rekeyed(h)

\* Only the deadline is certain.
Spec == Init /\ [][Next]_vars /\ \A h \in Hosts : WF_vars(Timer(h))
-----------------------------------------------------------------------------
\* One key reads everything that was ever stored, an open vault is under that key, a
\* target's credential exists, and every secret went to the key its host is remembered
\* by (vault.js:36-40, ssh.js:13-16, cred_store.js:105-116).
OneKeyReadsAll ==
    /\ \A c \in Creds : sealed[c] \in {None, meta}
    /\ vault \in {None, meta}
    /\ \A h \in Hosts : target[h] # None => sealed[target[h]] # None
    /\ \A s \in sent : known[s[1]] = s[2]

\* Every poll ends, whatever the host does not answer.
SshPollsEnd == \A h \in Hosts : []<>(poll[h] = "idle")
================================================================================
