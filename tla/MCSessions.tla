----------------------------- MODULE MCSessions -----------------------------
(***************************************************************************)
(* Who is let in: the admin's sessions with two requests at a time and two *)
(* passwords, the limiter in front of them, the machines that may push,    *)
(* the hosts the hub itself logs in to, and the decisions about who asks   *)
(* and which port is probed.  They share nothing, so a behaviour is one of *)
(* a single part, and the variables of the others stand still.             *)
(***************************************************************************)
EXTENDS Sessions

CONSTANTS
    Clients, Peer, ClientMax, PeerMax, Window, MaxLock, Cap, MaxPending, MaxFails,
    Machines, AlertTtl, LogEvery,
    Hosts, Creds, Passphrases, HostKeys,
    Ports, MaxHops

VARIABLES
    part,
    buckets, pending,
    agent, bound, alert, logged, written, refused,
    meta, sealed, known, target, vault, poll, hostKey, sent,
    peer, hops, cf, listen, cmd, configured, client, port

L == INSTANCE LoginLimiter
P == INSTANCE PushBindings WITH row <- bound
S == INSTANCE SshPolls
D == INSTANCE Choices

ASSUME GatesAssumption ==
    L!LimiterAssumption /\ P!PushAssumption /\ S!SshAssumption /\ D!ChoicesAssumption

limitVars == <<buckets, pending>>
pushVars == <<agent, bound, alert, logged, written, refused>>
sshVars == <<meta, sealed, known, target, vault, poll, hostKey, sent>>
choiceVars == <<peer, hops, cf, listen, cmd, configured, client, port>>
gates == <<limitVars, pushVars, sshVars, choiceVars>>

NoLimits == buckets = 0 /\ pending = 0
NoPushes == agent = 0 /\ bound = 0 /\ alert = 0 /\ logged = 0 /\ written = 0 /\ refused = 0
NoSsh ==
    /\ meta = 0 /\ sealed = 0 /\ known = 0 /\ target = 0 /\ vault = 0
    /\ poll = 0 /\ hostKey = 0 /\ sent = 0
NoChoice ==
    /\ peer = 0 /\ hops = 0 /\ cf = 0 /\ listen = 0 /\ cmd = 0 /\ configured = 0
    /\ client = 0 /\ port = 0

PartsInit ==
    /\ Init
    /\ \/ part = "sessions" /\ NoLimits /\ NoPushes /\ NoSsh /\ NoChoice
       \/ part = "limiter" /\ L!Init /\ NoPushes /\ NoSsh /\ NoChoice
       \/ part = "pushes" /\ NoLimits /\ P!Init /\ NoSsh /\ NoChoice
       \/ part = "ssh" /\ NoLimits /\ NoPushes /\ S!Init /\ NoChoice
       \/ part = "choice" /\ NoLimits /\ NoPushes /\ NoSsh /\ D!Init
    /\ part # "sessions" => row = NoRow

PartsNext ==
    /\ UNCHANGED part
    /\ \/ part = "sessions" /\ Next /\ UNCHANGED gates
       \/ part = "limiter" /\ L!Next /\ UNCHANGED <<vars, pushVars, sshVars, choiceVars>>
       \/ part = "pushes" /\ P!Next /\ UNCHANGED <<vars, limitVars, sshVars, choiceVars>>
       \/ part = "ssh" /\ S!Next /\ UNCHANGED <<vars, limitVars, pushVars, choiceVars>>
       \/ part = "choice" /\ D!Decide /\ UNCHANGED <<vars, limitVars, pushVars, sshVars>>
       \/ part = "choice" /\ UNCHANGED <<vars, gates>>

\* FairSpec of Sessions and the fairness of the limiter and of the ssh polls.
PartsSpec ==
    /\ PartsInit /\ [][PartsNext]_<<part, vars, gates>>
    /\ \A r \in Requests :
          /\ WF_vars(part = "sessions" /\ (SetupSucceeds(r) \/ SetupLoses(r) \/ SetupFails(r)))
          /\ WF_vars(part = "sessions" /\ (CheckPasses(r) \/ ChangeFails(r) \/ ChangeSucceeds(r)))
    /\ WF_limitVars(part = "limiter" /\ L!Tick)
    /\ \A c \in Clients : WF_pending(part = "limiter" /\ L!Verified(c))
    /\ \A h \in Hosts : WF_sshVars(part = "ssh" /\ S!Timer(h))

-----------------------------------------------------------------------------
\* auth.js:61, 91-123: no lock is longer than the longest, a client over its limit stays
\* locked, and the map stays within its cap.
LimiterHolds == part = "limiter" => L!LimiterHolds

\* auth.js, ssh.js: again and again each client may try to log in, and each poll of a host
\* is over, whatever the host does not answer.
LocksAndPollsEnd ==
    /\ \A c \in Clients : []<>(part = "limiter" => L!Admit(c))
    /\ \A h \in Hosts : []<>(part = "ssh" => poll[h] = "idle")

\* push_bindings.js:3-20: one machine writes a target's history, and one that was refused
\* is on the card.
OneMachineAndWarned == part = "pushes" => P!OneMachineAndWarned

\* vault.js:36-40, cred_store.js:105-116, ssh.js:13-16: one key reads every stored secret,
\* and a secret goes only to the key its host is remembered by.
OneKeyReadsAll == part = "ssh" => S!OneKeyReadsAll

\* client_ip.js, net_guard.js, comfy_follow.js: who asks, and which port is probed.
ChoicesHold == part = "choice" => D!DecisionsHold

=============================================================================
