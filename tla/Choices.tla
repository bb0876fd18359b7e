-------------------------------- MODULE Choices --------------------------------
\* Two small decisions other parts rest on: which address a request came from
\* (client_ip.js), whether that is the local network (net_guard.js), and which port of a
\* machine's ComfyUI is probed (comfy_follow.js).
EXTENDS Naturals, Sequences, FiniteSets, FiniteSetsExt

CONSTANTS
    Ports,         \* ports a ComfyUI may listen on
    MaxHops        \* bound: the entries of a forwarding header

ChoicesAssumption == Ports \subseteq Nat \ {0} /\ MaxHops \in Nat

None == "none"
\* An address is one of the proxy, of its loopback, of the local network or of the internet.
Addresses == {"proxy", "loopback", "lan", "internet"}

VARIABLES
    peer, hops, cf,            \* the socket's peer, X-Forwarded-For, CF-Connecting-IP
    listen, cmd, configured,   \* ports with whether they are only local; --port; the yaml's
    client, port               \* the decisions

vars == <<peer, hops, cf, listen, cmd, configured, client, port>>

Init ==
    /\ peer \in {"proxy", "lan", "internet"}
    /\ hops \in UNION {[1..n -> Addresses] : n \in 0..MaxHops}
    /\ cf \in {None, "internet"}
    /\ listen \in SUBSET (Ports \X BOOLEAN) /\ cmd \in Ports /\ configured \in Ports
    /\ client = None /\ port = 0

-----------------------------------------------------------------------------
\* resolveClientIp: headers only count from the proxy; its own entries are skipped from
\* the right, and a loopback entry means the tunnel, whose visitor Cloudflare names.
Strangers == {i \in DOMAIN hops : hops[i] # "proxy"}
\* Wrong on purpose, to show that ChoicesHold sees it: the last entry is the client.
LastHop(h) == h
Hop(h) == IF h = "loopback" THEN cf ELSE h
ClientOf ==
    IF peer # "proxy" THEN peer
    ELSE IF Strangers = {} THEN "proxy" ELSE Hop(hops[Max(Strangers)])

\* checkPrivateClient: an unknown client is not local.
Local(c) == c \in {"proxy", "loopback", "lan"}

\* reachablePorts and comfyPort: the configured port while it is listened on or nothing
\* better is known, else the one of the command line, else the lowest.
Reachable == {p \in Ports : <<p, FALSE>> \in listen}
PortOf ==
    CASE Reachable = {} \/ configured \in Reachable -> configured
      [] Reachable # {} /\ configured \notin Reachable /\ cmd \in Reachable -> cmd
      [] OTHER -> Min(Reachable)

Decide ==
    /\ port = 0
    /\ client' = ClientOf /\ port' = PortOf
    /\ UNCHANGED <<peer, hops, cf, listen, cmd, configured>>

Spec == Init /\ [][Decide]_vars
-----------------------------------------------------------------------------
\* A visitor who came through the tunnel is never taken for a machine of the local
\* network, and whenever something reachable listens, that is what gets probed
\* (client_ip.js:14-22, comfy_follow.js:1-16).
DecisionsHold ==
    port # 0 =>
      /\ peer = "proxy" /\ hops # <<>> /\ hops[Len(hops)] = "loopback" => ~Local(client)
      /\ Reachable # {} => port \in Reachable
================================================================================
