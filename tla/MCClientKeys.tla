---------------------------- MODULE MCClientKeys ----------------------------
(***************************************************************************)
(* What the hub asks of others, and what an admin has it do: the client    *)
(* keys at the LiteLLM proxy with two requests at a time and two names, a  *)
(* ComfyUI and the connections to it, and an admin's page with its panels  *)
(* and the discoveries it starts.  What these exchange is arbitrary in     *)
(* each, so a behaviour is one of a single part, and the variables of the  *)
(* others stand still.                                                     *)
(***************************************************************************)
EXTENDS ClientKeys

CONSTANTS
    Jobs, Objects, Sockets, DONE_FIRST, DONE_NEXT, MaxFaults,
    MaxSessions, Hosts, Caps,
    Askers, MaxInflight, Workers

VARIABLES
    part,
    up, job, hist, left, faults, fresh, moved, current, st, poll, socks, table,
    configured, auth, known, asked, open, filled, key, post, sessions,
    shown, probe, adding, posted,
    ports, run, inflight, manifest

C == INSTANCE ComfyNode
A == INSTANCE AdminPage
P == INSTANCE TargetPanel WITH manifest <- shown
D == INSTANCE Discovery WITH Requests <- Askers, up <- ports, cache <- manifest

ASSUME PartsAssumption == C!ComfyAssumption /\ D!DiscoveryAssumption

comfyVars == <<up, job, hist, left, faults, fresh, moved, current, st, poll, socks, table>>
pageVars == <<configured, auth, known, asked, open, filled, key, post, sessions>>
panelVars == <<shown, probe, adding, posted>>
scanVars == <<ports, run, inflight, manifest>>
adminVars == <<pageVars, panelVars, scanVars>>

NoComfy ==
    /\ up = 0 /\ job = 0 /\ hist = 0 /\ left = 0 /\ faults = 0 /\ fresh = 0 /\ moved = 0
    /\ current = 0 /\ st = 0 /\ poll = 0 /\ socks = 0 /\ table = 0
NoPage ==
    /\ configured = 0 /\ auth = 0 /\ known = 0 /\ asked = 0 /\ open = 0 /\ filled = 0
    /\ key = 0 /\ post = 0 /\ sessions = 0
NoPanel == shown = 0 /\ probe = 0 /\ adding = 0 /\ posted = 0
NoScan == ports = 0 /\ run = 0 /\ inflight = 0 /\ manifest = 0

PartsInit ==
    /\ Init
    /\ \/ part = "keys" /\ NoComfy /\ NoPage /\ NoPanel /\ NoScan
       \/ part = "comfy" /\ C!Init /\ NoPage /\ NoPanel /\ NoScan
       \/ part = "page" /\ NoComfy /\ A!Init /\ NoPanel /\ NoScan
       \/ part = "panel" /\ NoComfy /\ NoPage /\ P!Init /\ NoScan
       \/ part = "scan" /\ NoComfy /\ NoPage /\ NoPanel /\ D!Init

PartsNext ==
    /\ UNCHANGED part
    /\ \/ part = "keys" /\ Next /\ UNCHANGED <<comfyVars, adminVars>>
       \/ part = "comfy" /\ C!Next /\ UNCHANGED <<vars, adminVars>>
       \/ part = "page" /\ A!Next /\ UNCHANGED <<vars, comfyVars, panelVars, scanVars>>
       \/ part = "panel" /\ P!Next /\ UNCHANGED <<vars, comfyVars, pageVars, scanVars>>
       \/ part = "scan" /\ D!Next /\ UNCHANGED <<vars, comfyVars, pageVars, panelVars>>

\* FairSpec of ClientKeys and the fairness of each part.
PartsSpec ==
    /\ PartsInit /\ [][PartsNext]_<<part, vars, comfyVars, adminVars>>
    /\ WF_vars(part = "keys" /\ ProxyLists)
    /\ WF_vars(part = "keys" /\ (Listed \/ ListingFails))
    /\ WF_vars(part = "keys" /\ CacheExpires)
    /\ \A r \in Requests : WF_vars(part = "keys" /\ CallFails(r))
    /\ WF_comfyVars(part = "comfy" /\ C!PollStart)
    /\ WF_comfyVars(part = "comfy" /\ (C!PollArrives \/ C!PollFails))
    /\ WF_comfyVars(part = "comfy" /\ (C!DoneRead \/ C!DoneFails))
    /\ \A s \in Sockets : WF_comfyVars(part = "comfy" /\ (C!Upgraded(s) \/ C!SocketEnds(s)))
    /\ WF_comfyVars(part = "comfy" /\ C!RestOver)
    /\ WF_comfyVars(part = "comfy" /\ C!WsRestOver)
    /\ WF_comfyVars(part = "comfy" /\ C!Ages)
    /\ \A p \in A!Panels : WF_pageVars(part = "page" /\ (A!Accepted(p) \/ A!Refused(p)))
    /\ WF_pageVars(part = "page" /\ A!SessionArrives)
    /\ \A r \in Askers :
          WF_scanVars(part = "scan" /\ (\/ D!Take(r) \/ D!TcpProbe(r) \/ D!HttpProbe(r) \/ D!Swept(r) \/ D!Pinged(r)
                                        \/ D!Fingerprinted(r) \/ D!Finish(r)))

-----------------------------------------------------------------------------
\* comfyui.js:320-338: the connection an object holds is its own and has not ended.
ComfyHolds == part = "comfy" => C!TypeOK /\ C!HeldSocketLives

\* comfyui.js:30-33, 235-259: an elapsed time is called exact only when the hub saw the
\* job begin, or when the node has moved to another port since the last answered poll.
ExactIsExact == [][part = "comfy" => C!ExactStep]_comfyVars

\* comfyui.js:9-14, 295-338: again and again every finished job that is still listed is in
\* the table; again and again a node that answers is shown reachable and has its socket.
ComfyRecovers ==
    /\ []<>(part = "comfy" => C!ListedAreInTable)
    /\ []<>(part = "comfy" => C!ShownAndHeard)

\* session.js:10-12, 35-40: a password is in the page only while its panel is open;
\* add_target.js:204-255: targets are added only for the host whose rows were picked.
PanelsHold ==
    /\ part = "page" => A!ClosedBoxesAreEmpty
    /\ part = "panel" => P!AddsWhatWasShown

\* discovery.js, catalog.js: discoveries keep their bounds and offer what the API builds.
DiscoveryHolds == part = "scan" => D!DiscoveryHolds

\* session.js:117-121, index.js:651-692: no panel and no discovery is busy for good.
NothingStaysBusy ==
    /\ []<>(part = "page" => \A p \in A!Boxes : post[p] = "idle")
    /\ \A p \in A!Panels \ A!Boxes : []<>(part = "page" => post[p] = "idle")
    /\ []<>(part = "scan" => D!HasPlace)

=============================================================================
