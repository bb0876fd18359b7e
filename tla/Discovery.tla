------------------------------ MODULE Discovery ------------------------------
\* Discovery of one host: the route with its cache and its limit (index.js:659-692), the
\* probes in a pool of workers (collectors/discovery.js), and the catalogue that says what
\* a finding can be monitored by (capabilities/catalog.js).  Three ports stand for the
\* bounded set: the login port, a TLS web port and the exporter's, which is a plain one.
EXTENDS Naturals, Sequences, FiniteSets

CONSTANTS
    Requests,      \* concurrent GET /api/discover of the host
    MaxInflight,   \* DISCOVER_MAX_INFLIGHT
    Workers        \* TCP_CONCURRENCY

DiscoveryAssumption == {MaxInflight, Workers} \subseteq Nat \ {0}

None == "none"
Ports == {"ssh", "https", "exporter"}
Http == {"https", "exporter"}      \* the ports with a scheme
Tls == {"https"}
PortOrder == <<"ssh", "https", "exporter">>

VARIABLES
    up,            \* the ports that answer at the moment
    run,           \* request -> its discovery
    inflight,
    cache          \* the manifest served again, if there is one

vars == <<up, run, inflight, cache>>

NoPool == [items |-> <<>>, next |-> 1, busy |-> {}, hits |-> {}]
Idle == [pc |-> "idle", pool |-> NoPool, late |-> FALSE, skipped |-> FALSE,
         open |-> {}, web |-> {}, certs |-> {}]

Init ==
    /\ up \in SUBSET Ports
    /\ run = [r \in Requests |-> Idle]
    /\ inflight = 0 /\ cache = {}

\* A service of the host starts or stops; the cached manifest expires.
HostChanges == /\ up' \in SUBSET Ports /\ UNCHANGED <<run, inflight, cache>>
CacheExpires == /\ cache # {} /\ cache' = {} /\ UNCHANGED <<up, run, inflight>>

-----------------------------------------------------------------------------
\* pooled: a fixed number of workers, each taking the next item when it is done; a probe
\* that throws counts as an answer without content.
PoolOf(items) == [items |-> items, next |-> 1, busy |-> {}, hits |-> {}]
PoolDone(p) == p.next > Len(p.items) /\ p.busy = {}
CanTake(p) == p.next <= Len(p.items) /\ Cardinality(p.busy) < Workers
Taken(p) == [p EXCEPT !.busy = @ \cup {p.items[p.next]}, !.next = @ + 1]

Probed(p, item, hit) ==
    [p EXCEPT !.busy = @ \ {item}, !.hits = IF hit THEN @ \cup {item} ELSE @]

Moves(r, to) == run' = [run EXCEPT ![r] = to]
Inside(r) == run[r].pc \in {"tcp", "ping", "http", "exporter"}

\* The route: a fresh manifest is served again, too many at a time are refused.
Ask(r) ==
    /\ run[r].pc = "idle" /\ cache = {} /\ inflight < MaxInflight
    /\ inflight' = inflight + 1
    /\ Moves(r, [Idle EXCEPT !.pc = "tcp", !.pool = PoolOf(PortOrder)])
    /\ UNCHANGED <<up, cache>>

Take(r) ==
    /\ run[r].pc \in {"tcp", "http"} /\ CanTake(run[r].pool)
    /\ Moves(r, [run[r] EXCEPT !.pool = Taken(@)])
    /\ UNCHANGED <<up, inflight, cache>>

\* A port that is up answers or is too slow.
Probe(r) ==
    /\ \E item \in run[r].pool.busy, hit \in BOOLEAN :
         /\ hit => item \in up
         /\ Moves(r, [run[r] EXCEPT !.pool = Probed(@, item, hit)])
    /\ UNCHANGED <<up, inflight, cache>>

TcpProbe(r) == run[r].pc = "tcp" /\ Probe(r)
HttpProbe(r) == run[r].pc = "http" /\ Probe(r)

\* left(): the budget runs out between two phases.
BudgetEnds(r) ==
    /\ Inside(r) /\ ~run[r].late
    /\ Moves(r, [run[r] EXCEPT !.late = TRUE])
    /\ UNCHANGED <<up, inflight, cache>>

\* The end of the sweep: the open ports in order, a ping when none answered.
Swept(r) ==
    /\ run[r].pc = "tcp" /\ PoolDone(run[r].pool)
    /\ LET open == run[r].pool.hits
           web == SelectSeq(PortOrder, LAMBDA p : p \in open \cap Http)
       IN  Moves(r, [run[r] EXCEPT !.open = open,
             !.pc = IF open = {} THEN "ping" ELSE IF web # <<>> /\ ~run[r].late THEN "http" ELSE "exporter",
             !.skipped = web # <<>> /\ run[r].late,
             !.pool = IF web # <<>> /\ ~run[r].late THEN PoolOf(web) ELSE NoPool])
    /\ UNCHANGED <<up, inflight, cache>>

Pinged(r) ==
    /\ run[r].pc = "ping"
    /\ Moves(r, [run[r] EXCEPT !.pc = "exporter"])
    /\ UNCHANGED <<up, inflight, cache>>

\* The certificate is read beside the page, and either may fail alone.
Certificates(r) == SUBSET (run[r].open \cap Tls)

Fingerprinted(r) ==
    /\ run[r].pc = "http" /\ PoolDone(run[r].pool)
    /\ \E certs \in Certificates(r) :
         Moves(r, [run[r] EXCEPT !.pc = "exporter", !.certs = certs, !.web = run[r].pool.hits, !.pool = NoPool])
    /\ UNCHANGED <<up, inflight, cache>>

\* The exporter is asked last, if its port answered and time is left.
Exporter(r) == {node \in BOOLEAN : node => "exporter" \in run[r].open \cap up /\ ~run[r].late}

\* osHint: the exporter, the banner of a page that was read, then the login port; nothing
\* when the pages were not asked for.
Hint(d, node, banner) ==
    IF ~d.skipped /\ (node \/ banner \/ "ssh" \in d.open) THEN "linux" ELSE "unknown"

\* Wrong on purpose, to show that DiscoveryHolds sees it: a discovery that fails keeps its
\* place.
KeepsPlace == UNCHANGED inflight

Released == inflight' = inflight - 1

\* The manifest, cached for the requests to come; the count is given back on every path.
Finish(r) ==
    /\ run[r].pc = "exporter"
    /\ \E node \in Exporter(r), banner \in BOOLEAN :
         /\ banner => run[r].web # {}
         /\ cache' = {[open |-> run[r].open, certs |-> run[r].certs, node |-> node,
                       hint |-> Hint(run[r], node, banner), partial |-> run[r].skipped]}
    /\ Moves(r, Idle) /\ Released
    /\ UNCHANGED up

\* A host that is not allowed, or an unexpected failure.
Rejected(r) ==
    /\ Inside(r) /\ Moves(r, Idle) /\ Released
    /\ UNCHANGED <<up, cache>>

Next ==
    \/ HostChanges \/ CacheExpires
    \/ \E r \in Requests : \/ Ask(r) \/ Take(r) \/ TcpProbe(r) \/ HttpProbe(r) \/ BudgetEnds(r)
                           \/ Swept(r) \/ Pinged(r) \/ Fingerprinted(r) \/ Finish(r) \/ Rejected(r)

\* Every probe has a timeout of its own, and the steps between them are the program's.
Fairness ==
    \A r \in Requests : WF_vars(Take(r) \/ TcpProbe(r) \/ HttpProbe(r) \/ Swept(r) \/ Pinged(r) \/ Fingerprinted(r) \/ Finish(r))

Spec == Init /\ [][Next]_vars /\ Fairness
-----------------------------------------------------------------------------
\* The catalogue: what each kind of capability applies to, what the manifest offers, what
\* the API builds.
OfPorts(m) ==
    {<<"port_check", p>> : p \in m.open}
      \cup {<<"tls_cert", p>> : p \in m.certs}
      \cup {<<"http_check", p>> : p \in (m.open \cap Http) \ Tls}

OfMachine(m) ==
    (IF m.node THEN {<<"node_metrics", None>>} ELSE {})
      \cup (IF "ssh" \in m.open THEN {<<"ssh_metrics", None>>} ELSE {})

Suggested(m) == {<<"reachability", None>>} \cup OfPorts(m) \cup OfMachine(m)

Builds(c) ==
    CASE c[1] \in {"reachability", "node_metrics", "ssh_metrics"} -> c[2] = None
      [] c[1] = "port_check" -> c[2] \in Ports
      [] c[1] = "http_check" -> c[2] \in Http \ Tls
      [] OTHER -> c[2] \in Tls

\* The count is that of the discoveries under way, each probes every port once with a
\* bounded number of workers, a manifest offers nothing the API would refuse, and one
\* whose fingerprints were cut names no system (index.js:651-657, discovery.js:62-64,
\* 350-357, catalog.js:9-13).
DiscoveryHolds ==
    /\ inflight = Cardinality({r \in Requests : Inside(r)}) /\ inflight <= MaxInflight
    /\ \A r \in Requests : Cardinality(run[r].pool.busy) <= Workers
    /\ \A m \in cache :
         /\ \A c \in Suggested(m) : Builds(c)
         /\ m.certs \subseteq m.open
         /\ m.partial => m.hint = "unknown" /\ m.certs = {}

\* Every discovery gives its place back: again and again one more can begin.
HasPlace == inflight < MaxInflight
DiscoveryEnds == []<>HasPlace
================================================================================
