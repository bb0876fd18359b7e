# HomeNet Hub: models and proofs

HomeNet Hub is a Node.js process that polls and receives readings of a home network's
machines, keeps the latest reading of each in memory, stores a history in SQLite and shows
both on a web board.  It is single-threaded: its concurrency is what happens between two
turns of the event loop, that is at every `await`, timer, push and crash, and in the page,
whose requests are answered late, out of order or never.  This directory models the parts
where that matters, and the pure computations whose figures the rest stands on.

## Inventory

| Component | State | Operations | Hard parts | What makes it correct |
|---|---|---|---|---|
| Time series (`store/sqlite.js`) | tables `metrics`, `metrics_5m`, `tsdb_meta`; `_aggWm`, `_purgeWm`, `_lastWrite` | `record`, `rollup` (drop, aggregate, purge), `cleanup`, `history` | two watermarks moved chunk by chunk with the event loop free in between; crashes; the clock | reads are exact, raw rows leave only when their bucket holds them, the raw tier drains |
| Scheduler (`collectors/index.js`), snapshot, pushes | timers, `_inflight`, `lastPush`, one snapshot entry per target | `apply`, ticks, `_poll`, `handlePush`, the sweep | late results, reloads during polls, cards computed from one another | one poll per target, no older result over a newer one, last good values kept |
| Usage engine (`usage.js`), `inference_nodes` (`collectors/nodes.js`) | `usage_ll`, `usage_ctr`, `usage_done`, `_view` | `refresh` with its reads, the nodes poll | a day is settled once and for ever, from sources that overlap and may be down | every request is counted once, a settled day is right, every day is settled |
| LiteLLM keys (`litellm_keys.js`) | listing cache, `inflight` | `list`, `generate`, `remove` | a listing under way while a key is minted or revoked | a minted key shows up, a revoked one goes |
| Config pipeline (`config/*.js`, `store/user_store.js`) | effective config, last good one, user rows | file change, user edits, `rebuild` | refused rebuilds, edits in two statements, demo mode | what runs is the last good configuration |
| Sessions (`auth.js`, `store/admin_store.js`) | password hash and salt, epoch, revoked map | login, verify, revoke, change password, setup | awaits between a check and its write | an old session dies with its password, one setup wins |
| Login limiter (`auth.js`) | failures and locks per address, in insertion order | check, count, unlock, prune | passwords verified between the check and the count; a full table | a client over its limit stays locked, nobody for good |
| Engine detection (`engine.js`) | current engine per node, `engine_state`, `engine_log` | `configure`, `tick`, `poke`, `_probe` | concurrent probes of one node | a late probe does not undo a newer one |
| Live state (`collectors/live.js`) | per-node streams, last finished request, back-off | `configure`, `poll`, `poke` | an engine that moves during a reading, counters that restart | what is shown is of this engine and has happened |
| ComfyUI (`collectors/comfyui.js`) | per-node state, web sockets, `comfy_jobs` | `configure`, `poll`, socket events | sockets of replaced nodes, jobs listed only for a while | each finished job reaches the table, the socket comes back |
| Push bindings (`store/push_bindings.js`) | bindings, alerts | `check`, `reset`, `clearAlert` | a command line writing beside the server | one machine's samples per target, a refused one is warned of |
| ssh, vault, credentials (`collectors/ssh.js`, `vault.js`, `store/cred_store.js`) | sentinel, sealed rows, known host keys | open, create, delete, poll | a poll with five ways to end; a start with another passphrase | one key reads all, every poll ends once |
| Rates (`collectors/prometheus.js`, `ssh.js`) | the previous reading | poll | reboots, interfaces that come and go, the clock | a rate is of what passed between two readings |
| Discovery (`collectors/discovery.js`, `capabilities/catalog.js`) | `discoverInflight`, cache | the route, its pool of probes | a budget that cuts phases short | the bound holds, nothing offered is refused later |
| Metrics (`normalize.js`, `idle_spin.js`) | none | `normalizePush` and what `record` takes of it | missing sensors, several cards, old speeds | a total stands for every card or none |
| Token tables (`token_detail.js`) | none | `buildTokenMatrix` | two queries with different columns | every row counts once |
| Addresses and ports (`client_ip.js`, `net_guard.js`, `comfy_follow.js`) | none | `clientIp`, `isLocal`, `followPort` | headers, proxies, several listeners | the rule named in each file |
| Web client: board (`web/app.js`, `api.js`) | shown snapshot, configuration, live view, badge | polls, event stream, visibility | answers out of order, streams that die silently | the board shows the newest answer in the end |
| Web client: panels (`session.js`, `credentials.js`, `clients.js`, `add_target.js`) | what is open, busy, typed | open, submit, close | answers after the panel was closed | no password left behind, nothing busy for good |
| Web client: charts (`history.js`, `machine_detail.js`) | what each place draws and waits for | pick, reload, re-initialise | answers for the previous target or window | an idle chart is of what its place names |

The components meet in `server/index.js`: the configuration watcher calls `Scheduler.apply`,
polls write the snapshot and the time series, pushes come in over HTTP, timers call `rollup`
and `cleanup`, and the web client reads the snapshot, the history and an event stream.
`PROJECT.json` lists every component, the ones not modelled with the reason.

## Conventions

Every module is translated from the code named in its header comment, and keeps its names.
A handler that never awaits is one action; a handler that awaits is one action per stretch
between two awaits, because timers, pushes, other requests and a crash fall there.  Every
`await` on the outside world has a second outcome, the failure or timeout.  Payloads are cut
down to what the properties tell apart: a reading is the configuration it was made with, a
password hash the pair of a password and a salt, an etag the content it hashes.

Operators whose comment begins *Wrong on purpose* are never used: each is the form a
plausible bug would give the operator below it, and is there to show that the property it
names would notice (`PROJECT.json`, `mutants`).  Auxiliary variables, marked in their
declaration, remember what a property speaks of and guard nothing.  Constants called `Max...`
bound the model for TLC; the theorems hold for every value of them.

**Parts.**  Several components exchange nothing but arbitrary values, so that their product
would only multiply states.  Such components share an `MC` module: it instantiates each,
and a variable `part`, drawn once, says whose behaviour this is; the variables of the others
stand still.  The properties of a part read "in this part, ...", and the fairness of each is
that of its own module.  What is checked is each module alone, in all its behaviours;
nothing is claimed about their interleavings with one another.  A property that bundles
several statements (`StoreInvariant` and the like) is their conjunction, and each conjunct
has its own comment where it is defined.

## Modules

| Module | Code | State and actions |
|---|---|---|
| `Tsdb` | `store/sqlite.js` | both tables, both watermarks in memory and in `tsdb_meta`, the downsampler; `Record`, `RecordFails`, the rollup as `RollupBegin`, `DropChunk`, `AggChunk`, `PurgeChunk`, `PhaseEnds`, `ChunkFails`, then `Cleanup`, `Restart` and the clock |
| `HistoryStore`, `TsdbStore` | what `history()` promises | a store that writes samples and forgets old ones; `TsdbStore` maps the two tiers to it |
| `Scheduler` | `collectors/index.js`, `push.js`, `snapshot.js`, the order of reads in `usage.js` | timers, `_inflight`, polls under way, pushes, the sweep; a poll is split where it fetches, reads the usage sources and waits for key names |
| `CounterWindow` | `collectors/nodes.js` | operators on one scraped series: its increase over a window, its baseline (the last hour's sample, or what the server's start says), the stretches it covers |
| `UsageDays` | `usage.js`, the poll in `nodes.js` | the request log, the counter, the snapshot, the settled days; `PollNodes`, a refresh as `Begin`, `ReadCounters`, `ReadRows`, `ReadFails`, `Finish`, then `Prune`, `Restart` and the time |
| `ClientKeys` | `litellm_keys.js` and the client routes of `index.js` | `cache`, `inflight`, requests between their awaits, the proxy and what others do there |
| `Sessions` | `auth.js`, `store/admin_store.js`, the setup, login, logout and password routes | the row, the gate in memory, the revoked map, the two in-flight flags, requests while a key is derived |
| `LoginLimiter` | the limiter of `auth.js` and its two routes | the map in insertion order, the passwords being verified; `Attempt`, `Wrong`, `Right`, `LogIn`, `Tick` |
| `PushBindings` | `store/push_bindings.js` and its command line | one target's row, its warning, the throttle of the log; `Push`, `Reset`, `ClearAlert`, `HubRestarts` |
| `SshPolls` | `vault.js`, `store/cred_store.js`, `collectors/ssh.js` and the credential routes | the sentinel, sealed rows, known hosts, one poll per host and its ways to end |
| `RateReaders` | `prometheus.js`, `ssh.js` | the machine's counters, the reading kept, the answer given; `Scrape`, `Report`, `ReadFails`, `Forget` |
| `ConfigPipeline` | `config/watch.js`, `loader.js`, `effective.js`, `store/user_store.js` and their routes | files, debounce timer, loaded and effective document, user rows, what the scheduler was given |
| `EngineDetector` | `engine.js` | one node: its object's generation, `cur`, the probes under way with the ports still to ask, the rows of `engine_state` and `engine_log`; `Reconfigure`, `Restart`, `BecomesDue`, `Tick`, `AskNext`, `NoneAnswers`, `Answers`, `DiesWriting` |
| `LiveReader` | `collectors/live.js` | the servers and their requests, the node's object and state, the reading under way; `PollStart`, `StatusArrives`, `SlotsArrive`, `CountersArrive`, `PollFails`, `PollForgotten` |
| `ComfyNode` | `collectors/comfyui.js` | ComfyUI and its history, one state per object `configure` made, the poll, the sockets with their owners, `comfy_jobs` |
| `Discovery` | `discovery.js`, `capabilities/catalog.js` and their route | the limit, the cache, each discovery's phase and pool; `Ask`, `Take`, the probes, `BudgetEnds`, one action per phase, `Finish`, `Rejected` |
| `CardMetrics` | `normalize.js`, `idle_spin.js` | one push: what was read of each card, what comes out; the rows for the history |
| `TokenPivot` | `token_detail.js` | one table: the rows of two queries, the columns that come out |
| `Choices` | `client_ip.js`, `net_guard.js`, `comfy_follow.js` | the headers and the peer, the listeners; the address and the port decided for |
| `WebBoard` | `web/app.js`, `web/api.js` | what the hub has, answers under way, what the tab shows, the event stream, the badge |
| `AdminPage` | `renderers/session.js`, `credentials.js`, `clients.js` | the hub's view of the session and the tab's, what is open, filled and busy |
| `TargetPanel` | `renderers/add_target.js` | the discovery shown, the rows being added |
| `Charts` | `renderers/history.js`, `machine_detail.js` | what each pane and the modal want, draw and wait for, requests that outlive their owner |
| `MC...` | | values of the constants, the parts of a run, and the statements the code's comments make that turn out not to hold |
| `...Proofs` | | theorems |

`Scheduler` composes the scheduler with pushes, the snapshot, the usage engine's refresh and
the names that `ClientKeys` lists (there, one await that cannot fail: without names the rows
keep their digests).  `UsageDays` is what such a refresh does, and extends `CounterWindow`.
`LiveReader` is handed whatever an `EngineDetector` may find, at any moment.  `ConfigPipeline`
ends where `Scheduler` begins, at `Scheduler.apply`.

### Time series

Two tiers with a boundary that moves.  The rollup works in chunks, each one transaction, and
calls `setImmediate` between them, so everything else falls between two chunks.  A watermark
is durable in `tsdb_meta` before it moves in memory; a chunk that fails breaks its loop.
The properties relate the tables, the watermarks and what was ever recorded: a read counts
every sample once (`HistoryIsExact`), a raw row leaves only with its exact bucket in the same
transaction (`RawDroppedOnlyWhenBucketed`), no sample is stranded below the boundary
(`NoStrandedRaw`), the purge's verification never refuses (`VerificationHolds`), and the raw
tier drains (`RawTierDrains`).

One assumption is needed and named: the clock may be corrected backwards, but by no more than
the raw tier spans (`ClockAssumption`), and not behind the bucket of the oldest sample a new
database holds (`ClockStepsBack`).  Without the second half the run `tsdb_clock` shows what
happens: a database seeded by a fast clock puts its boundary into the future.  Averages and
the instants of the extremes are not modelled: they come from the same rows as the counters.

### Scheduler

`_inflight` keeps polls of one target apart; a reload clears the timers but not the polls.
The nodes card feeds today's counters into the usage card, which feeds the per-project rows,
through three awaits.  The ids of these three targets are fixed; the kinds of targets a
reload may install are a constant.  The naming queue is first in, first out because all polls
that wait for key names share one listing.  The nodes poll writes its history after its
snapshot: when that insert throws, the new counters stay, the card is shown offline with them
and the usage poll does not follow (`NodesCome`).

A push and the sweep write under the configuration in force, and nothing asks whether a probe
of the same target is under way.  A probe begun before a reload that makes its target a
pushing one may therefore end after the machine's first push and overwrite it; if it failed,
the machine is shown offline until it pushes again.  `NewerConfigStays` and
`FreshPushStaysOnline` name this as their one exception, and deny everything else: between
polls, and between pushes, the newer configuration stays.

### Usage days and counter windows

One node and one kind of counter.  A unit of time carries at most one request of one token,
through LiteLLM or directly, or a restart of the machine, whose counter then begins at 0; it
is also the scrape interval.  The traffic that really happened is a variable, and the
properties compare with it.  `Figure` is what a card shows of a day: the log's rows that no
counter covered, and the counter's increase for the stretches it did.  `Measured` names the
days for which the figure is exact: no row pruned, the counter scraped at both ends of what
was asked and on both sides of every restart in between (`SeenRestarts`).  Any other sample
may be missing, and there may be any number of restarts.  For other days the code is
documented to lose the unseen part, and `SharesFit` still says that a total is never below
its LiteLLM share.  `serverStarts` is the earliest start of a process that the samples of the
window show (`min_over_time`), the baseline of a counter that has none earlier.  `LogDays` is how long LiteLLM keeps its log: a day
older than that, and empty, may have been pruned and is not settled (`Suspect`).

### Client keys

A listing is one call to the proxy (a page of at most 100 keys), split into the instant the
proxy reads its keys and the instant the answer is handled.  Minting and revoking drop the
cache but not a listing under way; the two safety properties say exactly for which keys
that is harmless, and `NewKeyShows` is the comment that ignores the rest.

### Sessions and the limiter

The salt and the signing secret are always drawn together, so one number stands for both.
`ADMIN_PASSWORD` may or may not be set at each boot; `bootstrap` may race a second process on
the same file, which only inserts a row (that it changes a password too is left out).  The
documented recovery deletes the row under the running process and restarts it afterwards, so
`EmptyTable` comes at any time.  Until the restart the gate goes on with the row it has in
memory: the old password still logs in, and a change of password is answered as done though
its `UPDATE` finds no row (`Updated`), so that the restart loses it.  `GateAndRow` says that
this is the only way the gate and the row part, and what the row may hold then;
`RestartForgets` that the restart makes good what the recovery promises: nothing signed before
the `DELETE`, or between it and the restart, verifies afterwards.  `emptied` is auxiliary.

`LoginLimiter` is the gate before the verification.  Failures are counted for the client and
for the socket peer; several passwords of one client may be derived at once, so the count may
pass the maximum, and the property is that every one of them extends the lock.  The map is
kept in insertion order because at the cap the oldest entries are dropped (`Pruned`), locked
ones included; the properties are the ones that survive that: the cap, one entry a key, no
lock longer than its longest, and that nobody is locked out for good.

### Push bindings

One target.  The machines that hold its token may run an agent that names its machine, or an
old one that does not; the first named push binds.  The command line is a second process on
the same database, so `Reset` and `ClearAlert` happen between any two pushes.  A refused
machine's repeated pushes refresh the warning, whose last line in the log is throttled, and
the property says both that the named samples recorded under one binding are of one machine
and that the card warns exactly while some machine was refused within `ALERT_TTL_MS`, naming
the last one.

### Credentials and ssh

`SshPolls` joins three files because a secret passes through all of them.  The vault opens
with the first passphrase it is given and afterwards only with that one; deleting a
credential is refused while a target uses it.  A poll over ssh ends by its answer, an error,
a close, its own timer or the end of the stream, whichever comes first, and once.  The host
key is remembered at the first use, before the secret is sent.

### Configuration

The four files are one flag, one validity bit and a content; the schema's verdict is an input.
Content is what the merge's gate looks at: the target ids, and whether the metric the users'
cards show is defined.  The etag is that content, because the code leaves only
`onExampleBoard` and `demoDismissed` out of it, and that omission is the finding
`BannerOnlyOnDemo`.

### Engine detection and the live view

Nodes share nothing, so there is one.  A reload makes a new object for it; a probe belongs to
the object it was begun for, outlives the reload and writes the same two rows.  Asking a port
(three requests) is one step.  `DiesWriting` is the write of the log followed by an upsert
that throws: nothing catches it and Node ends the process.  `astray` remembers that an older
object's probe, or such a crash, had the last word on the row.  `ShownEngineRight` allows
an engine inherited at a reload whose port the new configuration no longer lists: the code
shows it until the first probe succeeds.

`LiveReader` reads a server in up to three requests.  The detector may move the node, and a
reload replace it, between any two of them; the reading then goes on with the object it was
begun for.  Requests have a phase and a slot; llama.cpp numbers its tasks, Strata only its
slots, so that there two requests may merge into one stream when the counters do not tell.  After three failures the detector is asked to look again.

### ComfyUI

`configure` makes a new object for a node whose definition changed and drops the old one, but
not the old one's poll or socket under way.  The socket tells of the begin and end of a job;
the poll reads the queue and, when something may have finished, the newest jobs: `DONE_FIRST`
at the first read of an object, `DONE_NEXT` later, so a job may be forgotten by the listing
before it is read.  `JobsReachTable` is therefore about the jobs still listed.  A poll begins
by following the port that the machine's agent reports (`Follow`): each port is a ComfyUI of
its own, of which the one in use is modelled, and the one moved to may be running a job, or
have finished one.  The state kept of the last poll is of the port before; `ExactIsExact`,
that a job's start is called exact only if the hub saw it begin, excepts a node that moved
since its last answered poll (`moved`, auxiliary).  `Sockets`
bounds the connections alive together: a leaked one (see below) uses one up.

### Discovery, choices, figures

`Discovery` keeps the route with its place count and cache around the phases of one host's
discovery: the pool of TCP probes, the ping, the certificates and pages, the exporter.  The
budget may end between any two of them.  `CardMetrics`, `TokenPivot` and `Choices` are pure:
a behaviour is an input and one step, and their properties state what comes out in other
words than the code.  A total has a value exactly if every card was measured, and the history
gets of each card exactly what was measured of it: a power reading that the card cannot draw
is not measured, so it takes its own row and the total of the power away, and nothing else.
The columns of a day add up to the sum of its rows, and a net figure is claimed only when
every row it stands for carried one.  The address decided for was written by the last proxy
that is trusted.  `RateReaders` does the same over a sequence of readings, with reboots and clock
steps between two of them; what passed since the reading kept is a variable.

### The page

`WebBoard` is one tab: three timers whose requests may overlap (`MaxOverlap`), each answer
with the version the hub had when it was asked.  Versions are numbers because the page
compares tags, never content.  A panel that edits the configuration asks for it at once, with
the old tag or without.  The event stream may die without a word; the 6 s watchdog replaces
it.  `AdminPage` keeps the four places where a secret may be typed or shown, against
the session's changes in other tabs; `TargetPanel` the rows added one by one while the panel
is opened anew; `Charts` the ownership rule of every chart: an answer draws only if it is
still the one its place waits for.  A request on a page that was rebuilt (`here`) still calls
back into the module's state.

## Runs

| Run | Parts and constants that matter | What it shows |
|---|---|---|
| `tsdb` | *tsdb*: 1 series, 2 values, 3 samples, chunks of one bucket, 2 chunks a run, 2 faults, clock 10..17. *cards*: 2 cards, 2 sensor values. *rates*: 2 interfaces, counters to 2. *pivot*: 3 models, 2 rules, 2 rows a query, 1 net amount | all safety properties of the tiers (`StoreInvariant` = `TypeOK` and `NoStrandedRaw`; `HistoryVerified` = `HistoryIsExact` and `VerificationHolds`; `StoreSteps` = `RawDroppedOnlyWhenBucketed` and `DurableWatermarksAdvance`); the figures that go in and stand beside it (`FiguresHold`, `ShownWasMeasured`) |
| `tsdb_store` | 2 series, 3 samples, chunks of two buckets, 1 fault, clock 11..19 | the tiers implement `HistoryStore`; the raw tier drains |
| `tsdb_clock` (violation) | as `tsdb`, the clock may start fast | a sample is skipped by bucketed reads |
| `sched` | *board*: 1 machine, the three cards, 3 reloads. *days*: days of 2 units, 6 units, 1 fault | all properties of the scheduler (`BoardInvariant` = `TypeOK` and `OnePollPerTarget`; `BoardSteps` = `NewerConfigStays`, `LastGoodKept` and `FreshPushStaysOnline`; `CardsCatchUp` = `ReportsCatchUp` and `SilenceIsNoticed`); the days are exact and get settled |
| `sched_today` (violation) | the three cards, no reload after the first | two cards show different figures of today for a whole poll |
| `keys` | *keys*: 2 requests, 2 names, 2 keys. *comfy*: 2 jobs, 2 objects, 2 connections, 1 fault. *page*: 2 changes of the session. *panel*: 2 hosts, 2 capabilities. *scan*: 2 askers, 1 place, 2 workers | all properties of the listing (`KeysInvariant` = `TypeOK`, `MintedKeysListed` and `RevokedKeysGone`; `KeysSettle` = `EveryRequestEnds` and `StaleListingsEnd`) and of the other things that are answered late |
| `keys_show` (violation) | 2 requests, 2 names, 2 keys | a minted key is missing from a cached listing |
| `sessions` | *sessions*: 2 requests, 2 passwords, 4 secrets, 3 sessions, 2 instants (a session expires at the second). *limiter*: 2 clients behind one peer, limits 1 and 3, a table of 2. *pushes*: 3 machines. *ssh*: 2 hosts, 2 credentials, 2 passphrases, 2 host keys. *choice*: 3 ports, 2 hops | all properties of the gate (`SessionInvariant` = `TypeOK`, `GateAndRow`, `OldSessionsDie` and `LogoutHolds`; `SessionSteps` = `ChangesChain`, `NoStaleLogin` and `RestartForgets`) and of the four other decisions about who may |
| `config` | *config*: 2 ids, every content over them. *board*: 2 live views, 2 configurations, 1 overlap, 2 faults. *panes*: 2 panes, 2 targets, 2 windows, 1 failure, 1 rebuild. *modal*: a machine and a node | all properties of the pipeline (`ConfigInvariant` = `TypeOK`, `EffectiveFits`, `AppliedIsEffective`, `RefusalHeals` and `DemoStaysGone`), of the board and of the charts |
| `config_banner` (violation) | 2 ids, every content over them | the demo banner on the operator's own files |
| `engine` | *engine*: 2 ports, asked alone or in turn, 2 engines, 2 new objects, 1 restart. *live*: a llama.cpp and a Strata, 2 requests, 2 slots, 1 fault, 2 moves | all properties of the detector (`EngineInvariant` = `TypeOK`, `RowIsCurrent` and `LogTellsRow`) and of the live reader |
| `engine_kept` (violation) | 2 ports, 3 new objects | a late probe's row leaves a restarted node without an engine |

**Why the bounds are enough to be interesting.**  In `tsdb` the retention spans three buckets
and the clock runs past it by as much, so a sample is aggregated, purged, swept and dropped
within the run, and two faults may hit the same chunk.  Two cards are the smallest machine
whose total can stand for one and not the other; three models with two rules leave one to the
fallback class and match one twice.  In `sched` three reloads let a target go away, come back
and change kind while a poll of each generation is under way; six units are three days, of
which the first two can be settled, the first late enough for its log to be pruned.  In
`keys` a third request would add nothing: every property relates one listing and one change;
two jobs with `DONE_NEXT` of one let a job fall out of the listing before it is read, and two
objects let a poll and a socket of the old one outlive it; one place for two askers lets the
second be refused or served by the first one's manifest.  Four secrets let the
table be emptied under a gate, a change after it be lost, another process put a row there or a
restart bootstrap one, and a change follow; two clients, their
peer and a table of two fill it, so an entry with a running lock is dropped.  `config` has no
bound but its two ids: one of the example's and one free to both; two views and
configurations and two answers under way let an older answer come after a newer one, and a
third version would only repeat it.  In `engine` two new objects let a probe of either older
object be answered last; two moves take a node away from an engine and back to it, with
requests that ended in between.

**Deadlock.**  The runs `tsdb`, `tsdb_store` and `keys` set `CHECK_DEADLOCK FALSE`: the clock
and the samples, the keys and the jobs are bounded, and the model comes to rest where a real
hub would go on.  In the other runs a part whose bounds may be used up has an explicit idle
step in its `MC` module, and the first part is still checked.

**Fairness.**  `setInterval` calls `rollup()` for ever and a started rollup runs on (`Tsdb`);
intervals fire, the sweep runs, the grace runs out and every wait of a poll has a timeout
(`Scheduler`: an AbortController for HTTP, `statement_timeout` for SQL, deadlines for ssh,
ping and Prometheus); every call to the proxy has `TIMEOUT_MS` and the cache `LIST_TTL_MS`
(`ClientKeys`); a derivation by scrypt ends (`Sessions`, `LoginLimiter`); the debounce timer
fires, that is, edits do not follow one another within 250 ms for ever (`ConfigPipeline`); the
5 s interval fires and each request has `PROBE_TIMEOUT_MS` (`EngineDetector`).  A refresh is
begun again and again, and its sources answer in the end because faults are bounded
(`UsageDays`); a reading's requests answer or time out, and back-offs end (`LiveReader`,
`ComfyNode`, whose sockets also fail their handshake or close); a probe has its timeout and a
discovery its budget (`Discovery`); a poll over ssh has its timer, which is all that is
assumed of it (`SshPolls`); a request of the page is answered or aborted by its timer and the
page's intervals fire (`WebBoard`, `AdminPage`, `Charts`).  Nothing makes a machine push, an
operator act, the clock advance (except the limiter's, whose locks are times) or a fault
happen.

## Findings

Each is a violation run; `PROJECT.json` quotes the line it disagrees with.

- `NoneSkipped`: the boundary of a database seeded under a fast clock hides later samples.
- `CardsAgree`: a usage poll in flight makes the nodes poll skip the refresh that keeps the
  two cards equal.
- `NewKeyShows`: a listing answered before a mint is cached after it.
- `BannerOnlyOnDemo`: own files equal to the example do not end demo mode.
- `EngineSurvives`: a probe of the old configuration overwrites `engine_state`.

**Met while modelling, without a run of their own.**  The models keep these as the code does
them, and no property claims the contrary.

- `usage.js:261`: after midnight, until the next nodes poll, the snapshot's counter of the
  day before is read as today's; `TodayIsCountedOnce` asks for a snapshot of today.
- `comfyui.js:269`, `340`: a poll of a dropped object opens a socket nobody closes, and so
  does a handshake that ends after its object was dropped; `ShownAndHeard` excepts it.
- `comfyui.js:235-242`, `259`: a node that follows its agent to another port while it was
  reachable calls the job it finds there exact, though that job may have been running long
  before (the header, 29-34, calls such a start a lower bound); `ExactIsExact` excepts it.
- `index.js:296`, `301`: a probe begun before a reload overwrites a push of the new
  configuration, and if it failed shows the pushing machine offline until its next push.
- `admin_store.js:91-97`: a change of password between the recovery's `DELETE` and the restart
  is answered as done and lost at the restart.
- `live.js:243`: an "exact" prefill may join several prompts that began and ended between
  two readings, where the header (24-26) speaks of one.
- `app.js:592`: an older snapshot answered late replaces a newer one until the next poll;
  `BoardCatchesUp` is about the end of it.
- `session.js:55-72`: of two `/api/session` answers under way the last to arrive wins,
  whichever was asked first.
- `clients.js:113`: a key minted by a request that outlives its panel is put into the closed
  panel's reveal box; `ClosedBoxesAreEmpty` is therefore about passwords.
- `history.js:81-87`: after the panes were rebuilt, the failure of an old request covers the
  new pane with an error.
- `discovery.js:292`: a budget that ends before the exporter phase skips it without setting
  `partial`.
- `auth.js:117-121`: at the cap the oldest entries are dropped, running locks included.
- `sql.js:40-52`: two first polls of one data source each create a pool, and the first is
  never ended.

## Proofs

TLC checks the instances above; these hold for every value of the constants that satisfies
the assumptions named in the modules.

| Module | Inductive invariant | Theorems |
|---|---|---|
| `TsdbProofs` | `TypeOK`, `WatermarksOrdered`, `NoStrandedRaw`, `BoundaryBehindClock`; with `RawComplete`, `BucketsHaveSamples`, `BucketsExact`, `BucketsComplete` (`HInv`) | `TypeCorrect`, `Ordered`, `NothingStranded`, `TiersExact`, `ReadsExact`, `NeverRefused`, `NothingLost`, `MarksOnlyAdvance`; `StoreSound`, `HistorySound`, `StepsSound`, `TiersImplementStore` |
| `SchedulerProofs` | `TypeOK`, `OnePollPerTarget`, `GenOrder`; for the rows `ConfigRight`, `WaitsRight`, `RowsBelong` | `TypeCorrect`, `OnePoll`, `NewerConfig`, `LastGood`, `PushOnline`; `BoardSound`, `StepsSound`, `RowsMatch` |
| `ClientKeysProofs` | `TypeOK`, `AllNamed`, `AllIssued`, `ListingRight`, `RevokedIsAway` and the two safety properties; `PageInv`, `PanelInv`, `ScanInv`, `ComfyInv` | `TypeCorrect`, `MintedListed`, `RevokedStayGone`, `NoDoubles`; `KeysSound`, `Panels`, `Discoveries`, `Comfy`, `Exact` |
| `SessionsProofs` | `TypeOK`, `CallsRight`, `OneAtATime`, `GateAndRow`, `SecretsRight`, `EmptiedRight`, `OutRight`; `PushInv`, `SshInv`, `ChoiceInv`, `LimiterInv` | `TypeCorrect`, `GateIsRow`, `OldDie`, `LoggedOut`, `Chained`, `LoginsCurrent`, `Forgotten`; `SessionsSound`, `StepsSound`, `OneMachine`, `OneKey`, `Choices`, `Limiter` |
| `ConfigPipelineProofs` | `TypeOK`, `Served`, `CardsHaveTargets`, `DemoCleared`; `PanesInv`, `ModalInv` | `TypeCorrect`, `ServedFits`, `SchedulerFollows`, `RefusalsHeal`, `NoOrphanCards`, `DemoGone`; `ConfigSound`, `ChartsRight` |
| `EngineDetectorProofs` | `TypeOK`, `ProbesRight`, `AbsentRight`, `RowIsCurrent`, `LogTellsRow`; `LiveInv` | `TypeCorrect`, `RowCurrent`, `LogCurrent`, `ShownRight`; `EngineSound`, `LiveOwn` |
| `FiguresProofs` | `RateInv`, `CardsInv`, `PivotInv` | `RatesAreMeasured`, `FiguresRight` |
| `UsageDaysProofs` | `WorldOK`, `SeriesRight`, `SavedRight`, `RunOK`, `DaysTyped`, `StoredRight`, `DoneRight`, `SnapRight`, `GotRight` (`DaysInv`); `OnceInv` | `DaysInvariant`, `SettledOnce`; `DaysRight` |

The theorems after the semicolon state what a run checks.  A theorem about a part of an `MC`
module is about `PartsSpec`, so it reads "in this part, ..." like the property.

*Time series.*  `NoStrandedRaw` is not inductive: a push lands at the present, and nothing in
it says the boundary is in the past.  `BoundaryBehindClock` says it: the boundary is either
the raw tier's span behind the highest clock reading, or, before the first chunk commits, at
the bucket of the oldest sample; with the clock assumption either keeps it behind `now`.
Reads, verification and the refinement need what the tiers hold: from the boundary upwards
the raw tier has every sample, and below it, as far back as the retention, every bucket that
had a sample has one row, built from all its samples.  A chunk keeps that because both its
ends are bucket edges.  The abstract store's samples are then a function of what was recorded
and of the retention, a rollup is a stutter, and a cleanup forgets the same samples in both.

*Usage days.*  None of the figures' properties is inductive: they compare what is stored with
what happened, and nothing in them says what the counter or a window knows.  `SeriesRight`
does for the series: a sample tells how long the server that wrote it has been running, two
samples with no restart between differ by the units that passed, and the sample right after a
restart is 0.  From it the fold of `promCounterWindow` is followed sample by sample.  From one
sample to another, with every restart scraped on both sides, it counts exactly the units in
which the machine was up and covers the window in one stretch (`WholeWindow`): a drop next to
its restart is no missing stretch, because the two samples are one interval apart.  A window
that opens with the story, on a series never seen before, opens at its first sample or at the
process start the exporter tells (`OpensAtStart`), and counts at most what it covers
(`WindowReads`).  `StoredRight`, `SnapRight` and `GotRight` say that every figure stored,
in the snapshot or in the locals of `_refresh` was told by such a window; a window ends in the past,
so the passing of time changes none of them (`PastScraped`, `WholeStays`, `TodayStays`).
`MeasuredDaysAreExact` is then a count of two disjoint sets, the rows before the switch and
the units from it on; `TodayIsCountedOnce` adds the rows outside the covered stretch to the
counter, which is at most its length; `SharesFit` needs only that the covered rows are rows
and that a day without a counter covers none, so no assumption on what was scraped.
`SettledDaysKeepTheirRows` rests on two margins: LiteLLM logs a row no later than `Settle`,
and a day that is read empty within `LogDays - 1` days of its end cannot have lost a row.  That
a settled day is final (`SettledOnce`) takes what a refresh remembers: the days done when it
began, and that it goes through the others upwards (`OnceInv`), so the day it stores is new.

*Sums.*  A count or total is a fold over a set, in an order of its own.  That it is the sum
(split into disjoint parts, raised by one element, compared term by term) is proved by
contradiction: a family of subsets of a finite set has a smallest member (the library's
well-foundedness of strict inclusion), and the smallest subset for which the claim is wrong
is not.  The same argument finds the extremes of a bucket.

*Figures.*  `CardsInv` and `PivotInv` say that the output is what the one step computes from
the input; the properties, which state it in other words, follow by the facts on sums: the
classes of the token table partition its rows, and a maximum is one of the values and bounds
the others.  For a rate, `RateInv` says that, until something restarts, the counters are the
reading kept plus what passed since, and after it carry no more than that: a difference that
is not negative is then of what passed, and what drops is refused.

*Scheduler.*  That a result of an older configuration replaces a newer one only in the one way
named above needs `GenOrder`: the polled result a target shows is never newer than a poll of
it under way, which holds because `_inflight` lets no second poll begin, so `OnePollPerTarget`
is part of the invariant; no result is newer than the configuration in force, under which
pushes and the sweep write; and a poll of the configuration in force is of a target it polls,
so what overwrites a fresh push was begun before.  That the rows
belong to the total beside them needs to know which refresh a wait for names holds
(`WaitsRight`) and that the last one waiting, or the shown rows when none waits, is of the
refresh that published (`RowsBelong`); the queue is first in, first out.  `RowsMatch` has the
hypothesis `ProjectsStay`, the projects card is in every configuration, as in those of the
run: a refresh that publishes while the card is away does not make rows, and one from before
may still be waiting for its names when the card comes back.

*Client keys.*  What the cache may lack depends on what a listing under way may lack:
`ListingRight` states the same of an answered listing, and `RevokedIsAway` that a revoked key
does not come back to the proxy, which rests on key numbers never being used twice
(`AllIssued`).

*Panels, discovery, ComfyUI.*  What is being added was picked while nothing was probed, and
any new discovery ends it (`PanelInv`).  The place count of the route is the cardinality of
the discoveries between its two changes of it, and the hosts a pool probes are at most its
workers (`ScanInv`); a manifest has certificates only for ports that are open, which is why
what the catalogue offers can be built.  A held connection was opened by its holder and has
not ended (`ComfyInv`), and a start is exact because the job was not running when the last
answered poll looked (`Looked`, `BegunSince`), of a node that has not moved since.

*Sessions.*  An old session dies because no secret is drawn twice (`SecretsRight`).  For the
same reason a row that another process puts into an emptied table is newer than every secret
of the gate, and a restart, which takes the row that is there or draws a new secret, admits
nothing but what that row had signed.  That password changes chain rests on one derivation of
its kind at a time (`OneAtATime`) and on the gate standing still meanwhile (`CallsRight`).

*The other gates.*  The limiter's map has one entry a key and no more than its cap
(`LimiterInv`), and a step moves, adds or drops entries without touching another's count; the
recorded alert is the last refusal, as old as the youngest (`PushInv`); a sealed row is under
the verifier's key, and what was sent to a host is under the key it is remembered by
(`SshInv`); the last stranger of the header is the last entry that no trusted proxy wrote
(`ChoiceInv`).

*Configuration.*  `RowsServed` relates refusal, files, rows and what is served: a refusal has
a cause, and without one the three agree; `DemoCleared` states `DemoStaysGone` one hand-over
earlier, of what was loaded.

*Charts.*  Each place has at most one request that owns it, for what the place names, or its
canvas is new and empty (`PanesInv`, `ModalInv`); a request that lost its place draws nothing.

*Engine detection.*  The node's own probe knows the engine the node shows and asks only
candidate ports (`ProbesRight`), because there is one at a time and a reload ends its claim;
so an answer that is no change finds row and log already in agreement.

*The live reader.*  `LiveInv` says of the node and of the reading under way that every stream
is of requests the server it is read from has begun, apart by key, and that what is kept as
the last request is over.  A reading under way is of the server its object is read from,
because the object learns of a move only when the next reading begins; a reading whose object
a reload dropped writes where nobody looks.

**Assumptions.** Most say that a bound is a number, or that a name of the model's own is not
a target, pane or card. Those with content: the clock assumption above and a retention that
covers the raw tier (`Tsdb`); series, slots, interfaces and values are finite sets; `Window
<= MaxLock` (`LoginLimiter`: 60 s against 15 minutes in `auth.js`); `None \notin HostKeys`;
the hour and the five minutes of `nodes.js` are no shorter than a scrape interval, and a day,
the settling delay and the log's retention are at least one unit (`UsageDays`);
the configurations of `Scheduler` have each of the three cards in its own place or not at
all; the theorem on token tables is for the two rules of `MCTsdb`, of which the proof uses
only that every model falls into one class.

**Only model-checked.**  Every invariant and every action property of the passing runs is
stated by a theorem.  Liveness (`RawTierDrains`, `CardsCatchUp`, `DaysSettle`, `KeysSettle`,
`ComfyRecovers`, `NothingStaysBusy`, `FlagsClear`, `LocksAndPollsEnd`, `EditsTakeEffect`,
`BoardCatchesUp`, `PanesAreFreed`, `FindsEngine`, `LiveCatchesUp`) rests on fairness, which
needs ENABLED, and stays with TLC.

## Plan

Done: all components but the ones named below, each with its properties; the theorems of the
eight modules above.  Nothing of the plan is left that the provers could reach; a change of
the code begins at the definition that `PROJECT.json` maps to its lines.

## Not modelled

`PROJECT.json` lists every component with its reason.  The sql, exec, http, net and demo
collectors are single requests with a deadline, which `Scheduler` models by their outcome;
what little they keep is a cache (a pool per data source, and in `exec.js` the last reading for
rates, used by no shipped target).  The HTTP server's remaining routes read and format.  The
drawing half of the web client (`fit.js`, themes, dictionaries, SVG paths) computes what is
shown from what it is given and keeps no state.  The agents run on other machines and are
seen as pushes.  Within the components that are modelled, the `note` of each says what is
left out.
