------------------------------ MODULE ComfyNode ------------------------------
\* The ComfyUI collector (src/server/collectors/comfyui.js) for one configured node:
\* polls that suspend at every request, the table of finished jobs, the listening
\* WebSocket with its late events, reloads that replace the node's object while a
\* poll or a connection of the old one is still under way, and the port that follows
\* what the machine's agent reports.  Each port is a ComfyUI of its own: the one at the
\* port in use is modelled, and a move leads to another, whatever it did before.  What
\* is left of connections to the one before ends like those of the new one.
EXTENDS Integers, Sequences, FiniteSets

CONSTANTS
    Jobs,          \* the jobs people queue, run once each and in this order
    Objects,       \* 1..n: the objects configure() makes for the node
    Sockets,       \* bound: the connections alive at one time
    DONE_FIRST, DONE_NEXT,   \* how many finished jobs a read asks for
    MaxFaults      \* bound: restarts of ComfyUI, and while it is up moves to another port
                   \* and requests and connections that fail

ComfyAssumption ==
    /\ Jobs \subseteq Nat \ {0} /\ Objects \subseteq Nat \ {0} /\ Sockets \subseteq Nat \ {0}
    /\ 1 \in Objects
    /\ DONE_NEXT \in Nat \ {0} /\ DONE_FIRST \in Nat \ {0} /\ MaxFaults \in Nat

None == 0

VARIABLES
    up, job, hist, left,  \* the ComfyUI in use: alive, its running job, the finished ones, those to come
    faults,
    fresh,        \* ghost: the jobs started since the object's last poll was answered
    moved,        \* ghost: the objects that follow another port since that poll
    current,      \* the object in nodes, 0 when the node is not configured
    st,           \* object -> its state
    poll,         \* the collector's poll under way
    socks,        \* connection -> [owner, phase, done]
    table         \* comfy_jobs

comfyui == <<up, job, hist, left>>
ghosts == <<fresh, moved>>
vars == <<comfyui, faults, ghosts, current, st, poll, socks, table>>

freshState ==
    [up |-> FALSE, rest |-> FALSE, running |-> None, exact |-> FALSE, start |-> None,
     dirty |-> TRUE, seeded |-> FALSE, old |-> FALSE,
     ws |-> 0, wsRest |-> FALSE]

NoSocket == [owner |-> 0, phase |-> "free", done |-> FALSE]
Idle == [pc |-> "idle", obj |-> 0]

Init ==
    /\ up = TRUE /\ job = None /\ hist = <<>> /\ left = Jobs /\ faults = 0
    /\ fresh = [o \in Objects |-> {}] /\ moved = {}
    /\ current = 1
    /\ st = [o \in Objects |-> freshState]
    /\ poll = Idle
    /\ socks = [s \in Sockets |-> NoSocket]
    /\ table = {}

-----------------------------------------------------------------------------
\* ComfyUI: a job starts, finishes into its in-memory history (newest first), and
\* a restart forgets the running job and the history and drops every connection.
StartJob(j) ==
    /\ up /\ job = None /\ j \in left /\ \A k \in left : j <= k
    /\ job' = j /\ left' = left \ {j}
    /\ fresh' = [o \in Objects |-> IF o \in {current, poll.obj} THEN fresh[o] \cup {j} ELSE {}]
    /\ UNCHANGED <<up, hist, faults, moved, current, st, poll, socks, table>>

FinishJob ==
    /\ job # None
    /\ hist' = <<job>> \o hist
    /\ job' = None
    /\ UNCHANGED <<up, left, faults, ghosts, current, st, poll, socks, table>>

\* Wrong on purpose, to show that ComfyHolds sees it: the dead connection is still held.
EndedButHeld(s, states) ==
    IF socks[s].owner # 0 THEN [states EXCEPT ![socks[s].owner].wsRest = TRUE] ELSE states

\* onClose: only the socket the object still holds counts, and sets its retry time.
Ended(s, states) ==
    LET o == socks[s].owner
    IN  IF o # 0 /\ states[o].ws = s
        THEN [states EXCEPT ![o].ws = 0, ![o].wsRest = TRUE]
        ELSE states

ServerDies ==
    /\ up /\ faults < MaxFaults /\ faults' = faults + 1
    /\ up' = FALSE /\ job' = None /\ hist' = <<>>
    /\ socks' = [s \in Sockets |-> IF socks[s].phase = "open" THEN NoSocket ELSE socks[s]]
    /\ st' = [o \in Objects |->
                IF st[o].ws # 0 /\ socks[st[o].ws].phase = "open"
                THEN Ended(st[o].ws, st)[o] ELSE st[o]]
    /\ UNCHANGED <<left, ghosts, current, poll, table>>

ServerStarts ==
    /\ ~up
    /\ up' = TRUE
    /\ UNCHANGED <<job, hist, left, faults, ghosts, current, st, poll, socks, table>>

-----------------------------------------------------------------------------
\* _closeWs and WsListener.close: an open connection is destroyed; one still being
\* upgraded is only marked done, and its upgrade may yet come.
Dropped(s) ==
    IF socks[s].phase = "open" THEN NoSocket ELSE [socks[s] EXCEPT !.done = TRUE]

CloseWs(o) ==
    IF st[o].ws = 0 THEN socks ELSE [socks EXCEPT ![st[o].ws] = Dropped(st[o].ws)]

Closed(state) == IF state.ws = 0 THEN state ELSE [state EXCEPT !.ws = 0]

\* An object that neither the map nor the poll holds any more is garbage.
Kept(states, held) == [o \in Objects |-> IF o \in held THEN states[o] ELSE freshState]

\* configure: the node is removed, or its URL changed and it gets a new object; a
\* poll under way keeps the object it began with.
Reconfigure(next) ==
    /\ next \in {0} \cup {o \in Objects : \A p \in Objects : p < o => p <= current}
    /\ next # current /\ (next = 0 \/ next > current)
    /\ current # 0
    /\ current' = next
    /\ socks' = CloseWs(current)
    /\ st' = Kept([st EXCEPT ![current] = Closed(@)], {poll.obj})
    /\ UNCHANGED <<comfyui, faults, ghosts, poll, table>>

-----------------------------------------------------------------------------
\* The ComfyUI of another port may run a job, or have finished one, that nobody saw begin.
Elsewhere ==
    /\ up' \in BOOLEAN
    /\ \/ job' = None /\ hist' = <<>> /\ left' = left
       \/ /\ up'
          /\ \E j \in left :
                /\ \A k \in left : j <= k
                /\ left' = left \ {j}
                /\ \/ job' = j /\ hist' = <<>>
                   \/ job' = None /\ hist' = <<j>>

\* _follow: another port closes the socket and ends both back-offs; whether the node was up
\* and what it ran stays as the ComfyUI of the port before left it.
Follow ==
    /\ ~up \/ faults < MaxFaults
    /\ faults' = IF up THEN faults + 1 ELSE faults
    /\ Elsewhere
    /\ socks' = CloseWs(current)
    /\ st' = [st EXCEPT ![current] = [Closed(@) EXCEPT !.rest = FALSE, !.wsRest = FALSE]]
    /\ moved' = moved \cup {current}

\* poll and _pollNode: the port is followed, then both queue reads of the current object,
\* unless it is backing off.
PollStart ==
    /\ poll = Idle /\ current # 0
    /\ \/ Follow
       \/ /\ ~st[current].rest
          /\ UNCHANGED <<comfyui, faults, moved, st, socks>>
    /\ poll' = [pc |-> "asked", obj |-> current]
    /\ UNCHANGED <<fresh, current, table>>

\* Wrong on purpose, to show that ExactIsExact sees it: a job first seen running is always
\* taken for a new one.
SeesAlways(s, j, started) ==
    LET ended == s.running # None /\ s.running # j
    IN  [s EXCEPT !.up = TRUE, !.rest = FALSE, !.running = j, !.exact = j # None,
                  !.dirty = @ \/ ended \/ ~s.up]

\* What an answer makes of the state: since when a job runs is only exact if the
\* node was up at the last poll or the socket told its start; a job that is gone, or
\* a node that is back, calls for the finished jobs.
Sees(s, j, started) ==
    LET ended == s.running # None /\ s.running # j
    IN  [s EXCEPT !.up = TRUE, !.rest = FALSE, !.running = j,
                  !.exact = IF j = s.running THEN @ ELSE j # None /\ (started \/ s.up),
                  !.dirty = @ \/ ended \/ ~s.up]

\* _ensureWs of the poll's object, which may have been replaced meanwhile.
Free == {s \in Sockets : socks[s].phase = "free"}
Wants(state) == state.ws = 0 /\ ~state.wsRest

EnsureWs(state) ==
    \/ /\ ~Wants(state) \/ Free = {}
       /\ st' = Kept([st EXCEPT ![poll.obj] = state], {current})
       /\ UNCHANGED socks
    \/ /\ Wants(state)
       /\ \E s \in Free :
            /\ \A t \in Free : s <= t
            /\ socks' = [socks EXCEPT ![s] = [owner |-> poll.obj, phase |-> "connecting", done |-> FALSE]]
            /\ st' = Kept([st EXCEPT ![poll.obj] = [state EXCEPT !.ws = s]], {current})

PollArrives ==
    /\ poll.pc = "asked" /\ up
    /\ LET s == Sees(st[poll.obj], job, st[poll.obj].start = job)
       IN  IF s.dirty \/ s.old
           THEN /\ st' = [st EXCEPT ![poll.obj] = s]
                /\ poll' = [poll EXCEPT !.pc = "done"]
                /\ UNCHANGED socks
           ELSE EnsureWs(s) /\ poll' = Idle
    /\ fresh' = [fresh EXCEPT ![poll.obj] = {}]
    /\ moved' = moved \ {poll.obj}
    /\ UNCHANGED <<comfyui, faults, current, table>>

Lost(state) ==
    [Closed(state) EXCEPT !.up = FALSE, !.rest = TRUE, !.running = None, !.exact = FALSE]

\* The reads fail or time out: the node is down, backs off, and loses its socket.
PollFails ==
    /\ poll.pc = "asked"
    /\ ~up \/ faults < MaxFaults
    /\ faults' = IF up THEN faults + 1 ELSE faults
    /\ LET o == poll.obj
       IN  /\ socks' = CloseWs(o)
           /\ st' = Kept([st EXCEPT ![o] = Lost(@)], {current})
    /\ poll' = Idle
    /\ UNCHANGED <<comfyui, ghosts, current, table>>

\* _done: the newest finished jobs go into the table, more of them the first time.
Newest(n) == {hist[i] : i \in 1..(IF n < Len(hist) THEN n ELSE Len(hist))}

\* Wrong on purpose, to show that ComfyRecovers sees it: without sort_order=desc the oldest
\* jobs are read.
OldestJobs(seeded) ==
    LET n == IF seeded THEN DONE_NEXT ELSE DONE_FIRST
    IN  {hist[i] : i \in {k \in 1..Len(hist) : k > Len(hist) - n}}

DoneList(seeded) == Newest(IF seeded THEN DONE_NEXT ELSE DONE_FIRST)

DoneRead ==
    /\ poll.pc = "done" /\ up
    /\ LET s == st[poll.obj]
       IN  /\ table' = table \cup DoneList(s.seeded)
           /\ EnsureWs([s EXCEPT !.seeded = TRUE, !.dirty = FALSE, !.old = FALSE])
    /\ poll' = Idle
    /\ UNCHANGED <<comfyui, faults, ghosts, current>>

\* A failed read is tried again at the next tick.
DoneFails ==
    /\ poll.pc = "done"
    /\ ~up \/ faults < MaxFaults
    /\ faults' = IF up THEN faults + 1 ELSE faults
    /\ EnsureWs([st[poll.obj] EXCEPT !.old = FALSE])
    /\ poll' = Idle
    /\ UNCHANGED <<comfyui, ghosts, current, table>>

-----------------------------------------------------------------------------
\* onOpen of a connection, which is not asked whether it is still wanted.
Upgraded(s) ==
    /\ socks[s].phase = "connecting" /\ up
    /\ socks' = [socks EXCEPT ![s].phase = "open"]
    /\ UNCHANGED <<comfyui, faults, ghosts, current, st, poll, table>>

\* _end of a connection that is refused, times out or is closed by the other side.
SocketEnds(s) ==
    /\ socks[s].phase # "free"
    /\ ~up \/ faults < MaxFaults
    /\ faults' = IF up THEN faults + 1 ELSE faults
    /\ st' = IF socks[s].done THEN st ELSE Ended(s, st)
    /\ socks' = [socks EXCEPT ![s] = NoSocket]
    /\ UNCHANGED <<comfyui, ghosts, current, poll, table>>

\* _onWs: execution_start tells since when the job runs; a queue that moved ends a
\* back-off.  A connection that is done is not parsed any more.
Message(s) ==
    LET o == socks[s].owner
    IN  /\ socks[s].phase = "open" /\ ~socks[s].done
        /\ o \in {current, poll.obj}
        /\ \/ /\ job # None /\ st[o].start # job
              /\ st' = [st EXCEPT ![o].start = job, ![o].exact = @ \/ st[o].running = job]
           \/ /\ st[o].rest
              /\ st' = [st EXCEPT ![o].rest = FALSE]
        /\ UNCHANGED <<comfyui, faults, ghosts, current, poll, socks, table>>

\* Time, for the objects that are still looked at: the back-offs end, and the finished jobs have not been read for long.
RestOver ==
    /\ current # 0 /\ st[current].rest
    /\ st' = [st EXCEPT ![current].rest = FALSE]
    /\ UNCHANGED <<comfyui, faults, ghosts, current, poll, socks, table>>

WsRestOver ==
    /\ \E o \in {current, poll.obj} \ {0} :
         st[o].wsRest /\ st' = [st EXCEPT ![o].wsRest = FALSE]
    /\ UNCHANGED <<comfyui, faults, ghosts, current, poll, socks, table>>

Ages ==
    /\ current # 0 /\ ~st[current].old /\ ~st[current].dirty
    /\ st' = [st EXCEPT ![current].old = TRUE]
    /\ UNCHANGED <<comfyui, faults, ghosts, current, poll, socks, table>>

Next ==
    \/ \E j \in Jobs : StartJob(j)
    \/ FinishJob \/ ServerDies \/ ServerStarts
    \/ \E o \in {0} \cup Objects : Reconfigure(o)
    \/ PollStart \/ PollArrives \/ PollFails \/ DoneRead \/ DoneFails
    \/ \E s \in Sockets : Upgraded(s) \/ SocketEnds(s) \/ Message(s)
    \/ RestOver \/ WsRestOver \/ Ages

\* The scheduler polls for ever, a request or a connection always gets an answer or
\* an error, and time passes.
Fairness ==
    /\ WF_vars(PollStart) /\ WF_vars(PollArrives \/ PollFails)
    /\ WF_vars(DoneRead \/ DoneFails)
    /\ \A s \in Sockets : WF_vars(Upgraded(s) \/ SocketEnds(s))
    /\ WF_vars(RestOver) /\ WF_vars(WsRestOver) /\ WF_vars(Ages)

Spec == Init /\ [][Next]_vars /\ Fairness
-----------------------------------------------------------------------------
State ==
    [up : BOOLEAN, rest : BOOLEAN, running : Jobs \cup {None}, exact : BOOLEAN,
     start : Jobs \cup {None}, dirty : BOOLEAN, seeded : BOOLEAN, old : BOOLEAN,
     ws : {0} \cup Sockets, wsRest : BOOLEAN]

\* Every variable has its type, and a node that is down shows no job.
TypeOK ==
    /\ up \in BOOLEAN /\ job \in Jobs \cup {None} /\ left \subseteq Jobs
    /\ faults \in 0..MaxFaults
    /\ fresh \in [Objects -> SUBSET Jobs] /\ moved \subseteq Objects
    /\ current \in {0} \cup Objects
    /\ st \in [Objects -> State]
    /\ \A o \in Objects : ~st[o].up => st[o].running = None
    /\ poll.pc \in {"idle", "asked", "done"}
    /\ socks \in [Sockets -> [owner : {0} \cup Objects, phase : {"free", "connecting", "open"}, done : BOOLEAN]]
    /\ table \subseteq Jobs

\* An elapsed time is only called exact when the hub saw the job begin: it started
\* since the last poll that was answered, or the socket told (comfyui.js:30-33, 256-259).
\* The exception is a node that follows another port between two polls that are answered:
\* the ComfyUI there may have begun its job at any time before (comfyui.js:235-242).
ExactStep ==
    \A o \in Objects :
        (st'[o].exact /\ st'[o].running # st[o].running) =>
            o \in moved \/ st'[o].running \in fresh[o] \cup {st[o].start}
ExactIsExact == [][ExactStep]_st

\* The connection an object holds is its own and has not ended: a dead one would
\* never be replaced (comfyui.js:320-338).
HeldSocketLives ==
    \A o \in Objects :
        st[o].ws # 0 => socks[st[o].ws].owner = o /\ socks[st[o].ws].phase # "free" /\ ~socks[st[o].ws].done

\* Whatever happens, again and again every job that ComfyUI lists among its newest
\* finished ones is in the table: it gets there before it is forgotten, or it stays
\* listed until it does (comfyui.js:9-14, 295-318).
Readable(j) == up /\ current # 0 /\ j \in Newest(DONE_NEXT)
ListedAreInTable == \A j \in Jobs : Readable(j) => j \in table
JobsReachTable == []<>ListedAreInTable

\* Again and again a node that answers is shown reachable and has its socket, unless
\* leaked connections use up the bound (comfyui.js:244-278, 320-338).
ShownAndHeard ==
    up /\ current # 0 =>
        st[current].up /\ (Free = {} \/ \E s \in Sockets : socks[s].owner = current /\ ~socks[s].done)
NodeComesBack == []<>ShownAndHeard
=============================================================================
