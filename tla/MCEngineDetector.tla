-------------------------- MODULE MCEngineDetector --------------------------
(***************************************************************************)
(* The engine of a node and the live view read from it: the detector with  *)
(* two ports, asked alone or one after the other; the reader with a        *)
(* llama.cpp server and a Strata, two requests and two slots each, which   *)
(* is told of any engine at any time.  A behaviour is one of a single      *)
(* part, and the variables of the other stand still.                       *)
(***************************************************************************)
EXTENDS EngineDetector

CONSTANTS
    first, second,
    Requests, Servers, Strata, Slots, MaxFaults, MaxMoves

VARIABLES
    part,
    up, req, flushed, where, poked, node, poll, faults, moves

L == INSTANCE LiveReader

ASSUME PartsAssumption == L!LiveAssumption

liveVars == <<up, req, flushed, where, poked, node, poll, faults, moves>>

MCCandidates == {<<first>>, <<second, first>>}

NoLive ==
    /\ up = 0 /\ req = 0 /\ flushed = 0 /\ where = 0 /\ poked = 0
    /\ node = 0 /\ poll = 0 /\ faults = 0 /\ moves = 0

PartsInit ==
    /\ Init
    /\ \/ part = "engine" /\ NoLive
       \/ /\ part = "live" /\ L!Init
          /\ def = <<first>> /\ \A n \in Ports : world[n] = "none"

\* The requests of the live part end.
PartsNext ==
    /\ UNCHANGED part
    /\ \/ part = "engine" /\ Next /\ UNCHANGED liveVars
       \/ part = "live" /\ L!Next /\ UNCHANGED vars
       \/ part = "live" /\ UNCHANGED <<vars, liveVars>>

\* FairSpec of EngineDetector and Fairness of LiveReader.
PartsSpec ==
    /\ PartsInit /\ [][PartsNext]_<<part, vars, liveVars>>
    /\ WF_vars(part = "engine" /\ BecomesDue) /\ WF_vars(part = "engine" /\ Tick)
    /\ \A g \in 0 .. MaxGen : WF_vars(part = "engine" /\ ProbeStep(g))
    /\ WF_liveVars(part = "live" /\ L!PollStart)
    /\ WF_liveVars(part = "live" /\ L!PollForgotten)
    /\ WF_liveVars(part = "live" /\ L!RestOver)
    /\ WF_liveVars(part = "live" /\ (\/ L!StatusArrives \/ L!SlotsArrive
                                     \/ L!CountersArrive \/ L!PollFails))

-----------------------------------------------------------------------------
\* live.js:139-145, 152-156, 200-217: everything shown of a node came from the engine it is
\* read from, and the figures of a finished request are of one that has finished.
LiveIsOwn == part = "live" => L!TypeOK /\ L!NothingCarriesOver /\ L!LastHasEnded

\* live.js:130-162, 213-217: again and again the streams shown are the requests running on
\* the engine found, or, if it never answers again, it is looked for elsewhere.
LiveCatchesUp == []<>(part = "live" => L!StreamsAreRunning /\ L!DeadIsPoked)

=============================================================================
