------------------------- MODULE MCEngineDetectorKept -------------------------
(* Two ports, asked alone or one after the other.                            *)
EXTENDS EngineDetector

CONSTANTS p, q

MCCandidates == {<<p>>, <<q, p>>}

\* engine.js:99 of configure(): "a node's last engine survives a config reload and a
\* restart".  Asked of an engine on a port that is still a candidate.
EngineSurvives ==
    [][cur # NoEngine /\ cur.port \in Range(def) /\ def' = def => cur' # NoEngine]_vars

=============================================================================
