SPECIFICATION PartsSpec
CONSTANTS
    first = first
    second = second
    Ports = {first, second}
    Engines = {"strata", "llamacpp"}
    Candidates <- MCCandidates
    MaxGen = 2
    MaxBoots = 1
    Requests = {r1, r2}
    Servers = {llama, strata}
    Strata = {strata}
    Slots = {0, 1}
    MaxFaults = 1
    MaxMoves = 2
INVARIANTS
    EngineInvariant
    LiveIsOwn
PROPERTIES
    ShownEngineRight
    FindsEngine
    LiveCatchesUp
