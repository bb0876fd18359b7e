SPECIFICATION Spec
CONSTANTS
    p = p
    q = q
    Ports = {p, q}
    Engines = {"strata", "llamacpp"}
    Candidates <- MCCandidates
    MaxGen = 3
    MaxBoots = 1
PROPERTY
    EngineSurvives
