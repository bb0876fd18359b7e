SPECIFICATION PartsSpec
CONSTANTS
    Requests = {r1, r2}
    Passwords = {p, q}
    EnvPasswords = {p}
    TTL = 1
    MaxSecret = 4
    MaxSession = 3
    MaxClock = 1
    Clients = {c1, c2}
    Peer = proxy
    ClientMax = 1
    PeerMax = 3
    Window = 2
    MaxLock = 3
    Cap = 2
    MaxPending = 2
    MaxFails = 4
    Machines = {m1, m2, m3}
    AlertTtl = 3
    LogEvery = 2
    Hosts = {h1, h2}
    Creds = {d1, d2}
    Passphrases = {k1, k2}
    HostKeys = {f1, f2}
    Ports = {1, 2, 3}
    MaxHops = 2
INVARIANTS
    SessionInvariant
    LimiterHolds
    OneMachineAndWarned
    OneKeyReadsAll
    ChoicesHold
PROPERTIES
    SessionSteps
    FlagsClear
    LocksAndPollsEnd
