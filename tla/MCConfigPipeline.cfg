SPECIFICATION PartsSpec
CONSTANTS
    x = x
    y = y
    Ids <- MCIds
    Contents <- MCContents
    Example <- MCExample
    RECONNECT_AT = 1
    OFFLINE_AT = 2
    MaxViews = 2
    MaxConfigs = 2
    MaxOverlap = 1
    MaxFaults = 2
    Panes = {p1, p2}
    Targets = {a, b}
    Views = {a, n}
    Pushed = {a}
    Ranges = {day, week}
    MaxFailures = 1
    MaxInits = 1
INVARIANTS
    ConfigInvariant
    IdleChartIsRight
PROPERTIES
    EditsTakeEffect
    BoardCatchesUp
    PanesAreFreed
