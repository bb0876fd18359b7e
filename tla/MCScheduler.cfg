SPECIFICATION PartsSpec
CONSTANTS
    Machines = {a}
    Nodes = nodes
    Usage = usage
    Projects = projects
    Configs <- HubConfigs
    MaxReloads = 3
    FreshLen = 1
    GapLen = 1
    TailLen = 1
    DayLen = 2
    Settle = 1
    LogDays = 2
    LowSkip = 1
    FirstValue = 9
    MaxNow = 6
    MaxFaults = 1
INVARIANTS
    BoardInvariant
    RowsMatchCard
    DaysAreExact
PROPERTIES
    BoardSteps
    CardsCatchUp
    DaysSettle
