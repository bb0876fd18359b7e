SPECIFICATION Spec
CONSTANTS
    Machines = {}
    Nodes = nodes
    Usage = usage
    Projects = projects
    Configs <- FullConfigs
    MaxReloads = 1
INVARIANT
    CardsAgree
