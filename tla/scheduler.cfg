SPECIFICATION FairSpec
CONSTANTS
    Scale = 10
    parent = parent
    child = child
    broken = broken
    Nodes = {parent, child, broken}
    Edges <- Chain
    ConfigOf <- Configs
    Freshness <- Decay
    Batches <- Signals
    MaxDay = 1
    Cooldown = 1
    DemoMode = TRUE
INVARIANTS TypeOK CycleReachesAll
PROPERTY OverdueIsNoticed
