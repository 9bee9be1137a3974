SPECIFICATION FairSpec
CONSTANTS
    Scale = 10
    parent = parent
    child = child
    broken = broken
    Nodes = {parent, child}
    Edges <- Chain
    ConfigOf <- Configs
    Freshness <- Decay
    Batches <- Signals
    MaxDay = 2
    Cooldown = 1
    DemoMode = FALSE
PROPERTY NeutralTimeRecovery
