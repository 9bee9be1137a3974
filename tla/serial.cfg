SPECIFICATION Spec
CONSTANTS
    Scale = 10
    n1 = n1
    n2 = n2
    n3 = n3
    Nodes = {n1, n2}
    Workers = {w1}
    TaskIds = {t1, t2}
    MaxDay = 2
    ConfigOf <- Configs
    Freshness <- Decay
    Batches <- Signals
    DemoMode = TRUE
    MayCrash = TRUE
    None = None
SYMMETRY RowSymmetry
INVARIANTS TypeOK FreshnessNotCompounded
PROPERTIES StatusCoversHazard RiskNeverAutoDowngrades EscalatesOnce
