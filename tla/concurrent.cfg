SPECIFICATION Spec
CONSTANTS
    Scale = 10
    n1 = n1
    n2 = n2
    n3 = n3
    Nodes = {n1, n3}
    Workers = {w1, w2}
    TaskIds = {t1, t2}
    MaxDay = 1
    ConfigOf <- Configs
    Freshness <- Decay
    Batches <- FewSignals
    DemoMode = TRUE
    MayCrash = TRUE
    None = None
SYMMETRY RowSymmetry
INVARIANT FreshnessCountsOnce
PROPERTIES ReviewOpensTask OnlyHumansActivate
