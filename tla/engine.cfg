SPECIFICATION EngineSpec
CONSTANTS
    Scale = 10
    One = 100
    Step = 4
    Candidates <- Grid
    Lives = {5, 30, 1000}
    Elapsed = {0, 1, 6, 50, 3000}
    Estimates = {3, 7, 60, 1825}
    Rate <- FalseAlarms
    Desired = 10
    MaxReviews = 1
    Day = 2
    MaxOverdue = 30
    SurgeLimit = 4
    MaxLoad = 10
    Bases <- SurgeBases
    MinHistory = 2
    Positions = {1, 2, 3}
    Nodes = {1}
    Fleets <- SomeFleets
    PostReview = 0
    Snapshots <- Falls
    Limit = 4
    MinWindow = 3
    MaxTrail = 6
    Sessions = {s1, s2, s3}
    Configs = {1, 2, 3}
    NoConfig = NoConfig
    Absent = Absent
    MaxResets = 1
    Writers = {w1, w2}
    Vectors = {0, 1}
    Perfect = 0
    Suggest <- Stricter
    Accepted = {1, 3}
SYMMETRY Alike
INVARIANTS
    TypeOK OneActivePerSession DefaultsOnlyBeforeFirst
    DefaultEscalatesByFloorOnly WithinOneReview HedgesNeverPay VarianceNeverNegative
    RecoveryWarnsToo PinnedReportCovers
PROPERTIES
    WorseNeverSafer HalfLifeNeverOvershoots VerdictsStand SurgeOnlyCalms BudgetSpec
    OldSwingsForgotten FlappingIsQuiet
CHECK_DEADLOCK FALSE
