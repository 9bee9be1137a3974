SPECIFICATION FairSpec
CONSTANTS
    Tasks = {t1}
    Dispatchers = {d1}
    Reviewers = {r1}
    DemoMode = FALSE
    MayFail = TRUE
    NoTask = NoTask
PROPERTY PendingIsDispatched
CHECK_DEADLOCK FALSE
