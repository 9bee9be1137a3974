SPECIFICATION FairSpec
CONSTANTS
    Tasks = {t1, t2, t3}
    Dispatchers = {d1, d2}
    Reviewers = {r1}
    DemoMode = TRUE
    MayFail = FALSE
    NoTask = NoTask
PROPERTIES PendingIsDispatched ApprovalIsRecorded
CHECK_DEADLOCK FALSE
