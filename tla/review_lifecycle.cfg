SPECIFICATION Spec
CONSTANTS
    Tasks = {t1, t2, t3}
    Dispatchers = {d1}
    Reviewers = {r1, r2}
    DemoMode = TRUE
    MayFail = TRUE
    NoTask = NoTask
INVARIANTS TypeOK OneDispatcherInv
PROPERTIES LifecycleSpec ApprovalSignalsFirst ReviewedOnce
CHECK_DEADLOCK FALSE
