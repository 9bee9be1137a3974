SPECIFICATION Spec
CONSTANTS
    Scale = 100
    Catalogue <- TestCatalogue
    NodeTags = {"EU", "US", "drift"}
    NodeClass = "ML_MODEL"
    Types = {"regulatory", "performance"}
    EventIds = {e1}
    NoId = NoId
    Severities <- AnySeverity
    NoSeverity = NoSeverity
    TagSets <- OneTag
    Window <- Windows
    MaxHour = 2
    MaxEvents = 3
    MaxCalls = 2
CHECK_DEADLOCK FALSE
INVARIANTS TypeOK DebouncedWithinRun
