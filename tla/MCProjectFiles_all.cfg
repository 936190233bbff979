CONSTANTS
    None = None
    Ops = {o1, o2}
    Faults = {"submit", "sink", "commit"}
    MayCancel = TRUE
    MaxOutput = 1
    MaxWrites = 2
SPECIFICATION FairProjectSpec
INVARIANTS
    ToolTypeOK
    ResultAfterExit
    ToolEventsInOrder
    RecordedRevisionsExist
    ChangesAreTold
PROPERTIES
    EveryToolFinishes
CHECK_DEADLOCK FALSE
