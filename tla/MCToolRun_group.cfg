CONSTANTS
    None = None
    Ops = {o1}
    Faults = {"submit", "sink", "commit"}
    MayCancel = TRUE
    MaxOutput = 1
SPECIFICATION FairToolSpec
PROPERTIES
    TimeoutEndsGroup
CHECK_DEADLOCK FALSE
