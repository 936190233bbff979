CONSTANTS
    s1 = s1
    s2 = s2
    w1 = w1
    None = None
    Runs = {r1, r2}
    Sessions = {s1, s2}
    Workspaces = {w1}
    Attempts = {a1, a2}
    Keys = {k1, k2}
    Requests = {q1}
    Outcomes = {done}
    MaxRevisions = 1
    MaxProgress = 0
    Harnesses = {"local", "langgraph"}
    Tools = {"code", "impala"}
    Faults = {"model", "tool"}
    MaxSteps = 1
    MaxCalls = 1
    WorkspaceOf <- MCWorkspaceOf
    Targets <- MCNoTargets
    RejectModes <- HTTPMode
SPECIFICATION RuntimeFairUp
PROPERTIES
    EveryMessageEnds
    QueuedCancelSettles
CHECK_DEADLOCK FALSE
