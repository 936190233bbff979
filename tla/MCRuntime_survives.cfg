CONSTANTS
    s1 = s1
    s2 = s2
    w1 = w1
    None = None
    Runs = {r1}
    Sessions = {s1}
    Workspaces = {w1}
    Attempts = {a1}
    Keys = {k1}
    Requests = {q1}
    Outcomes = {done}
    MaxRevisions = 0
    MaxProgress = 0
    Harnesses = {"langgraph"}
    Tools = {}
    Faults = {}
    MaxSteps = 1
    MaxCalls = 1
    WorkspaceOf <- MCOneSession
    Targets <- MCNoTargets
    RejectModes <- HTTPMode
SPECIFICATION RuntimeFairUp
INVARIANTS
    WorkerSurvives
CHECK_DEADLOCK FALSE
