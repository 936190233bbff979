CONSTANTS
    s1 = s1
    s2 = s2
    w1 = w1
    None = None
    Runs = {r1, r2, r3}
    Sessions = {s1, s2}
    Workspaces = {w1}
    Attempts = {a1, a2}
    Keys = {k1, k2}
    Requests = {q1}
    Outcomes = {done}
    MaxRevisions = 2
    MaxProgress = 1
    WorkspaceOf <- MCWorkspaceOf
    Targets <- HTTPTargets
    RejectModes <- AnyMode
SYMMETRY Symmetry
SPECIFICATION Spec
INVARIANTS
    FencingTokens
    NoLostUpdate
    InOrderExecution
PROPERTIES
    ImplementsLease
CHECK_DEADLOCK FALSE
