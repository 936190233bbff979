CONSTANTS
    s1 = s1
    w1 = w1
    None = None
    Runs = {r1, r2}
    Sessions = {s1}
    Workspaces = {w1}
    Attempts = {a1}
    Keys = {k1, k2}
    Requests = {q1}
    Outcomes = {done}
    MaxRevisions = 0
    MaxProgress = 1
    WorkspaceOf <- MCOneSession
    Targets <- MCTargets
    RejectModes <- HTTPMode
    Pendings = {p1}
    Texts = {yes, no}
    Clients = {c1}
    Session = s1
    PageSize = 2
SYMMETRY Symmetry
SPECIFICATION SessionSpec
INVARIANTS
    SessionTypeOK
    OwnershipAgrees
    EventLogReplays
    AnswerIsStored
    AnswersResume
    AnsweredKeepsHold
    ResumedClientSeesFinish
PROPERTIES
    ImplementsFeed
CHECK_DEADLOCK FALSE
