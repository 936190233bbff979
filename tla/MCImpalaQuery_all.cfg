CONSTANTS
    None = None
    Callers = {c1, c2}
    Calls = {k1, k2}
    NBudgets = 2
    QueryLimit = 2
    RowLimit = 2
    MaxRows = 2
    MaxActive = 2
    Faults = {"input", "files", "driver", "persist"}
SYMMETRY Symmetry
SPECIFICATION ImpalaSpec
INVARIANTS
    ImpalaTypeOK
    SentAtMostOnce
    BudgetCovers
    CertainMeansEnded
    EvidenceAgrees
PROPERTIES
    LedgerForward
CHECK_DEADLOCK FALSE
