CONSTANTS
    None = None
    Partial = Partial
    Unreadable = Unreadable
    Versions = {v1, v2}
    Files = {"SKILL.md", "tool.py"}
    Threads = {t1, t2}
    Runs = {r1, r2}
    Keys = {k1, k2}
    Inputs = {i1, i2}
    Roots = {a, b}
    MaxRequests = 3
    MaxFaults = 2
SYMMETRY Symmetry
SPECIFICATION SubSpec
INVARIANTS
    SubTypeOK
    ToldOwnRun
    BundleIntact
    TranscriptOnce
    TranscriptComplete
PROPERTIES
    WorkerLostOnlyTo
CHECK_DEADLOCK FALSE
