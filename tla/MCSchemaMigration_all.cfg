CONSTANTS
    Processes = {p1, p2}
    Texts = {t1}
    Pendings = {q1}
    Events <- MCEvents
    Torn = Torn
    MaxDeaths = 1
SPECIFICATION FairMigSpec
INVARIANTS
    MigTypeOK
    BodiesReadable
    EventsNumbered
    OpenMeansCurrent
PROPERTIES
    ComesToServe
CHECK_DEADLOCK FALSE
