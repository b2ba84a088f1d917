\* Three requests race on one open case, and wait for each other's locks.
SPECIFICATION FairSpec
CONSTANTS
    Cases = {"c1"}
    Requests = {r1, r2, r3}
    Titles = {"t1"}
    Workload <- OneCase
    Analyses <- Full
    SeedStatus = {"OPEN"}
    WholeDatabaseLock = FALSE
INVARIANTS
    TypeOK
    ClosedIsStamped
    AuditTrailEndsInStatus
    CommittedWasAnnounced
    AnsweredMovesAreAudited
PROPERTIES
    EveryRequestEnds
