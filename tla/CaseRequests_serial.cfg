\* Every operation, one request at a time, from any status.
SPECIFICATION SerialSpec
CONSTANTS
    Cases = {"c1", "c2"}
    Requests = {r1, r2}
    Titles = {"t1", "t2"}
    Workload <- Everything
    Analyses <- ShortAndFull
    SeedStatus = {"OPEN", "ESCALATED", "ON_HOLD", "RESOLVED", "CLOSED", "ARCHIVED"}
    WholeDatabaseLock = TRUE
SYMMETRY Symmetry
PROPERTIES
    ImplementsBoard
    LegalMoves
