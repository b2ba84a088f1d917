\* Two status updates load one closed case before either writes it.
SPECIFICATION Spec
CONSTANTS
    Cases = {"c1"}
    Requests = {r1, r2}
    Titles = {"t1"}
    Workload <- ReopenOrArchive
    Analyses <- ShortAndFull
    SeedStatus = {"CLOSED"}
    WholeDatabaseLock = TRUE
PROPERTIES
    LegalMoves
