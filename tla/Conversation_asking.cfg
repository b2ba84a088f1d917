\* Requests ask about two cases, in a chat there is, in new ones, and in each
\* other's.
SPECIFICATION Spec
CONSTANTS
    None = None
    Requests = {r1, r2}
    Cases = {"c1", "c2"}
    Evidence <- MCEvidence
    Documents <- MCDocuments
    Store <- MCStore
    Workload <- MCWorkload
    LlmSettings <- MCLlmSettings
    Databases = {"SQLite", "PostgreSQL"}
    Backends = {"database", "memory"}
    MaxCandidates = 2
    MaxTimeline = 2
    MaxDocuments = 2
    MaxSimilar = 1
    MaxRecords = 5
    FallbackRecords = 1
    MaxContext = 6
    TopK = 1
    Overfetch = 1
    MinSimilarity = 35
    MaxTotalItems = 2
    Window = 2
    Trigger = 3
    Keep = 1
    MaxTokens = 4
    MaxSessions = 1
    MaxTurns = 5
    Seed = 2
SYMMETRY Symmetry
INVARIANT TranscriptPaired
INVARIANT HistoryCovered
INVARIANT AnswersAreGrounded
