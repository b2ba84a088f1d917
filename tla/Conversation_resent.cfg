\* The window of verbatim turns is wider than what summaries leave uncovered, as
\* the defaults (20 and 10) are.
SPECIFICATION Spec
CONSTANTS
    None = None
    Requests = {r1}
    Cases = {"c1", "c2"}
    Evidence <- MCEvidence
    Documents <- MCDocuments
    Store <- MCStore
    Workload <- MCWorkload
    LlmSettings <- MCLlmSettings
    Databases = {"SQLite"}
    Backends = {"database"}
    MaxCandidates = 2
    MaxTimeline = 2
    MaxDocuments = 2
    MaxSimilar = 1
    MaxRecords = 5
    FallbackRecords = 1
    MaxContext = 6
    TopK = 1
    Overfetch = 1
    MinSimilarity = 35
    MaxTotalItems = 2
    Window = 2
    Trigger = 3
    Keep = 1
    MaxTokens = 6
    MaxSessions = 1
    MaxTurns = 5
    Seed = 2
INVARIANT CoveredNotResent
