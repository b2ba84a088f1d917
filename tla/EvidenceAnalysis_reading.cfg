SPECIFICATION Spec
CONSTANTS
    None = None
    NoTime = NoTime
    BruteForceThreshold = 2
    FailureWindow = 3
    SpikeThreshold = 3
    SpikeMinSources = 2
    SudoFailureThreshold = 2
    ChainWindow = 2
    MaxRecords = 3
    ExtraRules <- MCExtraRules
    MaxText = 7
    MaxIndicators = 4
    MaliciousScore = 7000
    SuspiciousScore = 4000
    CriticalScore = 9000
    MediumScore = 5500
    WholeQuality = 100
    PartialQuality = 60
    LogLines <- MCLogLines
    TextRecords <- MCTextRecords
    ScanRows <- MCScanRows
    HttpLines <- MCHttpLines
    CodeLines <- MCCodeLines
    MaxLines = 3
    MaxChars = 10
    MaxCandidates = 3
    Criticality = "medium"
    ShellLines <- MCShellLines
    CaseRecords <- MCCaseRecords
    ReportRecords <- MCReportRecords
    MaxFindings = 3
    MaxReportRecords = 2
    MaxIocRows = 2
    MaxExportSize = 3
    Remembered <- MCRemembered
    Documents <- MCDocuments
    Asked = "c"
    TopK = 1
    Overfetch = 1
    MinSimilarity = 35
    MaxTotalItems = 2
    MaxRead <- MCMaxRead
INVARIANT IndicatorsAtMostLow
INVARIANT PlanKeepsProvenance
INVARIANT NoHollowReport
INVARIANT RecallsTheNearest
PROPERTY MoreEvidenceNeverClears
PROPERTY WorseNeverScoresLower
PROPERTY HeaderNoWorseThanNone
CHECK_DEADLOCK FALSE
