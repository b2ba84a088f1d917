\* Three uploads of any indicators, all or some of which later uploads read.
SPECIFICATION Spec
CONSTANTS
    Techniques <- MCTechniques
    Kinds <- MCKinds
    AssetKinds = {"host"}
    Rule <- MCRule
    Weight <- MCWeight
    Severity <- MCSeverity
    Readings <- MCReadings
    MinConfidence = 30
    Threshold = 60
    MaxUploads = 3
    MaxHour = 1
INVARIANTS
    TypeOK
    OneFindingHasAll
PROPERTIES
    LargestFindingGrows
    MergesOnlyAdd
\* After the last upload nothing happens.
CHECK_DEADLOCK FALSE
