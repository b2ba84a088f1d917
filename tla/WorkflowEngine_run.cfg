\* Every plan over three agents, every outcome of each, under three policies.
SPECIFICATION FairSpec
CONSTANTS
    Names <- MCNames
    Capabilities <- MCCapabilities
    Offers <- MCOffers
    Policies <- AllPolicies
INVARIANTS
    TypeOK
    MergedOnce
    SiblingsUnseen
    EscapesAreTriaged
    MetricsBalance
    CapabilitiesCovered
PROPERTIES
    NoCallAfterReport
    RunEnds
