\* The policies the application runs with.
SPECIFICATION Spec
CONSTANTS
    Names <- MCNames
    Capabilities <- MCCapabilities
    Offers <- MCOffers
    Policies <- DefaultPolicies
INVARIANT TriageNeverCrashes
