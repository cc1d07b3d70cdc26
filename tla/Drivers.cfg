SPECIFICATION Spec
CONSTANTS
    None = None
    MaxFaults = 2
    Leftovers <- MCLeftovers
    Limits <- MCLimits
    Powers <- MCPowers
    Offers <- MCOffers
    Choices <- MCChoices
    TjMax = 9
    MaxOffset = 3
    Offsets <- MCOffsets
    Fields <- MCFields
    Voltages <- MCVoltages
    RatioTables <- MCRatioTables
    RatioVectors <- MCRatioVectors
INVARIANTS
    FailureHasCause
    FilesAreExplained
    AppliedAsReviewed
PROPERTIES
    ImplementsContract
