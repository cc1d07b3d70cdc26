SPECIFICATION FairSpec
CONSTANTS
    None = None
    Lost = Lost
    RequestLimit = 6
    MaxSerial = 7
    MaxFaults = 2
CHECK_DEADLOCK FALSE
INVARIANTS
    ProofOfRollback
    CloseIsHonest
    IncompleteIsReported
    OrderlyExit
PROPERTIES
    HelperEnds
    CallsReturn
    LeaseBoundsTuning
