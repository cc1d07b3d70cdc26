SPECIFICATION Spec
CONSTANTS
    None = None
    Lost = Lost
    RequestLimit = 6
    MaxSerial = 5
    MaxFaults = 1
CHECK_DEADLOCK FALSE
INVARIANTS
    PipeLossRollsBack
