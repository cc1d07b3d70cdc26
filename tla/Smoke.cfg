SPECIFICATION Spec
CONSTANTS
    None = None
    Procs = {"smoke"}
    Self = "smoke"
    NoProc = NoProc
    Controls = {"pl1", "pl2", "tcc", "epp"}
    Order <- MCOrder
    Values <- MCValues
    Stock = 0
    NoRecord = NoRecord
    MaxFaults = 2
    MaxBoots = 1
    Machines <- MCMachines
    MaxRuns = 2
CHECK_DEADLOCK FALSE
INVARIANTS
    SuccessMeansRestored
    ReportIsAhead
