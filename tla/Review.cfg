SPECIFICATION Spec
CONSTANTS
    None = None
    Drivers <- MCDrivers
    Reports <- MCReports
    Fields <- MCFields
    Levels <- MCLevels
    Machines <- MCMachines
    Scopes <- MCScopes
CHECK_DEADLOCK FALSE
INVARIANTS
    MergeIsOrderFree
    WrittenAsShown
    LimitsStayOrdered
PROPERTIES
    PageShowsItsVisit
