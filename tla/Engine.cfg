SPECIFICATION FairSpec
CONSTANTS
    Procs = {p1, p2}
    NoProc = NoProc
    Controls <- MCControls
    Order <- MCOrder
    Values = {"stock", "tuned", "mixed"}
    Stock = "stock"
    NoRecord = NoRecord
    MaxFaults = 3
    MaxBoots = 1
INVARIANTS
    TypeOK
    JournalCovers
    SnapshotsAreStock
    ReadyMeansStock
    ReportIsComplete
PROPERTIES
    StaleRecordKept
    ReverseRestoration
    ImplementsUndoJournal
    EventuallyStock
