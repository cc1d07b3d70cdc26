SPECIFICATION ViewSpec
CONSTANTS
    Clients = {c1, c2}
    NoClient = NoClient
    MaxEvents = 1
    Slots = {s1, s2}
    MaxStream = 2
    ValidIn = {"full", "privileged"}
SYMMETRY Symmetry
VIEW Seen
CHECK_DEADLOCK FALSE
INVARIANTS
    TunedIsShown
    PhaseSettles
