SPECIFICATION Spec
CONSTANTS
    i1 = i1
    i2 = i2
    i3 = i3
    r1 = r1
    r2 = r2
    None = None
    Ids = {i1, i2, i3}
    Roots = {r1}
    Clients <- AllClients
    Attempts = 2
    MaxPanics = 1
    MaxDiskErrors = 1
    MaxWarns = 1
SYMMETRY Interchangeable
CHECK_DEADLOCK FALSE
INVARIANTS TerminalOnce NoOrphanAnnouncer AllPrinted SerialListed
