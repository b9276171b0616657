SPECIFICATION Spec
CONSTANTS
    i1 = i1
    i2 = i2
    i3 = i3
    r1 = r1
    r2 = r2
    None = None
    Ids = {i1, i2}
    Roots = {r1}
    Clients <- StoppingClients
    Attempts = 2
    MaxPanics = 1
    MaxDiskErrors = 0
    MaxWarns = 0
CHECK_DEADLOCK FALSE
PROPERTIES EveryRequestAnswered ShutdownEnds
