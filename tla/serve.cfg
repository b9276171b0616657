SPECIFICATION Spec
CONSTANTS
    r1 = r1
    r2 = r2
    None = None
    Roots = {r1, r2}
    Invocations <- Calls
    Ttl = 3
    MaxSlow = 2
    MaxStarts = 2
    MaxEvents = 1
CHECK_DEADLOCK FALSE
INVARIANTS RegistryWhole AllServed SameIdentity LiveStaysListed
PROPERTY Relisted
