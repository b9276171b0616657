SPECIFICATION Spec
CONSTANTS
    c1 = c1
    c2 = c2
    pa = pa
    pb = pb
    pc = pc
    pd = pd
    pe = pe
    None = None
    Junk = Junk
    Kind <- Kinds
    Groups <- Candidates
    List <- Contents
    Half = {c1}
    TotalSizes = {0, 100000, 300000, 1210000, 2000000}
    MaxTransfer = 1500000
    BlockSymbols = 1000
    Parallel = 2
    Attempts = 2
    Ways = {"chunks", "symbols"}
    MaxFaults = 1
    MaxDiskFaults = 1
    MaxGone = 1
    MaxBatches = 40
CHECK_DEADLOCK FALSE
INVARIANTS CompleteWhenFetched PaidWhatWasServed GivenUpOnlyIfAbsent HonestSymbolsSuffice
PROPERTY FetchEnds
