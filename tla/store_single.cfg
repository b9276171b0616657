SPECIFICATION Spec
CONSTANTS
    Handles = {A}
    ThreadsPerHandle = 2
    Threads <- ThreadSet
    HandleOf <- Owner
    Hashes = {c1, c2}
    Legacy = {}
    Rotate = 2
    Nl = Nl
    Torn = Torn
    None = None
    MaxOps = 3
    MaxOpens = 3
    MaxCrashes = 1
    MaxErrors = 1
    MaxEdits = 0
CHECK_DEADLOCK FALSE
INVARIANTS PackedOncePerHandle HasFindsListed HasImpliesGet
PROPERTY IsContentStore
