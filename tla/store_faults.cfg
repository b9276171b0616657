SPECIFICATION Spec
CONSTANTS
    Handles = {A, B}
    ThreadsPerHandle = 1
    Threads <- ThreadSet
    HandleOf <- Owner
    Hashes = {c1, c2}
    Legacy = {c2}
    Rotate = 1
    Nl = Nl
    Torn = Torn
    None = None
    MaxOps = 2
    MaxOpens = 2
    MaxCrashes = 1
    MaxErrors = 1
    MaxEdits = 1
CHECK_DEADLOCK FALSE
INVARIANT OffsetSound
PROPERTY CallsReturn
