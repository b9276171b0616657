SPECIFICATION Spec
CONSTANTS
    Handles = {A, B}
    ThreadsPerHandle = 1
    Threads <- ThreadSet
    HandleOf <- Owner
    Hashes = {c1, c2}
    Legacy = {}
    Rotate = 2
    Nl = Nl
    Torn = Torn
    None = None
    MaxOps = 3
    MaxOpens = 2
    MaxCrashes = 0
    MaxErrors = 0
    MaxEdits = 0
CHECK_DEADLOCK FALSE
INVARIANT AckedDurable
