SPECIFICATION Spec
CONSTANTS
    A = A
    B = B
    C = C
    Nodes = {A, B, C}
    Scenarios <- AllScenarios
    Threshold = 0
    MaxReceipts = 2
    U64Max = 3
    I64Max = 1
CHECK_DEADLOCK FALSE
INVARIANTS CreditBacked HonestReceipts BagSound DebtBounded GiverNotChoked UnsavedIsMarked
