SPECIFICATION Spec
CONSTANTS
    t1 = t1
    t2 = t2
    p1 = p1
    r1 = r1
    None = None
    Callers = {t1, t2}
    Peers = {p1}
    Roots = {r1}
    QueueSize = 1
    MaxIds = 2
    MaxFound = 1
CHECK_DEADLOCK FALSE
INVARIANTS OwnAnswer NoLeak UnprovidedIsGone
PROPERTY CallsReturn
