SPECIFICATION Spec
CONSTANTS
    n1 = n1
    n2 = n2
    Nodes = {n1, n2}
    None = None
    Torrents <- SmallTorrents
    Others <- OtherTrees
    PathOrder <- Sorted
    PieceLength = 2
    MaxWindow = 3
    MaxDamaged = 1
    MaxLeft = 2
    Roles <- AllRoles
CHECK_DEADLOCK FALSE
INVARIANTS BridgedIsTorrent StreamingAgrees RootNamesContent ThreeWaysAgree WrittenInside SameRootAsDeclared
