CONSTANTS
    n1 = n1
    n2 = n2
    s1 = s1
    s2 = s2
    s3 = s3
    s4 = s4
    s5 = s5
    n3 = n3
    None = None
    Sessions <- MCSessions
    Nodes <- MCNodes
    Node <- MCNode
    Snap = {n1}
    Trusted = {n1}
    snapReserve = 0
    Unsound = {n2}
    defaultMinSyncPeers = 2
    fsMinFullBlocks = 2
    Setups <- MCSetups
SPECIFICATION Spec
INVARIANTS
    HandlerInv
PROPERTIES
    CatchesUp
    StopEnds
CHECK_DEADLOCK FALSE
