CONSTANTS
    p1 = p1
    p2 = p2
    b1 = b1
    b2 = b2
    w1 = w1
    w2 = w2
    Genesis = Genesis
    Peers <- MCPeers
    Blocks <- MCBlocks
    Parent <- MCParent
    Workers <- MCWorkers
    Announces <- MCAnnounces
    maxKnownBlocks = 1
    maxQueuedBlocks = 1
    maxQueuedBlockAnns = 1
    Setups <- MCSetups
SPECIFICATION Spec
INVARIANTS
    PropagationInv
    OwedIsHeard
    QueuedOnce
PROPERTIES
    OwedIsReceived
CHECK_DEADLOCK FALSE
