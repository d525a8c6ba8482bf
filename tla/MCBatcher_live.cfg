CONSTANTS
    t1 = t1
    t2 = t2
    p1 = p1
    p2 = p2
    c1 = c1
    c2 = c2
    None = None
    DummyExtra = DummyExtra
    Txs <- OneTx
    Proofs <- OneProof
    Clients <- OneClient
    Surroundings <- WithPeersOnly
    MaxHeight = 1
    MaxStarts = 2
    ChainHeadChanSize = 2
    Preserve = FALSE
SPECIFICATION Spec
PROPERTIES
    PendingFollowsHead
    ShutdownCompletes
CHECK_DEADLOCK FALSE
