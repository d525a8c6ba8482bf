CONSTANTS
    t1 = t1
    t2 = t2
    p1 = p1
    p2 = p2
    c1 = c1
    c2 = c2
    None = None
    DummyExtra = DummyExtra
    Txs <- TwoTxs
    Proofs <- TwoProofs
    Clients <- OneClient
    Surroundings <- EitherWay
    MaxHeight = 2
    MaxStarts = 1
    ChainHeadChanSize = 3
    Preserve = TRUE
SPECIFICATION Spec
INVARIANTS
    BatcherInv
    BuiltAboveRequest
    BuildsChild
    EnvExclusive
    BlocksSound
    FlagMeansBuilding
    SnapshotComplete
PROPERTIES
    StateWritten
    ImplementsLedger
CHECK_DEADLOCK FALSE
