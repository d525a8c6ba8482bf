CONSTANTS
    t1 = t1
    t2 = t2
    n1 = n1
    n2 = n2
    n3 = n3
    a1 = a1
    a2 = a2
    b = b
    c = c
    None = None
    Txs <- MCTxs
    Sessions <- MCSessions
    Nodes <- MCNodes
    Node <- MCNode
    Legacy <- MCLegacy
    maxKnownTxs = 1
    packSize = 1
    Setups <- MCSetups
SPECIFICATION Spec
INVARIANTS
    ExchangeInv
PROPERTIES
    TxsArrive
    LoopsEnd
CHECK_DEADLOCK FALSE
