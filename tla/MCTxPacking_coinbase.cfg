CONSTANTS
    ann = ann
    bob = bob
    Accounts <- MCAccounts
    Locals <- MCLocals
    Price <- MCPrice
    GasOf <- MCGasOf
    UsedBy <- MCUsedBy
    Situations <- MCSituations
    MaxNonce = 2
    BlockGas = 7
    TxGas = 1
    maxReadyTxs = 3
    Etherbase = Etherbase
    NoAddress = NoAddress
    MaxUpdates = 2
    MaxMoves = 2
SPECIFICATION Spec
INVARIANT FeesGoToCoinbase
