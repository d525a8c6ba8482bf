CONSTANTS
    MaxHeads = 3
    Sealed <- FirstAndThird
    NewHeadChanSize = 2
    MaxSyncs = 2
SPECIFICATION LiveSpec
INVARIANTS
    ConnectorInv
    NewestTracked
    RunsUnlessSyncing
PROPERTIES
    NeverBackwards
    HeadReachesEc
    StopEnds
CHECK_DEADLOCK FALSE
