SPECIFICATION FairSpec
CONSTANTS
    None = None
    r1 = r1
    r2 = r2
    side = side
    TopMain = 2
    TopSide = 3
    Processes <- MCProcesses
    Name <- MCName
    Chain <- MCChain
    Top <- MCTop
    StartBlock = 1
    BatchSize = 2
    Watched <- MCWatched
    Logs <- MCLogs
    Prefix <- MCPrefix
    TxOrder <- MCTxOrder
    Columns <- DeclaredColumns
    MaxFailures = 1
INVARIANTS
    TypeOK
    BlocksAreStoredWhole
    NoGapBehindTheCheckpoint
    DiscoveryIgnoresTheOrder
PROPERTIES
    CheckpointIsNotForgotten
    EveryFactIsEventuallyStored
