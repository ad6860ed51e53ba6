SPECIFICATION FairSpec
CONSTANTS
    None = None
    r1 = r1
    r2 = r2
    side = side
    TopMain = 1
    TopSide = 1
    Processes <- MCProcesses
    Name <- MCName
    Chain <- MCChain
    Top <- MCTop
    StartBlock = 1
    BatchSize = 2
    Watched <- MCWatched
    Logs <- MCLogs
    Prefix <- MCPrefix
    TxOrder <- MCTxOrder
    Columns <- MigratedColumns
    MaxFailures = 1
PROPERTIES
    EveryFactIsEventuallyStored
