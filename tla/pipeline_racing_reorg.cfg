SPECIFICATION FairSpec
CONSTANTS
  None = None
  Top = 3
  ForkB = 1
  TopB = 4
  ForkC = 0
  TopC = 0
  Genesis <- MCGenesis
  Blocks <- MCBlocks
  Number <- MCNumber
  Branch <- MCBranch
  LoggedBlocks <- AllLogged
  Events <- OwnEvents
  Records <- OwnRecords
  Reorgs <- Onwards
  StartBlock = 1
  BatchSize = 2
  MaxRollbackDepth = 5
  MidIterationReorgs = TRUE
  MaxFailures = 0
PROPERTIES
  OrphansAreEventuallyFiltered
