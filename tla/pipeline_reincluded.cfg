SPECIFICATION Spec
CONSTANTS
  None = None
  Top = 3
  ForkB = 1
  TopB = 4
  ForkC = 0
  TopC = 0
  Genesis <- MCGenesis
  Blocks <- MCBlocks
  Number <- MCNumber
  Branch <- MCBranch
  LoggedBlocks <- AllLogged
  Events <- SharedEvents
  Records <- SharedRecords
  Reorgs <- Onwards
  StartBlock = 1
  BatchSize = 2
  MaxRollbackDepth = 5
  MidIterationReorgs = FALSE
  MaxFailures = 0
INVARIANTS
  ReadsShowTheCanonicalBlocks
