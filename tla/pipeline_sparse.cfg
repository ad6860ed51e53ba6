SPECIFICATION Spec
CONSTANTS
  None = None
  Top = 4
  ForkB = 0
  TopB = 4
  ForkC = 0
  TopC = 0
  Genesis <- MCGenesis
  Blocks <- MCBlocks
  Number <- MCNumber
  Branch <- MCBranch
  LoggedBlocks <- OddLogged
  Events <- OwnEvents
  Records <- OwnRecords
  Reorgs <- Onwards
  StartBlock = 1
  BatchSize = 2
  MaxRollbackDepth = 5
  MidIterationReorgs = FALSE
  MaxFailures = 0
INVARIANTS
  RollbackTargetIsAncestor
