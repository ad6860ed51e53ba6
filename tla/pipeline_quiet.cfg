SPECIFICATION FairSpec
CONSTANTS
  None = None
  Top = 6
  ForkB = 4
  TopB = 7
  ForkC = 5
  TopC = 8
  Genesis <- MCGenesis
  Blocks <- MCBlocks
  Number <- MCNumber
  Branch <- MCBranch
  LoggedBlocks <- SparseTrunk
  Events <- OwnEvents
  Records <- OwnRecords
  Reorgs <- Onwards
  Future <- MCFuture
  StartBlock = 2
  BatchSize = 3
  MaxRollbackDepth = 5
  MidIterationReorgs = FALSE
  MaxFailures = 2
INVARIANTS
  CacheIsOneBranch
  PlansOnTheBestChain
  ReadsShowTheCanonicalBlocks
  RollbackTargetIsAncestor
PROPERTIES
  CommittedBlocksAreCanonical
  OrphansAreEventuallyFiltered
  BestChainIsEventuallyIndexed
