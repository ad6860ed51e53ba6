SPECIFICATION FairSpec
CONSTANTS
  None = None
  Top = 3
  ForkB = 0
  TopB = 4
  ForkC = 0
  TopC = 0
  Genesis <- MCGenesis
  Blocks <- MCBlocks
  Number <- MCNumber
  Branch <- MCBranch
  LoggedBlocks <- AllLogged
  Events <- SharedEvents
  Records <- SharedRecords
  Reorgs <- AnyHeight
  StartBlock = 1
  BatchSize = 2
  MaxRollbackDepth = 2
  MidIterationReorgs = TRUE
  MaxFailures = 2
INVARIANTS
  TypeOK
  CanonicalBehindCheckpoint
  OneCanonicalBlockPerHeight
  FactsAreAnchored
  LocalsFollowStore
PROPERTIES
  CheckpointMovesWithRows
  ImplementsCanonicalIndex
  WritesAsAnIndexer
  IterationEnds
