SPECIFICATION TimedSpec
CHECK_DEADLOCK FALSE
CONSTANTS
  None = None
  PollingInterval = 2
  InitialBackoff = 1
  MaxBackoff = 6
  JitterPercent = 15
  ShutdownTimeout = 4
  CountedFailures = 5
INVARIANTS
  TypeOK
  StateTellsHealth
PROPERTIES
  ShutdownWaitsForTheBatch
  NoBatchAfterStop
  StopResolves
  SignalEndsTheProcess
  RetriesForEver
  LoopLeavesAfterStop
