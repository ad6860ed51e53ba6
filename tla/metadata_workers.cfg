SPECIFICATION FairSpec
CONSTANTS
  None = None
  Tokens = {1, 2}
  Heights = {1}
  Workers = {w1, w2}
  Discoverers = {d1}
  MaxItems = 2
  MaxAttempts = 2
  MaxFailures = 1
INVARIANTS
  TypeOK
  AttemptsAreBounded
PROPERTIES
  NoTokenIsForgotten
  ImplementsTokenLifecycle
  EveryJobIsSettled
