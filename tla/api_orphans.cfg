SPECIFICATION Spec
CONSTANTS
    None = None
    c1 = c1
    c2 = c2
    a0 = a0
    a1 = a1
    a2 = a2
    b1 = b1
    b2 = b2
    dep1 = dep1
    dep2 = dep2
    dep3 = dep3
    trade = trade
    alice = alice
    bob = bob
    usd = usd
    Blocks <- MCBlocks
    Number <- MCNumber
    Branch <- MCBranch
    LoggedBlocks <- MCLogged
    Events <- MCEvents
    Records <- MCRecords
    Kind <- MCKind
    UsersOf <- MCUsersOf
    KnownTokens = {usd}
    Clients = {c1, c2}
    Requests <- BlockRequests
    PoolSize = 1
    StartBlock = 1
    MaxFailures = 1
PROPERTIES
    AnswersAreTrue
CHECK_DEADLOCK FALSE
