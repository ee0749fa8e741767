\* Two games of two players: every ending, both timeouts, tournament prizes and escrows.
SPECIFICATION Spec
CONSTANTS
    alice = alice
    bob = bob
    treasury = treasury
    NoOne = NoOne
    Accounts <- MCAccounts
    StartTokens <- MCStartTokens
    Wagers = {5}
    Splits <- MCSplits
    Ratings = {10}
    InitialCfgs <- LifecycleCfgs
    FeeChoices = {0}
    StakeLimits = {4}
    PoolLimits = {9}
    DisputeFees = {}
    Durations = {1}
    SecondsPerLedger = 5
    MaxActiveEscrows = 1
    MaxGames = 2
    MaxDisputes = 0
    MaxTourneys = 2
    MaxSeq = 2
    MaxAdminCalls = 1
SYMMETRY Symmetric
INVARIANTS
    GamesCoherent
    PaidByState
    TourneysCoherent
    BooksBalance
PROPERTIES
    ImplementsLifecycle
\* Every game may be over and the bounds used up: the system may stop.
CHECK_DEADLOCK FALSE
