\* Two games with two disputes, while the admin reconfigures the fee.
SPECIFICATION Spec
CONSTANTS
    alice = alice
    bob = bob
    treasury = treasury
    NoOne = NoOne
    Accounts <- MCAccounts
    StartTokens <- MCStartTokens
    Wagers = {5}
    Splits <- MCSplits
    Ratings = {}
    InitialCfgs <- DisputeCfgs
    FeeChoices = {}
    StakeLimits = {}
    PoolLimits = {}
    DisputeFees = {1}
    Durations = {}
    SecondsPerLedger = 5
    MaxActiveEscrows = 1
    MaxGames = 2
    MaxDisputes = 2
    MaxTourneys = 0
    MaxSeq = 0
    MaxAdminCalls = 1
SYMMETRY Symmetric
INVARIANTS
    VaultAccounting
    DisputesCoherent
\* Every game may be over and the bounds used up: the system may stop.
CHECK_DEADLOCK FALSE
