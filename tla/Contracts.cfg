SPECIFICATION Spec
CONSTANTS
    c1 = c1
    c2 = c2
    s1 = s1
    s2 = s2
    xlm = xlm
    usdc = usdc
    p1 = p1
    p2 = p2
    w1 = w1
    w2 = w2
    alice = alice
    bob = bob
    m1 = m1
    m2 = m2
    h1 = h1
    h2 = h2
    k1 = k1
    k2 = k2
    Cups = {c1, c2}
    Sponsors = {s1, s2}
    Tokens = {xlm, usdc}
    Plans <- MCPlans
    Amounts = {7}
    MaxDeposit = 7
    p3 = p3
    Positions = {p1, p2, p3}
    PoolOf <- MCPools
    TokenOf <- MCTokens
    NoToken = NoToken
    Winners = {w1, w2}
    Treasury = Treasury
    Splits <- MCSplits
    StakeAmounts = {2}
    MaxStake = 2
    MaxYield = 1
    Players = {alice, bob}
    Relayers = {"relayer"}
    RelayedGames = {m1}
    Keys = {"old", "new"}
    NoKey = "none"
    NoPlayer = NoPlayer
    Wagers = {1, 2}
    MaxBatch = 2
    MaxNonce = 2
    LastLedger = 2
    Holders = {h1, h2}
    Escrows = {1}
    NoHolder = NoHolder
    Sums = {1, 2}
    Delay = 2
    MaxIssued = 3
    EndOfTime = 3
    AdminKeys = {k1, k2}
    NoAdminKey = NoAdminKey
    RotationDelay = 1
    LastSeq = 4
    Signers = {"x", "y", "z"}
    NoSigner = "nobody"
    MaxListed = 3
    FeeBips = {0, 25}
    Claims <- MCClaims
    Challenges = {"challenge"}
    Collectors = {"ann", "ben"}
    MaxMints = 3
    Referees = {"ann", "ben", "cleo"}
    NoReferrer = "nobody"
    CommissionBps = 1000
    WagerSizes = {9, 10, 29}
    Coins = {"xlm", "usdc"}
    MaxCredit = 3
    Persons = {"ann", "carol"}
    Purse = 2
    GameIds = {"game"}
    Capacities = {0, 1, 2}
    EntryFees = {0, 1, 2}
    Titles = {"gm", "im"}
    Models = {"net"}
    Hashes = {"sha"}
    Nothing = Nothing
INVARIANTS
    SponsorshipSound
    YieldSound
    RelayerSound
    BreakerSound
    GovernanceSound
    RegistersSound
CHECK_DEADLOCK FALSE
