SPECIFICATION DatabaseSpec
CONSTANTS
    a = a
    b = b
    g1 = g1
    g2 = g2
    r1 = r1
    r2 = r2
    Nobody = Nobody
    None = None
    Players = {a, b}
    Games = {g1, g2}
    Requests = {r1, r2}
    Outcomes = {"WhiteWins"}
    Ops <- AllOps
    MaxMoves = 2
    Devices = {r1, r2}
    MaxTokens = 3
    MaxTickets = 2
    Members = {"p", "q"}
    Wallets = {"v", "w"}
    KeysOf <- MCKeys
    NoWallet = "none"
    Answers = {r1, r2}
    MaxChallenges = 3
    Owners = {a, b}
    Usernames = {"n", "m"}
    NoName = "none"
    Settings = {"k", "l"}
    Visits = {r1, r2}
    MaxPlayerWrites = 3
    Rows = {1, 2, 3}
    Stamps = {1, 2}
    Limits = {0, 1}
    Filters <- MCFilters
    MaxRowWrites = 1
SYMMETRY Symmetry
INVARIANTS
    MovesInTurn
    JoinHonoured
    RatingsJustified
    AccountsSound
PROPERTIES
    OverStaysOver
CHECK_DEADLOCK FALSE
