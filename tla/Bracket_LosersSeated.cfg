SPECIFICATION BracketAlone
CONSTANTS
    casual = casual
    rated = rated
    r1 = r1
    r2 = r2
    r3 = r3
    a1 = a1
    a2 = a2
    a3 = a3
    s1 = s1
    c1 = c1
    c2 = c2
    c3 = c3
    Requests = {r1, r2, r3}
    Queues = {casual, rated}
    Casual = casual
    RatedFree = rated
    Elos = {0, 40, 80}
    EloRange = 50
    Invites = "invites"
    NoRequest = NoRequest
    MaxMishaps = 1
    Attempts = {a1, a2, a3}
    Registrations = {1, 2, 3}
    Casts <- MCCasts
    NoBracket = NoBracket
    MaxBroken = 2
    Fields <- MCEight
    Empty = 0
    Ratings <- MCRatings
    Sizes = {3, 4, 5}
    MaxRounds = 3
    Boards = {3, 4}
    Limits = {1, 10}
    MaxRefused = 2
    Memory = 3
    Spectators = {s1}
    QueueCapacity = 1
    MaxOverflows = 2
    MaxFrames = 4
    MaxDrift = 1
    Callers = {c1, c2, c3}
    Slots = 2
    FailureThreshold = 2
    SuccessThreshold = 2
    OpenTimeout = 1
    MaxSearches = 2
    MaxUciCalls = 2
    NoLine = NoLine
    WorkerIds = {1, 2, 3}
    PoolSizes = {1, 2}
    MinWorkers = 1
    MaxWorkers = 2
    MaxAnalyses = 1
    Tasks = {c1, c2}
    NoWorker = 0
    HttpCalls = {c1, c2, c3}
    HttpLimit = 2
    HttpWindow = 2
    Rate = 1
    Burst = 2
    MaxViolations = 2
    Cooldown = 2
    Watched = {a1, a2}
    MaxPerNode = 3
    MaxPerGame = 2
    IdleTtl = 1
    Now = 6
    MaxEvents = 5
    Reporters = {"p", "q"}
    Evidence = {1, 2}
    HourlyLimit = 1
    RateWindow = 2
    BanThreshold = 2
    BanWindow = 3
    LastReportTick = 3
    Squares <- MCSquares
    Pieces <- MCPieces
    MaxPieces = 4
    Roster <- MCRoster
    Starts <- MCStarts
    PgnResults = {"1-0", "0-1", "1/2-1/2", "*"}
    Terminations = {"none", "normal", "resignation", "stalemate", "50-move rule", "unterminated", "bogus"}
    Variants = {"none", "chess960"}
    LongestGame = 2
    MaxBlemishes = 1
    Archivals = {"t1", "t2"}
    GameOf <- MCGameOf
    Gateways <- MCGateways
    Begun <- MCBegun
    MaxNewMoves = 3
    Retriers = {"x", "y"}
    MaxTries = 3
    Diagrams = {1, 2}
    HalfmoveThreshold = 5
    RepetitionThreshold = 3
    MaxPlies = 6
INVARIANTS
    LosersSeated
CHECK_DEADLOCK FALSE
