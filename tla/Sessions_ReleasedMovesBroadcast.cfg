SPECIFICATION Spec
CONSTANTS
    white = white
    black = black
    visitor = visitor
    Players = {white, black, visitor}
    Participants = {white, black}
    Sessions <- MCSessionSet
    NoSession = NoSession
    MaxMail = 2
    MaxRestarts = 1
    MaxSeq = 4
    Capacity = 2
    MaxSessions = 2
    Guests = {white, black}
    Nobody = Nobody
    InitialTime = 1
    Increments = {0, 1}
    LatencyBuffer = 1
    LastTick = 3
    MaxRoomMoves = 4
    Presets <- MCPresets
    EndOfDrill = 5
    MaxDrillMoves = 4
    Drift <- MCDrift
    PingIds = {1, 2}
    Window = 1
    MaxRtt = 2
    LastMs = 3
    MaxPongs = 2
    Characters = {"a", "b", "4", ".", " "}
    SpaceChar = " "
    Letters <- MCLetters
    Listed <- MCListed
    Sayings <- MCSayings
    MaxDraft = 6
    Chatters = {white, black}
    MuteThreshold = 3
    MuteWindow = 1
    MuteTime = 3
    SweepAt = 1
    MaxSaid = 4
    LastChatTick = 5
INVARIANTS
    ReleasedMovesBroadcast
CHECK_DEADLOCK FALSE
