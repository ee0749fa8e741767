SPECIFICATION ProgressSpec
CONSTANTS
    alice = alice
    bob = bob
    r1 = r1
    r2 = r2
    r3 = r3
    boss = boss
    chief = chief
    m1 = m1
    m2 = m2
    NoOne = NoOne
    Accounts <- MCAccounts
    StartTokens <- MCStartTokens
    Matches = {m1}
    Pairs <- MCPairs
    Panels <- MCPanels
    Stakes <- MCStakes
    Admins <- MCAdmins
    Window = 2
    Timelock = 3
    MaxTime = 4
    ann = ann
    ben = ben
    g1 = g1
    g2 = g2
    q1 = q1
    q2 = q2
    Players = {ann, ben}
    Nobody = Nobody
    Games = {g1, g2}
    Requests = {q1, q2}
    None = None
    Outcomes = {"WhiteWins"}
    Ops <- Settling
    MaxMoves = 0
PROPERTIES
    DisputeEnds
    EveryRequestAnswered
CHECK_DEADLOCK FALSE
