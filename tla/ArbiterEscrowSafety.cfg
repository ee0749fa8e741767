SPECIFICATION Spec
CONSTANTS
    alice = alice
    bob = bob
    r1 = r1
    r2 = r2
    r3 = r3
    boss = boss
    chief = chief
    m1 = m1
    m2 = m2
    NoOne = NoOne
    Accounts <- MCAccounts
    StartTokens <- MCStartTokens
    Matches = {m1, m2}
    Pairs <- MCPairs
    Panels <- MCPanels
    Stakes <- MCStakes
    Admins <- MCAdmins
    Window = 1
    Timelock = 2
    MaxTime = 3
SYMMETRY Symmetric
INVARIANTS
    FundedByBoth
    VotesCounted
    OutcomeJustified
    Solvent
PROPERTIES
    BallotsSealed
    ImplementsArbitration
CHECK_DEADLOCK FALSE
