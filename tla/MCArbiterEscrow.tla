--------------------------- MODULE MCArbiterEscrow ---------------------------
(* Small instances of ArbiterEscrow for TLC.                               *)
EXTENDS ArbiterEscrow, TLC

CONSTANTS alice, bob, r1, r2, r3, boss, chief, m1, m2

MCPlayers  == {alice, bob}
MCArbiters == {r1, r2, r3}
MCAdmins   == {boss, chief}
MCAccounts == MCPlayers \cup MCArbiters \cup MCAdmins

\* Each player can stake on two matches.
MCStartTokens == [a \in MCAccounts |-> IF a \in MCPlayers THEN 2 ELSE 0]

\* The proper panel, and panels of two and with both players on them.
MCPanels == {MCArbiters} \cup {MCArbiters \ {r} : r \in MCArbiters}
              \cup {MCPlayers \cup {r} : r \in MCArbiters}

MCPairs == MCPlayers \X MCPlayers

MCStakes == {0, 1}

Symmetric == Permutations(MCArbiters) \cup Permutations(MCPlayers)
=============================================================================
