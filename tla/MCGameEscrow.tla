---------------------------- MODULE MCGameEscrow ----------------------------
(* Small instances of GameEscrow for TLC.                                  *)
EXTENDS GameEscrow, TLC

CONSTANTS alice, bob, treasury

MCAccounts == {alice, bob, treasury}

\* Two stakes of 5 and one dispute fee for each player; nothing for the treasury.
MCStartTokens == [a \in MCAccounts |-> IF a = treasury THEN 0 ELSE 12]

\* A fee of 12.5%: a pool of 10 pays 9 and 1, rounded down.
BaseCfg == [paused |-> FALSE, whitelisted |-> TRUE, maxStake |-> 1000, maxPrizePool |-> 2000,
            feeBips |-> 125, treasury |-> treasury, arbitrator |-> FALSE, disputeFee |-> 0,
            timeout |-> 0, deadline |-> 0, buffer |-> 0, timelock |-> 0]

\* The admin has configured both timeouts: one ledger, and two ledgers of 5 s.
LifecycleCfgs == {[BaseCfg EXCEPT !.timeout = 1, !.deadline = 5, !.buffer = 5,
                                      !.timelock = 1]}

\* The admin has configured disputes, and may have paused the contract.
DisputeCfgs == {[BaseCfg EXCEPT !.arbitrator = TRUE, !.disputeFee = 2, !.paused = p] : p \in BOOLEAN}

\* Prizes in thirds, with a dust token: 10 * 33% = 3, 10 * 67% = 6.
MCSplits == {<<alice, bob, 33>>, <<bob, alice, 33>>}

Symmetric == Permutations({alice, bob})
=============================================================================
