----------------------------- MODULE YieldStaking -----------------------------
(***************************************************************************)
(* Prize pools staked in liquidity pools until their tournament is over    *)
(* (src/contracts/yield_staking/src/lib.rs).  A position is an organizer's *)
(* stake in one pool; all positions share the contract's wallet, and those *)
(* in one pool share what the contract holds there.  A call that returns   *)
(* an error changes nothing and is not a step.                             *)
(***************************************************************************)
EXTENDS Integers, FiniteSets, Functions, Sequences

CONSTANTS
    Positions,      \* ids of positions
    PoolOf,         \* the pool of each
    TokenOf,        \* the token each pool is denominated in
    NoToken,
    Winners,        \* who is paid by a settlement
    Treasury,
    Splits,         \* the percentages a settlement is asked for
    StakeAmounts,   \* what an organizer stakes or takes back at once
    MaxStake,       \* bound: principal of a position
    MaxYield        \* bound: what a pool earns

Pools == {PoolOf[p] : p \in Positions}

ASSUME YieldAssumption ==
    /\ IsFiniteSet(Positions) /\ IsFiniteSet(Winners)
    /\ DOMAIN PoolOf = Positions
    /\ Treasury \notin Winners
    /\ Splits \subseteq Seq(Nat)
    /\ DOMAIN TokenOf = Pools /\ NoToken \notin {TokenOf[q] : q \in Pools}
    /\ StakeAmounts \subseteq Nat \ {0}
    /\ {MaxStake, MaxYield} \subseteq Nat

VARIABLES
    whitelist,
    token,          \* the contract's token, that of the first stake
    position,       \* PoolState
    poolBalance,    \* external: what the pools owe the contract
    earned,         \* history: what a pool has earned so far
    lost,           \* history: pools that have lost something
    wallet,         \* the contract's balance of the token
    walletYield,    \* harvested yield among it
    credit          \* Escrow

yieldVars ==
    <<whitelist, token, position, poolBalance, earned, lost, wallet, walletYield, credit>>

Untouched ==
    [open |-> FALSE, staked |-> 0, harvested |-> 0, settled |-> FALSE, risky |-> FALSE]

YieldInit ==
    /\ whitelist = {}
    /\ token = NoToken
    /\ position = [p \in Positions |-> Untouched]
    /\ poolBalance = [q \in Pools |-> 0]
    /\ earned = [q \in Pools |-> 0]
    /\ lost = {}
    /\ wallet = 0
    /\ walletYield = 0
    /\ credit = [w \in Winners \cup {Treasury} |-> 0]

WhitelistPool(q) ==
    /\ q \notin whitelist
    /\ whitelist' = whitelist \cup {q}
    /\ UNCHANGED <<token, position, poolBalance, earned, lost, wallet, walletYield, credit>>

UnwhitelistPool(q) ==
    /\ q \in whitelist
    /\ whitelist' = whitelist \ {q}
    /\ UNCHANGED <<token, position, poolBalance, earned, lost, wallet, walletYield, credit>>

\* Every call about a position needs one that is open and not settled.
MayChange(p) == position[p].open /\ ~position[p].settled

Stored(p, state) == [position EXCEPT ![p] = state]

\* The first stake in a pool opens the position; the pool must hold the contract's
\* token, which the very first stake fixes.
TokenFits(p) == position[p].open \/ token \in {NoToken, TokenOf[PoolOf[p]]}

ResolvePosition(p) ==
    IF position[p].open THEN position[p] ELSE [Untouched EXCEPT !.open = TRUE]

\* The tokens pass through the wallet into the pool.
Stake(p, amount) ==
    /\ PoolOf[p] \in whitelist
    /\ TokenFits(p)
    /\ ~ResolvePosition(p).settled
    /\ position[p].staked + amount <= MaxStake
    /\ position' = Stored(p, [ResolvePosition(p) EXCEPT !.staked = @ + amount])
    /\ token' = TokenOf[PoolOf[p]]
    /\ poolBalance' = [poolBalance EXCEPT ![PoolOf[p]] = @ + amount]
    /\ UNCHANGED <<whitelist, earned, lost, wallet, walletYield, credit>>

\* The pool refuses to pay out more than it holds for the contract.
Unstake(p, amount) ==
    /\ MayChange(p)
    /\ amount <= position[p].staked
    /\ amount <= poolBalance[PoolOf[p]]
    /\ position' = [position EXCEPT ![p].staked = @ - amount]
    /\ poolBalance' = [poolBalance EXCEPT ![PoolOf[p]] = @ - amount]
    /\ UNCHANGED <<whitelist, token, earned, lost, wallet, walletYield, credit>>

SetAllowPrincipalLoss(p, allow) ==
    /\ MayChange(p)
    /\ position' = [position EXCEPT ![p].risky = allow]
    /\ UNCHANGED <<whitelist, token, poolBalance, earned, lost, wallet, walletYield, credit>>

\* External: the pool gains or loses.
PoolEarns(q) ==
    /\ poolBalance[q] > 0
    /\ earned[q] < MaxYield
    /\ earned' = [earned EXCEPT ![q] = @ + 1]
    /\ poolBalance' = [poolBalance EXCEPT ![q] = @ + 1]
    /\ UNCHANGED <<whitelist, token, position, lost, wallet, walletYield, credit>>

PoolLoses(q) ==
    /\ poolBalance[q] > 0
    /\ poolBalance' = [poolBalance EXCEPT ![q] = @ - 1]
    /\ lost' = lost \cup {q}
    /\ UNCHANGED <<whitelist, token, position, earned, wallet, walletYield, credit>>

BadAccruedYield(p) == poolBalance[PoolOf[p]] + wallet - position[p].staked

\* Yield in the wallet that was harvested before is not counted again.
AccruedYield(p) == poolBalance[PoolOf[p]] + (wallet - walletYield) - position[p].staked

HarvestYield(p) ==
    /\ MayChange(p)
    /\ AccruedYield(p) \in 1..poolBalance[PoolOf[p]]
    /\ poolBalance' = [poolBalance EXCEPT ![PoolOf[p]] = @ - AccruedYield(p)]
    /\ wallet' = wallet + AccruedYield(p)
    /\ walletYield' = walletYield + AccruedYield(p)
    /\ position' = [position EXCEPT ![p].harvested = @ + AccruedYield(p)]
    /\ credit' = [credit EXCEPT ![Treasury] = @ + AccruedYield(p)]
    /\ UNCHANGED <<whitelist, token, earned, lost>>

AtLeast(a, b) == IF a < b THEN b ELSE a

AtMost(a, b) == IF a < b THEN a ELSE b

\* Yield in the wallet that other positions harvested.
OtherYield(p) == AtMost(AtLeast(walletYield - position[p].harvested, 0), wallet)

\* All that a settlement distributes: the whole balance in the pool, and the wallet.
Prize(p) == poolBalance[PoolOf[p]] + wallet - OtherYield(p)

\* Rounded shares; the first winner gets the rest.
PrizeShares(prize, split) ==
    LET part == [i \in DOMAIN split |-> (prize * split[i]) \div 100]
    IN  [part EXCEPT ![1] = prize - SumFunctionOnSet(part, 2..Len(split))]

BadTreasuryCredit(p) == credit[Treasury]

\* The treasury's credit for this position's yield goes to the winners; when the
\* treasury has claimed it before, its credit becomes negative.
TreasuryCredit(p) == credit[Treasury] - position[p].harvested

ValidDistribution(split) ==
    /\ split # <<>>
    /\ \A i \in DOMAIN split : split[i] \in 1..100
    /\ SumFunctionOnSet(split, DOMAIN split) = 100

SettleTournament(p, winners, split) ==
    /\ ValidDistribution(split)
    /\ MayChange(p)
    /\ Prize(p) >= position[p].staked \/ position[p].risky
    /\ wallet' = wallet + poolBalance[PoolOf[p]]
    /\ poolBalance' = [poolBalance EXCEPT ![PoolOf[p]] = 0]
    /\ credit' = [w \in Winners \cup {Treasury} |->
                    IF w = Treasury THEN TreasuryCredit(p)
                    ELSE credit[w] + SumFunctionOnSet(PrizeShares(Prize(p), split),
                                                      {i \in DOMAIN split : winners[i] = w})]
    /\ walletYield' = walletYield - position[p].harvested
    /\ position' = [position EXCEPT ![p].staked = 0, ![p].harvested = 0, ![p].settled = TRUE]
    /\ UNCHANGED <<whitelist, token, earned, lost>>

\* The token refuses a transfer the wallet cannot cover.
ClaimEscrow(w, amount) ==
    /\ amount \in 1..credit[w]
    /\ amount <= wallet
    /\ credit' = [credit EXCEPT ![w] = @ - amount]
    /\ walletYield' = IF w = Treasury THEN walletYield - AtMost(amount, walletYield)
                      ELSE walletYield
    /\ wallet' = wallet - amount
    /\ UNCHANGED <<whitelist, token, position, poolBalance, earned, lost>>

YieldNext ==
    \/ \E q \in Pools : WhitelistPool(q) \/ UnwhitelistPool(q) \/ PoolEarns(q) \/ PoolLoses(q)
    \/ \E p \in Positions :
        \/ \E amount \in StakeAmounts : Stake(p, amount) \/ Unstake(p, amount)
        \/ \E allow \in BOOLEAN : SetAllowPrincipalLoss(p, allow)
        \/ HarvestYield(p)
        \/ \E split \in Splits : \E winners \in [DOMAIN split -> Winners] :
            SettleTournament(p, winners, split)
    \/ \E w \in Winners \cup {Treasury}, amount \in 1..wallet : ClaimEscrow(w, amount)

YieldSpec == YieldInit /\ [][YieldNext]_yieldVars

(***************************************************************************)
(* Properties                                                              *)
(***************************************************************************)
\* Every variable keeps its type.
YieldTypeOK ==
    /\ whitelist \subseteq Pools
    /\ token \in {NoToken} \cup {TokenOf[q] : q \in Pools}
    /\ position \in [Positions -> [open : BOOLEAN, staked : Nat, harvested : Nat,
                                   settled : BOOLEAN, risky : BOOLEAN]]
    /\ poolBalance \in [Pools -> Nat]
    /\ earned \in [Pools -> Nat]
    /\ lost \subseteq Pools
    /\ wallet \in Nat
    /\ walletYield \in Int
    /\ credit \in [Winners \cup {Treasury} -> Int]

OpenPositions == {p \in Positions : position[p].open}

SettledPositions == {p \in Positions : position[p].settled}

TotalCredit ==
    SumFunctionOnSet([w \in Winners \cup {Treasury} |-> AtLeast(credit[w], 0)],
                     Winners \cup {Treasury})

\* However many tournaments stake, in whatever pools, and harvest into the one wallet,
\* before any of them is settled the wallet is the treasury's unclaimed yield, and a
\* position that shares its pool with none still has its principal there.  The first
\* settlement distributes exactly the wallet and the pool less what the others have
\* harvested, so until a second tournament is settled, through all later stakes, harvests
\* and claims, every credit is covered.  The second settlement breaks this: it gives its
\* winners what those of the first have not claimed yet.
CreditsBacked ==
    /\ \A p \in OpenPositions : TokenOf[PoolOf[p]] = token
    /\ (\A p, q \in SettledPositions : p = q) => wallet >= TotalCredit
    /\ SettledPositions = {} =>
        /\ wallet = walletYield /\ credit[Treasury] = walletYield
        /\ \A w \in Winners : credit[w] = 0
        /\ \A p \in OpenPositions :
             \/ PoolOf[p] \in lost
             \/ \E q \in OpenPositions \ {p} : PoolOf[q] = PoolOf[p]
             \/ poolBalance[PoolOf[p]] >= position[p].staked

YieldSound == YieldTypeOK /\ CreditsBacked
=============================================================================
