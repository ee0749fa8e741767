------------------------------ MODULE MCContracts ------------------------------
\* The smaller contracts for TLC.  They share no state: a behaviour picks one of them
\* and leaves the others as they are.  Fees and the rest of the administration of the
\* game contract share none either and are picked apart.
EXTENDS SponsorshipEscrow, YieldStaking, GaslessRelayer, CircuitBreaker,
        ContractGovernance, GameRegistry, TLC

CONSTANTS c1, c2, s1, s2, xlm, usdc, p1, p2, p3, w1, w2, alice, bob, m1, m2, h1, h2, k1, k2

MCPlans == {<<3333, 3333, 3334>>}

MCPools == (p1 :> "amm" @@ p2 :> "lender" @@ p3 :> "vault")

\* One of the pools holds another token.
MCTokens == [amm |-> usdc, lender |-> usdc, vault |-> xlm]

\* The last does not add up.
MCSplits == {<<100>>, <<67, 33>>, <<60, 30>>}

MCClaims == {[recipient |-> r, amount |-> x, nonce |-> n, key |-> k1] :
                <<r, x, n>> \in {<<"ann", 1, 1>>, <<"ben", 2, 1>>, <<"ben", 1, 2>>}}
            \cup {[recipient |-> "ann", amount |-> 1, nonce |-> 3, key |-> k2]}

VARIABLE component

vars == <<cupVars, yieldVars, relayerVars, breakerVars, governanceVars,
          nftVars, referralVars, registerVars, component>>

Init ==
    /\ CupInit /\ YieldInit /\ RelayerInit /\ BreakerInit /\ GovernanceInit
    /\ NftInit /\ ReferralInit /\ RegistryInit
    /\ component \in {"sponsorship", "yield", "relayer", "breaker", "fees", "backend",
                     "nfts", "referrals", "registry", "badges"}
    \* What a behaviour does not use starts in one way only.
    /\ component # "relayer" => openRelayers
    /\ component # "breaker" => breakerAdmin = h1
    /\ component # "fees" => feeBips = 0
    /\ component # "backend" => seq = 1 /\ adminKey = k1
    /\ registryAdmin = "carol"

\* Bound: the second tournament has one sponsor and no deadline.
SecondCupSmall ==
    cup[c2].deadline = "none" /\ \A t \in Tokens : deposit[c2][s2][t] = 0

Sponsorship ==
    /\ component = "sponsorship" /\ CupNext /\ SecondCupSmall'
    /\ UNCHANGED <<yieldVars, relayerVars, breakerVars, governanceVars,
                   nftVars, referralVars, registerVars, component>>

Yield ==
    /\ component = "yield" /\ YieldNext
    /\ UNCHANGED <<cupVars, relayerVars, breakerVars, governanceVars,
                   nftVars, referralVars, registerVars, component>>

Relayer ==
    /\ component = "relayer" /\ RelayerNext
    /\ UNCHANGED <<cupVars, yieldVars, breakerVars, governanceVars,
                   nftVars, referralVars, registerVars, component>>

Breaker ==
    /\ component = "breaker" /\ BreakerNext
    /\ UNCHANGED <<cupVars, yieldVars, relayerVars, governanceVars,
                   nftVars, referralVars, registerVars, component>>

Governance ==
    /\ \/ component = "fees" /\ FeeNext
       \/ component = "backend" /\ BackendNext
    /\ UNCHANGED <<cupVars, yieldVars, relayerVars, breakerVars,
                   nftVars, referralVars, registerVars, component>>

Nfts ==
    /\ component = "nfts" /\ NftNext
    /\ UNCHANGED <<cupVars, yieldVars, relayerVars, breakerVars, governanceVars,
                   referralVars, registerVars, component>>

Referrals ==
    /\ component = "referrals" /\ ReferralNext
    /\ UNCHANGED <<cupVars, yieldVars, relayerVars, breakerVars, governanceVars,
                   nftVars, registerVars, component>>

Registers ==
    /\ \/ component = "registry" /\ RegistryNext /\ UNCHANGED <<badgeVars, attested>>
       \/ component = "badges" /\ BadgeNext /\ UNCHANGED <<registryVars, attested>>
       \/ component = "badges" /\ AttestNext /\ UNCHANGED <<registryVars, badgeVars>>
    /\ UNCHANGED <<cupVars, yieldVars, relayerVars, breakerVars, governanceVars,
                   nftVars, referralVars, component>>

Next ==
    \/ Sponsorship \/ Yield \/ Relayer \/ Breaker \/ Governance
    \/ Nfts \/ Referrals \/ Registers

Spec == Init /\ [][Next]_vars
=============================================================================
