---------------------------- MODULE ContractProofs ----------------------------
(***************************************************************************)
(* The contracts beside the game contract keep their books and their       *)
(* rules, with any accounts, amounts and delays.                           *)
(***************************************************************************)
EXTENDS ArbiterEscrow, CircuitBreaker, GaslessRelayer, ContractGovernance,
        SponsorshipEscrow, YieldStaking, GameRegistry, Sums

-----------------------------------------------------------------------------
(***************************************************************************)
(* ArbiterEscrow.  Every handler changes one escrow and the ballots of its *)
(* match, so the invariant is a property Sound of one escrow, its ballots  *)
(* and the time, and one lemma per handler shows that the escrow it writes *)
(* is Sound again.                                                         *)
(***************************************************************************)
Ballots == [Accounts -> VoteChoices \cup {"None"}]

\* Before it is created an escrow holds nothing, before a dispute there are no
\* ballots and no timelock, and the timelock of a dispute ends no sooner than
\* its arbitration window.
Early(e, v) ==
    /\ e.status = "None" => e.pot = 0
    /\ e.status \notin {"Disputed", "Resolved"} =>
          e.fallbackDeadline = 0 /\ \A r \in Accounts : v[r] = "None"
    /\ e.status = "Disputed" => e.arbitrationDeadline <= e.fallbackDeadline

Sound(e, v, time) ==
    /\ e \in Escrow /\ v \in Ballots
    /\ EscrowFunded(e)
    /\ Counted(e, v)
    /\ Justified(e, v, time)
    /\ Early(e, v)

MoneyOK == admin \in Accounts /\ tokens \in [Accounts -> Int] /\ vault \in Int /\ now \in Nat

AllSound == \A m \in Matches : Sound(escrows[m], votes[m], now)

Domains == escrows \in [Matches -> Escrow] /\ votes \in [Matches -> Ballots]

\* The inductive invariant.
IndInv == Domains /\ MoneyOK /\ AllSound

-----------------------------------------------------------------------------
(* Counting ballots.                                                       *)

\* The supporters of a choice are finitely many, and no more than the panel.
LEMMA SupportersFinite ==
    ASSUME NEW e, NEW v, NEW c, e.panel \subseteq Accounts
    PROVE  /\ IsFiniteSet(e.panel)
           /\ IsFiniteSet(Supporters(e, v, c))
           /\ Cardinality(Supporters(e, v, c)) \in Nat
           /\ Cardinality(Supporters(e, v, c)) <= Cardinality(e.panel)
<1>1. IsFiniteSet(e.panel)
  BY FS_Subset, ArbiterAssumption
<1>2. Supporters(e, v, c) \subseteq e.panel
  BY DEF Supporters
<1> QED
  BY <1>1, <1>2, FS_Subset, FS_CardinalityType

\* Two arbiters agree exactly if a tally of the ballots reaches the quorum.
LEMMA AgreedMeansTwo ==
    ASSUME NEW e, NEW v, NEW c, e.panel \subseteq Accounts
    PROVE  Agreed(e, v, c) <=> Cardinality(Supporters(e, v, c)) >= 2
<1> DEFINE S == Supporters(e, v, c)
<1>1. IsFiniteSet(S) /\ Cardinality(S) \in Nat
  BY SupportersFinite
<1>2. ASSUME Agreed(e, v, c) PROVE Cardinality(S) >= 2
  <2>1. PICK r \in S, s \in S : r # s
    BY <1>2 DEF Agreed, Supporters
  <2>2. {r, s} \subseteq S
    BY <2>1
  <2>3. IsFiniteSet({r, s}) /\ Cardinality({r, s}) = 2
    <3>1. Cardinality({r}) = 1 /\ IsFiniteSet({r})
      BY FS_Singleton
    <3>2. s \notin {r} /\ {r, s} = {r} \cup {s}
      BY <2>1
    <3> QED  BY SMTT(30), <3>1, <3>2, FS_AddElement
  <2> QED
    BY <1>1, <2>2, <2>3, FS_Subset
<1>3. ASSUME Cardinality(S) >= 2 PROVE Agreed(e, v, c)
  <2>1. S # {}
    BY <1>3, <1>1, FS_EmptySet
  <2>2. PICK r : r \in S
    BY <2>1
  <2>3. IsFiniteSet(S \ {r}) /\ Cardinality(S \ {r}) = Cardinality(S) - 1
    BY <1>1, <2>2, FS_RemoveElement
  <2>4. S \ {r} # {}
    BY <1>1, <1>3, <2>3, FS_EmptySet
  <2> QED
    BY <2>2, <2>4 DEF Agreed, Supporters
<1> QED
  BY <1>2, <1>3

\* quorum_choice finds two arbiters who agree, if there are two.
LEMMA QuorumIsAgreement ==
    ASSUME NEW e \in Escrow, NEW v \in Ballots, Counted(e, v)
    PROVE  /\ QuorumChoice(e) \in VoteChoices \cup {"Undecided"}
           /\ QuorumChoice(e) # "Undecided" => Agreed(e, v, QuorumChoice(e))
           /\ QuorumChoice(e) = "Undecided" => ~ \E c \in VoteChoices : Agreed(e, v, c)
<1>1. e.panel \subseteq Accounts
  BY DEF Escrow
<1>2. \A c \in VoteChoices : e.votesFor[c] \in 0 .. 3
  BY DEF Escrow, ARBITER_COUNT
<1>3. \A c \in VoteChoices : Agreed(e, v, c) <=> e.votesFor[c] >= 2
  BY <1>1, AgreedMeansTwo DEF Counted
<1>4. QuorumChoice(e) \in VoteChoices \cup {"Undecided"}
  BY DEF QuorumChoice, VoteChoices
<1>5. QuorumChoice(e) \in VoteChoices => e.votesFor[QuorumChoice(e)] >= 2
  BY <1>2 DEF QuorumChoice, QUORUM, VoteChoices
<1>6. QuorumChoice(e) = "Undecided" => \A c \in VoteChoices : ~(e.votesFor[c] >= 2)
  BY <1>2 DEF QuorumChoice, QUORUM, VoteChoices
<1> QED
  BY <1>3, <1>4, <1>5, <1>6

-----------------------------------------------------------------------------
(* What the handlers write is Sound.                                       *)

LEMMA NoEscrowFields ==
    /\ NoEscrow \in Escrow
    /\ NoEscrow.status = "None" /\ NoEscrow.outcome = "Undecided" /\ NoEscrow.panel = {}
    /\ ~NoEscrow.fundedA /\ ~NoEscrow.fundedB /\ NoEscrow.pot = 0 /\ NoEscrow.stake = 0
    /\ NoEscrow.fallbackDeadline = 0 /\ \A c \in VoteChoices : NoEscrow.votesFor[c] = 0
<1>1. [c \in VoteChoices |-> 0] \in [VoteChoices -> 0 .. ARBITER_COUNT]
  BY DEF ARBITER_COUNT
<1> QED
  BY <1>1 DEF NoEscrow, Escrow, Statuses

\* An escrow without ballots has empty tallies.
LEMMA NoBallotsCounted ==
    ASSUME NEW e, NEW v, e.panel \subseteq Accounts, \A r \in Accounts : v[r] = "None",
           \A c \in VoteChoices : e.votesFor[c] = 0
    PROVE  Counted(e, v)
<1>1. ASSUME NEW c \in VoteChoices PROVE Supporters(e, v, c) = {}
  BY DEF Supporters, VoteChoices
<1> QED
  BY <1>1, FS_EmptySet DEF Counted

LEMMA EmptySound ==
    ASSUME NEW time \in Nat
    PROVE  Sound(NoEscrow, [r \in Accounts |-> "None"], time)
<1> DEFINE v == [r \in Accounts |-> "None"]
<1>2. v \in Ballots /\ \A r \in Accounts : v[r] = "None"
  BY DEF Ballots
<1> HIDE DEF v
<1>3. EscrowFunded(NoEscrow) /\ Justified(NoEscrow, v, time) /\ Early(NoEscrow, v)
  BY <1>2, NoEscrowFields DEF EscrowFunded, Justified, Early
<1>4. Counted(NoEscrow, v)
  BY <1>2, NoEscrowFields, NoBallotsCounted
<1> QED
  BY <1>2, <1>3, <1>4, NoEscrowFields DEF Sound, v

\* create_escrow.
LEMMA CreatedSound ==
    ASSUME NEW v \in Ballots, \A r \in Accounts : v[r] = "None", NEW time \in Nat,
           NEW a \in Accounts, NEW b \in Accounts, NEW stake \in Int,
           NEW panel \in SUBSET Accounts, PanelFits(panel, a, b)
    PROVE  Sound([NoEscrow EXCEPT !.status = "AwaitingFunding", !.playerA = a, !.playerB = b,
                                  !.stake = stake, !.panel = panel], v, time)
<1> DEFINE e == [NoEscrow EXCEPT !.status = "AwaitingFunding", !.playerA = a, !.playerB = b,
                                 !.stake = stake, !.panel = panel]
<1>0. NoEscrow \in Escrow
  BY NoEscrowFields
<1>1. e \in Escrow
  BY <1>0 DEF Escrow, Statuses
<1>2. /\ e.status = "AwaitingFunding" /\ e.playerA = a /\ e.playerB = b /\ e.panel = panel
      /\ e.outcome = "Undecided" /\ ~e.fundedA /\ ~e.fundedB /\ e.pot = 0
      /\ e.fallbackDeadline = 0 /\ e.votesFor = NoEscrow.votesFor
  BY <1>0, NoEscrowFields DEF Escrow
<1> HIDE DEF e
<1>3. EscrowFunded(e) /\ Justified(e, v, time) /\ Early(e, v)
  BY <1>2 DEF EscrowFunded, Justified, Early, PanelFits, ARBITER_COUNT
<1>4. Counted(e, v)
  BY <1>2, NoEscrowFields, NoBallotsCounted
<1> QED
  BY <1>1, <1>3, <1>4 DEF Sound, e

\* fund_escrow.
LEMMA FundedSound ==
    ASSUME NEW e, NEW v, NEW time \in Nat, NEW isA \in BOOLEAN, Sound(e, v, time),
           e.status = "AwaitingFunding", IF isA THEN ~e.fundedA ELSE ~e.fundedB
    PROVE  Sound(Funded(e, isA), v, time)
<1> DEFINE f == Funded(e, isA)
<1>0. e \in Escrow /\ v \in Ballots
  BY DEF Sound
<1>1. f \in Escrow
  <2> DEFINE st == IF (e.fundedA \/ isA) /\ (e.fundedB \/ ~isA) THEN "Funded" ELSE e.status
             fa == e.fundedA \/ isA
             fb == e.fundedB \/ ~isA
             both == e.pot + e.stake
  <2>1. st \in Statuses
    BY <1>0 DEF Escrow, Statuses
  <2>2. fa \in BOOLEAN /\ fb \in BOOLEAN
    OBVIOUS
  <2>3. both \in Int
    BY <1>0 DEF Escrow
  <2>4. f = [e EXCEPT !.pot = both, !.fundedA = fa, !.fundedB = fb, !.status = st]
    BY <1>0 DEF Funded, Escrow
  <2> HIDE DEF st, fa, fb, both, f
  <2> QED  BY <1>0, <2>1, <2>2, <2>3, <2>4 DEF Escrow
<1>2. /\ f.panel = e.panel /\ f.votesFor = e.votesFor /\ f.outcome = e.outcome
      /\ f.playerA = e.playerA /\ f.playerB = e.playerB /\ f.stake = e.stake
      /\ f.fallbackDeadline = e.fallbackDeadline
      /\ f.status \in {"AwaitingFunding", "Funded"}
  BY <1>0 DEF Funded, Escrow
<1>9. /\ f.pot = e.pot + e.stake
      /\ f.fundedA <=> e.fundedA \/ isA
      /\ f.fundedB <=> e.fundedB \/ ~isA
      /\ f.status = IF (e.fundedA \/ isA) /\ (e.fundedB \/ ~isA) THEN "Funded" ELSE e.status
  BY <1>0 DEF Funded, Escrow
<1>3. EscrowFunded(f)
  <2> HIDE DEF f
  <2>0. e.pot \in Int /\ e.stake \in Int /\ EscrowFunded(e)
    BY <1>0 DEF Escrow, Sound
  <2>1. CASE isA
    BY <1>2, <1>9, <2>0, <2>1 DEF EscrowFunded
  <2>2. CASE ~isA
    BY <1>2, <1>9, <2>0, <2>2 DEF EscrowFunded
  <2> QED  BY <2>1, <2>2
<1>4. Counted(f, v)
  BY <1>2 DEF Counted, Supporters, Sound
<1>5. Justified(f, v, time) /\ Early(f, v)
  <2> HIDE DEF f
  <2> QED  BY <1>0, <1>2 DEF Justified, Early, Sound
<1> QED
  BY <1>0, <1>1, <1>3, <1>4, <1>5 DEF Sound

\* dispute_match.
LEMMA FrozenSound ==
    ASSUME NEW e, NEW v, NEW time \in Nat, Sound(e, v, time), e.status = "Funded"
    PROVE  Sound([e EXCEPT !.status = "Disputed", !.arbitrationDeadline = time + Window,
                           !.fallbackDeadline = time + Timelock], v, time)
<1> DEFINE f == [e EXCEPT !.status = "Disputed", !.arbitrationDeadline = time + Window,
                          !.fallbackDeadline = time + Timelock]
<1>0. e \in Escrow /\ v \in Ballots
  BY DEF Sound
<1>1. f \in Escrow
  <2>1. time + Window \in Nat /\ time + Timelock \in Nat
    BY ArbiterAssumption
  <2> QED  BY <1>0, <2>1 DEF Escrow, Statuses
<1>2. /\ f.panel = e.panel /\ f.votesFor = e.votesFor /\ f.outcome = e.outcome
      /\ f.status = "Disputed" /\ f.arbitrationDeadline <= f.fallbackDeadline
  BY <1>0, ArbiterAssumption DEF Escrow
<1>3. EscrowFunded(f)
  BY <1>0 DEF Escrow, EscrowFunded, Sound
<1>4. Counted(f, v)
  BY <1>2 DEF Counted, Supporters, Sound
<1>5. Justified(f, v, time) /\ Early(f, v)
  <2> HIDE DEF f
  <2> QED  BY <1>0, <1>2 DEF Justified, Early, Sound
<1> QED
  BY <1>0, <1>1, <1>3, <1>4, <1>5 DEF Sound

\* settle_match, settle_refund, resolve_dispute and execute_fallback.
LEMMA ClosedSound ==
    ASSUME NEW e, NEW v, NEW time \in Nat, Sound(e, v, time), NEW c \in VoteChoices,
           \/ e.status = "Funded"
           \/ e.status = "Disputed" /\ Agreed(e, v, c)
           \/ /\ e.status = "Disputed" /\ c = "Refund" /\ time >= e.fallbackDeadline
              /\ ~ \E d \in VoteChoices : Agreed(e, v, d)
    PROVE  Sound([e EXCEPT !.status = "Resolved", !.outcome = c], v, time)
<1> DEFINE f == [e EXCEPT !.status = "Resolved", !.outcome = c]
<1>0. e \in Escrow /\ v \in Ballots
  BY DEF Sound
<1>1. f \in Escrow
  BY <1>0 DEF Escrow, Statuses
<1>2. /\ f.panel = e.panel /\ f.votesFor = e.votesFor /\ f.outcome = c
      /\ f.status = "Resolved" /\ f.fallbackDeadline = e.fallbackDeadline
  BY <1>0 DEF Escrow
<1>3. EscrowFunded(f)
  BY <1>0 DEF Escrow, EscrowFunded, Sound
<1>4. Counted(f, v)
  BY <1>2 DEF Counted, Supporters, Sound
<1>5. c # "Undecided"
  BY DEF VoteChoices
<1>6. e.status = "Funded" => e.fallbackDeadline = 0
  BY DEF Sound, Early
<1>7. \A d : Agreed(f, v, d) <=> Agreed(e, v, d)
  BY <1>2 DEF Agreed
<1>8. Justified(f, v, time) /\ Early(f, v)
  <2> HIDE DEF f
  <2> QED  BY <1>0, <1>2, <1>5, <1>6, <1>7 DEF Justified, Early
<1> QED
  BY <1>0, <1>1, <1>3, <1>4, <1>8 DEF Sound

\* vote: one more supporter of c, and a tally that still fits the panel.
LEMMA BallotSound ==
    ASSUME NEW e, NEW v, NEW time \in Nat, Sound(e, v, time), e.status = "Disputed",
           NEW c \in VoteChoices, NEW r \in e.panel, v[r] = "None"
    PROVE  Sound([e EXCEPT !.votesFor[c] = @ + 1], [v EXCEPT ![r] = c], time)
<1> DEFINE f == [e EXCEPT !.votesFor[c] = @ + 1]
           w == [v EXCEPT ![r] = c]
<1>0. e \in Escrow /\ v \in Ballots /\ e.panel \subseteq Accounts /\ Counted(e, v)
  BY DEF Sound, Escrow
<1>1. e.votesFor \in [VoteChoices -> 0 .. ARBITER_COUNT] /\ c # "None"
  BY <1>0 DEF Escrow, VoteChoices
<1>2. w \in Ballots /\ w[r] = c /\ \A s \in Accounts \ {r} : w[s] = v[s]
  BY <1>0 DEF Ballots
<1>3. /\ f.panel = e.panel /\ f.outcome = e.outcome /\ f.status = e.status
      /\ f.playerA = e.playerA /\ f.playerB = e.playerB /\ f.stake = e.stake
      /\ f.pot = e.pot /\ f.fundedA = e.fundedA /\ f.fundedB = e.fundedB
      /\ f.arbitrationDeadline = e.arbitrationDeadline
      /\ f.fallbackDeadline = e.fallbackDeadline
      /\ f.votesFor = [e.votesFor EXCEPT ![c] = @ + 1]
  BY <1>0 DEF Escrow
<1> HIDE DEF w
<1>4. \A d \in VoteChoices : Cardinality(Supporters(e, v, d)) \in Nat
                             /\ IsFiniteSet(Supporters(e, v, d))
  BY <1>0, SupportersFinite
<1>5. \A d \in VoteChoices \ {c} : Supporters(f, w, d) = Supporters(e, v, d)
  <2> HIDE DEF f
  <2>1. \A d \in VoteChoices : d # "None"
    BY DEF VoteChoices
  <2> QED  BY <1>0, <1>2, <1>3, <2>1 DEF Supporters
<1>6. Supporters(f, w, c) = Supporters(e, v, c) \cup {r} /\ r \notin Supporters(e, v, c)
  <2> HIDE DEF f
  <2> QED  BY <1>0, <1>1, <1>2, <1>3 DEF Supporters
<1>7. Cardinality(Supporters(f, w, c)) = Cardinality(Supporters(e, v, c)) + 1
  BY <1>4, <1>6, FS_AddElement
<1>8. Counted(f, w)
  <2>1. \A s \in Accounts \ f.panel : w[s] = "None"
    <3> HIDE DEF f
    <3> QED  BY <1>0, <1>2, <1>3 DEF Counted
  <2>2. \A d \in VoteChoices : f.votesFor[d] = IF d = c THEN e.votesFor[d] + 1 ELSE e.votesFor[d]
    BY <1>1, <1>3
  <2>3. \A d \in VoteChoices : e.votesFor[d] = Cardinality(Supporters(e, v, d))
    BY <1>0 DEF Counted
  <2>4. \A d \in VoteChoices : f.votesFor[d] = Cardinality(Supporters(f, w, d))
    <3> HIDE DEF f
    <3> QED  BY <1>5, <1>7, <2>2, <2>3
  <2> HIDE DEF f
  <2> QED  BY <2>1, <2>4 DEF Counted
<1>9. EscrowFunded(f)
  <2> HIDE DEF f
  <2> QED  BY <1>3 DEF EscrowFunded, Sound
<1>10. f \in Escrow
  <2>1. Cardinality(e.panel) = 3
    BY DEF Sound, EscrowFunded
  <2>2. Cardinality(Supporters(f, w, c)) <= 3
    <3> HIDE DEF f
    <3> QED  BY <1>0, <1>3, <2>1, SupportersFinite
  <2>3. e.votesFor[c] = Cardinality(Supporters(e, v, c))
    BY <1>0 DEF Counted
  <2>4. e.votesFor[c] + 1 \in 0 .. ARBITER_COUNT
    BY <1>4, <1>7, <2>2, <2>3 DEF ARBITER_COUNT
  <2>5. [e.votesFor EXCEPT ![c] = @ + 1] \in [VoteChoices -> 0 .. ARBITER_COUNT]
    BY <1>1, <2>4
  <2>6. f = [e EXCEPT !.votesFor = [e.votesFor EXCEPT ![c] = @ + 1]]
    OBVIOUS
  <2> DEFINE t == [e.votesFor EXCEPT ![c] = @ + 1]
  <2>7. f = [e EXCEPT !.votesFor = t] /\ t \in [VoteChoices -> 0 .. ARBITER_COUNT]
    BY <2>5, <2>6
  <2> HIDE DEF t, f
  <2> QED  BY <1>0, <2>7 DEF Escrow
<1>11. Justified(f, w, time) /\ Early(f, w)
  <2> HIDE DEF f
  <2> QED  BY <1>3 DEF Justified, Early, Sound
<1> QED
  BY <1>2, <1>8, <1>9, <1>10, <1>11 DEF Sound, w

\* Time passing takes nothing back.
LEMMA StaysSound ==
    ASSUME NEW e, NEW v, NEW t \in Nat, NEW u \in Nat, t <= u, Sound(e, v, t)
    PROVE  Sound(e, v, u)
<1>1. e.fallbackDeadline \in Nat
  BY DEF Sound, Escrow
<1>2. Justified(e, v, u)
  BY <1>1 DEF Justified, Sound
<1> QED
  BY <1>2 DEF Sound

-----------------------------------------------------------------------------
(* Every step preserves the invariant.                                     *)

\* A handler that rewrites the escrow and the ballots of one match.
LEMMA OneMatch ==
    ASSUME NEW m \in Matches, NEW e, NEW v, IndInv, now' = now,
           Sound(e, v, now),
           escrows' = [escrows EXCEPT ![m] = e], votes' = [votes EXCEPT ![m] = v]
    PROVE  Domains' /\ AllSound'
<1>1. e \in Escrow /\ v \in Ballots
  BY DEF Sound
<1>2. Domains'
  BY <1>1 DEF IndInv, Domains
<1>3. ASSUME NEW n \in Matches PROVE Sound(escrows'[n], votes'[n], now')
  <2>1. CASE n = m
    BY <2>1 DEF IndInv, Domains
  <2>2. CASE n # m
    BY <2>2 DEF IndInv, Domains, AllSound
  <2> QED  BY <2>1, <2>2
<1> QED
  BY <1>2, <1>3 DEF AllSound

LEMMA CreditKeeps ==
    ASSUME NEW f \in [Accounts -> Int], NEW a, NEW n \in Int
    PROVE  Credit(f, a, n) \in [Accounts -> Int]
<1>1. CASE a \in Accounts
  <2> DEFINE b == f[a] + n
  <2>1. b \in Int
    BY <1>1
  <2> HIDE DEF b
  <2>2. [f EXCEPT ![a] = b] \in [Accounts -> Int]
    BY <2>1
  <2> QED  BY <2>2 DEF Credit, b
<1>2. CASE a \notin Accounts
  <2> DEFINE b == f[a] + n
  <2> HIDE DEF b
  <2>1. [f EXCEPT ![a] = b] = [r \in Accounts |-> f[r]]
    BY <1>2
  <2>2. [r \in Accounts |-> f[r]] \in [Accounts -> Int]
    OBVIOUS
  <2>3. [f EXCEPT ![a] = b] \in [Accounts -> Int]
    BY <2>1, <2>2
  <2> QED  BY <2>3 DEF Credit, b
<1> QED  BY <1>1, <1>2

\* A settlement, with the choices that the handlers settle with.
LEMMA SettleKeeps ==
    ASSUME NEW m \in Matches, NEW c \in VoteChoices, IndInv, Settle(m, c),
           UNCHANGED <<votes, admin, now>>,
           \/ escrows[m].status = "Funded"
           \/ escrows[m].status = "Disputed" /\ QuorumChoice(escrows[m]) = c
           \/ /\ escrows[m].status = "Disputed" /\ c = "Refund"
              /\ now >= escrows[m].fallbackDeadline
              /\ QuorumChoice(escrows[m]) = "Undecided"
    PROVE  IndInv'
<1> DEFINE e == escrows[m]
           v == votes[m]
<1>0. Sound(e, v, now) /\ e \in Escrow /\ v \in Ballots /\ Counted(e, v)
  BY DEF IndInv, AllSound, Sound
<1>1. \/ e.status = "Funded"
      \/ e.status = "Disputed" /\ Agreed(e, v, c)
      \/ /\ e.status = "Disputed" /\ c = "Refund" /\ now >= e.fallbackDeadline
         /\ ~ \E d \in VoteChoices : Agreed(e, v, d)
  <2>1. c # "Undecided"
    BY DEF VoteChoices
  <2> QED  BY <1>0, <2>1, QuorumIsAgreement
<1>2. now \in Nat
  BY DEF IndInv, MoneyOK
<1> HIDE DEF e, v
<1>3. Sound([e EXCEPT !.status = "Resolved", !.outcome = c], v, now)
  BY <1>0, <1>1, <1>2, ClosedSound
<1>4. Domains' /\ AllSound'
  <2>1. escrows' = [escrows EXCEPT ![m] = [e EXCEPT !.status = "Resolved", !.outcome = c]]
    BY DEF Settle, e
  <2>2. votes' = [votes EXCEPT ![m] = v]
    BY DEF IndInv, Domains, v
  <2> QED  BY <1>3, <2>1, <2>2, OneMatch
<1>5. MoneyOK'
  <2>1. /\ e.pot \in Int /\ e.stake \in Int
        /\ tokens \in [Accounts -> Int] /\ vault \in Int
    BY <1>0 DEF Escrow, IndInv, MoneyOK
  <2>2. c \in {"PlayerA", "PlayerB", "Refund"}
    BY DEF VoteChoices
  <2>3. vault' \in Int
    BY <2>1, <2>2 DEF Settle, Release, e
  <2>4. tokens' \in [Accounts -> Int]
    <3>1. CASE c = "PlayerA"
      BY <2>1, <3>1, CreditKeeps DEF Settle, Release, e
    <3>2. CASE c = "PlayerB"
      BY <2>1, <3>2, CreditKeeps DEF Settle, Release, e
    <3>3. CASE c = "Refund"
      <4>1. Credit(tokens, e.playerA, e.stake) \in [Accounts -> Int]
        BY <2>1, CreditKeeps
      <4>2. tokens' = Credit(Credit(tokens, e.playerA, e.stake), e.playerB, e.stake)
        BY <3>3 DEF Settle, Release, e
      <4> QED  BY <2>1, <4>1, <4>2, CreditKeeps
    <3> QED  BY <2>2, <3>1, <3>2, <3>3
  <2> QED  BY <2>3, <2>4 DEF IndInv, MoneyOK
<1> QED
  BY <1>4, <1>5 DEF IndInv

\* Whoever administers an empty vault with any timelocks, nothing is staked or voted yet
\* (initialize).
THEOREM InitSound == Init => IndInv
<1> SUFFICES ASSUME Init PROVE IndInv
  OBVIOUS
<1>1. Sound(NoEscrow, [r \in Accounts |-> "None"], 0)
  BY EmptySound
<1>2. [r \in Accounts |-> "None"] \in Ballots /\ NoEscrow \in Escrow
  BY <1>1 DEF Sound
<1>3. Domains /\ AllSound
  BY <1>1, <1>2 DEF Init, Domains, AllSound
<1>4. MoneyOK
  BY ArbiterAssumption DEF Init, MoneyOK
<1> QED
  BY <1>3, <1>4 DEF IndInv

\* Each handler for a match preserves the invariant.
LEMMA MatchStepKeeps ==
    ASSUME NEW m \in Matches, IndInv, MatchStep(m)
    PROVE  IndInv'
<1> DEFINE e == escrows[m]
           v == votes[m]
<1>0. Sound(e, v, now) /\ e \in Escrow /\ v \in Ballots /\ now \in Nat /\ MoneyOK
  BY DEF IndInv, AllSound, Sound, MoneyOK
<1>1. votes = [votes EXCEPT ![m] = v]
  BY DEF IndInv, Domains
<1>2. ASSUME NEW pair \in Pairs, NEW s \in Stakes, NEW p \in Panels,
             CreateEscrow(m, pair[1], pair[2], s, p)
      PROVE  IndInv'
  <2> DEFINE n == [NoEscrow EXCEPT !.status = "AwaitingFunding", !.playerA = pair[1],
                     !.playerB = pair[2], !.stake = s, !.panel = p]
  <2>1. /\ pair[1] \in Accounts /\ pair[2] \in Accounts /\ s \in Int /\ p \in SUBSET Accounts
        /\ PanelFits(p, pair[1], pair[2]) /\ \A r \in Accounts : v[r] = "None"
    BY <1>0, <1>2, ArbiterAssumption DEF CreateEscrow, Sound, Early
  <2>2. Sound(n, v, now)
    BY <1>0, <2>1, CreatedSound
  <2>3. escrows' = [escrows EXCEPT ![m] = n] /\ votes' = votes /\ now' = now /\ MoneyOK'
    BY <1>0, <1>2 DEF CreateEscrow, MoneyOK
  <2> HIDE DEF n, v
  <2> QED  BY <1>1, <2>2, <2>3, OneMatch DEF IndInv
<1>3. ASSUME NEW isA \in BOOLEAN, FundEscrow(m, isA) PROVE IndInv'
  <2>1. e.status = "AwaitingFunding" /\ IF isA THEN ~e.fundedA ELSE ~e.fundedB
    BY <1>3 DEF FundEscrow, CanFund
  <2>2. Sound(Funded(e, isA), v, now)
    BY <1>0, <2>1, FundedSound
  <2>3. escrows' = [escrows EXCEPT ![m] = Funded(e, isA)] /\ votes' = votes /\ now' = now
    BY <1>3 DEF FundEscrow
  <2>4. MoneyOK'
    <3>1. e.stake \in Int /\ -e.stake \in Int
      BY <1>0 DEF Escrow
    <3>2. tokens' \in [Accounts -> Int]
      BY <1>0, <1>3, <3>1, CreditKeeps DEF FundEscrow, MoneyOK
    <3> QED  BY <1>0, <1>3, <3>1, <3>2 DEF FundEscrow, MoneyOK
  <2> HIDE DEF e, v
  <2> QED  BY <1>1, <2>2, <2>3, <2>4, OneMatch DEF IndInv
<1>4. ASSUME NEW c \in VoteChoices, SettleMatch(m, c) PROVE IndInv'
  BY <1>4, SettleKeeps DEF SettleMatch, Undisputed
<1>5. ASSUME SettleRefund(m) PROVE IndInv'
  BY <1>5, SettleKeeps DEF SettleRefund, Undisputed, VoteChoices
<1>6. ASSUME NEW p \in Accounts, DisputeMatch(m, p) PROVE IndInv'
  <2> DEFINE n == [e EXCEPT !.status = "Disputed", !.arbitrationDeadline = now + Window,
                            !.fallbackDeadline = now + Timelock]
  <2>1. Sound(n, v, now)
    BY <1>0, <1>6, FrozenSound DEF DisputeMatch
  <2>2. escrows' = [escrows EXCEPT ![m] = n] /\ votes' = votes /\ now' = now /\ MoneyOK'
    BY <1>0, <1>6 DEF DisputeMatch, MoneyOK
  <2> HIDE DEF n, v
  <2> QED  BY <1>1, <2>1, <2>2, OneMatch DEF IndInv
<1>7. ASSUME NEW r \in Accounts, NEW c \in VoteChoices, Vote(m, r, c) PROVE IndInv'
  <2> DEFINE n == [e EXCEPT !.votesFor[c] = @ + 1]
             w == [v EXCEPT ![r] = c]
  <2>1. e.status = "Disputed" /\ r \in e.panel /\ v[r] = "None"
    BY <1>7 DEF Vote, MayVote
  <2>2. Sound(n, w, now)
    BY <1>0, <2>1, BallotSound
  <2>3. escrows' = [escrows EXCEPT ![m] = n] /\ votes' = [votes EXCEPT ![m] = w]
    BY <1>7 DEF Vote
  <2>4. now' = now /\ MoneyOK'
    BY <1>0, <1>7 DEF Vote, MoneyOK
  <2> HIDE DEF n, w
  <2> QED  BY <2>2, <2>3, <2>4, OneMatch DEF IndInv
<1>8. ASSUME NEW c \in VoteChoices, ResolveDispute(m, c) PROVE IndInv'
  BY <1>8, SettleKeeps DEF ResolveDispute
<1>9. ASSUME ExecuteFallback(m) PROVE IndInv'
  BY <1>9, SettleKeeps DEF ExecuteFallback, MayFallBack, VoteChoices
<1> QED
  BY <1>2, <1>3, <1>4, <1>5, <1>6, <1>7, <1>8, <1>9 DEF MatchStep

\* Every step of the contract and of its clock preserves the invariant.
THEOREM StepSound == IndInv /\ [Next]_vars => IndInv'
<1> SUFFICES ASSUME IndInv, [Next]_vars PROVE IndInv'
  OBVIOUS
<1>1. ASSUME NEW m \in Matches, MatchStep(m) PROVE IndInv'
  BY <1>1, MatchStepKeeps
<1>2. ASSUME NEW a \in Admins, TransferAdmin(a) PROVE IndInv'
  BY <1>2, ArbiterAssumption DEF TransferAdmin, IndInv, Domains, MoneyOK, AllSound
<1>3. ASSUME Tick PROVE IndInv'
  <2>1. now \in Nat /\ now' = now + 1 /\ now' \in Nat
    BY <1>3 DEF Tick, IndInv, MoneyOK
  <2>2. AllSound'
    BY <1>3, <2>1, StaysSound DEF Tick, IndInv, AllSound
  <2> QED  BY <1>3, <2>1, <2>2 DEF Tick, IndInv, Domains, MoneyOK
<1>4. ASSUME UNCHANGED vars PROVE IndInv'
  BY <1>4 DEF vars, IndInv, Domains, MoneyOK, AllSound
<1> QED
  BY <1>1, <1>2, <1>3, <1>4 DEF Next

\* Escrows, ballots and the vault agree after any calls in any order (fund_escrow, vote,
\* resolve_dispute, execute_fallback).
THEOREM AlwaysSound == Spec => []IndInv
<1>1. Init => IndInv
  BY InitSound
<1>2. IndInv /\ [Next]_vars => IndInv'
  BY StepSound
<1> QED
  BY <1>1, <1>2, PTL DEF Spec

\* No sequence of calls overdraws the panel: types, and tallies of at most three.
THEOREM TypeCorrect == Spec => []TypeOK
<1>1. IndInv => TypeOK
  BY DEF IndInv, Domains, MoneyOK, TypeOK, Ballots
<1> QED
  BY <1>1, AlwaysSound, PTL

\* Whatever is settled or disputed was funded by both players.
THEOREM StakesOfBoth == Spec => []FundedByBoth
<1>1. IndInv => FundedByBoth
  BY DEF IndInv, AllSound, Sound, FundedByBoth
<1> QED
  BY <1>1, AlwaysSound, PTL

\* The tallies count the recorded ballots, each arbiter's once.
THEOREM TalliesExact == Spec => []VotesCounted
<1>1. IndInv => VotesCounted
  BY DEF IndInv, AllSound, Sound, VotesCounted
<1> QED
  BY <1>1, AlwaysSound, PTL

\* A dispute ends by two arbiters who agree, or by the timelock if no two do.
THEOREM DisputesEndByBallot == Spec => []OutcomeJustified
<1>1. IndInv => OutcomeJustified
  BY DEF IndInv, AllSound, Sound, OutcomeJustified
<1> QED
  BY <1>1, AlwaysSound, PTL

\* No ballot is changed, taken back, or cast out of time.
THEOREM SealedBallots == Spec => BallotsSealed
<1> DEFINE Kept == \A m \in Matches, r \in Accounts : BallotKept(m, r)
<1>1. IndInv /\ [Next]_vars => Kept
  <2> SUFFICES ASSUME IndInv, [Next]_vars PROVE Kept
    OBVIOUS
  <2>1. ASSUME votes' = votes PROVE Kept
    BY <2>1 DEF BallotKept
  <2>2. ASSUME NEW m \in Matches, NEW r \in Accounts, NEW c \in VoteChoices, Vote(m, r, c)
        PROVE  Kept
    BY <2>2 DEF BallotKept, Vote, MayVote, IndInv, Domains, Ballots
  <2>3. ASSUME NEW m \in Matches, MatchStep(m) PROVE Kept
    <3> SUFFICES ASSUME ~ \E r \in Accounts, c \in VoteChoices : Vote(m, r, c)
                 PROVE  votes' = votes
      BY <2>1, <2>2
    <3> QED
      BY <2>3 DEF MatchStep, CreateEscrow, FundEscrow, SettleMatch, SettleRefund, DisputeMatch,
                  ResolveDispute, ExecuteFallback
  <2> QED
    BY <2>1, <2>3 DEF Next, TransferAdmin, Tick, vars
<1> QED
  BY <1>1, AlwaysSound, PTL DEF Spec, BallotsSealed, BallotKept

-----------------------------------------------------------------------------
(* The books: every handler moves what it adds to or takes from a pot.     *)

Pots  == SumFunction([m \in Matches |-> Owed(escrows[m])])
Purses == SumFunction(tokens)

\* Paying an account changes the total by what it is paid.
LEMMA CreditAdds ==
    ASSUME NEW f \in [Accounts -> Int], NEW a \in Accounts, NEW n \in Int
    PROVE  /\ SumFunction(Credit(f, a, n)) = SumFunction(f) + n
           /\ SumFunction(f) \in Int
<1> DEFINE g == Credit(f, a, n)
<1>1. g \in [Accounts -> Int]
  BY CreditKeeps
<1>2. g[a] = f[a] + n /\ \A b \in Accounts \ {a} : g[b] = f[b]
  BY DEF Credit
<1>3. DOMAIN g = Accounts /\ DOMAIN f = Accounts /\ f[a] \in Int
  BY <1>1
<1> HIDE DEF g
<1>4. \A b \in Accounts : f[b] \in Int /\ g[b] \in Int
  BY <1>1
<1>5. /\ SumFunctionOnSet(g, Accounts) = SumFunctionOnSet(f, Accounts) + (g[a] - f[a])
      /\ SumFunctionOnSet(f, Accounts) \in Int
  BY <1>2, <1>4, ArbiterAssumption, SumChanges
<1> QED
  BY <1>2, <1>3, <1>5 DEF SumFunction, g

\* Rewriting an escrow changes the total of the pots by what it is owed more.
LEMMA PotChanges ==
    ASSUME NEW m \in Matches, NEW e \in Escrow, escrows \in [Matches -> Escrow],
           escrows' = [escrows EXCEPT ![m] = e]
    PROVE  Pots' = Pots + (Owed(e) - Owed(escrows[m])) /\ Pots \in Int
<1> DEFINE f == [n \in Matches |-> Owed(escrows[n])]
           g == [n \in Matches |-> Owed(escrows'[n])]
<1>1. \A x \in Escrow : Owed(x) \in Int
  BY DEF Owed, Escrow
<1>2. \A n \in Matches : escrows[n] \in Escrow /\ escrows'[n] \in Escrow
  OBVIOUS
<1>3. \A n \in Matches : f[n] \in Int /\ g[n] \in Int
  BY <1>1, <1>2
<1>4. f[m] = Owed(escrows[m]) /\ g[m] = Owed(e) /\ \A n \in Matches \ {m} : g[n] = f[n]
  OBVIOUS
<1>5. DOMAIN f = Matches /\ DOMAIN g = Matches /\ Pots = SumFunction(f) /\ Pots' = SumFunction(g)
  BY DEF Pots
<1> HIDE DEF f, g
<1>6. /\ SumFunctionOnSet(g, Matches) = SumFunctionOnSet(f, Matches) + (g[m] - f[m])
      /\ SumFunctionOnSet(f, Matches) \in Int
  BY <1>3, <1>4, ArbiterAssumption, SumChanges
<1> QED
  BY <1>4, <1>5, <1>6 DEF SumFunction

\* What the escrows and the accounts add up to, in the terms of the lemmas.
LEMMA SolventMeans == Solvent <=> vault = Pots /\ Purses + vault = SumFunction(StartTokens)
BY DEF Solvent, Pots, Purses

\* A settlement pays exactly the pot: what both players have put in.
LEMMA SettleSolvent ==
    ASSUME NEW m \in Matches, NEW c \in VoteChoices, IndInv, Solvent, Settle(m, c),
           escrows[m].status \in {"Funded", "Disputed"}
    PROVE  Solvent'
<1> DEFINE e == escrows[m]
           f == [e EXCEPT !.status = "Resolved", !.outcome = c]
<1>0. /\ e \in Escrow /\ EscrowFunded(e) /\ escrows \in [Matches -> Escrow]
      /\ tokens \in [Accounts -> Int] /\ vault \in Int
  BY DEF IndInv, AllSound, Sound, Domains, MoneyOK
<1>1. e.pot = 2 * e.stake /\ e.stake \in Int /\ e.pot \in Int
  BY <1>0 DEF EscrowFunded, Escrow
<1>2. e.playerA \in Accounts /\ e.playerB \in Accounts
  BY <1>0 DEF EscrowFunded
<1>3. f \in Escrow /\ Owed(f) = 0 /\ Owed(e) = e.pot
  BY <1>0 DEF Escrow, Statuses, Owed
<1>4. escrows' = [escrows EXCEPT ![m] = f]
  BY DEF Settle
<1>5. c \in {"PlayerA", "PlayerB", "Refund"}
  BY DEF VoteChoices
<1>6. Release(e, c)
  BY DEF Settle
<1> HIDE DEF f
<1>12. Pots' = Pots + (Owed(f) - Owed(escrows[m])) /\ Pots \in Int
  BY <1>0, <1>3, <1>4, PotChanges
<1> HIDE DEF e
<1>7. Pots' = Pots - e.pot /\ Pots \in Int
  BY <1>1, <1>3, <1>12 DEF e
<1>8. vault' = vault - e.pot
  BY <1>1, <1>6 DEF Release
<1>9. Purses' = Purses + e.pot /\ Purses \in Int
  <2>1. CASE c = "PlayerA"
    BY <1>0, <1>1, <1>2, <1>6, <2>1, CreditAdds DEF Release, Purses
  <2>2. CASE c = "PlayerB"
    BY <1>0, <1>1, <1>2, <1>6, <2>2, CreditAdds DEF Release, Purses
  <2>3. CASE c = "Refund"
    <3> DEFINE half == Credit(tokens, e.playerA, e.stake)
    <3>1. half \in [Accounts -> Int]
      BY <1>0, <1>1, CreditKeeps
    <3>2. SumFunction(half) = Purses + e.stake /\ Purses \in Int
      BY <1>0, <1>1, <1>2, CreditAdds DEF Purses
    <3>3. tokens' = Credit(half, e.playerB, e.stake)
      BY <1>6, <2>3 DEF Release
    <3> HIDE DEF half
    <3>4. Purses' = SumFunction(half) + e.stake
      BY <1>1, <1>2, <3>1, <3>3, CreditAdds DEF Purses
    <3> QED
      BY <1>1, <3>2, <3>4
  <2> QED
    BY <1>5, <2>1, <2>2, <2>3
<1>10. vault = Pots /\ Purses + vault = SumFunction(StartTokens)
  BY SolventMeans
<1>11. vault' = Pots' /\ Purses' + vault' = SumFunction(StartTokens)
  BY <1>0, <1>1, <1>7, <1>8, <1>9, <1>10
<1> QED
  BY <1>11 DEF Solvent, Pots, Purses

LEMMA MatchStepSolvent ==
    ASSUME NEW m \in Matches, IndInv, Solvent, MatchStep(m)
    PROVE  Solvent'
<1> DEFINE e == escrows[m]
<1>0. /\ e \in Escrow /\ EscrowFunded(e) /\ escrows \in [Matches -> Escrow]
      /\ tokens \in [Accounts -> Int] /\ vault \in Int
  BY DEF IndInv, AllSound, Sound, Domains, MoneyOK
<1>1. vault = Pots /\ Purses + vault = SumFunction(StartTokens)
  BY SolventMeans
\* A handler that rewrites the escrow but neither its pot nor any balance.
<1>2. ASSUME NEW f \in Escrow, Owed(f) = Owed(e), escrows' = [escrows EXCEPT ![m] = f],
             tokens' = tokens, vault' = vault
      PROVE  Solvent'
  <2>1. Owed(e) \in Int
    BY <1>0 DEF Owed, Escrow
  <2>2. Pots' = Pots + (Owed(f) - Owed(escrows[m])) /\ Pots \in Int
    BY <1>0, <1>2, PotChanges
  <2>3. Pots' = Pots
    BY <1>2, <2>1, <2>2
  <2>4. Purses' = Purses
    BY <1>2 DEF Purses
  <2> QED
    BY <1>1, <1>2, <2>3, <2>4 DEF Solvent, Pots, Purses
<1>3. ASSUME NEW pair \in Pairs, NEW s \in Stakes, NEW p \in Panels,
             CreateEscrow(m, pair[1], pair[2], s, p)
      PROVE  Solvent'
  <2> DEFINE n == [NoEscrow EXCEPT !.status = "AwaitingFunding", !.playerA = pair[1],
                     !.playerB = pair[2], !.stake = s, !.panel = p]
  <2>1. pair[1] \in Accounts /\ pair[2] \in Accounts /\ s \in Int /\ p \in SUBSET Accounts
    BY ArbiterAssumption
  <2>2. n \in Escrow /\ n.pot = 0 /\ n.status = "AwaitingFunding"
    BY <2>1, NoEscrowFields DEF Escrow, Statuses
  <2>3. e.status = "None" /\ e.pot = 0
    <3>1. e.status = "None"
      BY <1>3 DEF CreateEscrow
    <3>2. Early(e, votes[m])
      BY DEF IndInv, AllSound, Sound
    <3> QED
      BY <3>1, <3>2 DEF Early
  <2>4. escrows' = [escrows EXCEPT ![m] = n] /\ tokens' = tokens /\ vault' = vault
    BY <1>3 DEF CreateEscrow
  <2> HIDE DEF n
  <2>5. Owed(n) = Owed(e)
    BY <2>2, <2>3 DEF Owed
  <2> HIDE DEF e
  <2> QED
    BY <1>2, <2>2, <2>4, <2>5
<1>4. ASSUME NEW isA \in BOOLEAN, FundEscrow(m, isA)  PROVE Solvent'
  <2> DEFINE f == Funded(e, isA)
             p == IF isA THEN e.playerA ELSE e.playerB
  <2>1. e.status = "AwaitingFunding" /\ IF isA THEN ~e.fundedA ELSE ~e.fundedB
    BY <1>4 DEF FundEscrow, CanFund
  <2>2. /\ escrows' = [escrows EXCEPT ![m] = f]
        /\ tokens' = Credit(tokens, p, -e.stake) /\ vault' = vault + e.stake
    BY <1>4 DEF FundEscrow
  <2>3. f \in Escrow
    <3>1. Sound(e, votes[m], now) /\ now \in Nat
      BY DEF IndInv, AllSound, MoneyOK
    <3> QED
      BY <2>1, <3>1, FundedSound DEF Sound
  <2>4. /\ e.stake \in Int /\ -e.stake \in Int /\ e.pot \in Int
        /\ f.pot = e.pot + e.stake /\ f.status # "Resolved" /\ p \in Accounts
    BY <1>0, <2>1 DEF Funded, Escrow, EscrowFunded
  <2>5. Owed(f) - Owed(e) = e.stake
    BY <2>1, <2>4 DEF Owed
  <2> HIDE DEF f, e, p
  <2>6. Pots' = Pots + e.stake /\ Pots \in Int
    BY <1>0, <2>2, <2>3, <2>5, PotChanges DEF e
  <2>7. Purses' = Purses + (-e.stake) /\ Purses \in Int
    BY <1>0, <2>2, <2>4, CreditAdds DEF Purses
  <2>8. vault' = Pots' /\ Purses' + vault' = SumFunction(StartTokens)
    BY <1>0, <1>1, <2>2, <2>4, <2>6, <2>7
  <2> QED
    BY <2>8 DEF Solvent, Pots, Purses
<1>5. ASSUME NEW p \in Accounts, DisputeMatch(m, p)  PROVE Solvent'
  <2> DEFINE n == [e EXCEPT !.status = "Disputed", !.arbitrationDeadline = now + Window,
                            !.fallbackDeadline = now + Timelock]
  <2>1. now + Window \in Nat /\ now + Timelock \in Nat
    BY ArbiterAssumption DEF IndInv, MoneyOK
  <2>2. n \in Escrow /\ n.pot = e.pot /\ n.status = "Disputed" /\ e.status = "Funded"
    BY <1>0, <1>5, <2>1 DEF Escrow, Statuses, DisputeMatch
  <2>3. escrows' = [escrows EXCEPT ![m] = n] /\ tokens' = tokens /\ vault' = vault
    BY <1>5 DEF DisputeMatch
  <2> HIDE DEF n
  <2>4. Owed(n) = Owed(e)
    BY <2>2 DEF Owed
  <2> HIDE DEF e
  <2> QED
    BY <1>2, <2>2, <2>3, <2>4
<1>6. ASSUME NEW r \in Accounts, NEW c \in VoteChoices, Vote(m, r, c)  PROVE Solvent'
  <2> DEFINE n == [e EXCEPT !.votesFor[c] = @ + 1]
  <2>1. n.pot = e.pot /\ n.status = e.status
    BY <1>0 DEF Escrow
  <2>2. escrows' = [escrows EXCEPT ![m] = n] /\ tokens' = tokens /\ vault' = vault
    BY <1>6 DEF Vote
  <2>3. n \in Escrow
    <3>1. Sound(e, votes[m], now) /\ now \in Nat
      BY DEF IndInv, AllSound, MoneyOK
    <3>2. e.status = "Disputed" /\ r \in e.panel /\ votes[m][r] = "None"
      BY <1>6 DEF Vote, MayVote
    <3> QED
      BY <3>1, <3>2, BallotSound DEF Sound
  <2> HIDE DEF n
  <2>4. Owed(n) = Owed(e)
    BY <2>1 DEF Owed
  <2> HIDE DEF e
  <2> QED
    BY <1>2, <2>2, <2>3, <2>4
<1>7. CASE \E c \in VoteChoices : SettleMatch(m, c)
  BY <1>7, SettleSolvent DEF SettleMatch, Undisputed
<1>8. CASE SettleRefund(m)
  BY <1>8, SettleSolvent DEF SettleRefund, Undisputed, VoteChoices
<1>9. CASE \E c \in VoteChoices : ResolveDispute(m, c)
  BY <1>9, SettleSolvent DEF ResolveDispute
<1>10. CASE ExecuteFallback(m)
  BY <1>10, SettleSolvent DEF ExecuteFallback, MayFallBack, VoteChoices
<1> QED
  BY <1>3, <1>4, <1>5, <1>6, <1>7, <1>8, <1>9, <1>10 DEF MatchStep

\* The contract holds the pots of the open matches, neither more nor less, and
\* contract and accounts together always hold what there was at the start.
THEOREM PotsCovered == Spec => []Solvent
<1>1. Init => Solvent
  <2> SUFFICES ASSUME Init PROVE Solvent
    OBVIOUS
  <2> DEFINE f == [m \in Matches |-> Owed(escrows[m])]
  <2>1. \A m \in Matches : f[m] = 0
    BY NoEscrowFields DEF Init, Owed
  <2>2. DOMAIN f = Matches
    OBVIOUS
  <2>3. Pots = SumFunction(f)
    BY DEF Pots
  <2> HIDE DEF f
  <2>4. Pots = 0
    BY <2>1, <2>2, <2>3, SumOfZeros, ArbiterAssumption DEF SumFunction
  <2>5. SumFunction(StartTokens) \in Int
    <3>1. DOMAIN StartTokens = Accounts /\ \A a \in Accounts : StartTokens[a] \in Int
      BY ArbiterAssumption
    <3> QED
      BY <3>1, SumIsInt, ArbiterAssumption DEF SumFunction
  <2> QED
    BY <2>4, <2>5 DEF Init, Solvent, Pots
<1>2. Solvent /\ IndInv /\ [Next]_vars => Solvent'
  <2> SUFFICES ASSUME Solvent, IndInv, [Next]_vars PROVE Solvent'
    OBVIOUS
  <2>1. ASSUME UNCHANGED <<escrows, tokens, vault>> PROVE Solvent'
    BY <2>1 DEF Solvent
  <2> QED
    BY <2>1, MatchStepSolvent DEF Next, TransferAdmin, Tick, vars
<1> QED
  BY <1>1, <1>2, AlwaysSound, PTL DEF Spec

-----------------------------------------------------------------------------
(* The escrow keeps the promise of Arbitration.                            *)

Verdicts == [m \in Matches |-> escrows[m].outcome]
Panel    == [m \in Matches |-> escrows[m].panel]

LEMMA PhaseValues ==
    ASSUME NEW e, NEW time
    PROVE  /\ e.status = "None" => PhaseOf(e, time) = "Open"
           /\ e.status = "AwaitingFunding" => PhaseOf(e, time) = "Appointed"
           /\ e.status = "Funded" => PhaseOf(e, time) = "Locked"
           /\ e.status = "Disputed" => PhaseOf(e, time) =
                                        IF time < e.fallbackDeadline THEN "Frozen" ELSE "Overdue"
           /\ e.status = "Resolved" => PhaseOf(e, time) = "Closed"
BY DEF PhaseOf

\* What a handler that rewrites one escrow changes of the phases.
LEMMA PhaseMoves ==
    ASSUME NEW m \in Matches, now' = now,
           \A h \in Matches \ {m} : escrows'[h] = escrows[h]
    PROVE  /\ phase' = [phase EXCEPT ![m] = PhaseOf(escrows'[m], now)]
           /\ phase[m] = PhaseOf(escrows[m], now)
<1> DEFINE x == PhaseOf(escrows'[m], now)
<1>1. phase' = [h \in Matches |-> IF h = m THEN x ELSE PhaseOf(escrows[h], now)]
  BY DEF phase
<1> HIDE DEF x
<1>2. [phase EXCEPT ![m] = x] = [h \in Matches |-> IF h = m THEN x ELSE PhaseOf(escrows[h], now)]
  BY DEF phase
<1> QED
  BY <1>1, <1>2 DEF phase, x

\* Closing a match, in the words of the promise.
LEMMA SettleCloses ==
    ASSUME NEW m \in Matches, NEW c \in VoteChoices, IndInv, Settle(m, c), UNCHANGED <<votes, now>>
    PROVE  Promise!Close(m, c)
<1>1. escrows \in [Matches -> Escrow] /\ escrows[m] \in Escrow
  BY DEF IndInv, Domains
<1> DEFINE e == escrows[m]
           f == [e EXCEPT !.status = "Resolved", !.outcome = c]
<1>2. escrows' = [escrows EXCEPT ![m] = f]
  BY DEF Settle
<1>3. f.status = "Resolved" /\ f.outcome = c /\ f.panel = e.panel
  BY <1>1 DEF Escrow
<1>4. escrows'[m] = f /\ \A n \in Matches \ {m} : escrows'[n] = escrows[n]
  BY <1>1, <1>2
<1> HIDE DEF f
<1>5. phase' = [phase EXCEPT ![m] = "Closed"]
  BY <1>3, <1>4, PhaseMoves, PhaseValues
<1>6. Verdicts' = [Verdicts EXCEPT ![m] = c]
  BY <1>3, <1>4 DEF Verdicts
<1>7. Panel' = Panel
  BY <1>3, <1>4 DEF Panel
<1> QED
  BY <1>5, <1>6, <1>7 DEF Promise!Close, Verdicts, Panel

\* A majority of the promise is an agreement of the escrow.
LEMMA MajorityIsAgreement ==
    ASSUME NEW m \in Matches, NEW c
    PROVE  Promise!Majority(m, c) <=> Agreed(escrows[m], votes[m], c)
BY DEF Promise!Majority, Agreed

LEMMA MatchStepAllowed ==
    ASSUME NEW m \in Matches, IndInv, MatchStep(m)
    PROVE  Promise!MatchNext(m) \/ UNCHANGED <<phase, Panel, votes, Verdicts>>
<1> DEFINE e == escrows[m]
           v == votes[m]
<1>0. /\ Sound(e, v, now) /\ e \in Escrow /\ v \in Ballots /\ Counted(e, v)
      /\ escrows \in [Matches -> Escrow] /\ votes \in [Matches -> Ballots] /\ now \in Nat
  BY DEF IndInv, AllSound, Sound, MoneyOK, Domains
<1>2. ASSUME NEW pair \in Pairs, NEW s \in Stakes, NEW p \in Panels,
             CreateEscrow(m, pair[1], pair[2], s, p)
      PROVE  Promise!Appoint(m, p) /\ p \in SUBSET Accounts
  <2> DEFINE n == [NoEscrow EXCEPT !.status = "AwaitingFunding", !.playerA = pair[1],
                     !.playerB = pair[2], !.stake = s, !.panel = p]
  <2>1. n.status = "AwaitingFunding" /\ n.panel = p /\ n.outcome = "Undecided"
    BY NoEscrowFields DEF Escrow
  <2>2. escrows' = [escrows EXCEPT ![m] = n]
    BY <1>2 DEF CreateEscrow
  <2>3. escrows'[m] = n /\ \A h \in Matches \ {m} : escrows'[h] = escrows[h]
    BY <1>0, <2>2
  <2>4. e.status = "None" /\ e.outcome = "Undecided"
    BY <1>0, <1>2 DEF CreateEscrow, Sound, Justified
  <2> HIDE DEF n
  <2>5. now' = now /\ votes' = votes /\ Cardinality(p) = 3
    BY <1>2 DEF CreateEscrow, PanelFits, ARBITER_COUNT
  <2>6. phase' = [phase EXCEPT ![m] = "Appointed"] /\ phase[m] = "Open"
    BY <2>1, <2>3, <2>4, <2>5, PhaseMoves, PhaseValues
  <2>7. Panel' = [Panel EXCEPT ![m] = p] /\ Verdicts' = Verdicts
    BY <2>1, <2>3, <2>4 DEF Panel, Verdicts
  <2>8. p \in SUBSET Accounts
    BY ArbiterAssumption
  <2>9. Promise!Appoint(m, p)
    <3>1. Promise!Cardinality(p) = Cardinality(p)
      BY DEF Promise!Cardinality, Cardinality
    <3> QED  BY <2>5, <2>6, <2>7, <3>1 DEF Promise!Appoint, Panel, Verdicts
  <2> QED
    BY <2>8, <2>9
<1>3. ASSUME NEW isA \in BOOLEAN, FundEscrow(m, isA)
      PROVE  Promise!Lock(m) \/ UNCHANGED <<phase, Panel, votes, Verdicts>>
  <2> DEFINE n == Funded(e, isA)
  <2>1. n.status \in {"AwaitingFunding", "Funded"} /\ n.panel = e.panel /\ n.outcome = e.outcome
    BY <1>0, <1>3 DEF FundEscrow, CanFund, Funded, Escrow
  <2>2. escrows' = [escrows EXCEPT ![m] = n]
    BY <1>3 DEF FundEscrow
  <2>3. escrows'[m] = n /\ \A h \in Matches \ {m} : escrows'[h] = escrows[h]
    BY <1>0, <2>2
  <2> HIDE DEF n
  <2>4. e.status = "AwaitingFunding" /\ now' = now /\ votes' = votes
    BY <1>3 DEF FundEscrow, CanFund
  <2>5. phase[m] = "Appointed"
    BY <2>3, <2>4, PhaseMoves, PhaseValues
  <2>6. Panel' = Panel /\ Verdicts' = Verdicts
    BY <2>1, <2>3 DEF Panel, Verdicts
  <2>7. CASE n.status = "Funded"
    <3>1. phase' = [phase EXCEPT ![m] = "Locked"]
      BY <2>3, <2>4, <2>7, PhaseMoves, PhaseValues
    <3> QED  BY <2>4, <2>5, <2>6, <3>1 DEF Promise!Lock, Panel, Verdicts
  <2>8. CASE n.status = "AwaitingFunding"
    <3>1. PhaseOf(n, now) = PhaseOf(e, now)
      BY <2>4, <2>8, PhaseValues
    <3>2. phase' = phase
      BY <2>3, <2>4, <3>1 DEF phase
    <3> QED  BY <2>4, <2>6, <3>2
  <2> QED  BY <2>1, <2>7, <2>8
<1>4. ASSUME NEW c \in VoteChoices, Settle(m, c), UNCHANGED <<votes, now>>, e.status = "Funded"
      PROVE  Promise!Agree(m, c)
  <2>1. phase[m] = "Locked"
    BY <1>4, PhaseValues DEF phase
  <2> QED  BY <1>4, <2>1, SettleCloses DEF Promise!Agree
<1>5. ASSUME NEW p \in Accounts, DisputeMatch(m, p) PROVE Promise!Freeze(m)
  <2> DEFINE n == [e EXCEPT !.status = "Disputed", !.arbitrationDeadline = now + Window,
                            !.fallbackDeadline = now + Timelock]
  <2>1. n.status = "Disputed" /\ n.panel = e.panel /\ n.outcome = e.outcome
        /\ now < n.fallbackDeadline
    BY <1>0, ArbiterAssumption DEF Escrow
  <2>2. escrows' = [escrows EXCEPT ![m] = n] /\ e.status = "Funded" /\ now' = now /\ votes' = votes
    BY <1>5 DEF DisputeMatch
  <2>3. escrows'[m] = n /\ \A h \in Matches \ {m} : escrows'[h] = escrows[h]
    BY <1>0, <2>2
  <2> HIDE DEF n
  <2>4. phase' = [phase EXCEPT ![m] = "Frozen"] /\ phase[m] = "Locked"
    BY <2>1, <2>2, <2>3, PhaseMoves, PhaseValues
  <2>5. Panel' = Panel /\ Verdicts' = Verdicts
    BY <2>1, <2>3 DEF Panel, Verdicts
  <2> QED  BY <2>2, <2>4, <2>5 DEF Promise!Freeze, Panel, Verdicts
<1>6. ASSUME NEW r \in Accounts, NEW c \in VoteChoices, Vote(m, r, c)
      PROVE  Promise!Cast(m, r, c)
  <2> DEFINE n == [e EXCEPT !.votesFor[c] = @ + 1]
  <2>1. /\ n.status = e.status /\ n.panel = e.panel /\ n.outcome = e.outcome
        /\ n.fallbackDeadline = e.fallbackDeadline
    BY <1>0 DEF Escrow
  <2>2. escrows' = [escrows EXCEPT ![m] = n] /\ now' = now
    BY <1>6 DEF Vote
  <2>3. escrows'[m] = n /\ \A h \in Matches \ {m} : escrows'[h] = escrows[h]
    BY <1>0, <2>2
  <2> HIDE DEF n
  <2>4. /\ e.status = "Disputed" /\ r \in e.panel /\ v[r] = "None"
        /\ now < e.arbitrationDeadline /\ e.arbitrationDeadline <= e.fallbackDeadline
    BY <1>0, <1>6 DEF Vote, MayVote, Sound, Early
  <2>5. e.arbitrationDeadline \in Nat /\ e.fallbackDeadline \in Nat
    BY <1>0 DEF Escrow
  <2>6. phase[m] = "Frozen"
    BY <1>0, <2>4, <2>5, PhaseValues DEF phase
  <2>9. PhaseOf(n, now) = PhaseOf(e, now)
    BY <2>1, <2>4, PhaseValues
  <2>7. phase' = phase /\ Panel' = Panel /\ Verdicts' = Verdicts
    BY <2>1, <2>2, <2>3, <2>9 DEF phase, Panel, Verdicts
  <2>8. votes' = [votes EXCEPT ![m][r] = c]
    BY <1>6 DEF Vote
  <2> QED  BY <2>4, <2>6, <2>7, <2>8 DEF Promise!Cast, Panel, Verdicts
<1>7. ASSUME NEW c \in VoteChoices, ResolveDispute(m, c) PROVE Promise!Rule(m, c)
  <2>1. e.status = "Disputed" /\ QuorumChoice(e) = c /\ c # "Undecided"
    BY <1>7 DEF ResolveDispute, VoteChoices
  <2>2. phase[m] \in {"Frozen", "Overdue"}
    BY <2>1, PhaseValues DEF phase
  <2>3. Promise!Majority(m, c)
    BY <1>0, <2>1, QuorumIsAgreement, MajorityIsAgreement
  <2>4. Promise!Close(m, c)
    BY <1>7, SettleCloses DEF ResolveDispute
  <2> QED  BY <2>2, <2>3, <2>4 DEF Promise!Rule
<1>8. ASSUME ExecuteFallback(m) PROVE Promise!Lapse(m)
  <2>1. e.status = "Disputed" /\ QuorumChoice(e) = "Undecided" /\ now >= e.fallbackDeadline
    BY <1>8 DEF ExecuteFallback, MayFallBack
  <2>2. e.fallbackDeadline \in Nat
    BY <1>0 DEF Escrow
  <2>3. phase[m] = "Overdue"
    BY <1>0, <2>1, <2>2, PhaseValues DEF phase
  <2>4. ~ \E c \in VoteChoices : Promise!Majority(m, c)
    BY <1>0, <2>1, QuorumIsAgreement, MajorityIsAgreement
  <2>5. Promise!Close(m, "Refund")
    BY <1>8, SettleCloses DEF ExecuteFallback, VoteChoices
  <2> QED  BY <2>3, <2>4, <2>5 DEF Promise!Lapse
<1>9. CASE \/ \E c \in VoteChoices : SettleMatch(m, c)
           \/ SettleRefund(m)
  <2>1. \E c \in VoteChoices : Promise!Agree(m, c)
    BY <1>4, <1>9 DEF SettleMatch, SettleRefund, Undisputed, VoteChoices
  <2> QED  BY <2>1 DEF Promise!MatchNext
<1> QED
  BY <1>2, <1>3, <1>5, <1>6, <1>7, <1>8, <1>9 DEF MatchStep, Promise!MatchNext

\* Only the passing of time makes a dispute overdue.
LEMMA TickExpires ==
    ASSUME IndInv, Tick
    PROVE  Promise!Expire
<1> DEFINE S == {m \in Matches : phase[m] = "Frozen" /\ now' >= escrows[m].fallbackDeadline}
<1>1. escrows' = escrows /\ votes' = votes /\ now \in Nat /\ now' = now + 1
  BY DEF Tick, IndInv, MoneyOK
<1>2. \A m \in Matches : escrows[m].fallbackDeadline \in Nat
  BY DEF IndInv, Domains, Escrow
<1>3. ASSUME NEW m \in Matches
      PROVE  phase'[m] = IF m \in S THEN "Overdue" ELSE phase[m]
  <2>1. /\ phase[m] = PhaseOf(escrows[m], now) /\ phase'[m] = PhaseOf(escrows[m], now')
        /\ escrows[m].status \in Statuses /\ escrows[m].fallbackDeadline \in Nat
    BY <1>1, <1>2 DEF phase, IndInv, Domains, Escrow
  <2>2. CASE escrows[m].status = "Disputed"
    BY <1>1, <2>1, <2>2, PhaseValues
  <2>3. CASE escrows[m].status # "Disputed"
    BY <1>1, <2>1, <2>3, PhaseValues DEF Statuses
  <2> QED  BY <2>2, <2>3
<1>4. phase' = [m \in Matches |-> IF m \in S THEN "Overdue" ELSE phase[m]]
  BY <1>3 DEF phase
<1>5. Panel' = Panel /\ Verdicts' = Verdicts
  BY <1>1 DEF Panel, Verdicts
<1>6. S \in SUBSET {m \in Matches : phase[m] = "Frozen"}
  OBVIOUS
<1> HIDE DEF S
<1> QED
  BY <1>1, <1>4, <1>5, <1>6 DEF Promise!Expire, Panel, Verdicts

\* The contract implements Arbitration.
THEOREM Refinement == Spec => ImplementsArbitration
<1>1. Init => Promise!Init
  <2> SUFFICES ASSUME Init PROVE Promise!Init
    OBVIOUS
  <2>1. \A m \in Matches : escrows[m] = NoEscrow
    BY DEF Init
  <2>2. phase = [m \in Matches |-> "Open"]
    BY <2>1, NoEscrowFields, PhaseValues DEF phase
  <2>3. Panel = [m \in Matches |-> {}] /\ Verdicts = [m \in Matches |-> "Undecided"]
    BY <2>1, NoEscrowFields DEF Panel, Verdicts
  <2> QED
    BY <2>2, <2>3 DEF Init, Promise!Init, Panel, Verdicts
<1>2. IndInv /\ [Next]_vars => [Promise!Next]_<<phase, Panel, votes, Verdicts>>
  <2> SUFFICES ASSUME IndInv, [Next]_vars
               PROVE  [Promise!Next]_<<phase, Panel, votes, Verdicts>>
    OBVIOUS
  <2>1. ASSUME NEW m \in Matches, MatchStep(m)
        PROVE  Promise!Next \/ UNCHANGED <<phase, Panel, votes, Verdicts>>
    BY <2>1, MatchStepAllowed DEF Promise!Next
  <2>2. ASSUME UNCHANGED <<escrows, votes, now>>
        PROVE  UNCHANGED <<phase, Panel, votes, Verdicts>>
    BY <2>2 DEF phase, Panel, Verdicts
  <2>3. ASSUME Tick PROVE Promise!Next
    BY <2>3, TickExpires DEF Promise!Next
  <2> QED
    BY <2>1, <2>2, <2>3 DEF Next, TransferAdmin, vars
<1> QED
  BY <1>1, <1>2, AlwaysSound, PTL DEF Spec, ImplementsArbitration, Promise!Spec, Panel, Verdicts

-----------------------------------------------------------------------------
(***************************************************************************)
(* CircuitBreaker.  BreakerSound is inductive as it stands.                *)
(***************************************************************************)
\* A balance that changes changes what is held by as much.
LEMMA HeldChanges ==
    ASSUME balance \in [Holders -> Nat], NEW h \in Holders, NEW x \in Nat,
           balance' = [balance EXCEPT ![h] = x]
    PROVE  Held' = Held + (x - balance[h]) /\ Held \in Int
<1>1. \A y \in Holders : balance[y] \in Int /\ balance'[y] \in Int
  OBVIOUS
<1>2. \A y \in Holders \ {h} : balance'[y] = balance[y]
  OBVIOUS
<1>3. balance'[h] = x
  OBVIOUS
<1>4. IsFiniteSet(Holders)
  BY BreakerAssumption
<1> SUFFICES ASSUME NEW before, before = balance, NEW after, after = balance'
             PROVE  /\ SumFunctionOnSet(after, Holders)
                         = SumFunctionOnSet(before, Holders) + (x - before[h])
                    /\ SumFunctionOnSet(before, Holders) \in Int
  BY DEF Held
<1>5. /\ \A y \in Holders : before[y] \in Int /\ after[y] \in Int
      /\ \A y \in Holders \ {h} : after[y] = before[y]
      /\ after[h] = x
  BY <1>1, <1>2, <1>3
<1>6. /\ SumFunctionOnSet(after, Holders)
           = SumFunctionOnSet(before, Holders) + (after[h] - before[h])
      /\ SumFunctionOnSet(before, Holders) \in Int
  BY ZenonT(40), <1>4, <1>5, SumChanges
<1> QED
  BY <1>5, <1>6

LEMMA BreakerStarts == BreakerInit => BreakerSound
<1> SUFFICES ASSUME BreakerInit
             PROVE  BreakerSound
  OBVIOUS
<1>1. BreakerTypeOK
  <2>1. /\ matchEscrow \in [Escrows -> [player : Holders \cup {NoHolder}, amount : Nat]]
        /\ balance \in [Holders -> Nat]
    BY DEF BreakerInit
  <2>2. /\ pendingAdmin \in [candidate : Holders \cup {NoHolder}, effectiveAt : Nat]
        /\ proposal \in [by : Holders \cup {NoHolder}, at : Nat]
    BY DEF BreakerInit, NoHandover
  <2>3. breakerAdmin \in Holders /\ paused \in BOOLEAN
    BY Zenon DEF BreakerInit
  <2>4. totalSupply \in Int /\ clock \in Nat /\ rescued \in Nat
    BY DEF BreakerInit
  <2> QED
    BY <2>1, <2>2, <2>3, <2>4 DEF BreakerTypeOK
<1>2. SupplyMatchesBalances
  <2>1. IsFiniteSet(Holders) /\ \A h \in Holders : balance[h] = 0
    BY BreakerAssumption DEF BreakerInit
  <2>2. Held = 0
    BY <2>1, SumOfZeros DEF Held
  <2> QED
    BY <2>2 DEF BreakerInit, SupplyMatchesBalances
<1>3. HandoverByAdmin
  BY DEF BreakerInit, HandoverByAdmin, NoHandover
<1> QED
  BY <1>1, <1>2, <1>3 DEF BreakerSound

LEMMA BreakerKept == BreakerSound /\ [BreakerNext]_breakerVars => BreakerSound'
<1> SUFFICES ASSUME BreakerSound, [BreakerNext]_breakerVars
             PROVE  BreakerSound'
  OBVIOUS
<1>a. /\ BreakerTypeOK /\ SupplyMatchesBalances /\ HandoverByAdmin
      /\ balance \in [Holders -> Nat]
      /\ totalSupply \in Int /\ rescued \in Nat
  BY DEF BreakerSound, BreakerTypeOK
\* A call on the books: one balance, the supply and what was rescued.
<1>b. ASSUME NEW h \in Holders, NEW x \in Nat, NEW r \in Nat,
             balance' = [balance EXCEPT ![h] = x],
             rescued' = r,
             totalSupply' = totalSupply + (x - balance[h]) - (r - rescued)
      PROVE  SupplyMatchesBalances' /\ totalSupply' \in Int
  <2>1. Held' = Held + (x - balance[h]) /\ Held \in Int
    BY <1>a, <1>b, HeldChanges
  <2>2. balance[h] \in Nat
    BY <1>a
  <2> QED
    BY <1>a, <1>b, <2>1, <2>2 DEF SupplyMatchesBalances
<1>c. ASSUME UNCHANGED <<balance, totalSupply, rescued>>
      PROVE  SupplyMatchesBalances'
  BY <1>a, <1>c DEF SupplyMatchesBalances, Held
<1>d. ASSUME UNCHANGED <<breakerAdmin, pendingAdmin, proposal>>
      PROVE  HandoverByAdmin'
  BY <1>a, <1>d DEF HandoverByAdmin
<1>1. ASSUME NEW h \in Holders, NEW amount \in Sums, Issue(h, amount)
      PROVE  BreakerSound'
  <2>1. amount \in Nat /\ balance[h] \in Nat /\ balance[h] + amount \in Nat
    BY <1>a, BreakerAssumption
  <2>2. SupplyMatchesBalances' /\ totalSupply' \in Int
    <3>1. /\ balance' = [balance EXCEPT ![h] = balance[h] + amount]
          /\ rescued' = rescued
          /\ totalSupply' = totalSupply + amount
      BY <1>1 DEF Issue
    <3>2. totalSupply' = totalSupply + ((balance[h] + amount) - balance[h]) - (rescued - rescued)
      BY <1>a, <2>1, <3>1
    <3> QED
      BY <1>a, <1>b, <2>1, <3>1, <3>2
  <2>3. BreakerTypeOK'
    BY <1>1, <1>a, <2>1, <2>2 DEF Issue, BreakerTypeOK
  <2> QED
    BY <1>1, <1>d, <2>2, <2>3 DEF Issue, BreakerSound
<1>2. ASSUME NEW h \in Holders, NEW amount \in Sums,
             \/ Claim(h, amount)
             \/ \E e \in Escrows : DepositMatch(h, e, amount)
      PROVE  BreakerSound'
  <2>1. /\ amount \in Nat /\ balance[h] \in Nat /\ balance[h] - amount \in Nat
        /\ balance' = [balance EXCEPT ![h] = balance[h] - amount]
        /\ rescued' = rescued
        /\ totalSupply' = totalSupply - amount
    BY <1>a, <1>2, BreakerAssumption DEF Claim, DepositMatch
  <2>2. totalSupply' = totalSupply + ((balance[h] - amount) - balance[h]) - (rescued - rescued)
    BY <1>a, <2>1
  <2>3. SupplyMatchesBalances' /\ totalSupply' \in Int
    BY <1>a, <1>b, <2>1, <2>2
  <2>4. BreakerTypeOK'
    BY <1>2, <1>a, <2>1, <2>3 DEF Claim, DepositMatch, BreakerTypeOK
  <2> QED
    BY <1>2, <1>d, <2>3, <2>4 DEF Claim, DepositMatch, BreakerSound
<1>3. ASSUME NEW h \in Holders, NEW amount \in Sums, EmergencyRescue(h, amount)
      PROVE  BreakerSound'
  <2>1. /\ amount \in Nat /\ balance[h] \in Nat /\ balance[h] + amount \in Nat
        /\ balance' = [balance EXCEPT ![h] = balance[h] + amount]
        /\ rescued' = rescued + amount /\ rescued + amount \in Nat
        /\ totalSupply' = totalSupply
    BY <1>a, <1>3, BreakerAssumption DEF EmergencyRescue
  <2>2. totalSupply'
          = totalSupply + ((balance[h] + amount) - balance[h]) - ((rescued + amount) - rescued)
    BY <1>a, <2>1
  <2>3. SupplyMatchesBalances' /\ totalSupply' \in Int
    BY <1>a, <1>b, <2>1, <2>2
  <2>4. BreakerTypeOK'
    BY <1>3, <1>a, <2>1, <2>3 DEF EmergencyRescue, BreakerTypeOK
  <2> QED
    BY <1>3, <1>d, <2>3, <2>4 DEF EmergencyRescue, BreakerSound
<1>4. ASSUME NEW e \in Escrows, AdminRefundMatch(e)
      PROVE  BreakerSound'
  <2> DEFINE h == matchEscrow[e].player
             amount == matchEscrow[e].amount
  <2>1. /\ h \in Holders /\ amount \in Nat
        /\ balance' = [balance EXCEPT ![h] = balance[h] + amount]
        /\ rescued' = rescued
        /\ totalSupply' = totalSupply + amount
        /\ matchEscrow' = [matchEscrow EXCEPT ![e] = [player |-> NoHolder, amount |-> 0]]
        /\ UNCHANGED <<breakerAdmin, paused, pendingAdmin, clock, proposal>>
    BY <1>a, <1>4 DEF AdminRefundMatch, SupplyAfterRefund, BreakerTypeOK
  <2> HIDE DEF h, amount
  <2>2. balance[h] \in Nat /\ balance[h] + amount \in Nat
    BY <1>a, <2>1
  <2>3. totalSupply' = totalSupply + ((balance[h] + amount) - balance[h]) - (rescued - rescued)
    BY <1>a, <2>1, <2>2
  <2>4. SupplyMatchesBalances' /\ totalSupply' \in Int
    BY <1>a, <1>b, <2>1, <2>2, <2>3
  <2>5. BreakerTypeOK'
    BY <1>a, <2>1, <2>2, <2>4 DEF BreakerTypeOK
  <2> QED
    BY <1>d, <2>1, <2>4, <2>5 DEF BreakerSound
<1>5. CASE PauseBreaker \/ TimePasses \/ UNCHANGED breakerVars
  <2>1. BreakerTypeOK'
    <3>1. CASE PauseBreaker
      BY <1>a, <3>1 DEF PauseBreaker, Books, BreakerTypeOK
    <3>2. CASE TimePasses
      BY <1>a, <3>2 DEF TimePasses, Books, BreakerTypeOK
    <3>3. CASE UNCHANGED breakerVars
      BY <1>a, <3>3 DEF breakerVars, BreakerTypeOK
    <3> QED
      BY <1>5, <3>1, <3>2, <3>3
  <2> QED
    BY <1>5, <1>c, <1>d, <2>1 DEF PauseBreaker, TimePasses, breakerVars, Books, BreakerSound
<1>6. ASSUME NEW h \in Holders, TransferBreakerAdmin(h)
      PROVE  BreakerSound'
  <2>1. BreakerTypeOK'
    BY <1>a, <1>6, BreakerAssumption DEF TransferBreakerAdmin, Books, BreakerTypeOK
  <2>2. HandoverByAdmin'
    BY <1>6 DEF TransferBreakerAdmin, HandoverByAdmin
  <2> QED
    BY <1>6, <1>c, <2>1, <2>2 DEF TransferBreakerAdmin, Books, BreakerSound
<1>7. CASE AcceptAdminTransfer \/ CancelAdminTransfer
  <2>1. BreakerTypeOK'
    BY <1>a, <1>7
       DEF AcceptAdminTransfer, CancelAdminTransfer, AfterHandover, NoHandover, Books,
           BreakerTypeOK
  <2>2. HandoverByAdmin'
    BY <1>7 DEF AcceptAdminTransfer, CancelAdminTransfer, AfterHandover, NoHandover,
                HandoverByAdmin
  <2> QED
    BY <1>7, <1>c, <2>1, <2>2
       DEF AcceptAdminTransfer, CancelAdminTransfer, Books, BreakerSound
<1> QED
  BY <1>1, <1>2, <1>3, <1>4, <1>5, <1>6, <1>7 DEF BreakerNext

\* With any holders and amounts, the supply of the pausable token falls short of the
\* balances by exactly what was rescued, and a handover is the sitting administrator's and
\* waits its delay (deposit, claim, deposit_match, admin_refund_match, emergency_rescue,
\* accept_admin_transfer).
THEOREM BreakerBooks == BreakerSpec => []BreakerSound
BY BreakerStarts, BreakerKept, PTL DEF BreakerSpec

-----------------------------------------------------------------------------
(***************************************************************************)
(* GaslessRelayer.  The books add up because a batch that is executed uses *)
(* the nonces that come next, each once, and pays into escrows whose       *)
(* records agree with their states: so what a payment takes from the vault *)
(* or a stake adds to it is what the record of one match says, and what    *)
(* else leaves it was taken by a forwarded call or a spender it approved.  *)
(***************************************************************************)
\* What is executed has had its turn.
ExecutedInTurn == \A q \in executed : q.nonce < nonce[q.from]

\* The record of an escrow agrees with its state.
EscrowsCoherent ==
    \A m \in RelayedGames :
        /\ escrow[m].state = "none" => escrow[m] = Unescrowed
        /\ escrow[m].state \in {"created", "cancelled"} =>
              /\ escrow[m].player1 \in Players
              /\ escrow[m].player2 = NoPlayer
              /\ escrow[m].pot = escrow[m].wager
        /\ escrow[m].state \in {"active", "settled"} =>
              /\ {escrow[m].player1, escrow[m].player2} \subseteq Players
              /\ escrow[m].player1 # escrow[m].player2
              /\ escrow[m].pot = 2 * escrow[m].wager

RelayerInv ==
    /\ RelayerTypeOK
    /\ ExecutedOnce /\ IsFiniteSet(executed) /\ ExecutedInTurn
    /\ EscrowsCoherent /\ PotsFunded

Of(S, p) == {q \in S : q.from = p}

-----------------------------------------------------------------------------
\* Some numbers of an interval have a greatest.
LEMMA SomeIsGreatest ==
    ASSUME NEW n \in Nat, NEW D \in SUBSET (1..n), D # {}
    PROVE  \E m \in D : \A i \in D : i <= m
<1> DEFINE P == {k \in Nat : \A E \in SUBSET (1..k) :
                                E # {} => \E m \in E : \A i \in E : i <= m}
<1>1. 0 \in P
  <2>1. 1..0 = {}
    OBVIOUS
  <2> QED
    BY <2>1
<1>2. ASSUME NEW k \in Nat, k \in P
      PROVE  k + 1 \in P
  <2> SUFFICES ASSUME NEW E \in SUBSET (1..(k + 1)), E # {}
               PROVE  \E m \in E : \A i \in E : i <= m
    OBVIOUS
  <2>1. CASE k + 1 \in E
    BY <2>1
  <2>2. CASE k + 1 \notin E
    <3>1. E \in SUBSET (1..k)
      BY <2>2
    <3> QED
      BY <1>2, <3>1
  <2> QED
    BY <2>1, <2>2
<1> HIDE DEF P
<1>3. n \in P
  BY <1>1, <1>2, NumbersInduction
<1> QED
  BY <1>3 DEF P

\* As many values as arguments that differ in their values.
LEMMA ImagesCount ==
    ASSUME NEW D, IsFiniteSet(D), NEW f, \A i, j \in D : f[i] = f[j] => i = j,
           NEW T, T = {f[i] : i \in D}
    PROVE  IsFiniteSet(T) /\ Cardinality(T) = Cardinality(D)
<1> DEFINE g == [i \in D |-> f[i]]
<1>1. g \in Bijection(D, T)
  BY DEF Bijection, Injection, IsInjective, Surjection
<1>2. ExistsBijection(D, T)
  BY <1>1 DEF ExistsBijection
<1> QED
  BY <1>2, FS_Bijection

\* A set and another without common elements.
LEMMA DisjointCount ==
    ASSUME NEW S, NEW T, IsFiniteSet(S), IsFiniteSet(T), S \cap T = {}
    PROVE  /\ IsFiniteSet(S \cup T)
           /\ Cardinality(S \cup T) = Cardinality(S) + Cardinality(T)
           /\ Cardinality(S) \in Nat /\ Cardinality(T) \in Nat
<1>1. /\ IsFiniteSet(S \cup T)
      /\ Cardinality(S \cup T) = Cardinality(S) + Cardinality(T) - Cardinality(S \cap T)
  BY FS_Union
<1>2. Cardinality(S) \in Nat /\ Cardinality(T) \in Nat /\ Cardinality(S \cap T) = 0
  BY FS_CardinalityType, FS_EmptySet
<1> QED
  BY <1>1, <1>2

-----------------------------------------------------------------------------
(***************************************************************************)
(* Nonces                                                                  *)
(***************************************************************************)
\* The part of the invariant about nonces holds on when requests are executed that take
\* the next nonces of their players.
LEMMA OnceMore ==
    ASSUME RelayerInv,
           NEW new, IsFiniteSet(new), new \subseteq Stakings \cup Forwards,
           \A q, r \in new : q.from = r.from /\ q.nonce = r.nonce => q = r,
           \A q \in new : nonce[q.from] <= q.nonce,
           nonce' \in [Players -> Nat],
           \A p \in Players : nonce'[p] = nonce[p] + Cardinality(Of(new, p)),
           \A q \in new : q.nonce < nonce'[q.from],
           executed' = executed \cup new,
           relayed' = relayed + Cardinality(new),
           UNCHANGED bumps
    PROVE  /\ ExecutedOnce' /\ IsFiniteSet(executed') /\ ExecutedInTurn'
           /\ executed' \subseteq Stakings \cup Forwards
           /\ relayed' \in Nat
<1>a. /\ nonce \in [Players -> Nat] /\ executed \subseteq Stakings \cup Forwards
      /\ relayed \in Nat /\ bumps \in [Players -> Nat]
      /\ IsFiniteSet(executed) /\ ExecutedInTurn /\ ExecutedOnce
  BY RelayerAssumption DEF RelayerInv, RelayerTypeOK
<1>b. \A q \in executed \cup new : q.from \in Players /\ q.nonce \in Nat
  BY <1>a, RelayerAssumption DEF Stakings, Forwards
<1>1. \A q \in executed, r \in new : q.from = r.from => q.nonce < r.nonce
  BY <1>a, <1>b DEF ExecutedInTurn
<1>2. executed \cap new = {}
  BY <1>b, <1>1
<1>3. /\ IsFiniteSet(executed')
      /\ Cardinality(executed') = Cardinality(executed) + Cardinality(new)
      /\ Cardinality(new) \in Nat
  BY <1>a, <1>2, DisjointCount
<1>4. relayed' = Cardinality(executed') /\ relayed' \in Nat
  BY <1>a, <1>3 DEF ExecutedOnce
<1>5. \A q, r \in executed' : q.from = r.from /\ q.nonce = r.nonce => q = r
  <2>1. \A q, r \in executed : q.from = r.from /\ q.nonce = r.nonce => q = r
    BY <1>a DEF ExecutedOnce
  <2>2. \A q \in executed, r \in new : ~ (q.from = r.from /\ q.nonce = r.nonce)
    BY <1>b, <1>1
  <2> QED
    BY <2>1, <2>2
<1>6. ASSUME NEW p \in Players
      PROVE  nonce'[p] = bumps'[p] + Cardinality(Of(executed', p))
  <2> DEFINE mine == Of(executed, p)
             mineNow == Of(new, p)
  <2>1. /\ IsFiniteSet(mine) /\ IsFiniteSet(mineNow)
        /\ mine \cap mineNow = {}
        /\ Of(executed', p) = mine \cup mineNow
    <3>1. mine \subseteq executed /\ mineNow \subseteq new
      BY DEF Of
    <3>2. Of(executed', p) = mine \cup mineNow
      BY DEF Of
    <3> HIDE DEF mine, mineNow
    <3> QED
      BY <1>a, <1>2, <3>1, <3>2, FS_Subset
  <2>2. nonce[p] = bumps[p] + Cardinality(mine)
    BY <1>a DEF ExecutedOnce, Of
  <2>3. nonce'[p] = nonce[p] + Cardinality(mineNow)
    OBVIOUS
  <2> HIDE DEF mine, mineNow
  <2>4. /\ Cardinality(mine \cup mineNow) = Cardinality(mine) + Cardinality(mineNow)
        /\ Cardinality(mine) \in Nat /\ Cardinality(mineNow) \in Nat
    BY <2>1, DisjointCount
  <2>5. bumps[p] \in Nat /\ bumps'[p] = bumps[p]
    BY <1>a
  <2>6. Cardinality(Of(executed', p)) = Cardinality(mine) + Cardinality(mineNow)
    BY <2>1, <2>4
  <2>7. nonce'[p] = bumps[p] + Cardinality(mine) + Cardinality(mineNow)
    BY <2>2, <2>3
  <2> QED
    BY <2>4, <2>5, <2>6, <2>7
<1>7. ExecutedOnce'
  BY <1>4, <1>5, <1>6 DEF ExecutedOnce, Of
<1>8. ExecutedInTurn'
  <2>1. \A p \in Players : nonce[p] <= nonce'[p]
    <3> TAKE p \in Players
    <3>1. IsFiniteSet(Of(new, p))
      BY FS_Subset DEF Of
    <3> DEFINE mineNow == Of(new, p)
    <3> HIDE DEF mineNow
    <3>2. Cardinality(mineNow) \in Nat
      BY <3>1, FS_CardinalityType DEF mineNow
    <3>3. nonce'[p] = nonce[p] + Cardinality(mineNow)
      BY DEF mineNow
    <3> QED
      BY <1>a, <3>2, <3>3
  <2> QED
    BY <1>a, <1>b, <2>1 DEF ExecutedInTurn
<1>9. executed' \subseteq Stakings \cup Forwards
  BY <1>a
<1> QED
  BY <1>3, <1>4, <1>7, <1>8, <1>9

InTheirTurns(batch) ==
    \A i \in DOMAIN batch :
        InTurn(batch[i], nonce[batch[i].from]
                           + Cardinality(EarlierOf(batch, i, batch[i].from)))

\* The requests of a batch are new, and use up nonces.
UseNonces(batch, new) ==
    /\ IsFiniteSet(new) /\ Cardinality(new) = Len(batch)
    /\ new \subseteq Forwards
    /\ \A q, r \in new : q.from = r.from /\ q.nonce = r.nonce => q = r
    /\ \A q \in new : nonce[q.from] <= q.nonce
    /\ \A p \in Players :
         /\ Cardinality({i \in DOMAIN batch : batch[i].from = p}) = Cardinality(Of(new, p))
         /\ nonce[p] + Cardinality(Of(new, p)) \in 0..MaxNonce
    /\ \A q \in new : q.nonce < nonce[q.from] + Cardinality(Of(new, q.from))

\* In a batch, each request of a player takes the nonce after those of his earlier ones.
LEMMA BatchInTurn ==
    ASSUME nonce \in [Players -> 0..MaxNonce],
           NEW batch \in Batches, InTheirTurns(batch),
           NEW new, new = {batch[i] : i \in DOMAIN batch}
    PROVE  UseNonces(batch, new)
<1>1. PICK n \in 1..MaxBatch : batch \in [1..n -> {q \in Forwards : q.nonce < MaxNonce}]
  BY DEF Batches
<1> DEFINE D == 1..n
           From(i) == batch[i].from
           Before(i) == EarlierOf(batch, i, From(i))
           Mine(p) == {i \in D : From(i) = p}
<1>2. n \in Nat /\ MaxNonce \in Nat /\ MaxBatch \in Nat
  BY RelayerAssumption
<1>3. /\ DOMAIN batch = D /\ Len(batch) = n
      /\ IsFiniteSet(D) /\ Cardinality(D) = n
  BY <1>1, <1>2, FS_Interval
<1>4. \A i \in D : /\ batch[i] \in Forwards /\ From(i) \in Players
                   /\ batch[i].nonce \in Nat /\ batch[i].nonce < MaxNonce
  BY <1>1, <1>2 DEF Forwards
<1>5. \A p \in Players : nonce[p] \in Nat /\ nonce[p] <= MaxNonce
  BY <1>2
<1>6. \A i \in D : Before(i) = {j \in D : j < i /\ From(j) = From(i)}
  BY <1>2 DEF EarlierOf
<1>7. \A i \in D : /\ IsFiniteSet(Before(i)) /\ Cardinality(Before(i)) \in Nat
                   /\ IsFiniteSet(Before(i) \cup {i})
                   /\ Cardinality(Before(i) \cup {i}) = Cardinality(Before(i)) + 1
  <2> TAKE i \in D
  <2> DEFINE B == Before(i)
  <2>1. B \in SUBSET D /\ i \notin B
    BY <1>6
  <2> HIDE DEF B
  <2>2. IsFiniteSet(B) /\ Cardinality(B) \in Nat
    BY <1>3, <2>1, FS_Subset, FS_CardinalityType
  <2>3. IsFiniteSet(B \cup {i}) /\ Cardinality(B \cup {i}) = Cardinality(B) + 1
    BY <2>1, <2>2, FS_AddElement
  <2> QED
    BY <2>2, <2>3 DEF B
<1>8. \A i \in D : batch[i].nonce = nonce[From(i)] + Cardinality(Before(i))
  BY <1>3 DEF InTurn, InTheirTurns
<1>9. \A p : IsFiniteSet(Mine(p)) /\ Cardinality(Mine(p)) \in Nat
  <2> TAKE p
  <2> DEFINE M == Mine(p)
  <2>1. M \in SUBSET D
    OBVIOUS
  <2> HIDE DEF M
  <2>2. IsFiniteSet(M) /\ Cardinality(M) \in Nat
    BY <1>3, <2>1, FS_Subset, FS_CardinalityType
  <2> QED
    BY <2>2 DEF M
<1>10. ASSUME NEW i \in D, NEW j \in D, From(i) = From(j), i < j
       PROVE  batch[i].nonce < batch[j].nonce
  <2> DEFINE B == Before(i) \cup {i}
             C == Before(j)
  <2>1. B \subseteq C
    BY <1>2, <1>6, <1>10
  <2>2. IsFiniteSet(C) /\ Cardinality(C) \in Nat
    BY <1>7
  <2>3. Cardinality(B) = Cardinality(Before(i)) + 1 /\ Cardinality(Before(i)) \in Nat
    BY <1>7
  <2>4. /\ batch[i].nonce = nonce[From(i)] + Cardinality(Before(i))
        /\ batch[j].nonce = nonce[From(i)] + Cardinality(C)
        /\ nonce[From(i)] \in Nat
    BY <1>4, <1>5, <1>8, <1>10
  <2> HIDE DEF B, C
  <2>5. Cardinality(B) <= Cardinality(C)
    BY <2>1, <2>2, FS_Subset
  <2> QED
    BY <2>2, <2>3, <2>4, <2>5
<1>11. \A i, j \in D : From(i) = From(j) /\ batch[i].nonce = batch[j].nonce => i = j
  BY <1>2, <1>4, <1>10
<1>12. ASSUME NEW i \in D
       PROVE  batch[i].nonce < nonce[From(i)] + Cardinality(Mine(From(i)))
  <2> DEFINE B == Before(i) \cup {i}
             C == Mine(From(i))
  <2>1. B \subseteq C
    BY <1>6
  <2>2. IsFiniteSet(C) /\ Cardinality(C) \in Nat
    BY <1>9
  <2>3. /\ Cardinality(B) = Cardinality(Before(i)) + 1 /\ Cardinality(Before(i)) \in Nat
        /\ batch[i].nonce = nonce[From(i)] + Cardinality(Before(i))
        /\ nonce[From(i)] \in Nat
    BY <1>4, <1>5, <1>7, <1>8
  <2> HIDE DEF B, C
  <2>4. Cardinality(B) <= Cardinality(C)
    BY <2>1, <2>2, FS_Subset
  <2>5. batch[i].nonce < nonce[From(i)] + Cardinality(C)
    BY <2>2, <2>3, <2>4
  <2> QED
    BY <2>5 DEF C
<1>13. ASSUME NEW p \in Players
       PROVE  nonce[p] + Cardinality(Mine(p)) \in 0..MaxNonce
  <2> DEFINE M == Mine(p)
  <2>1. /\ M \in SUBSET (1..n) /\ IsFiniteSet(M) /\ Cardinality(M) \in Nat
        /\ nonce[p] \in Nat /\ nonce[p] <= MaxNonce
    BY <1>5, <1>9
  <2>2. CASE M = {}
    <3>1. Cardinality(M) = 0
      BY <2>2, FS_EmptySet
    <3> QED
      BY <1>2, <2>1, <3>1
  <2>3. CASE M # {}
    <3>1. \E m \in M : \A i \in M : i <= m
      <4> HIDE DEF M
      <4> QED
        BY <1>2, <2>1, <2>3, SomeIsGreatest
    <3>2. PICK m \in M : \A i \in M : i <= m
      BY <3>1
    <3> DEFINE B == Before(m) \cup {m}
    <3>3. M \subseteq B
      BY <1>2, <1>6, <3>2
    <3>4. /\ m \in D /\ From(m) = p
          /\ IsFiniteSet(B) /\ Cardinality(B) = Cardinality(Before(m)) + 1
          /\ Cardinality(Before(m)) \in Nat
      BY <1>7
    <3>5. nonce[p] + Cardinality(Before(m)) < MaxNonce
      BY <1>4, <1>8, <3>4
    <3> HIDE DEF B, M
    <3>6. Cardinality(M) <= Cardinality(B)
      BY <3>3, <3>4, FS_Subset
    <3>7. nonce[p] + Cardinality(M) \in 0..MaxNonce
      BY <1>2, <2>1, <3>4, <3>5, <3>6
    <3> QED
      BY <3>7 DEF M
  <2> QED
    BY <2>2, <2>3
<1>14. IsFiniteSet(new) /\ Cardinality(new) = Len(batch)
  <2>1. \A i, j \in D : batch[i] = batch[j] => i = j
    BY <1>11
  <2>2. new = {batch[i] : i \in D}
    BY <1>3
  <2> HIDE DEF D
  <2> QED
    BY <1>3, <2>1, <2>2, ImagesCount
<1>15. ASSUME NEW p
       PROVE  Cardinality(Mine(p)) = Cardinality(Of(new, p))
  <2> DEFINE M == Mine(p)
             T == Of(new, p)
  <2>1. \A i, j \in M : batch[i] = batch[j] => i = j
    BY <1>11
  <2>2. T = {batch[i] : i \in M}
    BY <1>3 DEF Of
  <2>3. IsFiniteSet(M)
    BY <1>9
  <2> HIDE DEF M, T
  <2>4. Cardinality(T) = Cardinality(M)
    BY <2>1, <2>2, <2>3, ImagesCount
  <2> QED
    BY <2>4 DEF M, T
<1>16. /\ new \subseteq Forwards
       /\ \A q, r \in new : q.from = r.from /\ q.nonce = r.nonce => q = r
  BY <1>3, <1>4, <1>11
<1>17. \A q \in new : nonce[q.from] <= q.nonce
  <2>1. ASSUME NEW i \in D
        PROVE  nonce[From(i)] <= batch[i].nonce
    <3>1. /\ Cardinality(Before(i)) \in Nat /\ nonce[From(i)] \in Nat
          /\ batch[i].nonce = nonce[From(i)] + Cardinality(Before(i))
      BY <1>4, <1>5, <1>7, <1>8
    <3> HIDE DEF Before, From
    <3> QED
      BY <3>1
  <2> QED
    BY <1>3, <2>1
<1>18. \A q \in new : q.nonce < nonce[q.from] + Cardinality(Of(new, q.from))
  <2>1. \A i \in D : batch[i].nonce < nonce[From(i)] + Cardinality(Of(new, From(i)))
    BY <1>12, <1>15
  <2> QED
    BY <1>3, <2>1
<1>19. \A p \in Players :
          /\ Cardinality({i \in DOMAIN batch : batch[i].from = p}) = Cardinality(Of(new, p))
          /\ nonce[p] + Cardinality(Of(new, p)) \in 0..MaxNonce
  BY <1>3, <1>13, <1>15
<1> QED
  BY <1>14, <1>16, <1>17, <1>18, <1>19 DEF UseNonces

LEMMA StakingsAreTyped ==
    ASSUME NEW q \in Stakings
    PROVE  /\ q.from \in Players /\ q.match \in RelayedGames
           /\ q.wager \in Nat /\ q.nonce \in Nat
           /\ MaxNonce \in Nat
<1>1. MaxNonce \in Nat /\ Wagers \subseteq Nat
  BY RelayerAssumption
<1>2. /\ q.from \in Players /\ q.match \in RelayedGames
      /\ q.wager \in Wagers /\ q.nonce \in 0..MaxNonce
  BY DEF Stakings
<1>3. q.nonce \in Nat
  BY <1>1, <1>2
<1>4. q.wager \in Nat
  BY <1>1, <1>2
<1> QED
  BY <1>1, <1>2, <1>3, <1>4

-----------------------------------------------------------------------------
(***************************************************************************)
(* Pots                                                                    *)
(***************************************************************************)
EscrowRecords ==
    [state : {"none", "created", "active", "settled", "cancelled"},
     player1 : Players \cup {NoPlayer}, player2 : Players \cup {NoPlayer},
     wager : Nat, pot : Nat]

Held1(rec) == IF rec.state \in {"created", "active"} THEN rec.pot ELSE 0

\* When one escrow changes, the totals change by its pot.
LEMMA OnePotChanges ==
    ASSUME escrow \in [RelayedGames -> EscrowRecords],
           NEW m \in RelayedGames, NEW rec \in EscrowRecords,
           escrow' = [escrow EXCEPT ![m] = rec]
    PROVE  /\ SumFunctionOnSet(HeldFor, RelayedGames)'
                 = SumFunctionOnSet(HeldFor, RelayedGames) + (Held1(rec) - Held1(escrow[m]))
           /\ SumFunctionOnSet(PotOf, RelayedGames)'
                 = SumFunctionOnSet(PotOf, RelayedGames) + (rec.pot - escrow[m].pot)
           /\ SumFunctionOnSet(HeldFor, RelayedGames) \in Nat
           /\ SumFunctionOnSet(PotOf, RelayedGames) \in Nat
           /\ Held1(escrow[m]) <= SumFunctionOnSet(HeldFor, RelayedGames)
<1>1. IsFiniteSet(RelayedGames)
  BY RelayerAssumption
<1>2. /\ \A n \in RelayedGames : /\ escrow[n] \in EscrowRecords /\ escrow'[n] \in EscrowRecords
                            /\ n # m => escrow'[n] = escrow[n]
      /\ escrow'[m] = rec
  OBVIOUS
<1>3. \A r \in EscrowRecords : Held1(r) \in Nat /\ r.pot \in Nat
  BY DEF EscrowRecords, Held1
<1> SUFFICES ASSUME NEW held, held = HeldFor, NEW heldThen, heldThen = HeldFor',
                    NEW pots, pots = PotOf, NEW potsThen, potsThen = PotOf'
             PROVE  /\ SumFunctionOnSet(heldThen, RelayedGames)
                         = SumFunctionOnSet(held, RelayedGames) + (Held1(rec) - Held1(escrow[m]))
                    /\ SumFunctionOnSet(potsThen, RelayedGames)
                         = SumFunctionOnSet(pots, RelayedGames) + (rec.pot - escrow[m].pot)
                    /\ SumFunctionOnSet(held, RelayedGames) \in Nat
                    /\ SumFunctionOnSet(pots, RelayedGames) \in Nat
                    /\ Held1(escrow[m]) <= SumFunctionOnSet(held, RelayedGames)
  OBVIOUS
<1>4. /\ \A n \in RelayedGames : held[n] = Held1(escrow[n]) /\ heldThen[n] = Held1(escrow'[n])
      /\ \A n \in RelayedGames : pots[n] = escrow[n].pot /\ potsThen[n] = escrow'[n].pot
  BY DEF HeldFor, PotOf, Held1
<1>5. /\ \A n \in RelayedGames : held[n] \in Nat /\ heldThen[n] \in Nat
      /\ \A n \in RelayedGames : pots[n] \in Nat /\ potsThen[n] \in Nat
      /\ \A n \in RelayedGames \ {m} : heldThen[n] = held[n] /\ potsThen[n] = pots[n]
  BY <1>2, <1>3, <1>4
<1>6. SumFunctionOnSet(heldThen, RelayedGames)
        = SumFunctionOnSet(held, RelayedGames) + (heldThen[m] - held[m])
  BY <1>1, <1>5, SumChanges
<1>7. SumFunctionOnSet(potsThen, RelayedGames)
        = SumFunctionOnSet(pots, RelayedGames) + (potsThen[m] - pots[m])
  BY <1>1, <1>5, SumChanges
<1>8. /\ SumFunctionOnSet(held, RelayedGames) \in Nat
      /\ held[m] <= SumFunctionOnSet(held, RelayedGames)
      /\ SumFunctionOnSet(pots, RelayedGames) \in Nat
  BY <1>1, <1>5, SumIsNat
<1> QED
  BY <1>2, <1>4, <1>6, <1>7, <1>8

\* The parts of the invariant that a call may disturb.
LEMMA PutTogether ==
    ASSUME RelayerInv,
           nonce' \in [Players -> 0..MaxNonce], bumps' \in [Players -> 0..MaxNonce],
           escrow' \in [RelayedGames -> EscrowRecords],
           pot' \in Nat, spent' \in Nat, lent' \in BOOLEAN, relayed' \in Nat, volume' \in Nat,
           executed' \subseteq Stakings \cup Forwards,
           ExecutedOnce', IsFiniteSet(executed'), ExecutedInTurn',
           EscrowsCoherent', PotsFunded',
           UNCHANGED Administration
    PROVE  RelayerInv'
BY DEF RelayerInv, RelayerTypeOK, Administration, EscrowRecords

LEMMA StakeKept ==
    ASSUME RelayerInv, NEW q \in Stakings, NEW s, NEW relayer,
           q.nonce < MaxNonce, GaslessStakeMatch(q, s, relayer)
    PROVE  RelayerInv'
<1> DEFINE m == q.match
           rec == IF q.does = "create" THEN Opened(q) ELSE Joined(m, q)
<1>a. /\ nonce \in [Players -> 0..MaxNonce] /\ bumps \in [Players -> 0..MaxNonce]
      /\ escrow \in [RelayedGames -> EscrowRecords]
      /\ pot \in Nat /\ spent \in Nat /\ lent \in BOOLEAN
      /\ relayed \in Nat /\ volume \in Nat
      /\ executed \subseteq Stakings \cup Forwards
      /\ ExecutedOnce /\ IsFiniteSet(executed) /\ ExecutedInTurn
      /\ EscrowsCoherent /\ PotsFunded
  BY DEF RelayerInv, RelayerTypeOK, EscrowRecords
<1>b. /\ q.from \in Players /\ m \in RelayedGames /\ q.wager \in Nat
      /\ q.nonce \in Nat /\ MaxNonce \in Nat
      /\ NoPlayer \notin Players
  BY StakingsAreTyped, RelayerAssumption
<1>c. /\ q.nonce = nonce[q.from]
      /\ \/ q.does = "create" /\ escrow[m].state = "none"
         \/ q.does = "join" /\ MayJoin(m, q)
      /\ nonce' = [nonce EXCEPT ![q.from] = @ + 1]
      /\ escrow' = [escrow EXCEPT ![m] = rec]
      /\ pot' = pot + q.wager
      /\ relayed' = relayed + 1
      /\ volume' = volume + q.wager
      /\ executed' = executed \cup {q}
      /\ UNCHANGED <<Administration, bumps, lent, spent>>
  BY DEF GaslessStakeMatch, InTurn
<1>1. /\ ExecutedOnce' /\ IsFiniteSet(executed') /\ ExecutedInTurn'
      /\ executed' \subseteq Stakings \cup Forwards
      /\ relayed' \in Nat
      /\ nonce' \in [Players -> 0..MaxNonce]
  <2> DEFINE new == {q}
  <2>1. IsFiniteSet(new) /\ Cardinality(new) = 1
    BY FS_Singleton
  <2>2. \A p \in Players : Cardinality(Of(new, p)) = IF p = q.from THEN 1 ELSE 0
    <3>1. \A p : Of(new, p) = IF p = q.from THEN {q} ELSE {}
      BY DEF Of
    <3> HIDE DEF new
    <3> QED
      BY <3>1, FS_Singleton, FS_EmptySet
  <2>3. nonce' \in [Players -> 0..MaxNonce]
    BY <1>a, <1>b, <1>c
  <2>4. \A p \in Players : nonce'[p] = nonce[p] + Cardinality(Of(new, p))
    <3> HIDE DEF new
    <3>1. \A p \in Players : nonce[p] \in Nat
      BY <1>a, <1>b
    <3> QED
      BY <1>a, <1>b, <1>c, <2>2, <3>1
  <2>5. /\ \A r \in new : nonce[r.from] <= r.nonce /\ r.nonce < nonce'[r.from]
        /\ \A r, t \in new : r = t
        /\ new \subseteq Stakings \cup Forwards
    BY <1>a, <1>b, <1>c
  <2>6. nonce' \in [Players -> Nat]
    BY <1>b, <2>3
  <2>7. /\ executed' = executed \cup new
        /\ relayed' = relayed + Cardinality(new)
        /\ UNCHANGED bumps
    BY <1>c, <2>1
  <2> HIDE DEF new
  <2>8. /\ ExecutedOnce' /\ IsFiniteSet(executed') /\ ExecutedInTurn'
        /\ executed' \subseteq Stakings \cup Forwards
        /\ relayed' \in Nat
    BY <2>1, <2>4, <2>5, <2>6, <2>7, OnceMore
  <2> QED
    BY <2>3, <2>8
<1>2. /\ rec \in EscrowRecords
      /\ rec.pot = escrow[m].pot + q.wager
      /\ Held1(rec) = Held1(escrow[m]) + q.wager
      /\ rec.state # "none"
      /\ rec.state \in {"created", "cancelled"} =>
            rec.player1 \in Players /\ rec.player2 = NoPlayer /\ rec.pot = rec.wager
      /\ rec.state \in {"active", "settled"} =>
            /\ {rec.player1, rec.player2} \subseteq Players
            /\ rec.player1 # rec.player2
            /\ rec.pot = 2 * rec.wager
      /\ {rec.player1, rec.player2} \ {NoPlayer}
            = ({escrow[m].player1, escrow[m].player2} \ {NoPlayer}) \cup {q.from}
  <2>1. escrow[m] \in EscrowRecords
    BY <1>a, <1>b
  <2>2. CASE q.does = "create"
    <3>1. rec = Opened(q)
      BY <2>2
    <3>2. escrow[m] = Unescrowed
      BY <1>a, <1>b, <1>c, <2>2 DEF EscrowsCoherent
    <3> QED
      BY <1>b, <3>1, <3>2 DEF Opened, Unescrowed, Held1, EscrowRecords
  <2>3. CASE q.does # "create"
    <3>1. rec = [escrow[m] EXCEPT !.player2 = q.from, !.pot = escrow[m].pot + q.wager,
                                  !.state = "active"]
      BY <2>3 DEF Joined, Pot
    <3>2. /\ escrow[m].state = "created" /\ escrow[m].player2 = NoPlayer
          /\ escrow[m].player1 # q.from /\ escrow[m].wager = q.wager
      BY <1>c, <2>3 DEF MayJoin
    <3>3. escrow[m].player1 \in Players /\ escrow[m].pot = escrow[m].wager
      BY <1>a, <1>b, <3>2 DEF EscrowsCoherent
    <3> HIDE DEF rec
    <3>4. /\ rec.state = "active" /\ rec.player1 = escrow[m].player1 /\ rec.player2 = q.from
          /\ rec.pot = escrow[m].pot + q.wager /\ rec.wager = escrow[m].wager
          /\ rec \in EscrowRecords
      <4>1. PICK e \in EscrowRecords : e = escrow[m]
        BY <2>1
      <4>2. e.pot + q.wager \in Nat
        BY <1>b DEF EscrowRecords
      <4>3. rec = [e EXCEPT !.player2 = q.from, !.pot = e.pot + q.wager, !.state = "active"]
        BY <3>1, <4>1
      <4>4. rec \in EscrowRecords
        <5> DEFINE paid == e.pot + q.wager
        <5>1. paid \in Nat /\ rec = [e EXCEPT !.player2 = q.from, !.pot = paid, !.state = "active"]
          BY <4>2, <4>3
        <5> HIDE DEF paid
        <5> QED
          BY <1>b, <5>1 DEF EscrowRecords
      <4>5. /\ rec.state = "active" /\ rec.player1 = e.player1 /\ rec.player2 = q.from
            /\ rec.pot = e.pot + q.wager /\ rec.wager = e.wager
        BY <4>3 DEF EscrowRecords
      <4> QED
        BY <4>1, <4>4, <4>5
    <3>5. Held1(rec) = Held1(escrow[m]) + q.wager
      BY <3>2, <3>4 DEF Held1
    <3> QED
      BY <1>b, <3>2, <3>3, <3>4, <3>5
  <2> QED
    BY <2>2, <2>3
<1> HIDE DEF rec
<1>3. escrow' \in [RelayedGames -> EscrowRecords]
  BY <1>a, <1>c, <1>2
<1>4. EscrowsCoherent'
  BY <1>a, <1>b, <1>c, <1>2 DEF EscrowsCoherent
<1>5. /\ pot' + spent' = SumFunctionOnSet(HeldFor, RelayedGames)'
      /\ volume' = SumFunctionOnSet(PotOf, RelayedGames)'
      /\ pot' \in Nat /\ volume' \in Nat
  <2>1. /\ SumFunctionOnSet(HeldFor, RelayedGames)'
             = SumFunctionOnSet(HeldFor, RelayedGames) + (Held1(rec) - Held1(escrow[m]))
        /\ SumFunctionOnSet(PotOf, RelayedGames)'
             = SumFunctionOnSet(PotOf, RelayedGames) + (rec.pot - escrow[m].pot)
    BY <1>a, <1>b, <1>c, <1>2, OnePotChanges
  <2>2. /\ pot + spent = SumFunctionOnSet(HeldFor, RelayedGames)
        /\ volume = SumFunctionOnSet(PotOf, RelayedGames)
    BY <1>a DEF PotsFunded
  <2>3. Held1(escrow[m]) \in Nat /\ escrow[m].pot \in Nat
    BY <1>a, <1>b DEF Held1, EscrowRecords
  <2>4. /\ Held1(rec) - Held1(escrow[m]) = q.wager
        /\ rec.pot - escrow[m].pot = q.wager
    BY <1>b, <1>2, <2>3
  <2> QED
    BY <1>a, <1>b, <1>c, <2>1, <2>2, <2>4
<1>6. ASSUME NEW n \in RelayedGames
      PROVE  /\ escrow'[n].pot = SumFunctionOnSet(WagerOf, StakesIn(n)')
             /\ {r.from : r \in StakesIn(n)'}
                  = {escrow'[n].player1, escrow'[n].player2} \ {NoPlayer}
  <2>1. /\ escrow[n].pot = SumFunctionOnSet(WagerOf, StakesIn(n))
        /\ {r.from : r \in StakesIn(n)}
                  = {escrow[n].player1, escrow[n].player2} \ {NoPlayer}
    BY <1>a DEF PotsFunded
  <2>2. CASE n # m
    <3>1. StakesIn(n)' = StakesIn(n) /\ escrow'[n] = escrow[n]
      BY <1>a, <1>c, <2>2 DEF StakesIn
    <3> QED
      BY <2>1, <3>1
  <2>3. CASE n = m
    <3> DEFINE S == StakesIn(m)
    <3>1. q.does # "forward" /\ q \notin executed
      BY <1>a, <1>b, <1>c DEF ExecutedInTurn
    <3>2. /\ S \subseteq executed /\ q \notin S
          /\ StakesIn(m)' = S \cup {q}
      BY <1>c, <3>1 DEF StakesIn
    <3>3. IsFiniteSet(S)
      <4> HIDE DEF S
      <4> QED
        BY <1>a, <3>2, FS_Subset
    <3>4. \A r \in S : r \in Stakings
      BY <1>a DEF StakesIn, Forwards
    <3>5. \A r \in Stakings : WagerOf[r] = r.wager /\ r.wager \in Int
      BY StakingsAreTyped DEF WagerOf
    <3> HIDE DEF S
    <3>6. SumFunctionOnSet(WagerOf, S \cup {q}) = SumFunctionOnSet(WagerOf, S) + WagerOf[q]
      BY <3>2, <3>3, <3>4, <3>5, SumAdds
    <3>7. /\ escrow'[m].pot = escrow[m].pot + q.wager
          /\ {escrow'[m].player1, escrow'[m].player2} \ {NoPlayer}
                = ({escrow[m].player1, escrow[m].player2} \ {NoPlayer}) \cup {q.from}
      BY <1>a, <1>b, <1>c, <1>2
    <3>8. escrow[m].pot = SumFunctionOnSet(WagerOf, S)
      BY <2>1, <2>3 DEF S
    <3>9. escrow'[m].pot = SumFunctionOnSet(WagerOf, StakesIn(m)')
      BY <3>2, <3>5, <3>6, <3>7, <3>8
    <3>10. {r.from : r \in StakesIn(m)} = {escrow[m].player1, escrow[m].player2} \ {NoPlayer}
      BY <2>1, <2>3
    <3>11. {r.from : r \in StakesIn(m)'} = {r.from : r \in StakesIn(m)} \cup {q.from}
      BY <3>2 DEF S
    <3> QED
      BY <2>3, <3>7, <3>9, <3>10, <3>11
  <2> QED
    BY <2>2, <2>3
<1>7. PotsFunded'
  <2>1. \A n \in RelayedGames : escrow'[n].state \in {"active", "settled"} =>
             escrow'[n].pot = 2 * escrow'[n].wager /\ escrow'[n].player1 # escrow'[n].player2
    BY <1>4 DEF EscrowsCoherent
  <2>2. lent' \/ spent' # 0 => \E r \in executed' : r.does = "forward"
    BY <1>a, <1>c DEF PotsFunded
  <2> QED
    BY <1>5, <1>6, <2>1, <2>2 DEF PotsFunded, WagerOf
<1> QED
  BY <1>a, <1>c, <1>1, <1>3, <1>4, <1>5, <1>7, PutTogether

\* A match that is settled or cancelled pays its whole pot.
LEMMA PayoutKept ==
    ASSUME RelayerInv, NEW m \in RelayedGames,
           \/ \E w \in Players \cup {NoPlayer} : SettleRelayed(m, w)
           \/ CancelUnmatchedGame(m)
    PROVE  RelayerInv'
<1>a. /\ nonce \in [Players -> 0..MaxNonce] /\ bumps \in [Players -> 0..MaxNonce]
      /\ escrow \in [RelayedGames -> EscrowRecords]
      /\ pot \in Nat /\ spent \in Nat /\ lent \in BOOLEAN
      /\ relayed \in Nat /\ volume \in Nat
      /\ executed \subseteq Stakings \cup Forwards
      /\ ExecutedOnce /\ IsFiniteSet(executed) /\ ExecutedInTurn
      /\ EscrowsCoherent /\ PotsFunded
  BY DEF RelayerInv, RelayerTypeOK, EscrowRecords
<1>b. UNCHANGED <<Administration, nonce, relayed, volume, bumps, executed, lent, spent>>
  BY DEF SettleRelayed, CancelUnmatchedGame
<1>1. \E end \in {"settled", "cancelled"} :
        /\ escrow' = [escrow EXCEPT ![m].state = end]
        /\ escrow[m].state = IF end = "settled" THEN "active" ELSE "created"
        /\ pot >= escrow[m].pot /\ pot' = pot - escrow[m].pot
  <2>1. ASSUME NEW w \in Players \cup {NoPlayer}, SettleRelayed(m, w)
        PROVE  /\ escrow' = [escrow EXCEPT ![m].state = "settled"]
               /\ escrow[m].state = "active"
               /\ pot >= escrow[m].pot /\ pot' = pot - escrow[m].pot
    BY <1>a, <2>1 DEF SettleRelayed, Pays, EscrowsCoherent
  <2>2. ASSUME CancelUnmatchedGame(m)
        PROVE  /\ escrow' = [escrow EXCEPT ![m].state = "cancelled"]
               /\ escrow[m].state = "created"
               /\ pot >= escrow[m].pot /\ pot' = pot - escrow[m].pot
    BY <1>a, <2>2 DEF CancelUnmatchedGame, Pays, EscrowsCoherent
  <2> QED
    BY <2>1, <2>2
<1>2. PICK end \in {"settled", "cancelled"} :
        /\ escrow' = [escrow EXCEPT ![m].state = end]
        /\ escrow[m].state = IF end = "settled" THEN "active" ELSE "created"
        /\ pot >= escrow[m].pot /\ pot' = pot - escrow[m].pot
  BY <1>1
<1> DEFINE rec == [escrow[m] EXCEPT !.state = end]
<1>3. /\ rec \in EscrowRecords /\ escrow[m] \in EscrowRecords
      /\ rec.state = end
      /\ rec.player1 = escrow[m].player1 /\ rec.player2 = escrow[m].player2
      /\ rec.pot = escrow[m].pot /\ rec.wager = escrow[m].wager
  BY <1>a DEF EscrowRecords
<1>4. escrow' = [escrow EXCEPT ![m] = rec]
  BY <1>a, <1>2
<1> HIDE DEF rec
<1>5. escrow' \in [RelayedGames -> EscrowRecords]
  BY <1>a, <1>3, <1>4
<1>6. EscrowsCoherent'
  BY <1>a, <1>2, <1>3, <1>4 DEF EscrowsCoherent
<1>7. /\ pot' + spent' = SumFunctionOnSet(HeldFor, RelayedGames)'
      /\ volume' = SumFunctionOnSet(PotOf, RelayedGames)'
      /\ pot' \in Nat
  <2>1. /\ SumFunctionOnSet(HeldFor, RelayedGames)'
             = SumFunctionOnSet(HeldFor, RelayedGames) + (Held1(rec) - Held1(escrow[m]))
        /\ SumFunctionOnSet(PotOf, RelayedGames)'
             = SumFunctionOnSet(PotOf, RelayedGames) + (rec.pot - escrow[m].pot)
        /\ SumFunctionOnSet(PotOf, RelayedGames) \in Nat
        /\ Held1(escrow[m]) <= SumFunctionOnSet(HeldFor, RelayedGames)
    BY <1>a, <1>3, <1>4, OnePotChanges
  <2>2. /\ pot + spent = SumFunctionOnSet(HeldFor, RelayedGames)
        /\ volume = SumFunctionOnSet(PotOf, RelayedGames)
        /\ volume' = volume
    BY <1>a, <1>b DEF PotsFunded
  <2>3. escrow[m].pot \in Nat
    BY <1>3 DEF EscrowRecords
  <2>4. Held1(rec) = 0 /\ Held1(escrow[m]) = escrow[m].pot
    BY <1>2, <1>3 DEF Held1
  <2>5. rec.pot - escrow[m].pot = 0
    BY <1>3, <2>3
  <2>6. volume' = SumFunctionOnSet(PotOf, RelayedGames)'
    BY <2>1, <2>2, <2>5
  <2>7. pot' + spent' = SumFunctionOnSet(HeldFor, RelayedGames)' /\ pot' \in Nat
    BY <1>a, <1>b, <1>2, <2>1, <2>2, <2>3, <2>4
  <2> QED
    BY <2>6, <2>7
<1>8. PotsFunded'
  <2>1. \A n \in RelayedGames : /\ escrow'[n].pot = escrow[n].pot
                           /\ escrow'[n].player1 = escrow[n].player1
                           /\ escrow'[n].player2 = escrow[n].player2
    BY <1>a, <1>3, <1>4
  <2>2. \A n \in RelayedGames : StakesIn(n)' = StakesIn(n)
    BY <1>b DEF StakesIn
  <2>3. \A n \in RelayedGames : escrow'[n].state \in {"active", "settled"} =>
             escrow'[n].pot = 2 * escrow'[n].wager /\ escrow'[n].player1 # escrow'[n].player2
    BY <1>6 DEF EscrowsCoherent
  <2>4. \A n \in RelayedGames :
             /\ escrow'[n].pot = SumFunctionOnSet(WagerOf, StakesIn(n)')
             /\ {r.from : r \in StakesIn(n)'}
                  = {escrow'[n].player1, escrow'[n].player2} \ {NoPlayer}
    BY <1>a, <2>1, <2>2 DEF PotsFunded
  <2>5. lent' \/ spent' # 0 => \E r \in executed' : r.does = "forward"
    BY <1>a, <1>b DEF PotsFunded
  <2> QED
    BY <1>7, <2>3, <2>4, <2>5 DEF PotsFunded, WagerOf
<1>9. ExecutedOnce' /\ IsFiniteSet(executed') /\ ExecutedInTurn'
  BY <1>a, <1>b DEF ExecutedOnce, ExecutedInTurn
<1> QED
  BY <1>a, <1>b, <1>5, <1>6, <1>7, <1>8, <1>9, PutTogether

\* Tokens that leave are counted.
LEMMA TokensCounted ==
    ASSUME pot \in Nat, spent \in Nat, TokensLeave
    PROVE  pot' \in Nat /\ spent' \in Nat /\ pot' + spent' = pot + spent
BY DEF TokensLeave

\* Calls that leave the matches and what was staked on them alone.
LEMMA PotsUndisturbed ==
    ASSUME RelayerInv, UNCHANGED <<escrow, volume>>, pot' + spent' = pot + spent,
           lent' \/ spent' # 0 => \E q \in executed' : q.does = "forward",
           \A m \in RelayedGames : StakesIn(m)' = StakesIn(m)
    PROVE  EscrowsCoherent' /\ PotsFunded'
<1>1. EscrowsCoherent /\ PotsFunded
  BY DEF RelayerInv
<1>2. HeldFor' = HeldFor /\ PotOf' = PotOf
  BY DEF HeldFor, PotOf
<1>3. EscrowsCoherent'
  BY <1>1 DEF EscrowsCoherent
<1>4. PotsFunded'
  BY <1>1, <1>2 DEF PotsFunded, WagerOf
<1> QED
  BY <1>3, <1>4

LEMMA BatchKept ==
    ASSUME RelayerInv, NEW batch \in Batches, NEW relayer,
           ExecuteMetaTxBatch(batch, relayer)
    PROVE  RelayerInv'
<1>a. /\ nonce \in [Players -> 0..MaxNonce] /\ bumps \in [Players -> 0..MaxNonce]
      /\ escrow \in [RelayedGames -> EscrowRecords]
      /\ pot \in Nat /\ spent \in Nat /\ lent \in BOOLEAN
      /\ relayed \in Nat /\ volume \in Nat
  BY DEF RelayerInv, RelayerTypeOK, EscrowRecords
<1> DEFINE new == {batch[i] : i \in DOMAIN batch}
<1>b. /\ InTheirTurns(batch)
      /\ nonce' = [p \in Players |->
                     nonce[p] + Cardinality({i \in DOMAIN batch : batch[i].from = p})]
      /\ relayed' = relayed + Len(batch)
      /\ executed' = executed \cup new
      /\ TokensLeave /\ lent' \in {lent, TRUE}
      /\ UNCHANGED <<Administration, escrow, volume, bumps>>
  BY DEF ExecuteMetaTxBatch, InTheirTurns
<1>c. new = {batch[i] : i \in DOMAIN batch}
  OBVIOUS
<1> HIDE DEF new
<1>1. /\ IsFiniteSet(new) /\ Cardinality(new) = Len(batch)
      /\ new \subseteq Forwards
      /\ \A q, r \in new : q.from = r.from /\ q.nonce = r.nonce => q = r
      /\ \A q \in new : nonce[q.from] <= q.nonce
      /\ \A p \in Players :
           /\ Cardinality({i \in DOMAIN batch : batch[i].from = p}) = Cardinality(Of(new, p))
           /\ nonce[p] + Cardinality(Of(new, p)) \in 0..MaxNonce
      /\ \A q \in new : q.nonce < nonce[q.from] + Cardinality(Of(new, q.from))
  <2>1. UseNonces(batch, new)
    BY <1>a, <1>b, <1>c, BatchInTurn
  <2> QED
    BY <2>1 DEF UseNonces
<1>2. \A p \in Players : nonce'[p] = nonce[p] + Cardinality(Of(new, p))
  BY <1>b, <1>1
<1>3. nonce' \in [Players -> 0..MaxNonce]
  <2>1. \A p \in Players : nonce'[p] \in 0..MaxNonce
    BY <1>1, <1>2
  <2>2. \E f : nonce' = [p \in Players |-> f[p]]
    <3> DEFINE f == [p \in Players |->
                      nonce[p] + Cardinality({i \in DOMAIN batch : batch[i].from = p})]
    <3>1. nonce' = f /\ f = [p \in Players |-> f[p]]
      BY <1>b
    <3> QED
      BY <3>1
  <2> QED
    BY <2>1, <2>2
<1>4. nonce' \in [Players -> Nat]
  BY <1>3, RelayerAssumption
<1>5. \A q \in new : q.from \in Players /\ q.nonce < nonce'[q.from]
  BY <1>1, <1>2 DEF Forwards
<1>6. /\ ExecutedOnce' /\ IsFiniteSet(executed') /\ ExecutedInTurn'
      /\ executed' \subseteq Stakings \cup Forwards
      /\ relayed' \in Nat
  BY <1>b, <1>1, <1>2, <1>4, <1>5, OnceMore
<1>7. \A m \in RelayedGames : StakesIn(m)' = StakesIn(m)
  BY <1>b, <1>1 DEF StakesIn, Forwards
<1>8. pot' \in Nat /\ spent' \in Nat /\ lent' \in BOOLEAN /\ pot' + spent' = pot + spent
  BY <1>a, <1>b, TokensCounted
<1>9. \E q \in executed' : q.does = "forward"
  <2>1. 1 \in DOMAIN batch /\ batch[1] \in Forwards
    BY RelayerAssumption DEF Batches
  <2> QED
    BY <1>b, <1>c, <2>1 DEF Forwards
<1>10. EscrowsCoherent' /\ PotsFunded'
  BY <1>b, <1>7, <1>8, <1>9, PotsUndisturbed
<1> QED
  BY <1>a, <1>b, <1>3, <1>6, <1>8, <1>10, PutTogether

LEMMA SpenderKept ==
    ASSUME RelayerInv, SpenderTakes
    PROVE  RelayerInv'
<1>a. /\ nonce \in [Players -> 0..MaxNonce] /\ bumps \in [Players -> 0..MaxNonce]
      /\ escrow \in [RelayedGames -> EscrowRecords]
      /\ pot \in Nat /\ spent \in Nat /\ lent \in BOOLEAN
      /\ relayed \in Nat /\ volume \in Nat
      /\ executed \subseteq Stakings \cup Forwards
      /\ ExecutedOnce /\ IsFiniteSet(executed) /\ ExecutedInTurn /\ PotsFunded
  BY DEF RelayerInv, RelayerTypeOK, EscrowRecords
<1>b. /\ lent /\ TokensLeave
      /\ UNCHANGED <<Administration, nonce, escrow, lent, relayed, volume, bumps, executed>>
  BY DEF SpenderTakes
<1>1. pot' \in Nat /\ spent' \in Nat /\ pot' + spent' = pot + spent
  BY <1>a, <1>b, TokensCounted
<1>2. \E q \in executed' : q.does = "forward"
  BY <1>a, <1>b DEF PotsFunded
<1>3. \A m \in RelayedGames : StakesIn(m)' = StakesIn(m)
  BY <1>b DEF StakesIn
<1>4. EscrowsCoherent' /\ PotsFunded'
  BY <1>b, <1>1, <1>2, <1>3, PotsUndisturbed
<1>5. ExecutedOnce' /\ IsFiniteSet(executed') /\ ExecutedInTurn'
  BY <1>a, <1>b DEF ExecutedOnce, ExecutedInTurn
<1> QED
  BY <1>a, <1>b, <1>1, <1>4, <1>5, PutTogether

LEMMA BumpKept ==
    ASSUME RelayerInv, NEW p \in Players, BumpNonce(p)
    PROVE  RelayerInv'
<1>a. /\ nonce \in [Players -> 0..MaxNonce] /\ bumps \in [Players -> 0..MaxNonce]
      /\ escrow \in [RelayedGames -> EscrowRecords]
      /\ pot \in Nat /\ spent \in Nat /\ lent \in BOOLEAN
      /\ relayed \in Nat /\ volume \in Nat
      /\ executed \subseteq Stakings \cup Forwards
      /\ ExecutedOnce /\ IsFiniteSet(executed) /\ ExecutedInTurn
      /\ MaxNonce \in Nat
  BY RelayerAssumption DEF RelayerInv, RelayerTypeOK, EscrowRecords
<1>b. /\ nonce[p] < MaxNonce
      /\ nonce' = [nonce EXCEPT ![p] = @ + 1]
      /\ bumps' = [bumps EXCEPT ![p] = @ + 1]
      /\ UNCHANGED <<Administration, escrow, tokenVars, relayed, volume, executed>>
  BY DEF BumpNonce
<1>1. \A r \in Players : /\ nonce[r] = bumps[r] + Cardinality(Of(executed, r))
                         /\ Cardinality(Of(executed, r)) \in Nat
                         /\ nonce[r] \in Nat /\ bumps[r] \in Nat
  <2> TAKE r \in Players
  <2>1. Of(executed, r) \subseteq executed /\ nonce[r] = bumps[r] + Cardinality(Of(executed, r))
    BY <1>a DEF ExecutedOnce, Of
  <2> DEFINE mine == Of(executed, r)
  <2> HIDE DEF mine
  <2>2. Cardinality(mine) \in Nat
    BY <1>a, <2>1, FS_Subset, FS_CardinalityType DEF mine
  <2> QED
    BY <1>a, <2>1, <2>2 DEF mine
<1>2. \A r \in Players : nonce'[r] = bumps'[r] + Cardinality(Of(executed, r))
  BY <1>a, <1>b, <1>1
<1>3. ExecutedOnce'
  BY <1>a, <1>b, <1>2 DEF ExecutedOnce, Of
<1>4. nonce' \in [Players -> 0..MaxNonce] /\ bumps' \in [Players -> 0..MaxNonce]
  BY <1>a, <1>b, <1>1
<1>5. ExecutedInTurn'
  <2>1. \A q \in executed : q.from \in Players /\ q.nonce \in Nat
    BY <1>a, StakingsAreTyped DEF Forwards
  <2> QED
    BY <1>a, <1>b, <1>1, <2>1 DEF ExecutedInTurn
<1>6. EscrowsCoherent' /\ PotsFunded'
  <2>1. \A m \in RelayedGames : StakesIn(m)' = StakesIn(m)
    BY <1>b DEF StakesIn
  <2>2. lent' \/ spent' # 0 => \E q \in executed' : q.does = "forward"
    BY <1>b DEF RelayerInv, PotsFunded, tokenVars
  <2> QED
    BY <1>b, <2>1, <2>2, PotsUndisturbed DEF tokenVars
<1> QED
  BY <1>a, <1>b, <1>3, <1>4, <1>5, <1>6, PutTogether DEF tokenVars

LEMMA AdministrationKept ==
    ASSUME RelayerInv, Administer \/ UNCHANGED relayerVars
    PROVE  RelayerInv'
<1>1. UNCHANGED <<nonce, escrow, pot, lent, spent, relayed, volume, bumps, executed>>
  BY DEF Administer, relayerVars, tokenVars
<1>2. RelayerTypeOK'
  <2>1. RelayerTypeOK
    BY DEF RelayerInv
  <2>2. CASE UNCHANGED relayerVars
    BY <2>1, <2>2 DEF relayerVars, tokenVars, RelayerTypeOK
  <2>3. CASE Administer
    <3>1. signer' \in [Players -> Keys \cup {NoKey}] /\ allowed' \subseteq Relayers
      BY <2>1, <2>3 DEF Administer, RelayerTypeOK
    <3>2. {openRelayers', halted'} \subseteq BOOLEAN
      BY <2>1, <2>3 DEF Administer, RelayerTypeOK
    <3>3. ledger' \in 1..LastLedger
      BY <2>1, <2>3, RelayerAssumption DEF Administer, RelayerTypeOK
    <3> QED
      BY <1>1, <2>1, <3>1, <3>2, <3>3 DEF RelayerTypeOK
  <2> QED
    BY <2>2, <2>3
<1>3. ExecutedOnce' /\ IsFiniteSet(executed') /\ ExecutedInTurn'
  BY <1>1 DEF RelayerInv, ExecutedOnce, ExecutedInTurn
<1>4. EscrowsCoherent' /\ PotsFunded'
  <2>1. \A m \in RelayedGames : StakesIn(m)' = StakesIn(m)
    BY <1>1 DEF StakesIn
  <2>2. lent' \/ spent' # 0 => \E q \in executed' : q.does = "forward"
    BY <1>1 DEF RelayerInv, PotsFunded
  <2> QED
    BY <1>1, <2>1, <2>2, PotsUndisturbed
<1> QED
  BY <1>2, <1>3, <1>4 DEF RelayerInv

LEMMA RelayerStarts == RelayerInit => RelayerInv
<1> SUFFICES ASSUME RelayerInit
             PROVE  RelayerInv
  OBVIOUS
<1>1. RelayerTypeOK
  <2>1. /\ nonce \in [Players -> 0..MaxNonce] /\ bumps \in [Players -> 0..MaxNonce]
        /\ ledger \in 1..LastLedger
    BY RelayerAssumption DEF RelayerInit
  <2>2. escrow \in [RelayedGames -> EscrowRecords]
    BY DEF RelayerInit, Unescrowed, EscrowRecords
  <2>3. {openRelayers, halted} \subseteq BOOLEAN /\ lent \in BOOLEAN
    BY Zenon DEF RelayerInit
  <2> QED
    BY <2>1, <2>2, <2>3 DEF RelayerInit, RelayerTypeOK, EscrowRecords
<1>2. executed = {} /\ relayed = 0
  BY DEF RelayerInit
<1>3. ExecutedOnce /\ IsFiniteSet(executed) /\ ExecutedInTurn
  <2>1. IsFiniteSet(executed) /\ Cardinality(executed) = 0
    BY <1>2, FS_EmptySet
  <2>2. \A p : {q \in executed : q.from = p} = {}
    BY <1>2
  <2>3. \A p \in Players : nonce[p] = 0 /\ bumps[p] = 0
    BY DEF RelayerInit
  <2>4. \A p \in Players : nonce[p] = bumps[p] + Cardinality({q \in executed : q.from = p})
    BY <2>2, <2>3, FS_EmptySet
  <2> QED
    BY <1>2, <2>1, <2>4 DEF ExecutedOnce, ExecutedInTurn
<1>4. \A m \in RelayedGames : escrow[m] = Unescrowed
  BY DEF RelayerInit
<1>5. EscrowsCoherent
  BY <1>4 DEF EscrowsCoherent, Unescrowed
<1>6. PotsFunded
  <2>1. \A m \in RelayedGames : StakesIn(m) = {}
    BY <1>2 DEF StakesIn
  <2>2. IsFiniteSet(RelayedGames) /\ \A m \in RelayedGames : HeldFor[m] = 0 /\ PotOf[m] = 0
    BY <1>4, RelayerAssumption DEF HeldFor, PotOf, Unescrowed
  <2>3. SumFunctionOnSet(HeldFor, RelayedGames) = 0 /\ SumFunctionOnSet(PotOf, RelayedGames) = 0
    BY <2>2, SumOfZeros
  <2>4. \A m \in RelayedGames : escrow[m].pot = SumFunctionOnSet(WagerOf, StakesIn(m))
    BY <1>4, <2>1, SumOfNothing DEF Unescrowed
  <2>5. \A m \in RelayedGames :
          /\ {q.from : q \in StakesIn(m)} = {escrow[m].player1, escrow[m].player2} \ {NoPlayer}
          /\ escrow[m].state \notin {"active", "settled"}
    BY <1>4, <2>1 DEF Unescrowed
  <2> QED
    BY <2>3, <2>4, <2>5 DEF RelayerInit, PotsFunded
<1> QED
  BY <1>1, <1>3, <1>5, <1>6 DEF RelayerInv

LEMMA RelayerKept == RelayerInv /\ [RelayerNext]_relayerVars => RelayerInv'
BY StakeKept, BatchKept, SpenderKept, BumpKept, PayoutKept, AdministrationKept DEF RelayerNext

\* Whatever is replayed, batched or submitted by several relayers, a request is executed once,
\* and the contract holds the pots less what forwarded calls took (execute_meta_tx_batch,
\* gasless_stake_match, settle_match, cancel_unmatched_game, bump_nonce).
THEOREM RelayerBooks == RelayerSpec => []RelayerSound
<1>1. RelayerInit => RelayerInv
  BY RelayerStarts
<1>2. RelayerInv => RelayerSound
  BY DEF RelayerInv, RelayerSound
<1> QED
  BY <1>1, <1>2, RelayerKept, PTL DEF RelayerSpec

-----------------------------------------------------------------------------
(***************************************************************************)
(* ContractGovernance.  Keys, fees, rewards and challenges share no        *)
(* variable; each part is kept by its own steps and by those of the others.*)
(***************************************************************************)
\* The lock of a proposed key lies a delay behind the proposal.
LockIsDelay == pendingKey.key # NoAdminKey => pendingKey.lock = pendingKey.at + RotationDelay

\* What the signers vote on is a fee the contract may charge.
ProposalIsFee == feeProposal # NoFeeProposal => feeProposal.bips \in FeeBips

\* The approvals that are counted are those of the pending proposal.
ApprovalsAreConsent == approvals = consent

GovernanceInv == GovernanceSound /\ LockIsDelay /\ ProposalIsFee /\ ApprovalsAreConsent

-----------------------------------------------------------------------------
LEMMA AmountsAdd ==
    ASSUME NEW S \in SUBSET Claims, NEW T \in SUBSET Claims, S \cap T = {}
    PROVE  /\ Amount(S \cup T) = Amount(S) + Amount(T)
           /\ Amount(S) \in Nat /\ Amount(T) \in Nat
<1>1. \A c \in Claims : AmountOf[c] \in Nat
  BY GovernanceAssumption DEF AmountOf
<1>2. IsFiniteSet(S) /\ IsFiniteSet(T)
  BY GovernanceAssumption, FS_Subset
<1>3. SumFunctionOnSet(AmountOf, S) \in Nat
  BY <1>1, <1>2, SumIsNat
<1>4. SumFunctionOnSet(AmountOf, T) \in Nat
  BY <1>1, <1>2, SumIsNat
<1>5. SumFunctionOnSet(AmountOf, S \cup T)
        = SumFunctionOnSet(AmountOf, S) + SumFunctionOnSet(AmountOf, T)
  BY <1>1, <1>2, SumOfDisjoint
<1> QED
  BY <1>3, <1>4, <1>5 DEF Amount

\* Rewards that are paid are credited once, and leave the treasury.
LEMMA RewardsKept ==
    ASSUME GovernanceTypeOK, RewardsPaidOnce,
           NEW S \in SUBSET Claims, ClaimPuzzleRewards(S)
    PROVE  /\ RewardsPaidOnce'
           /\ treasury' \in Nat /\ rewards' \in [Recipients -> Nat]
           /\ claimed' \subseteq Claims /\ usedNonces' = {c.nonce : c \in claimed'}
<1>a. /\ treasury \in Nat /\ rewards \in [Recipients -> Nat]
      /\ claimed \in SUBSET Claims /\ usedNonces = {c.nonce : c \in claimed}
  BY DEF GovernanceTypeOK
<1>b. /\ Fresh(S)
      /\ Amount(S) <= treasury
      /\ usedNonces' = usedNonces \cup {c.nonce : c \in S}
      /\ treasury' = treasury - Amount(S)
      /\ rewards' = [r \in Recipients |-> rewards[r] + Amount({c \in S : c.recipient = r})]
      /\ claimed' = claimed \cup S
  BY DEF ClaimPuzzleRewards
<1>1. claimed \cap S = {} /\ \A c \in claimed, d \in S : c.nonce # d.nonce
  BY <1>a, <1>b DEF Fresh
<1>2. \A c, d \in claimed' : c.nonce = d.nonce => c = d
  BY <1>b, <1>1 DEF Fresh, RewardsPaidOnce
<1>3. /\ Amount(claimed') = Amount(claimed) + Amount(S)
      /\ Amount(claimed) \in Nat /\ Amount(S) \in Nat
  BY <1>a, <1>b, <1>1, AmountsAdd
<1>4. treasury' + Amount(claimed') = StartTreasury /\ treasury' \in Nat
  BY <1>a, <1>b, <1>3 DEF RewardsPaidOnce
<1>5. ASSUME NEW r \in Recipients
      PROVE  rewards'[r] = Amount({c \in claimed' : c.recipient = r}) /\ rewards'[r] \in Nat
  <2> DEFINE before == {c \in claimed : c.recipient = r}
             paid == {c \in S : c.recipient = r}
  <2>1. /\ {c \in claimed' : c.recipient = r} = before \cup paid
        /\ before \in SUBSET Claims /\ paid \in SUBSET Claims /\ before \cap paid = {}
    BY <1>a, <1>b, <1>1
  <2>2. rewards[r] = Amount(before) /\ rewards'[r] = rewards[r] + Amount(paid)
    BY <1>b DEF RewardsPaidOnce
  <2> HIDE DEF before, paid
  <2>3. /\ Amount(before \cup paid) = Amount(before) + Amount(paid)
        /\ Amount(before) \in Nat /\ Amount(paid) \in Nat
    BY <2>1, AmountsAdd
  <2>4. rewards'[r] = Amount(before \cup paid) /\ rewards'[r] \in Nat
    BY <2>2, <2>3
  <2> QED
    BY <2>1, <2>4
<1>6. rewards' \in [Recipients -> Nat]
  <2>1. DOMAIN rewards' = Recipients /\ \E f : rewards' = [r \in Recipients |-> f[r]]
    <3>1. PICK f : f = [r \in Recipients |-> rewards[r] + Amount({c \in S : c.recipient = r})]
      OBVIOUS
    <3>2. rewards' = f /\ f = [r \in Recipients |-> f[r]]
      BY <1>b, <3>1
    <3> QED
      BY <3>2
  <2> QED
    BY <1>5, <2>1
<1>7. claimed' \subseteq Claims /\ usedNonces' = {c.nonce : c \in claimed'}
  BY <1>a, <1>b
<1> QED
  BY <1>2, <1>4, <1>5, <1>6, <1>7 DEF RewardsPaidOnce, Amount, AmountOf

\* A challenge that is issued opens, one that is verified closes.
LEMMA ChallengesKept ==
    ASSUME GovernanceTypeOK, ChallengesConsumed, NEW c \in Challenges,
           \/ \E expiry \in 1..LastSeq : IssueSep10Challenge(c, expiry)
           \/ VerifySep10Challenge(c)
    PROVE  /\ ChallengesConsumed'
           /\ challenge' \in [Challenges -> Nat]
           /\ verified' \in Nat /\ issues' \in Nat
<1> DEFINE open == {d \in Challenges : challenge[d] # 0}
           openNow == {d \in Challenges : challenge'[d] # 0}
<1>a. /\ challenge \in [Challenges -> Nat] /\ verified \in Nat /\ issues \in Nat
      /\ LastSeq \in Nat
  BY GovernanceAssumption DEF GovernanceTypeOK
<1>b. /\ IsFiniteSet(open) /\ Cardinality(open) \in Nat
      /\ issues = verified + Cardinality(open)
  <2>1. open \in SUBSET Challenges /\ issues = verified + Cardinality(open)
    BY DEF ChallengesConsumed
  <2> HIDE DEF open
  <2> QED
    BY <2>1, GovernanceAssumption, FS_Subset, FS_CardinalityType
<1>1. ASSUME NEW expiry \in 1..LastSeq, IssueSep10Challenge(c, expiry)
      PROVE  /\ issues' = verified' + Cardinality(openNow)
             /\ challenge' \in [Challenges -> Nat]
             /\ verified' \in Nat /\ issues' \in Nat
  <2>1. /\ challenge[c] = 0 /\ challenge' = [challenge EXCEPT ![c] = expiry]
        /\ issues' = issues + 1 /\ verified' = verified
        /\ expiry \in Nat /\ expiry # 0
    BY <1>a, <1>1 DEF IssueSep10Challenge
  <2>2. openNow = open \cup {c} /\ c \notin open
    BY <1>a, <2>1
  <2>3. challenge' \in [Challenges -> Nat]
    BY <1>a, <2>1
  <2> HIDE DEF open, openNow
  <2>4. Cardinality(open \cup {c}) = Cardinality(open) + 1
    BY <1>b, <2>2, FS_AddElement
  <2> QED
    BY <1>a, <1>b, <2>1, <2>2, <2>3, <2>4
<1>2. ASSUME VerifySep10Challenge(c)
      PROVE  /\ issues' = verified' + Cardinality(openNow)
             /\ challenge' \in [Challenges -> Nat]
             /\ verified' \in Nat /\ issues' \in Nat
  <2>1. /\ challenge[c] # 0 /\ challenge' = [challenge EXCEPT ![c] = 0]
        /\ issues' = issues /\ verified' = verified + 1
    BY <1>2 DEF VerifySep10Challenge
  <2>2. openNow = open \ {c} /\ c \in open
    BY <1>a, <2>1
  <2>3. challenge' \in [Challenges -> Nat]
    BY <1>a, <2>1
  <2> HIDE DEF open, openNow
  <2>4. Cardinality(open \ {c}) = Cardinality(open) - 1
    BY <1>b, <2>2, FS_RemoveElement
  <2>5. issues' = verified' + Cardinality(open \ {c})
    BY <1>a, <1>b, <2>1, <2>4
  <2> QED
    BY <1>a, <2>1, <2>2, <2>3, <2>5
<1> QED
  BY <1>1, <1>2 DEF ChallengesConsumed

\* The parts about the signing key, fees, rewards and challenges share no variable.
KeyPart ==
    /\ seq \in Nat /\ adminKey \in AdminKeys
    /\ pendingKey \in [key : AdminKeys \cup {NoAdminKey}, at : Nat, lock : Nat]
    /\ rotation \in Int
    /\ KeysWait /\ LockIsDelay

FeePart ==
    /\ signers \subseteq Signers /\ threshold \in Nat
    /\ feeProposal \in [bips : FeeBips \cup {0}, proposer : Signers \cup {NoSigner}]
    /\ approvals \subseteq Signers
    /\ feeBips \in FeeBips
    /\ consent \subseteq Signers /\ weak \in BOOLEAN
    /\ FeesApproved /\ ApprovalsAreConsent /\ ProposalIsFee

RewardPart ==
    /\ treasury \in Nat /\ rewards \in [Recipients -> Nat]
    /\ claimed \subseteq Claims /\ usedNonces = {c.nonce : c \in claimed}
    /\ RewardsPaidOnce

ChallengePart ==
    /\ challenge \in [Challenges -> Nat] /\ {verified, issues} \subseteq Nat
    /\ ChallengesConsumed

LEMMA PartsMakeWhole == GovernanceInv <=> KeyPart /\ FeePart /\ RewardPart /\ ChallengePart
BY DEF GovernanceInv, GovernanceSound, GovernanceTypeOK, KeyPart, FeePart, RewardPart,
       ChallengePart

LEMMA RewardsUntouched == RewardPart /\ UNCHANGED puzzleVars => RewardPart'
BY DEF RewardPart, RewardsPaidOnce, puzzleVars, Amount, AmountOf

LEMMA ChallengesUntouched == ChallengePart /\ UNCHANGED sep10Vars => ChallengePart'
BY DEF ChallengePart, ChallengesConsumed, sep10Vars

LEMMA FeesUntouched == FeePart /\ UNCHANGED feeVars => FeePart'
BY DEF FeePart, FeesApproved, ApprovalsAreConsent, ProposalIsFee, feeVars

LEMMA KeysUntouched == KeyPart /\ UNCHANGED keyVars /\ UNCHANGED seq => KeyPart'
BY DEF KeyPart, KeysWait, LockIsDelay, keyVars

\* A key that comes into force was proposed a delay before.
LEMMA KeyStep ==
    ASSUME KeyPart,
           (\E k \in AdminKeys : ProposeNewAdminKey(k)) \/ AcceptNewAdminKey \/ LedgerCloses
    PROVE  KeyPart'
<1>a. RotationDelay \in Nat /\ NoAdminKey \notin AdminKeys
  BY GovernanceAssumption
<1>1. ASSUME NEW k \in AdminKeys, ProposeNewAdminKey(k)
      PROVE  KeyPart'
  BY <1>a, <1>1 DEF ProposeNewAdminKey, KeyPart, KeysWait, LockIsDelay
<1>2. CASE AcceptNewAdminKey
  <2>1. /\ pendingKey.key # NoAdminKey
        /\ seq >= pendingKey.at + pendingKey.lock
        /\ adminKey' = pendingKey.key /\ pendingKey' = NoKeyProposal
        /\ rotation' = seq - pendingKey.at /\ seq' = seq
    BY <1>2 DEF AcceptNewAdminKey, Unlocked
  <2>2. /\ pendingKey.at \in Nat /\ pendingKey.lock \in Nat /\ seq \in Nat
        /\ pendingKey.lock = pendingKey.at + RotationDelay
        /\ pendingKey.key \in AdminKeys
    BY <2>1 DEF KeyPart, LockIsDelay
  <2>3. rotation' >= RotationDelay /\ rotation' \in Int
    BY <1>a, <2>1, <2>2
  <2> QED
    BY <2>1, <2>2, <2>3 DEF KeyPart, KeysWait, LockIsDelay, NoKeyProposal
<1>3. CASE LedgerCloses
  BY <1>3 DEF LedgerCloses, KeyPart, KeysWait, LockIsDelay, keyVars
<1> QED
  BY <1>1, <1>2, <1>3

\* The approvals that execute a change are given to it, by signers.
LEMMA FeeStep ==
    ASSUME FeePart, FeeNext
    PROVE  FeePart'
<1>a. /\ IsFiniteSet(Signers) /\ NoSigner \notin Signers
  BY GovernanceAssumption
<1>b. \A A \in SUBSET Signers : IsFiniteSet(A) /\ Cardinality(A) \in Nat
  BY <1>a, FS_Subset, FS_CardinalityType
<1>1. ASSUME NEW list \in SignerLists, NEW n \in 1..MaxListed, ConfigureMultisig(list, n)
      PROVE  FeePart'
  <2>1. Range(list) \in SUBSET Signers
    BY DEF SignerLists, Range
  <2>2. /\ signers' = Range(list) /\ threshold' = n /\ n \in Nat
        /\ UNCHANGED <<feeProposal, approvals, feeBips, consent, weak>>
    BY <1>1, GovernanceAssumption DEF ConfigureMultisig
  <2> QED
    BY <2>1, <2>2 DEF FeePart, FeesApproved, ApprovalsAreConsent, ProposalIsFee
<1>2. ASSUME NEW s \in Signers, NEW bips \in FeeBips, ProposeFeeChange(s, bips)
      PROVE  FeePart'
  BY <1>a, <1>2
     DEF ProposeFeeChange, FeePart, FeesApproved, ApprovalsAreConsent, ProposalIsFee
<1>3. ASSUME NEW s \in Signers, ApproveFeeProposal(s)
      PROVE  FeePart'
  <2> DEFINE A == approvals \cup {s}
  <2>1. /\ s \in signers /\ feeProposal # NoFeeProposal /\ A \in SUBSET Signers
        /\ consent \cup {s} = A
    BY <1>3 DEF ApproveFeeProposal, FeePart, ApprovalsAreConsent
  <2>2. UNCHANGED <<signers, threshold>>
    BY <1>3 DEF ApproveFeeProposal
  <2>4. CASE Enough(A) /\ feeBips' = feeProposal.bips
             /\ weak' = (weak \/ Cardinality(consent \cup {s}) < threshold)
             /\ feeProposal' = NoFeeProposal /\ approvals' = {} /\ consent' = {}
    <3>1. ~(Cardinality(consent \cup {s}) < threshold)
      <4>1. Cardinality(A) \in Nat /\ threshold \in Nat /\ Cardinality(A) >= threshold
        BY <1>b, <2>1, <2>4 DEF Enough, FeePart
      <4> QED
        BY <2>1, <4>1
    <3>2. ~ weak' /\ weak' \in BOOLEAN
      BY <2>4, <3>1, Zenon DEF FeePart, FeesApproved
    <3>3. feeProposal' \in [bips : FeeBips \cup {0}, proposer : Signers \cup {NoSigner}]
      BY <2>4 DEF NoFeeProposal
    <3>4. feeBips' \in FeeBips
      BY <2>1, <2>4 DEF FeePart, ProposalIsFee
    <3> QED
      BY <2>2, <2>4, <3>2, <3>3, <3>4
         DEF FeePart, FeesApproved, ApprovalsAreConsent, ProposalIsFee
  <2>5. CASE /\ approvals' = A /\ consent' = consent \cup {s}
             /\ UNCHANGED <<feeProposal, feeBips, weak>>
    BY <2>1, <2>2, <2>5 DEF FeePart, FeesApproved, ApprovalsAreConsent, ProposalIsFee
  <2> QED
    BY <1>3, <2>4, <2>5 DEF ApproveFeeProposal
<1>4. ASSUME NEW s \in Signers, CancelFeeProposal(s)
      PROVE  FeePart'
  BY <1>4
     DEF CancelFeeProposal, FeePart, FeesApproved, ApprovalsAreConsent, ProposalIsFee,
         NoFeeProposal
<1>5. ASSUME NEW bips \in FeeBips, ConfigureFees(bips)
      PROVE  FeePart'
  BY <1>5 DEF ConfigureFees, FeePart, FeesApproved, ApprovalsAreConsent, ProposalIsFee
<1> QED
  BY <1>1, <1>2, <1>3, <1>4, <1>5 DEF FeeNext

LEMMA GovernanceStarts == GovernanceInit => GovernanceInv
<1> SUFFICES ASSUME GovernanceInit
             PROVE  GovernanceInv
  OBVIOUS
<1>1. KeyPart
  BY GovernanceAssumption DEF GovernanceInit, KeyPart, KeysWait, LockIsDelay, NoKeyProposal
<1>2. FeePart
  <2>1. weak \in BOOLEAN /\ ~ weak /\ consent = {} /\ approvals = {}
    BY Zenon DEF GovernanceInit
  <2> QED
    BY <2>1
       DEF GovernanceInit, FeePart, FeesApproved, ApprovalsAreConsent, ProposalIsFee,
           NoFeeProposal
<1>3. RewardPart
  <2>1. claimed = {} /\ treasury = StartTreasury /\ StartTreasury \in Nat
    BY DEF GovernanceInit, StartTreasury
  <2>2. Amount({}) = 0
    BY SumOfNothing DEF Amount
  <2>3. \A r : {c \in claimed : c.recipient = r} = {}
    BY <2>1
  <2>4. \A r \in Recipients : rewards[r] = Amount({c \in claimed : c.recipient = r})
    BY <2>2, <2>3 DEF GovernanceInit
  <2>5. treasury + Amount(claimed) = StartTreasury
    BY <2>1, <2>2
  <2> QED
    BY <2>1, <2>4, <2>5 DEF GovernanceInit, RewardPart, RewardsPaidOnce
<1>4. ChallengePart
  <2>1. {c \in Challenges : challenge[c] # 0} = {} /\ issues = 0 /\ verified = 0
    BY DEF GovernanceInit
  <2> QED
    BY <2>1, FS_EmptySet DEF GovernanceInit, ChallengePart, ChallengesConsumed
<1> QED
  BY <1>1, <1>2, <1>3, <1>4, PartsMakeWhole

LEMMA PartsKept ==
    ASSUME KeyPart, FeePart, RewardPart, ChallengePart, [GovernanceNext]_governanceVars
    PROVE  KeyPart' /\ FeePart' /\ RewardPart' /\ ChallengePart'
<1>a. GovernanceTypeOK /\ RewardsPaidOnce /\ ChallengesConsumed
  BY DEF KeyPart, FeePart, RewardPart, ChallengePart, GovernanceTypeOK
<1>1. CASE FeeNext
  <2>1. FeePart'
    BY <1>1, FeeStep
  <2>2. UNCHANGED <<seq, keyVars, puzzleVars, sep10Vars>>
    BY <1>1 DEF FeeNext, ConfigureMultisig, ProposeFeeChange, ApproveFeeProposal,
                CancelFeeProposal, ConfigureFees
  <2> QED
    BY <2>1, <2>2, KeysUntouched, RewardsUntouched, ChallengesUntouched
<1>2. CASE (\E k \in AdminKeys : ProposeNewAdminKey(k)) \/ AcceptNewAdminKey \/ LedgerCloses
  <2>1. KeyPart'
    BY <1>2, KeyStep
  <2>2. UNCHANGED <<feeVars, puzzleVars, sep10Vars>>
    BY <1>2 DEF ProposeNewAdminKey, AcceptNewAdminKey, LedgerCloses
  <2> QED
    BY <2>1, <2>2, FeesUntouched, RewardsUntouched, ChallengesUntouched
<1>3. ASSUME NEW S \in SUBSET Claims, ClaimPuzzleRewards(S)
      PROVE  KeyPart' /\ FeePart' /\ RewardPart' /\ ChallengePart'
  <2>1. RewardPart'
    BY <1>a, <1>3, RewardsKept DEF RewardPart
  <2>2. UNCHANGED <<seq, keyVars, feeVars, sep10Vars>>
    BY <1>3 DEF ClaimPuzzleRewards
  <2> QED
    BY <2>1, <2>2, KeysUntouched, FeesUntouched, ChallengesUntouched
<1>4. ASSUME NEW c \in Challenges,
             \/ \E expiry \in 1..LastSeq : IssueSep10Challenge(c, expiry)
             \/ VerifySep10Challenge(c)
      PROVE  KeyPart' /\ FeePart' /\ RewardPart' /\ ChallengePart'
  <2>1. ChallengePart'
    BY <1>a, <1>4, ChallengesKept DEF ChallengePart
  <2>2. UNCHANGED <<seq, keyVars, feeVars, puzzleVars>>
    BY <1>4 DEF IssueSep10Challenge, VerifySep10Challenge
  <2> QED
    BY <2>1, <2>2, KeysUntouched, FeesUntouched, RewardsUntouched
<1>5. CASE UNCHANGED governanceVars
  BY <1>5, KeysUntouched, FeesUntouched, RewardsUntouched, ChallengesUntouched
     DEF governanceVars
<1> QED
  BY <1>1, <1>2, <1>3, <1>4, <1>5 DEF GovernanceNext, BackendNext

LEMMA GovernanceKept == GovernanceInv /\ [GovernanceNext]_governanceVars => GovernanceInv'
<1>1. (KeyPart /\ FeePart /\ RewardPart /\ ChallengePart)' => GovernanceInv'
  BY PartsMakeWhole, PTL
<1> QED
  BY <1>1, PartsKept, PartsMakeWhole

\* A new signing key waits its delay, a vote changes fees with enough approvals of that change,
\* every reward is paid once and every challenge verifies once (accept_new_admin_key,
\* approve_fee_proposal, claim_puzzle_rewards_batch, verify_sep10_challenge).
THEOREM GovernanceKeepsRules == GovernanceSpec => []GovernanceSound
<1>1. GovernanceInv => GovernanceSound
  BY DEF GovernanceInv
<1> QED
  BY GovernanceStarts, GovernanceKept, <1>1, PTL DEF GovernanceSpec
-----------------------------------------------------------------------------
(***************************************************************************)
(* SponsorshipEscrow.  The plan of a tournament adds up to all of its      *)
(* deposits, so what the stages have paid stays in proportion to them.     *)
(***************************************************************************)
CupRecords == [status : Status, stage : Nat, plan : Plans \cup {StandardPlan, <<>>},
               deadline : {"none", "ahead", "passed"}]

\* How far a tournament got fits its status.
Fits(cupOf) ==
    /\ cupOf.plan \in Seq(Nat)
    /\ cupOf.status \in {"none", "accepting_deposits", "cancelled"} => cupOf.stage = 0
    /\ cupOf.status \in {"accepting_deposits", "active"} =>
         /\ cupOf.stage < Len(cupOf.plan)
         /\ TotalBasisPoints(cupOf.plan) = 10000


StagesFit ==
    \A c \in Cups : Fits(cup[c])

\* The basis points of the stages that were signed off.
Reached(c) == SumFunctionOnSet(cup[c].plan, 1..cup[c].stage)

\* The stages so far have not paid more than their part of the deposits.
PaidInProportion ==
    \A c \in Cups, t \in Tokens :
        cup[c].status \in {"none", "accepting_deposits", "active"} =>
        10000 * disbursed[c][t] <= totalDeposited[c][t] * Reached(c)

CupInv ==
    CupTypeOK /\ StagesFit /\ PaidInProportion /\ CupsBalanced /\ ChestBacksAllCups

\* A rounded share is at most its part, and the parts so far and this one are at most all.
LEMMA ShareFits ==
    ASSUME NEW total \in Nat, NEW paid \in Nat, NEW before \in Nat, NEW points \in Nat,
           before + points <= 10000, 10000 * paid <= total * before
    PROVE  LET share == (total * points) \div 10000
           IN  /\ share \in Nat
               /\ 10000 * (paid + share) <= total * (before + points)
               /\ paid + share <= total
<1> DEFINE share == (total * points) \div 10000
<1>1. total * points \in Nat /\ total * before \in Nat
  OBVIOUS
<1>2. \A x \in Nat : (x \div 10000) \in Nat /\ 10000 * (x \div 10000) <= x
  OBVIOUS
<1>3. share \in Nat /\ 10000 * share <= total * points
  BY <1>1, <1>2
<1>4. total * (before + points) = total * before + total * points
  OBVIOUS
<1>5. total * (before + points) <= total * 10000
  OBVIOUS
<1>6. total * (before + points) \in Nat
  OBVIOUS
<1> HIDE DEF share
<1>7. 10000 * (paid + share) <= total * before + total * points
  BY <1>1, <1>3
<1>8. paid + share <= total
  BY <1>3, <1>4, <1>5, <1>6, <1>7
<1> QED
  BY <1>3, <1>4, <1>7, <1>8 DEF share

\* The next stage of a plan that adds up is part of the whole.
LEMMA NextStagePoints ==
    ASSUME NEW plan \in Seq(Nat), NEW k \in Nat, k < Len(plan),
           TotalBasisPoints(plan) = 10000
    PROVE  /\ SumFunctionOnSet(plan, 1..k) \in Nat
           /\ SumFunctionOnSet(plan, 1..(k + 1)) = SumFunctionOnSet(plan, 1..k) + plan[k + 1]
           /\ SumFunctionOnSet(plan, 1..k) + plan[k + 1] <= 10000
           /\ plan[k + 1] \in Nat
<1> DEFINE n == Len(plan)
           m == k + 1
           first == 1..k
           upto == 1..(k + 1)
           rest == (k + 2)..n
           all == 1..n
<1>1. n \in Nat /\ DOMAIN plan = 1..n /\ \A i \in 1..n : plan[i] \in Nat
  OBVIOUS
<1>2. SumFunctionOnSet(plan, all) = 10000
  BY <1>1 DEF TotalBasisPoints
<1>3. k < n
  OBVIOUS
<1> HIDE DEF n
<1>4. /\ \A i \in upto : plan[i] \in Nat
      /\ \A i \in rest : plan[i] \in Nat
      /\ m \in upto /\ m \notin first
      /\ upto = first \cup {m}
      /\ all = upto \cup rest
      /\ upto \cap rest = {}
  BY <1>1, <1>3
<1>5. IsFiniteSet(first) /\ IsFiniteSet(upto) /\ IsFiniteSet(rest)
  <2>1. \A i, j \in Int : IsFiniteSet(i..j)
    BY FS_Interval
  <2>2. 1 \in Int /\ k \in Int /\ k + 1 \in Int /\ k + 2 \in Int /\ n \in Int
    BY <1>1
  <2> QED
    BY <2>1, <2>2
<1> HIDE DEF m, first, upto, rest, all
<1>6. SumFunctionOnSet(plan, first) \in Nat
  BY <1>4, <1>5, SumIsNat
<1>7. SumFunctionOnSet(plan, upto) = SumFunctionOnSet(plan, first) + plan[m]
  <2>1. (\A i \in first : plan[i] \in Int) /\ plan[m] \in Int
    BY <1>4
  <2> QED
    BY <1>4, <1>5, <2>1, SumAdds
<1>8. SumFunctionOnSet(plan, rest) \in Nat
  BY <1>4, <1>5, SumIsNat
<1>9. SumFunctionOnSet(plan, all)
        = SumFunctionOnSet(plan, upto) + SumFunctionOnSet(plan, rest)
  <2>1. \A i \in upto \cup rest : plan[i] \in Int
    BY <1>4
  <2>2. upto \cap rest = {}
    BY <1>4
  <2>3. SumFunctionOnSet(plan, upto \cup rest)
          = SumFunctionOnSet(plan, upto) + SumFunctionOnSet(plan, rest)
    BY <1>5, <2>1, <2>2, SumOfDisjoint
  <2> QED
    BY <1>4, <2>3
<1>10. plan[m] \in Nat
  BY <1>4
<1>11. /\ SumFunctionOnSet(plan, first) \in Nat
       /\ SumFunctionOnSet(plan, upto) = SumFunctionOnSet(plan, first) + plan[m]
       /\ SumFunctionOnSet(plan, first) + plan[m] <= 10000
       /\ plan[m] \in Nat
  BY <1>2, <1>6, <1>7, <1>8, <1>9, <1>10
<1> QED
  BY <1>11 DEF m, first, upto

\* What a stage pays never exceeds what remains, and keeps the proportion.
LEMMA StagePays ==
    ASSUME CupTypeOK, StagesFit, PaidInProportion, CupsBalanced,
           NEW c \in Cups, NEW t \in Tokens,
           cup[c].status \in {"accepting_deposits", "active"}
    PROVE  /\ Share(c, t) \in Nat
           /\ Share(c, t) <= remaining[c][t]
           /\ ~LastStage(c) => 10000 * (disbursed[c][t] + Share(c, t))
                <= totalDeposited[c][t] * SumFunctionOnSet(cup[c].plan, 1..(cup[c].stage + 1))
<1> DEFINE plan == cup[c].plan
           k == cup[c].stage
           total == totalDeposited[c][t]
           paid == disbursed[c][t]
           before == SumFunctionOnSet(plan, 1..k)
<1>1. /\ total \in Nat /\ paid \in Nat /\ remaining[c][t] \in Nat
      /\ remaining[c][t] = total - paid
  BY DEF CupTypeOK, CupsBalanced
<1>2. k \in Nat /\ plan \in Seq(Nat) /\ k < Len(plan) /\ TotalBasisPoints(plan) = 10000
  BY DEF CupTypeOK, StagesFit, Fits
<1>3. 10000 * paid <= total * before
  BY DEF PaidInProportion, Reached
<1>4. CASE LastStage(c)
  BY <1>1, <1>4 DEF Share
<1>5. CASE ~LastStage(c)
  <2>1. Share(c, t) = (total * plan[k + 1]) \div 10000
    BY <1>5 DEF Share
  <2> HIDE DEF plan, k, total, paid
  <2>2. /\ before \in Nat /\ plan[k + 1] \in Nat
        /\ SumFunctionOnSet(plan, 1..(k + 1)) = before + plan[k + 1]
        /\ before + plan[k + 1] <= 10000
    BY <1>2, NextStagePoints
  <2> HIDE DEF before
  <2> DEFINE points == plan[k + 1]
  <2>3. points \in Nat /\ before + points <= 10000
    BY <2>2
  <2> HIDE DEF points
  <2>4. /\ (total * points) \div 10000 \in Nat
        /\ 10000 * (paid + ((total * points) \div 10000)) <= total * (before + points)
        /\ paid + ((total * points) \div 10000) <= total
    BY <1>1, <1>3, <2>2, <2>3, ShareFits
  <2>5. Share(c, t) = (total * points) \div 10000
    BY <2>1 DEF points
  <2>6. SumFunctionOnSet(plan, 1..(k + 1)) = before + points
    BY <2>2 DEF points
  <2>7. /\ Share(c, t) \in Nat
        /\ 10000 * (paid + Share(c, t)) <= total * SumFunctionOnSet(plan, 1..(k + 1))
        /\ paid + Share(c, t) <= total
    BY <2>4, <2>5, <2>6
  <2>8. Share(c, t) <= remaining[c][t]
    BY <1>1, <2>7
  <2> QED
    BY <2>7, <2>8 DEF plan, k, total, paid
<1> QED
  BY <1>4, <1>5

\* What is left when some summands are cleared.
LEMMA SumClears ==
    ASSUME NEW f, NEW g, NEW S, IsFiniteSet(S), NEW T \in SUBSET S,
           \A y \in S : f[y] \in Nat,
           \A y \in T : g[y] = 0, \A y \in S \ T : g[y] = f[y]
    PROVE  /\ SumFunctionOnSet(g, S) = SumFunctionOnSet(f, S) - SumFunctionOnSet(f, T)
           /\ SumFunctionOnSet(f, T) \in Nat /\ SumFunctionOnSet(g, S) \in Nat
<1> DEFINE R == S \ T
<1>1. /\ IsFiniteSet(T) /\ IsFiniteSet(R)
      /\ T \cup R = S /\ T \cap R = {}
  BY FS_Subset
<1>2. /\ \A y \in T : f[y] \in Int /\ g[y] \in Int /\ g[y] = 0
      /\ \A y \in R : f[y] \in Int /\ g[y] \in Int /\ g[y] = f[y]
      /\ \A y \in S : f[y] \in Int /\ g[y] \in Int
      /\ \A y \in S : g[y] \in Nat
      /\ \A y \in T : f[y] \in Nat
  OBVIOUS
<1> HIDE DEF R
<1>3. /\ SumFunctionOnSet(f, T \cup R) = SumFunctionOnSet(f, T) + SumFunctionOnSet(f, R)
      /\ SumFunctionOnSet(f, R) \in Int
  <2>1. \A y \in T \cup R : f[y] \in Int
    BY <1>1, <1>2
  <2> QED
    BY <1>1, <2>1, SumOfDisjoint
<1>4. SumFunctionOnSet(g, T \cup R) = SumFunctionOnSet(g, T) + SumFunctionOnSet(g, R)
  <2>1. \A y \in T \cup R : g[y] \in Int
    BY <1>1, <1>2
  <2> QED
    BY <1>1, <2>1, SumOfDisjoint
<1>5. SumFunctionOnSet(g, T) = 0
  BY <1>1, <1>2, SumOfZeros
<1>6. SumFunctionOnSet(f, R) = SumFunctionOnSet(g, R)
  BY <1>1, <1>2, SumOfEquals
<1>7. SumFunctionOnSet(f, T) \in Nat
  BY <1>1, <1>2, SumIsNat
<1>8. SumFunctionOnSet(g, S) \in Nat
  BY <1>2, SumIsNat
<1>9. /\ SumFunctionOnSet(f, S) = SumFunctionOnSet(f, T) + SumFunctionOnSet(f, R)
      /\ SumFunctionOnSet(g, S) = SumFunctionOnSet(g, T) + SumFunctionOnSet(g, R)
  BY <1>1, <1>3, <1>4
<1> QED
  BY <1>3, <1>5, <1>6, <1>7, <1>8, <1>9

\* The chest gains what the remainder of a tournament gains.
LEMMA ChestFollows ==
    ASSUME ChestBacksAllCups, NEW c \in Cups,
           remaining \in [Cups -> [Tokens -> Nat]], remaining' \in [Cups -> [Tokens -> Nat]],
           \A d \in Cups \ {c} : remaining'[d] = remaining[d],
           chest \in [Tokens -> Nat], DOMAIN chest' = Tokens,
           chest' = [t \in Tokens |-> chest'[t]],
           \A t \in Tokens : chest'[t] = chest[t] + (remaining'[c][t] - remaining[c][t])
    PROVE  ChestBacksAllCups' /\ chest' \in [Tokens -> Nat]
<1>1. ASSUME NEW t \in Tokens
      PROVE  chest'[t] = SumFunctionOnSet([d \in Cups |-> remaining'[d][t]], Cups)
             /\ chest'[t] \in Nat
  <2> DEFINE f == [d \in Cups |-> remaining[d][t]]
             g == [d \in Cups |-> remaining'[d][t]]
  <2>1. /\ \A d \in Cups : f[d] \in Int /\ g[d] \in Int
        /\ \A d \in Cups : g[d] \in Nat
        /\ \A d \in Cups \ {c} : g[d] = f[d]
        /\ f[c] = remaining[c][t] /\ g[c] = remaining'[c][t]
    OBVIOUS
  <2>2. chest[t] = SumFunctionOnSet(f, Cups)
    BY DEF ChestBacksAllCups
  <2>3. chest'[t] = chest[t] + (g[c] - f[c])
    BY <2>1
  <2>4. IsFiniteSet(Cups)
    BY SponsorshipAssumption
  <2> HIDE DEF f, g
  <2>5. SumFunctionOnSet(g, Cups) = SumFunctionOnSet(f, Cups) + (g[c] - f[c])
    BY <2>1, <2>4, SumChanges
  <2>6. SumFunctionOnSet(g, Cups) \in Nat
    BY <2>1, <2>4, SumIsNat
  <2>7. chest'[t] = SumFunctionOnSet(g, Cups) /\ chest'[t] \in Nat
    BY <2>2, <2>3, <2>5, <2>6
  <2> QED
    BY <2>7 DEF g
<1> QED
  BY <1>1 DEF ChestBacksAllCups

LEMMA OwedIsNat ==
    ASSUME deposit \in [Cups -> [Sponsors -> [Tokens -> Nat]]],
           NEW c \in Cups, NEW t \in Tokens, NEW S \in SUBSET Sponsors
    PROVE  DepositsOf(c, S, t) \in Nat
<1> DEFINE f == [s \in Sponsors |-> deposit[c][s][t]]
<1>1. IsFiniteSet(S) /\ \A s \in S : f[s] \in Nat
  BY SponsorshipAssumption, FS_Subset
<1> HIDE DEF f
<1>2. SumFunctionOnSet(f, S) \in Nat
  BY <1>1, SumIsNat
<1> QED
  BY <1>2 DEF DepositsOf, f

LEMMA CupStarts == CupInit => CupInv
<1> SUFFICES ASSUME CupInit  PROVE CupInv
  OBVIOUS
<1> USE DEF CupInit
<1>1. CupTypeOK
  <2>1. cup \in [Cups -> [status : Status, stage : Nat,
                         plan : Plans \cup {StandardPlan, <<>>},
                         deadline : {"none", "ahead", "passed"}]]
    <3>1. <<>> \in Plans \cup {StandardPlan, <<>>}
      OBVIOUS
    <3> HIDE DEF StandardPlan
    <3> QED
      BY <3>1 DEF Status
  <2>2. /\ {totalDeposited, remaining, disbursed} \subseteq [Cups -> [Tokens -> Nat]]
        /\ deposit \in [Cups -> [Sponsors -> [Tokens -> Nat]]]
        /\ chest \in [Tokens -> Nat] /\ frozen \in BOOLEAN
    <3>1. /\ totalDeposited \in [Cups -> [Tokens -> Nat]]
          /\ remaining \in [Cups -> [Tokens -> Nat]]
          /\ disbursed \in [Cups -> [Tokens -> Nat]]
      OBVIOUS
    <3>2. /\ deposit \in [Cups -> [Sponsors -> [Tokens -> Nat]]]
          /\ chest \in [Tokens -> Nat]
      OBVIOUS
    <3>3. frozen \in BOOLEAN
      BY Zenon
    <3> QED
      BY <3>1, <3>2, <3>3
  <2> QED
    BY <2>1, <2>2 DEF CupTypeOK
<1>2. StagesFit /\ PaidInProportion
  <2>1. \A c \in Cups : cup[c].status = "none" /\ cup[c].plan = <<>> /\ cup[c].stage = 0
    OBVIOUS
  <2>2. <<>> \in Seq(Nat)
    OBVIOUS
  <2> HIDE DEF CupInit
  <2>3. StagesFit
    <3>1. \A c \in Cups : cup[c].plan \in Seq(Nat)
      BY <2>1, <2>2, Zenon
    <3>2. \A c \in Cups : cup[c].status \notin {"accepting_deposits", "active"}
                           /\ cup[c].stage = 0
      BY <2>1
    <3> QED
      BY <3>1, <3>2 DEF StagesFit, Fits
  <2>4. PaidInProportion
    <3> SUFFICES ASSUME NEW c \in Cups, NEW t \in Tokens
                 PROVE  10000 * disbursed[c][t] <= totalDeposited[c][t] * Reached(c)
      BY DEF PaidInProportion
    <3>1. Reached(c) = 0
      BY <2>1, SumOfNothing DEF Reached
    <3>2. disbursed[c][t] = 0 /\ totalDeposited[c][t] = 0
      BY DEF CupInit
    <3> QED
      BY <3>1, <3>2
  <2> QED
    BY <2>3, <2>4
<1>3. ASSUME NEW c \in Cups, NEW t \in Tokens  PROVE DepositsOf(c, Sponsors, t) = 0
  <2>1. \A s \in Sponsors : [r \in Sponsors |-> deposit[c][r][t]][s] = 0
    OBVIOUS
  <2> QED
    BY <2>1, SponsorshipAssumption, SumOfZeros DEF DepositsOf
<1>4. CupsBalanced
  BY <1>3 DEF CupsBalanced
<1>5. ChestBacksAllCups
  <2> SUFFICES ASSUME NEW t \in Tokens
               PROVE  chest[t] = SumFunctionOnSet([c \in Cups |-> remaining[c][t]], Cups)
    BY DEF ChestBacksAllCups
  <2>1. \A d \in Cups : [c \in Cups |-> remaining[c][t]][d] = 0
    OBVIOUS
  <2> QED
    BY <2>1, SponsorshipAssumption, SumOfZeros
<1> QED
  BY <1>1, <1>2, <1>4, <1>5 DEF CupInv

\* Before its first deposit a tournament and its plan are made; no books change.
LEMMA BooksUntouched ==
    ASSUME CupTypeOK, ChestBacksAllCups, UNCHANGED CupAccounts
    PROVE  /\ ChestBacksAllCups'
           /\ \A c \in Cups, t \in Tokens : DepositsOf(c, Sponsors, t)' = DepositsOf(c, Sponsors, t)
           /\ {totalDeposited, remaining, disbursed}' \subseteq [Cups -> [Tokens -> Nat]]
           /\ deposit' \in [Cups -> [Sponsors -> [Tokens -> Nat]]]
           /\ chest' \in [Tokens -> Nat]
  BY DEF CupTypeOK, ChestBacksAllCups, CupAccounts, DepositsOf


\* Nothing is paid before the first stage.
LEMMA NothingPaid ==
    ASSUME CupTypeOK, StagesFit, PaidInProportion, NEW c \in Cups, NEW t \in Tokens,
           cup[c].status \in {"none", "accepting_deposits"}, cup[c].stage = 0
    PROVE  disbursed[c][t] = 0
<1>1. 10000 * disbursed[c][t] <= totalDeposited[c][t] * Reached(c)
  BY DEF PaidInProportion
<1>2. 1..0 = {}
  OBVIOUS
<1>3. Reached(c) = 0
  BY <1>2, SumOfNothing DEF Reached
<1>4. disbursed[c][t] \in Nat /\ totalDeposited[c][t] \in Nat
  BY DEF CupTypeOK
<1> QED
  BY <1>1, <1>3, <1>4

\* A step that changes a tournament and no account, with what it must respect.
LEMMA CupAlone ==
    ASSUME CupInv, UNCHANGED CupAccounts, frozen' \in BOOLEAN,
           NEW c \in Cups,
           NEW new \in CupRecords,
           cup' = [cup EXCEPT ![c] = new],
           Fits(new),
           \/ new.status = cup[c].status /\ new.plan = cup[c].plan /\ new.stage = cup[c].stage
           \/ /\ new.status \in {"accepting_deposits", "cancelled"}
              /\ cup[c].status \in {"none", "accepting_deposits"}
    PROVE  CupInv'
<1>1. CupTypeOK /\ StagesFit /\ PaidInProportion /\ CupsBalanced /\ ChestBacksAllCups
  BY DEF CupInv
<1>2. /\ ChestBacksAllCups'
      /\ \A d \in Cups, t \in Tokens : DepositsOf(d, Sponsors, t)' = DepositsOf(d, Sponsors, t)
      /\ {totalDeposited, remaining, disbursed}' \subseteq [Cups -> [Tokens -> Nat]]
      /\ deposit' \in [Cups -> [Sponsors -> [Tokens -> Nat]]]
      /\ chest' \in [Tokens -> Nat]
  BY <1>1, BooksUntouched
<1>3. /\ totalDeposited' = totalDeposited /\ remaining' = remaining
      /\ disbursed' = disbursed
  BY DEF CupAccounts
<1>4. /\ DOMAIN cup = Cups /\ cup'[c] = new
      /\ \A d \in Cups \ {c} : cup'[d] = cup[d]
      /\ cup' \in [Cups -> CupRecords]
  <2>1. cup \in [Cups -> CupRecords]
    BY <1>1, Zenon DEF CupTypeOK, CupRecords
  <2> QED
    BY <2>1
<1>5. CupTypeOK'
  BY <1>2, <1>4, Zenon DEF CupTypeOK, CupRecords
<1>6. StagesFit'
  <2>1. \A d \in Cups : Fits(cup'[d])
    BY <1>1, <1>4 DEF StagesFit
  <2> QED
    BY <2>1 DEF StagesFit
<1>7. PaidInProportion'
  <2> SUFFICES ASSUME NEW d \in Cups, NEW t \in Tokens,
                      cup'[d].status \in {"none", "accepting_deposits", "active"}
               PROVE  10000 * disbursed[d][t]
                        <= totalDeposited[d][t] * SumFunctionOnSet(cup'[d].plan, 1..cup'[d].stage)
    BY <1>3 DEF PaidInProportion, Reached
  <2>1. CASE cup'[d].status = cup[d].status /\ cup'[d].plan = cup[d].plan
             /\ cup'[d].stage = cup[d].stage
    BY <1>1, <2>1 DEF PaidInProportion, Reached
  <2>2. CASE /\ d = c /\ new.status = "accepting_deposits"
             /\ cup[c].status \in {"none", "accepting_deposits"}
    <3>1. disbursed[c][t] = 0
      <4>1. cup[c].stage = 0
        BY <1>1, <2>2 DEF StagesFit, Fits
      <4> QED
        BY <1>1, <2>2, <4>1, NothingPaid
    <3>2. new.stage = 0
      BY <2>2 DEF Fits
    <3>3. SumFunctionOnSet(new.plan, 1..new.stage) = 0
      <4>1. 1..0 = {}
        OBVIOUS
      <4> QED
        BY <3>2, <4>1, SumOfNothing
    <3>4. totalDeposited[c][t] \in Nat
      BY <1>1 DEF CupTypeOK
    <3> QED
      BY <1>4, <2>2, <3>1, <3>3, <3>4
  <2> QED
    BY <1>4, <2>1, <2>2
<1>8. CupsBalanced'
  <2> SUFFICES ASSUME NEW d \in Cups, NEW t \in Tokens
               PROVE  /\ cup'[d].status = "cancelled" =>
                           remaining[d][t] = DepositsOf(d, Sponsors, t) /\ disbursed[d][t] = 0
                      /\ cup'[d].status # "cancelled" =>
                           /\ remaining[d][t] = totalDeposited[d][t] - disbursed[d][t]
                           /\ totalDeposited[d][t] = DepositsOf(d, Sponsors, t)
                      /\ cup'[d].status = "completed" => remaining[d][t] = 0
    BY <1>2, <1>3 DEF CupsBalanced
  <2>1. CASE cup'[d].status = cup[d].status
    BY <1>1, <2>1 DEF CupsBalanced
  <2>2. CASE /\ d = c /\ new.status \in {"accepting_deposits", "cancelled"}
             /\ cup[c].status \in {"none", "accepting_deposits"}
    <3>1. disbursed[c][t] = 0
      <4>1. cup[c].stage = 0
        BY <1>1, <2>2 DEF StagesFit, Fits
      <4> QED
        BY <1>1, <2>2, <4>1, NothingPaid
    <3>2. /\ remaining[c][t] = totalDeposited[c][t] - disbursed[c][t]
          /\ totalDeposited[c][t] = DepositsOf(c, Sponsors, t)
          /\ totalDeposited[c][t] \in Nat
      BY <1>1, <2>2 DEF CupsBalanced, CupTypeOK
    <3> QED
      BY <1>4, <2>2, <3>1, <3>2
  <2> QED
    BY <1>4, <2>1, <2>2
<1> QED
  BY <1>2, <1>5, <1>6, <1>7, <1>8 DEF CupInv

LEMMA CreateKeeps ==
    ASSUME CupInv, NEW c \in Cups, NEW plan \in Plans \cup {StandardPlan},
           NEW deadline \in {"none", "ahead"}, CreateCup(c, plan, deadline)
    PROVE  CupInv'
<1> DEFINE new == [status |-> "accepting_deposits", stage |-> 0, plan |-> plan,
                   deadline |-> deadline]
<1>1. plan \in Seq(Nat)
  <2>1. StandardPlan \in Seq(Nat)
    BY DEF StandardPlan
  <2> QED
    BY <2>1, SponsorshipAssumption
<1>2. Len(plan) \in Nat /\ 0 < Len(plan) /\ TotalBasisPoints(plan) = 10000
  <2>1. plan # <<>> /\ TotalBasisPoints(plan) = 10000
    BY DEF CreateCup
  <2> QED
    BY <1>1, <2>1
<1>3. new \in CupRecords
  BY DEF Status, CupRecords
<1>4. /\ cup' = [cup EXCEPT ![c] = new] /\ cup[c].status = "none"
      /\ UNCHANGED CupAccounts /\ frozen' = frozen
  BY DEF CreateCup
<1>5. new.status = "accepting_deposits" /\ new.stage = 0 /\ new.plan = plan
  OBVIOUS
<1> HIDE DEF new
<1>6. frozen' \in BOOLEAN
  BY <1>4, Zenon DEF CupInv, CupTypeOK
<1>7. Fits(new)
  BY <1>1, <1>2, <1>5 DEF Fits
<1>8. /\ new.status \in {"accepting_deposits", "cancelled"}
      /\ cup[c].status \in {"none", "accepting_deposits"}
  BY <1>4, <1>5
<1> QED
  BY <1>3, <1>4, <1>6, <1>7, <1>8, CupAlone

\* Cancelling, and the passing of a deadline.
LEMMA CancelKeeps ==
    ASSUME CupInv, NEW c \in Cups,
           CancelTournament(c) \/ CancelIfDeadlinePassed(c)
    PROVE  CupInv'
<1> DEFINE new == [cup[c] EXCEPT !.status = "cancelled"]
<1>1. cup[c] \in CupRecords /\ Fits(cup[c]) /\ frozen \in BOOLEAN
  BY DEF CupInv, CupTypeOK, StagesFit, CupRecords
<1>2. /\ cup[c].status = "accepting_deposits"
      /\ cup' = [cup EXCEPT ![c].status = "cancelled"]
      /\ UNCHANGED CupAccounts /\ frozen' = frozen
  BY DEF CancelTournament, CancelIfDeadlinePassed, MayCancel
<1>3. cup' = [cup EXCEPT ![c] = new]
  BY <1>2
<1>4. /\ new \in CupRecords
      /\ new.status = "cancelled" /\ new.stage = cup[c].stage /\ new.plan = cup[c].plan
  BY <1>1 DEF Status, CupRecords
<1> HIDE DEF new
<1>5. Fits(new)
  BY <1>1, <1>2, <1>4 DEF Fits
<1>6. frozen' \in BOOLEAN
  BY <1>1, <1>2
<1>7. /\ new.status \in {"accepting_deposits", "cancelled"}
      /\ cup[c].status \in {"none", "accepting_deposits"}
  BY <1>2, <1>4
<1> QED
  BY <1>2, <1>3, <1>4, <1>5, <1>6, <1>7, CupAlone

LEMMA DeadlineKeeps ==
    ASSUME CupInv, NEW c \in Cups, DeadlinePasses(c)
    PROVE  CupInv'
<1> DEFINE new == [cup[c] EXCEPT !.deadline = "passed"]
<1>1. cup[c] \in CupRecords /\ Fits(cup[c]) /\ frozen \in BOOLEAN
  BY DEF CupInv, CupTypeOK, StagesFit, CupRecords
<1>2. /\ cup' = [cup EXCEPT ![c].deadline = "passed"]
      /\ UNCHANGED CupAccounts /\ frozen' = frozen
  BY DEF DeadlinePasses
<1>3. cup' = [cup EXCEPT ![c] = new]
  BY <1>2
<1>4. /\ new \in CupRecords
      /\ new.status = cup[c].status /\ new.stage = cup[c].stage /\ new.plan = cup[c].plan
  BY <1>1 DEF CupRecords
<1> HIDE DEF new
<1>5. Fits(new)
  BY <1>1, <1>4 DEF Fits
<1>6. frozen' \in BOOLEAN
  BY <1>1, <1>2
<1> QED
  BY <1>2, <1>3, <1>4, <1>5, <1>6, CupAlone

\* The conditions on one tournament and one token.
Balanced(c, t) ==
    /\ cup[c].status = "cancelled" =>
         remaining[c][t] = DepositsOf(c, Sponsors, t) /\ disbursed[c][t] = 0
    /\ cup[c].status # "cancelled" =>
         /\ remaining[c][t] = totalDeposited[c][t] - disbursed[c][t]
         /\ totalDeposited[c][t] = DepositsOf(c, Sponsors, t)
    /\ cup[c].status = "completed" => remaining[c][t] = 0

\* The stages of one tournament so far paid their part of one token.
Proportional(c, t) ==
    cup[c].status \in {"none", "accepting_deposits", "active"} =>
        10000 * disbursed[c][t] <= totalDeposited[c][t] * Reached(c)

\* What holds of the other tournaments goes on to hold.
LEMMA OthersUntouched ==
    ASSUME CupInv, NEW c \in Cups,
           \A d \in Cups \ {c} :
               /\ cup'[d] = cup[d] /\ deposit'[d] = deposit[d]
               /\ totalDeposited'[d] = totalDeposited[d]
               /\ remaining'[d] = remaining[d] /\ disbursed'[d] = disbursed[d],
           Fits(cup'[c]),
           \A t \in Tokens : Balanced(c, t)' /\ Proportional(c, t)'
    PROVE  StagesFit' /\ CupsBalanced' /\ PaidInProportion'
<1>1. StagesFit'
  <2>1. \A d \in Cups : Fits(cup'[d])
    BY DEF CupInv, StagesFit
  <2> QED
    BY <2>1 DEF StagesFit
<1>2. ASSUME NEW d \in Cups, NEW t \in Tokens
      PROVE  Balanced(d, t)' /\ Proportional(d, t)'
  <2>1. CASE d # c
    <3>1. /\ cup'[d] = cup[d] /\ deposit'[d] = deposit[d]
          /\ totalDeposited'[d] = totalDeposited[d]
          /\ remaining'[d] = remaining[d] /\ disbursed'[d] = disbursed[d]
      BY <2>1
    <3>2. Balanced(d, t) /\ Proportional(d, t)
      <4>1. Balanced(d, t)
        BY Zenon DEF CupInv, CupsBalanced, Balanced
      <4>2. Proportional(d, t)
        BY DEF CupInv, PaidInProportion, Proportional
      <4> QED
        BY <4>1, <4>2
    <3>3. DepositsOf(d, Sponsors, t)' = DepositsOf(d, Sponsors, t)
      BY <3>1, Zenon DEF DepositsOf
    <3>4. Reached(d)' = Reached(d)
      BY <3>1, Zenon DEF Reached
    <3>5. Balanced(d, t)'
      BY <3>1, <3>2, <3>3, Zenon DEF Balanced
    <3>6. Proportional(d, t)'
      BY <3>1, <3>2, <3>4 DEF Proportional
    <3> QED
      BY <3>5, <3>6
  <2> QED
    BY <2>1
<1>3. CupsBalanced'
  BY <1>2, Zenon DEF CupsBalanced, Balanced
<1>4. PaidInProportion'
  BY <1>2 DEF PaidInProportion, Proportional
<1> QED
  BY <1>1, <1>3, <1>4

LEMMA DepositKeeps ==
    ASSUME CupInv, NEW c \in Cups, NEW s \in Sponsors, NEW t \in Tokens,
           NEW amount \in Amounts, DepositSponsorship(c, s, t, amount)
    PROVE  CupInv'
<1>1. /\ cup[c].status = "accepting_deposits"
      /\ chest' = [chest EXCEPT ![t] = @ + amount]
      /\ totalDeposited' = [totalDeposited EXCEPT ![c][t] = @ + amount]
      /\ remaining' = [remaining EXCEPT ![c][t] = @ + amount]
      /\ deposit' = [deposit EXCEPT ![c][s][t] = @ + amount]
      /\ cup' = cup /\ disbursed' = disbursed /\ frozen' = frozen
  BY DEF DepositSponsorship
<1>2. /\ cup \in [Cups -> CupRecords]
      /\ deposit \in [Cups -> [Sponsors -> [Tokens -> Nat]]]
      /\ totalDeposited \in [Cups -> [Tokens -> Nat]]
      /\ remaining \in [Cups -> [Tokens -> Nat]]
      /\ disbursed \in [Cups -> [Tokens -> Nat]]
      /\ chest \in [Tokens -> Nat] /\ frozen \in BOOLEAN
      /\ ChestBacksAllCups
  BY Zenon DEF CupInv, CupTypeOK, CupRecords
<1>3. amount \in Nat
  BY SponsorshipAssumption
<1>4. /\ deposit' \in [Cups -> [Sponsors -> [Tokens -> Nat]]]
      /\ totalDeposited' \in [Cups -> [Tokens -> Nat]]
      /\ remaining' \in [Cups -> [Tokens -> Nat]]
      /\ \A u \in Tokens :
           /\ totalDeposited'[c][u] = totalDeposited[c][u] + (IF u = t THEN amount ELSE 0)
           /\ remaining'[c][u] = remaining[c][u] + (IF u = t THEN amount ELSE 0)
           /\ chest'[u] = chest[u] + (IF u = t THEN amount ELSE 0)
           /\ \A r \in Sponsors : deposit'[c][r][u]
                = deposit[c][r][u] + (IF r = s /\ u = t THEN amount ELSE 0)
      /\ \A d \in Cups \ {c} :
           /\ cup'[d] = cup[d] /\ deposit'[d] = deposit[d]
           /\ totalDeposited'[d] = totalDeposited[d]
           /\ remaining'[d] = remaining[d] /\ disbursed'[d] = disbursed[d]
  <2>1. /\ totalDeposited' \in [Cups -> [Tokens -> Nat]]
        /\ remaining' \in [Cups -> [Tokens -> Nat]]
        /\ \A u \in Tokens :
             /\ totalDeposited'[c][u] = totalDeposited[c][u] + (IF u = t THEN amount ELSE 0)
             /\ remaining'[c][u] = remaining[c][u] + (IF u = t THEN amount ELSE 0)
             /\ chest'[u] = chest[u] + (IF u = t THEN amount ELSE 0)
    BY <1>1, <1>2, <1>3
  <2>2. deposit' \in [Cups -> [Sponsors -> [Tokens -> Nat]]]
    <3> DEFINE row == [deposit[c][s] EXCEPT ![t] = @ + amount]
               rows == [deposit[c] EXCEPT ![s] = row]
    <3>1. deposit[c] \in [Sponsors -> [Tokens -> Nat]] /\ row \in [Tokens -> Nat]
      BY <1>2, <1>3
    <3>2. deposit' = [deposit EXCEPT ![c] = rows]
      BY <1>1
    <3> HIDE DEF row
    <3>3. rows \in [Sponsors -> [Tokens -> Nat]]
      BY <3>1
    <3> HIDE DEF rows
    <3> QED
      BY <1>2, <3>2, <3>3
  <2>3. \A u \in Tokens, r \in Sponsors : deposit'[c][r][u]
          = deposit[c][r][u] + (IF r = s /\ u = t THEN amount ELSE 0)
    BY <1>1, <1>2, <1>3
  <2>4. \A d \in Cups \ {c} :
           /\ cup'[d] = cup[d] /\ deposit'[d] = deposit[d]
           /\ totalDeposited'[d] = totalDeposited[d]
           /\ remaining'[d] = remaining[d] /\ disbursed'[d] = disbursed[d]
    BY <1>1, <1>2
  <2> QED
    BY <2>1, <2>2, <2>3, <2>4
<1>5. ChestBacksAllCups' /\ chest' \in [Tokens -> Nat]
  <2>1. DOMAIN chest' = Tokens /\ chest' = [u \in Tokens |-> chest'[u]]
    BY <1>1, <1>2
  <2>2. \A u \in Tokens : chest'[u] = chest[u] + (remaining'[c][u] - remaining[c][u])
    <3> TAKE u \in Tokens
    <3> DEFINE more == IF u = t THEN amount ELSE 0
    <3>1. more \in Int /\ chest[u] \in Int /\ remaining[c][u] \in Int
      BY <1>2, <1>3
    <3>2. chest'[u] = chest[u] + more /\ remaining'[c][u] = remaining[c][u] + more
      BY <1>4
    <3> HIDE DEF more
    <3> QED
      BY <3>1, <3>2
  <2>3. \A d \in Cups \ {c} : remaining'[d] = remaining[d]
    BY <1>4
  <2> QED
    BY <1>2, <1>4, <2>1, <2>2, <2>3, ChestFollows
<1>6. CupTypeOK'
  BY <1>1, <1>2, <1>4, <1>5, Zenon DEF CupTypeOK, CupRecords
<1>7. ASSUME NEW u \in Tokens
      PROVE  /\ DepositsOf(c, Sponsors, u)' = DepositsOf(c, Sponsors, u) + (IF u = t THEN amount ELSE 0)
             /\ DepositsOf(c, Sponsors, u) \in Int
  <2> DEFINE f == [r \in Sponsors |-> deposit[c][r][u]]
             g == [r \in Sponsors |-> deposit'[c][r][u]]
  <2>1. /\ \A r \in Sponsors : f[r] \in Int /\ g[r] \in Int
        /\ \A r \in Sponsors \ {s} : g[r] = f[r]
        /\ g[s] - f[s] = (IF u = t THEN amount ELSE 0)
    <3>1. \A r \in Sponsors : deposit[c][r][u] \in Int /\ deposit'[c][r][u] \in Int
      BY <1>2, <1>4
    <3>2. \A r \in Sponsors : deposit'[c][r][u]
                = deposit[c][r][u] + (IF r = s /\ u = t THEN amount ELSE 0)
      BY <1>4
    <3> QED
      BY <1>3, <3>1, <3>2
  <2>2. IsFiniteSet(Sponsors)
    BY SponsorshipAssumption
  <2> HIDE DEF f, g
  <2>3. /\ SumFunctionOnSet(g, Sponsors) = SumFunctionOnSet(f, Sponsors) + (g[s] - f[s])
        /\ SumFunctionOnSet(f, Sponsors) \in Int
    BY <2>1, <2>2, SumChanges
  <2>4. /\ SumFunctionOnSet(g, Sponsors)
             = SumFunctionOnSet(f, Sponsors) + (IF u = t THEN amount ELSE 0)
        /\ SumFunctionOnSet(f, Sponsors) \in Int
    BY <2>1, <2>3
  <2> QED
    BY <2>4 DEF f, g, DepositsOf
<1>8. cup[c].stage = 0 /\ Fits(cup[c])
  BY <1>1 DEF CupInv, StagesFit, Fits
<1>9. ASSUME NEW u \in Tokens  PROVE Balanced(c, u)' /\ Proportional(c, u)'
  <2>1. disbursed[c][u] = 0
    BY <1>1, <1>8, NothingPaid DEF CupInv
  <2>2. remaining[c][u] = totalDeposited[c][u] /\ totalDeposited[c][u] = DepositsOf(c, Sponsors, u)
    BY <1>1, <1>2, <2>1 DEF CupInv, CupsBalanced
  <2> DEFINE more == IF u = t THEN amount ELSE 0
  <2>3. more \in Nat
    BY <1>3
  <2>4. /\ totalDeposited'[c][u] = totalDeposited[c][u] + more
        /\ remaining'[c][u] = remaining[c][u] + more
        /\ DepositsOf(c, Sponsors, u)' = DepositsOf(c, Sponsors, u) + more
    BY <1>4, <1>7
  <2> HIDE DEF more
  <2>5. /\ cup'[c].status = "accepting_deposits" /\ disbursed'[c][u] = 0
        /\ remaining'[c][u] = totalDeposited'[c][u]
        /\ totalDeposited'[c][u] = DepositsOf(c, Sponsors, u)'
        /\ totalDeposited'[c][u] \in Nat
    BY <1>1, <1>2, <2>1, <2>2, <2>3, <2>4
  <2>6. Balanced(c, u)'
    BY <2>5 DEF Balanced
  <2>7. Reached(c)' = 0
    <3>1. 1..0 = {}
      OBVIOUS
    <3> QED
      BY <1>1, <1>8, <3>1, SumOfNothing DEF Reached
  <2>8. Proportional(c, u)'
    BY <2>5, <2>7 DEF Proportional
  <2> QED
    BY <2>6, <2>8
<1>10. Fits(cup'[c])
  BY <1>1, <1>8
<1>11. StagesFit' /\ CupsBalanced' /\ PaidInProportion'
  BY <1>4, <1>9, <1>10, OthersUntouched
<1> QED
  BY <1>5, <1>6, <1>11 DEF CupInv

LEMMA StageKeeps ==
    ASSUME CupInv, NEW c \in Cups, CompleteStage(c)
    PROVE  CupInv'
<1> DEFINE k == cup[c].stage
           new == [cup[c] EXCEPT !.stage = k + 1,
                                 !.status = IF LastStage(c) THEN "completed" ELSE "active"]
<1>1. /\ cup[c].status \in {"accepting_deposits", "active"}
      /\ remaining' = [remaining EXCEPT ![c] = [t \in Tokens |-> @[t] - Share(c, t)]]
      /\ disbursed' = [disbursed EXCEPT ![c] = [t \in Tokens |-> @[t] + Share(c, t)]]
      /\ chest' = [t \in Tokens |-> chest[t] - Share(c, t)]
      /\ cup' = [cup EXCEPT ![c] = new]
      /\ deposit' = deposit /\ totalDeposited' = totalDeposited /\ frozen' = frozen
  BY DEF CompleteStage
<1>2. /\ cup \in [Cups -> CupRecords]
      /\ deposit \in [Cups -> [Sponsors -> [Tokens -> Nat]]]
      /\ totalDeposited \in [Cups -> [Tokens -> Nat]]
      /\ remaining \in [Cups -> [Tokens -> Nat]]
      /\ disbursed \in [Cups -> [Tokens -> Nat]]
      /\ chest \in [Tokens -> Nat] /\ frozen \in BOOLEAN
      /\ ChestBacksAllCups
  BY Zenon DEF CupInv, CupTypeOK, CupRecords
<1>3. \A t \in Tokens :
        /\ Share(c, t) \in Nat /\ Share(c, t) <= remaining[c][t]
        /\ ~LastStage(c) => 10000 * (disbursed[c][t] + Share(c, t))
             <= totalDeposited[c][t] * SumFunctionOnSet(cup[c].plan, 1..(k + 1))
  BY <1>1, StagePays DEF CupInv
<1>4. /\ remaining' \in [Cups -> [Tokens -> Nat]]
      /\ disbursed' \in [Cups -> [Tokens -> Nat]]
      /\ \A t \in Tokens :
           /\ remaining'[c][t] = remaining[c][t] - Share(c, t)
           /\ disbursed'[c][t] = disbursed[c][t] + Share(c, t)
           /\ chest'[t] = chest[t] - Share(c, t)
  <2> DEFINE share(t) == Share(c, t)
  <2>1. \A t \in Tokens : share(t) \in Nat /\ remaining[c][t] - share(t) \in Nat
    BY <1>2, <1>3
  <2>2. /\ remaining' = [remaining EXCEPT ![c] = [t \in Tokens |-> @[t] - share(t)]]
        /\ disbursed' = [disbursed EXCEPT ![c] = [t \in Tokens |-> @[t] + share(t)]]
        /\ chest' = [t \in Tokens |-> chest[t] - share(t)]
    BY <1>1
  <2> HIDE DEF share
  <2>3. remaining' \in [Cups -> [Tokens -> Nat]]
    BY <1>2, <2>1, <2>2
  <2>4. disbursed' \in [Cups -> [Tokens -> Nat]]
    BY <1>2, <2>1, <2>2
  <2>5. \A t \in Tokens :
           /\ remaining'[c][t] = remaining[c][t] - share(t)
           /\ disbursed'[c][t] = disbursed[c][t] + share(t)
           /\ chest'[t] = chest[t] - share(t)
    BY <1>2, <2>2
  <2> QED
    BY <2>3, <2>4, <2>5 DEF share
<1>5. \A d \in Cups \ {c} :
        /\ cup'[d] = cup[d] /\ deposit'[d] = deposit[d]
        /\ totalDeposited'[d] = totalDeposited[d]
        /\ remaining'[d] = remaining[d] /\ disbursed'[d] = disbursed[d]
  BY <1>1, <1>2
<1>6. ChestBacksAllCups' /\ chest' \in [Tokens -> Nat]
  <2>1. DOMAIN chest' = Tokens /\ chest' = [t \in Tokens |-> chest'[t]]
    BY <1>1
  <2>2. \A t \in Tokens : chest'[t] = chest[t] + (remaining'[c][t] - remaining[c][t])
    BY <1>2, <1>3, <1>4
  <2>3. \A d \in Cups \ {c} : remaining'[d] = remaining[d]
    BY <1>5
  <2> QED
    BY <1>2, <1>4, <2>1, <2>2, <2>3, ChestFollows
<1>7. /\ Fits(cup[c]) /\ cup[c] \in CupRecords
      /\ k \in Nat /\ k < Len(cup[c].plan) /\ Len(cup[c].plan) \in Nat
  BY <1>1, <1>2 DEF CupInv, StagesFit, Fits, CupRecords
<1>8. /\ new \in CupRecords /\ new.stage = k + 1 /\ new.plan = cup[c].plan
      /\ LastStage(c) => new.status = "completed"
      /\ ~LastStage(c) => new.status = "active"
  <2>1. k + 1 \in Nat
    BY <1>7
  <2> HIDE DEF k
  <2> QED
    BY <1>7, <2>1 DEF CupRecords, Status
<1>9. cup'[c] = new /\ cup' \in [Cups -> CupRecords]
  <2> HIDE DEF new
  <2> QED
    BY <1>1, <1>2, <1>8
<1> HIDE DEF new
<1>10. CupTypeOK'
  BY <1>1, <1>2, <1>4, <1>6, <1>9, Zenon DEF CupTypeOK, CupRecords
<1>11. Fits(cup'[c])
  <2>1. ~LastStage(c) => k + 1 < Len(cup[c].plan)
    BY <1>7 DEF LastStage
  <2> QED
    BY <1>1, <1>7, <1>8, <1>9, <2>1 DEF Fits
<1>12. ASSUME NEW t \in Tokens  PROVE Balanced(c, t)' /\ Proportional(c, t)'
  <2>1. DepositsOf(c, Sponsors, t)' = DepositsOf(c, Sponsors, t)
    BY <1>1 DEF DepositsOf
  <2>2. /\ remaining[c][t] = totalDeposited[c][t] - disbursed[c][t]
        /\ totalDeposited[c][t] = DepositsOf(c, Sponsors, t)
    BY <1>1 DEF CupInv, CupsBalanced
  <2>3. LastStage(c) => Share(c, t) = remaining[c][t]
    BY DEF Share
  <2>4. /\ totalDeposited[c][t] \in Nat /\ remaining[c][t] \in Nat
        /\ disbursed[c][t] \in Nat /\ Share(c, t) \in Nat
    BY <1>2, <1>3
  <2>5. /\ remaining'[c][t] = remaining[c][t] - Share(c, t)
        /\ disbursed'[c][t] = disbursed[c][t] + Share(c, t)
    BY <1>4
  <2>6. remaining'[c][t] = totalDeposited'[c][t] - disbursed'[c][t]
    BY <1>1, <2>2, <2>4, <2>5
  <2>7. LastStage(c) => remaining'[c][t] = 0
    BY <2>3, <2>4, <2>5
  <2>8. Balanced(c, t)'
    BY <1>1, <1>8, <1>9, <2>1, <2>2, <2>6, <2>7 DEF Balanced
  <2>9. Reached(c)' = SumFunctionOnSet(cup[c].plan, 1..(k + 1))
    BY <1>8, <1>9 DEF Reached
  <2>10. ~LastStage(c) => 10000 * disbursed'[c][t]
             <= totalDeposited'[c][t] * SumFunctionOnSet(cup[c].plan, 1..(k + 1))
    BY <1>1, <1>3, <2>5
  <2>11. Proportional(c, t)'
    BY <1>8, <1>9, <2>9, <2>10 DEF Proportional
  <2> QED
    BY <2>8, <2>11
<1>13. StagesFit' /\ CupsBalanced' /\ PaidInProportion'
  BY <1>5, <1>11, <1>12, OthersUntouched
<1> QED
  BY <1>6, <1>10, <1>13 DEF CupInv

\* A refund to one sponsor or to all of them.
LEMMA RefundKeeps ==
    ASSUME CupInv, NEW c \in Cups, NEW S \in SUBSET Sponsors,
           cup[c].status = "cancelled", Refund(c, S)
    PROVE  CupInv'
<1> DEFINE owed(t) == DepositsOf(c, S, t)
<1>1. /\ deposit' = [deposit EXCEPT ![c] = [s \in Sponsors |->
                        IF s \in S THEN [t \in Tokens |-> 0] ELSE @[s]]]
      /\ remaining' = [remaining EXCEPT ![c] = [t \in Tokens |-> @[t] - owed(t)]]
      /\ chest' = [t \in Tokens |-> chest[t] - owed(t)]
      /\ cup' = cup /\ totalDeposited' = totalDeposited /\ disbursed' = disbursed
      /\ frozen' = frozen
  BY DEF Refund, Less
<1>2. /\ cup \in [Cups -> CupRecords]
      /\ deposit \in [Cups -> [Sponsors -> [Tokens -> Nat]]]
      /\ totalDeposited \in [Cups -> [Tokens -> Nat]]
      /\ remaining \in [Cups -> [Tokens -> Nat]]
      /\ disbursed \in [Cups -> [Tokens -> Nat]]
      /\ chest \in [Tokens -> Nat] /\ frozen \in BOOLEAN
      /\ ChestBacksAllCups
  BY Zenon DEF CupInv, CupTypeOK, CupRecords
<1>3. deposit' \in [Cups -> [Sponsors -> [Tokens -> Nat]]]
  <2> DEFINE left == [s \in Sponsors |->
                        IF s \in S THEN [t \in Tokens |-> 0] ELSE deposit[c][s]]
  <2>1. left \in [Sponsors -> [Tokens -> Nat]]
    BY <1>2
  <2>2. deposit' = [deposit EXCEPT ![c] = left]
    BY <1>1
  <2> HIDE DEF left
  <2> QED
    BY <1>2, <2>1, <2>2
<1>4. ASSUME NEW t \in Tokens
      PROVE  /\ DepositsOf(c, Sponsors, t)' = DepositsOf(c, Sponsors, t) - owed(t)
             /\ owed(t) \in Nat /\ DepositsOf(c, Sponsors, t)' \in Nat
             /\ remaining[c][t] = DepositsOf(c, Sponsors, t) /\ disbursed[c][t] = 0
  <2> DEFINE f == [s \in Sponsors |-> deposit[c][s][t]]
             g == [s \in Sponsors |-> deposit'[c][s][t]]
  <2>1. /\ \A s \in Sponsors : f[s] \in Nat
        /\ \A s \in S : g[s] = 0
        /\ \A s \in Sponsors \ S : g[s] = f[s]
    BY <1>1, <1>2
  <2>2. IsFiniteSet(Sponsors)
    BY SponsorshipAssumption
  <2> HIDE DEF f, g
  <2>3. /\ SumFunctionOnSet(g, Sponsors)
             = SumFunctionOnSet(f, Sponsors) - SumFunctionOnSet(f, S)
        /\ SumFunctionOnSet(f, S) \in Nat /\ SumFunctionOnSet(g, Sponsors) \in Nat
    BY <2>1, <2>2, SumClears
  <2>4. remaining[c][t] = DepositsOf(c, Sponsors, t) /\ disbursed[c][t] = 0
    BY DEF CupInv, CupsBalanced
  <2> QED
    BY <2>3, <2>4 DEF f, g, DepositsOf
<1> HIDE DEF owed
<1>5. /\ remaining' \in [Cups -> [Tokens -> Nat]]
      /\ \A t \in Tokens : remaining'[c][t] = remaining[c][t] - owed(t)
  <2>1. \A t \in Tokens : remaining[c][t] - owed(t) \in Nat
    <3> TAKE t \in Tokens
    <3>1. DepositsOf(c, Sponsors, t) - owed(t) \in Nat
      BY <1>4
    <3> QED
      BY <1>4, <3>1
  <2> DEFINE left == [t \in Tokens |-> remaining[c][t] - owed(t)]
  <2>2. left \in [Tokens -> Nat]
    BY <2>1
  <2>3. remaining' = [remaining EXCEPT ![c] = left]
    BY <1>1
  <2>4. \A t \in Tokens : left[t] = remaining[c][t] - owed(t)
    OBVIOUS
  <2> HIDE DEF left
  <2> QED
    BY <1>2, <2>2, <2>3, <2>4
<1>6. \A d \in Cups \ {c} :
        /\ cup'[d] = cup[d] /\ deposit'[d] = deposit[d]
        /\ totalDeposited'[d] = totalDeposited[d]
        /\ remaining'[d] = remaining[d] /\ disbursed'[d] = disbursed[d]
  BY <1>1, <1>2
<1>7. ChestBacksAllCups' /\ chest' \in [Tokens -> Nat]
  <2>1. DOMAIN chest' = Tokens /\ chest' = [t \in Tokens |-> chest'[t]]
    BY <1>1
  <2>2. \A t \in Tokens : chest'[t] = chest[t] + (remaining'[c][t] - remaining[c][t])
    <3> TAKE t \in Tokens
    <3>1. /\ chest'[t] = chest[t] - owed(t) /\ remaining'[c][t] = remaining[c][t] - owed(t)
          /\ chest[t] \in Int /\ owed(t) \in Int /\ remaining[c][t] \in Int
      BY <1>1, <1>2, <1>4, <1>5
    <3> QED
      BY <3>1
  <2>3. \A d \in Cups \ {c} : remaining'[d] = remaining[d]
    BY <1>6
  <2> QED
    BY <1>2, <1>5, <2>1, <2>2, <2>3, ChestFollows
<1>8. CupTypeOK'
  BY <1>1, <1>2, <1>3, <1>5, <1>7, Zenon DEF CupTypeOK, CupRecords
<1>9. Fits(cup'[c])
  BY <1>1 DEF CupInv, StagesFit
<1>10. ASSUME NEW t \in Tokens  PROVE Balanced(c, t)' /\ Proportional(c, t)'
  <2>1. /\ remaining'[c][t] = DepositsOf(c, Sponsors, t)' /\ disbursed'[c][t] = 0
    BY <1>1, <1>4, <1>5
  <2>2. cup'[c].status = "cancelled"
    BY <1>1
  <2>3. Balanced(c, t)'
    BY <2>1, <2>2 DEF Balanced
  <2>4. Proportional(c, t)'
    BY <2>2 DEF Proportional
  <2> QED
    BY <2>3, <2>4
<1>11. StagesFit' /\ CupsBalanced' /\ PaidInProportion'
  BY <1>6, <1>9, <1>10, OthersUntouched
<1> QED
  BY <1>7, <1>8, <1>11 DEF CupInv

LEMMA PauseKeeps == CupInv /\ UNCHANGED <<cup, CupAccounts>> /\ frozen' \in BOOLEAN => CupInv'
<1> SUFFICES ASSUME CupInv, UNCHANGED <<cup, CupAccounts>>, frozen' \in BOOLEAN
             PROVE  CupInv'
  OBVIOUS
<1>1. /\ cup' = cup /\ deposit' = deposit /\ totalDeposited' = totalDeposited
      /\ remaining' = remaining /\ disbursed' = disbursed /\ chest' = chest
  BY DEF CupAccounts
<1>2. CupTypeOK'
  BY <1>1, Zenon DEF CupInv, CupTypeOK
<1>3. StagesFit' /\ ChestBacksAllCups'
  BY <1>1, Zenon DEF CupInv, StagesFit, ChestBacksAllCups
<1>4. CupsBalanced'
  BY <1>1, Zenon DEF CupInv, CupsBalanced, DepositsOf
<1>5. PaidInProportion'
  BY <1>1 DEF CupInv, PaidInProportion, Reached
<1> QED
  BY <1>2, <1>3, <1>4, <1>5 DEF CupInv

LEMMA CupInductive == CupInv /\ [CupNext]_cupVars => CupInv'
<1> SUFFICES ASSUME CupInv, [CupNext]_cupVars
             PROVE  CupInv'
  OBVIOUS
<1>1. ASSUME NEW c \in Cups, NEW plan \in Plans \cup {StandardPlan}, NEW d \in {"none",
             "ahead"},
             CreateCup(c, plan, d)
      PROVE  CupInv'
  BY <1>1, CreateKeeps
<1>2. ASSUME NEW c \in Cups, NEW s \in Sponsors, NEW t \in Tokens, NEW amount \in Amounts,
             DepositSponsorship(c, s, t, amount)
      PROVE  CupInv'
  BY <1>2, DepositKeeps
<1>3. ASSUME NEW c \in Cups, NEW s \in Sponsors, ClaimRefund(c, s)
      PROVE  CupInv'
  <2>1. {s} \in SUBSET Sponsors /\ cup[c].status = "cancelled" /\ Refund(c, {s})
    BY <1>3 DEF ClaimRefund
  <2> QED
    BY <2>1, RefundKeeps
<1>4. ASSUME NEW c \in Cups, AdminRefundAllSponsors(c)
      PROVE  CupInv'
  <2>1. Sponsors \in SUBSET Sponsors /\ cup[c].status = "cancelled" /\ Refund(c, Sponsors)
    BY <1>4 DEF AdminRefundAllSponsors
  <2> QED
    BY <2>1, RefundKeeps
<1>5. ASSUME NEW c \in Cups, CompleteStage(c)
      PROVE  CupInv'
  BY <1>5, StageKeeps
<1>6. ASSUME NEW c \in Cups, CancelTournament(c) \/ CancelIfDeadlinePassed(c)
      PROVE  CupInv'
  BY <1>6, CancelKeeps
<1>7. ASSUME NEW c \in Cups, DeadlinePasses(c)
      PROVE  CupInv'
  BY <1>7, DeadlineKeeps
<1>8. CASE PauseEscrow \/ UNCHANGED cupVars
  <2>1. UNCHANGED <<cup, CupAccounts>>
    BY <1>8, Zenon DEF PauseEscrow, cupVars, CupAccounts
  <2>2. frozen' \in BOOLEAN
    BY <1>8, Zenon DEF PauseEscrow, cupVars, CupInv, CupTypeOK
  <2> QED
    BY <2>1, <2>2, PauseKeeps
<1> QED
  BY <1>1, <1>2, <1>3, <1>4, <1>5, <1>6, <1>7, <1>8, Zenon DEF CupNext

LEMMA CupInvSuffices == CupInv => SponsorshipSound
<1> SUFFICES ASSUME CupInv
             PROVE  EveryStagePayable
  BY DEF CupInv, SponsorshipSound
<1> QED
  BY StagePays DEF CupInv, EveryStagePayable

\* SponsorshipSound: whatever the plans, deposits and cancellations, every stage can be
\* paid, a cancelled tournament owes its sponsors what it holds, and the contract's
\* chest backs all its tournaments.
THEOREM SponsorsAreCovered == CupSpec => []SponsorshipSound
<1>1. CupInit => CupInv
  BY CupStarts
<1>2. CupInv /\ [CupNext]_cupVars => CupInv'
  BY CupInductive
<1>3. CupInv => SponsorshipSound
  BY CupInvSuffices
<1> QED
  BY <1>1, <1>2, <1>3, PTL DEF CupSpec

-----------------------------------------------------------------------------
(***************************************************************************)
(* YieldStaking.  A lone position is clean until its settlement: the wallet *)
(* holds harvested yield for the treasury and nothing else.  The shares of a *)
(* settlement add up to the prize, which is all that the wallet then holds. *)
(***************************************************************************)
Group(D, of, w) == {i \in D : of[i] = w}

\* What is added up by groups is what is added up at once.
LEMMA SumByGroups ==
    ASSUME NEW D, IsFiniteSet(D), NEW f, \A i \in D : f[i] \in Int,
           NEW W, IsFiniteSet(W), NEW of, \A i \in D : of[i] \in W,
           NEW F, \A w \in W : F[w] = SumFunctionOnSet(f, Group(D, of, w))
    PROVE  SumFunctionOnSet(F, W) = SumFunctionOnSet(f, D)
<1> DEFINE Within(V) == {i \in D : of[i] \in V}
           P == {V \in SUBSET W : SumFunctionOnSet(F, V) = SumFunctionOnSet(f, Within(V))}
<1>1. {} \in P
  <2>1. Within({}) = {}
    OBVIOUS
  <2> QED
    BY <2>1, SumOfNothing
<1>2. ASSUME NEW V \in SUBSET W, V # {}, \A w \in V : V \ {w} \in P  PROVE V \in P
  <2> DEFINE w == Pick(V)
             U == V \ {w}
             one == Group(D, of, w)
             rest == Within(U)
  <2>1. w \in V /\ w \in W
    BY <1>2, PickIsMember
  <2>2. SumFunctionOnSet(F, U) = SumFunctionOnSet(f, rest)
    BY <1>2, <2>1
  <2>3. Within(V) = rest \cup one /\ rest \cap one = {}
    BY <2>1 DEF Group
  <2>4. /\ IsFiniteSet(one) /\ IsFiniteSet(rest) /\ IsFiniteSet(V)
        /\ \A i \in rest \cup one : f[i] \in Int
    BY FS_Subset DEF Group
  <2>5. F[w] = SumFunctionOnSet(f, one)
    BY <2>1
  <2>6. SumFunctionOnSet(F, V) = F[w] + SumFunctionOnSet(F, U)
    BY <1>2, <2>4, SumPicks
  <2> HIDE DEF w, U, one, rest, Within
  <2>7. /\ SumFunctionOnSet(f, rest \cup one)
             = SumFunctionOnSet(f, rest) + SumFunctionOnSet(f, one)
        /\ SumFunctionOnSet(f, rest) \in Int /\ SumFunctionOnSet(f, one) \in Int
    BY <2>3, <2>4, SumOfDisjoint
  <2>8. SumFunctionOnSet(F, V) = SumFunctionOnSet(f, rest \cup one)
    BY <2>2, <2>5, <2>6, <2>7
  <2>9. SumFunctionOnSet(F, V) = SumFunctionOnSet(f, Within(V))
    BY <2>3, <2>8
  <2> QED
    BY <2>9
<1> HIDE DEF P
<1>3. \A V \in SUBSET W : V \in P
  BY <1>1, <1>2, SubsetInduction
<1>4. W \in P
  BY <1>3
<1>5. SumFunctionOnSet(F, W) = SumFunctionOnSet(f, Within(W))
  BY <1>4 DEF P
<1>6. Within(W) = D
  OBVIOUS
<1> QED
  BY <1>5, <1>6

\* Rounded parts of a prize are together at most their part of it.
LEMMA PartsFit ==
    ASSUME NEW prize \in Nat, NEW S, IsFiniteSet(S),
           NEW split, \A i \in S : split[i] \in Nat,
           NEW part, \A i \in S : part[i] = (prize * split[i]) \div 100
    PROVE  /\ 100 * SumFunctionOnSet(part, S) <= prize * SumFunctionOnSet(split, S)
           /\ \A i \in S : part[i] \in Nat
<1> DEFINE P == {T \in SUBSET S :
                   100 * SumFunctionOnSet(part, T) <= prize * SumFunctionOnSet(split, T)}
<1>1. \A x \in Nat : x \div 100 \in Nat /\ 100 * (x \div 100) <= x
  OBVIOUS
<1>2. \A i \in S : prize * split[i] \in Nat
  OBVIOUS
<1>3. \A i \in S : part[i] \in Nat /\ 100 * part[i] <= prize * split[i]
  BY <1>1, <1>2
<1>4. {} \in P
  BY SumOfNothing
<1>5. ASSUME NEW T \in SUBSET S, T # {}, \A x \in T : T \ {x} \in P  PROVE T \in P
  <2> DEFINE x == Pick(T)
             R == T \ {x}
  <2>1. x \in T /\ x \in S
    BY <1>5, PickIsMember
  <2>2. IsFiniteSet(T) /\ IsFiniteSet(R) /\ R \subseteq S
    BY FS_Subset
  <2>3. /\ SumFunctionOnSet(part, T) = part[x] + SumFunctionOnSet(part, R)
        /\ SumFunctionOnSet(split, T) = split[x] + SumFunctionOnSet(split, R)
    BY <1>5, <2>2, SumPicks
  <2>4. 100 * SumFunctionOnSet(part, R) <= prize * SumFunctionOnSet(split, R)
    BY <1>5, <2>1
  <2> HIDE DEF x, R
  <2>5. SumFunctionOnSet(part, R) \in Nat /\ SumFunctionOnSet(split, R) \in Nat
    BY <1>3, <2>2, SumIsNat
  <2>6. split[x] \in Nat /\ part[x] \in Nat /\ 100 * part[x] <= prize * split[x]
    BY <1>3, <2>1
  <2> SUFFICES ASSUME NEW a \in Nat, NEW b \in Nat, NEW c \in Nat, NEW d \in Nat,
                      a = part[x], b = SumFunctionOnSet(part, R),
                      c = split[x], d = SumFunctionOnSet(split, R),
                      100 * a <= prize * c, 100 * b <= prize * d
               PROVE  100 * (a + b) <= prize * (c + d)
    BY <2>3, <2>4, <2>5, <2>6
  <2>7. prize * (c + d) = prize * c + prize * d /\ prize * c \in Nat /\ prize * d \in Nat
    OBVIOUS
  <2> QED
    BY <2>7
<1> HIDE DEF P
<1>6. \A T \in SUBSET S : T \in P
  BY <1>4, <1>5, SubsetInduction
<1> QED
  BY <1>3, <1>6 DEF P

\* The shares of a prize are never negative and add up to it.
LEMMA SharesAddUp ==
    ASSUME NEW prize \in Nat, NEW split \in Seq(Nat), ValidDistribution(split)
    PROVE  /\ PrizeShares(prize, split) \in [DOMAIN split -> Nat]
           /\ SumFunctionOnSet(PrizeShares(prize, split), DOMAIN split) = prize
<1> DEFINE n == Len(split)
           D == 1..n
           rest == 2..n
           part == [i \in DOMAIN split |-> (prize * split[i]) \div 100]
           first == prize - SumFunctionOnSet(part, rest)
           share == PrizeShares(prize, split)
<1>1. /\ n \in Nat /\ DOMAIN split = D /\ \A i \in D : split[i] \in Nat
      /\ SumFunctionOnSet(split, D) = 100 /\ n >= 1
  BY DEF ValidDistribution
<1>2. /\ \A i \in D : part[i] = (prize * split[i]) \div 100
      /\ share = [part EXCEPT ![1] = first]
  BY <1>1 DEF PrizeShares
<1>3. part = [i \in D |-> part[i]]
  BY <1>1
<1> HIDE DEF n, part, first, share
<1>4. /\ 1 \in D /\ 1 \notin rest /\ D = rest \cup {1} /\ \A i \in rest : i \in D
      /\ D \ {1} = rest
  BY <1>1
<1>5. IsFiniteSet(D) /\ IsFiniteSet(rest)
  <2>1. \A i, j \in Int : IsFiniteSet(i..j)
    BY FS_Interval
  <2> QED
    BY <1>1, <2>1
<1> HIDE DEF D, rest
<1>6. \A i \in D : part[i] \in Nat
  BY SMTT(30), <1>1, <1>2, <1>5, PartsFit
<1>7. 100 * SumFunctionOnSet(part, rest) <= prize * SumFunctionOnSet(split, rest)
  <2>1. \A i \in rest : split[i] \in Nat /\ part[i] = (prize * split[i]) \div 100
    BY <1>1, <1>2, <1>4
  <2> QED
    BY <1>5, <2>1, PartsFit
<1>8. SumFunctionOnSet(split, rest) <= 100 /\ SumFunctionOnSet(split, rest) \in Nat
  <2>1. SumFunctionOnSet(split, D) = split[1] + SumFunctionOnSet(split, D \ {1})
    <3>1. \A i \in D : split[i] \in Int
      BY <1>1
    <3> QED
      BY <1>4, <1>5, <3>1, SumTakesOut
  <2>2. SumFunctionOnSet(split, rest) \in Nat
    <3>1. \A i \in rest : split[i] \in Nat
      BY <1>1, <1>4
    <3> QED
      BY <1>5, <3>1, SumIsNat
  <2>3. split[1] \in Nat
    BY <1>1, <1>4
  <2>4. SumFunctionOnSet(split, D) = split[1] + SumFunctionOnSet(split, rest)
    BY <1>4, <2>1
  <2> QED
    BY <1>1, <2>2, <2>3, <2>4
<1>9. first \in Nat /\ SumFunctionOnSet(part, rest) \in Nat
  <2>1. SumFunctionOnSet(part, rest) \in Nat
    BY <1>4, <1>5, <1>6, SumIsNat
  <2> SUFFICES ASSUME NEW a \in Nat, NEW s \in Nat, s <= 100, 100 * a <= prize * s,
                      a = SumFunctionOnSet(part, rest)
               PROVE  prize - a \in Nat
    BY <1>7, <1>8, <2>1 DEF first
  <2>2. prize * s <= prize * 100
    OBVIOUS
  <2>3. prize * s \in Nat
    OBVIOUS
  <2> QED
    BY <2>2, <2>3
<1>10. /\ share \in [D -> Nat] /\ share[1] = first
       /\ \A i \in rest : share[i] = part[i]
  BY <1>2, <1>3, <1>4, <1>6, <1>9
<1>11. SumFunctionOnSet(share, D) = share[1] + SumFunctionOnSet(share, D \ {1})
  <2>1. \A i \in D : share[i] \in Int
    BY <1>10
  <2> QED
    BY <1>4, <1>5, <2>1, SumTakesOut
<1>12. SumFunctionOnSet(share, rest) = SumFunctionOnSet(part, rest)
  BY <1>5, <1>10, SumOfEquals
<1>13. SumFunctionOnSet(share, D) = first + SumFunctionOnSet(part, rest)
  BY <1>4, <1>10, <1>11, <1>12
<1>14. SumFunctionOnSet(share, D) = prize
  BY <1>9, <1>13 DEF first
<1> QED
  BY <1>1, <1>10, <1>14 DEF share

Payees == Winners \cup {Treasury}

\* All that could be claimed.
Positive(c) == [w \in Payees |-> AtLeast(c[w], 0)]

AllClaims == SumFunctionOnSet(Positive(credit), Payees)

\* The credits are claimed in full until a second tournament is settled.
OneSettled == \A p, q \in SettledPositions : p = q

\* What a position staked is still in its pool, unless the pool lost or is shared.
Whole(p) ==
    \/ PoolOf[p] \in lost
    \/ \E q \in OpenPositions \ {p} : PoolOf[q] = PoolOf[p]
    \/ poolBalance[PoolOf[p]] >= position[p].staked

\* Before the first settlement: the wallet holds yield for the treasury and nothing else.
Unsettled ==
    /\ wallet = walletYield /\ credit[Treasury] = walletYield
    /\ \A w \in Winners : credit[w] = 0
    /\ \A p \in OpenPositions : Whole(p)

PositionRecords ==
    [open : BOOLEAN, staked : Nat, harvested : Nat, settled : BOOLEAN, risky : BOOLEAN]

Backed ==
    /\ SettledPositions \subseteq OpenPositions
    /\ \A p \in OpenPositions : TokenOf[PoolOf[p]] = token
    /\ OneSettled => wallet >= AllClaims
    /\ SettledPositions = {} => Unsettled

YieldInv == YieldTypeOK /\ Backed

LEMMA PoolsTyped == \A p \in Positions : PoolOf[p] \in Pools
BY DEF Pools

\* With credit of the treasury alone the claims are that credit.
LEMMA TreasuryOnly ==
    ASSUME NEW c, \A w \in Winners : c[w] = 0, c[Treasury] \in Nat
    PROVE  SumFunctionOnSet(Positive(c), Payees) = c[Treasury]
<1> DEFINE f == Positive(c)
<1>1. /\ \A w \in Winners : f[w] = 0
      /\ f[Treasury] = c[Treasury]
      /\ \A w \in Payees : f[w] \in Int
      /\ Treasury \in Payees /\ Treasury \notin Winners /\ Payees = Winners \cup {Treasury}
  BY YieldAssumption DEF AtLeast, Payees, Positive
<1>2. IsFiniteSet(Winners)
  BY YieldAssumption
<1> HIDE DEF f
<1>3. SumFunctionOnSet(f, Winners) = 0
  BY <1>1, <1>2, SumOfZeros
<1>4. SumFunctionOnSet(f, Winners \cup {Treasury}) = SumFunctionOnSet(f, Winners) + f[Treasury]
  <2>1. (\A w \in Winners : f[w] \in Int) /\ f[Treasury] \in Int
    BY <1>1
  <2> QED
    BY <1>1, <1>2, <2>1, SumAdds
<1>5. SumFunctionOnSet(f, Payees) = c[Treasury]
  BY <1>1, <1>3, <1>4
<1> QED
  BY <1>5 DEF f

LEMMA YieldStarts == YieldInit => YieldInv
<1> SUFFICES ASSUME YieldInit  PROVE YieldInv
  OBVIOUS
<1>1. YieldTypeOK
  <2>1. position \in [Positions -> PositionRecords]
    BY DEF YieldInit, Untouched, PositionRecords
  <2>2. /\ poolBalance \in [Pools -> Nat] /\ earned \in [Pools -> Nat]
        /\ whitelist \subseteq Pools /\ lost \subseteq Pools
        /\ wallet \in Nat /\ walletYield \in Int
        /\ credit \in [Winners \cup {Treasury} -> Int]
        /\ token \in {NoToken} \cup {TokenOf[q] : q \in Pools}
    BY DEF YieldInit
  <2> QED
    BY <2>1, <2>2, Zenon DEF YieldTypeOK, PositionRecords
<1>2. /\ wallet = 0 /\ walletYield = 0 /\ \A w \in Payees : credit[w] = 0
      /\ OpenPositions = {} /\ SettledPositions = {}
  BY DEF YieldInit, OpenPositions, SettledPositions, Untouched, Payees
<1>3. (\A w \in Winners : credit[w] = 0) /\ credit[Treasury] = 0
  BY <1>2 DEF Payees
<1>4. AllClaims = 0
  BY <1>3, TreasuryOnly DEF AllClaims
<1>5. Backed
  BY <1>2, <1>3, <1>4 DEF Backed, Unsettled
<1> QED
  BY <1>1, <1>5 DEF YieldInv

LEMMA YieldTypes ==
    ASSUME YieldTypeOK
    PROVE  /\ position \in [Positions -> PositionRecords]
           /\ poolBalance \in [Pools -> Nat] /\ earned \in [Pools -> Nat]
           /\ whitelist \subseteq Pools /\ lost \subseteq Pools
           /\ wallet \in Nat /\ walletYield \in Int
           /\ credit \in [Payees -> Int]
           /\ token \in {NoToken} \cup {TokenOf[q] : q \in Pools}
BY Zenon DEF YieldTypeOK, PositionRecords, Payees

\* Calls and events that touch neither the wallet nor the credits.
LEMMA QuietKeeps ==
    ASSUME YieldInv,
           \/ \E q \in Pools :
                WhitelistPool(q) \/ UnwhitelistPool(q) \/ PoolEarns(q) \/ PoolLoses(q)
           \/ \E p \in Positions, allow \in BOOLEAN : SetAllowPrincipalLoss(p, allow)
           \/ UNCHANGED yieldVars
    PROVE  YieldInv'
<1> USE YieldTypes DEF YieldInv
<1>1. /\ token' = token /\ wallet' = wallet /\ walletYield' = walletYield /\ credit' = credit
      /\ position' \in [Positions -> PositionRecords]
      /\ \A p \in Positions :
           /\ position'[p].open = position[p].open /\ position'[p].staked = position[p].staked
           /\ position'[p].harvested = position[p].harvested
           /\ position'[p].settled = position[p].settled
  <2>1. CASE \E p \in Positions, allow \in BOOLEAN : SetAllowPrincipalLoss(p, allow)
    <3> PICK p \in Positions, allow \in BOOLEAN : SetAllowPrincipalLoss(p, allow)
      BY <2>1
    <3> DEFINE new == [position[p] EXCEPT !.risky = allow]
    <3>1. /\ new \in PositionRecords
          /\ new.open = position[p].open /\ new.staked = position[p].staked
          /\ new.harvested = position[p].harvested /\ new.settled = position[p].settled
      BY DEF PositionRecords
    <3>2. /\ position' = [position EXCEPT ![p] = new]
          /\ token' = token /\ wallet' = wallet /\ walletYield' = walletYield
          /\ credit' = credit
      BY DEF SetAllowPrincipalLoss
    <3> HIDE DEF new
    <3> QED
      BY <3>1, <3>2
  <2>2. CASE \/ \E q \in Pools :
                  WhitelistPool(q) \/ UnwhitelistPool(q) \/ PoolEarns(q) \/ PoolLoses(q)
             \/ UNCHANGED yieldVars
    BY <2>2 DEF WhitelistPool, UnwhitelistPool, PoolEarns, PoolLoses, yieldVars
  <2> QED
    BY <2>1, <2>2
<1> DEFINE PoolsKept ==
      /\ poolBalance' \in [Pools -> Nat] /\ earned' \in [Pools -> Nat]
      /\ whitelist' \subseteq Pools /\ lost' \subseteq Pools /\ lost \subseteq lost'
      /\ \A q \in Pools : q \in lost' \/ poolBalance'[q] >= poolBalance[q]
<1>2. PoolsKept
  <2>1. CASE UNCHANGED <<poolBalance, lost, earned>> /\ whitelist' \subseteq Pools
    BY <2>1
  <2>2. CASE \E p \in Positions, allow \in BOOLEAN : SetAllowPrincipalLoss(p, allow)
    BY <2>1, <2>2 DEF SetAllowPrincipalLoss
  <2>3. CASE UNCHANGED yieldVars
    BY <2>1, <2>3 DEF yieldVars
  <2>4. ASSUME NEW q \in Pools, WhitelistPool(q) \/ UnwhitelistPool(q)  PROVE PoolsKept
    BY <2>1, <2>4 DEF WhitelistPool, UnwhitelistPool
  <2>5. ASSUME NEW q \in Pools, PoolEarns(q)  PROVE PoolsKept
    BY <2>5 DEF PoolEarns
  <2>6. ASSUME NEW q \in Pools, PoolLoses(q)  PROVE PoolsKept
    BY <2>6 DEF PoolLoses
  <2> QED
    BY <2>2, <2>3, <2>4, <2>5, <2>6
<1>3. YieldTypeOK'
  <2>1. /\ wallet' \in Nat /\ walletYield' \in Int /\ credit' \in [Payees -> Int]
        /\ token' \in {NoToken} \cup {TokenOf[q] : q \in Pools}
    BY <1>1
  <2> QED
    BY <1>1, <1>2, <2>1, Zenon DEF YieldTypeOK, PositionRecords, Payees
<1>4. OpenPositions' = OpenPositions /\ SettledPositions' = SettledPositions
  BY <1>1 DEF OpenPositions, SettledPositions
<1>5. AllClaims' = AllClaims
  BY <1>1 DEF AllClaims
<1>6. ASSUME Unsettled  PROVE Unsettled'
  <2>1. ASSUME NEW p \in OpenPositions  PROVE Whole(p)'
    <3>1. Whole(p) /\ p \in Positions
      BY <1>6 DEF Unsettled, OpenPositions
    <3>2. /\ poolBalance[PoolOf[p]] \in Nat /\ poolBalance'[PoolOf[p]] \in Nat
          /\ position[p].staked \in Nat /\ PoolOf[p] \in Pools
      BY <1>2, <3>1, PoolsTyped DEF PositionRecords
    <3> QED
      BY <1>1, <1>2, <1>4, <3>1, <3>2 DEF Whole
  <2> QED
    BY <1>1, <1>4, <1>6, <2>1 DEF Unsettled
<1>7. Backed'
  BY <1>1, <1>4, <1>5, <1>6 DEF Backed, OneSettled
<1> QED
  BY <1>3, <1>7

LEMMA StakeKeeps ==
    ASSUME YieldInv, NEW p \in Positions, NEW amount \in StakeAmounts, Stake(p, amount)
    PROVE  YieldInv'
<1> DEFINE old == ResolvePosition(p)
           new == [old EXCEPT !.staked = @ + amount]
           q == PoolOf[p]
<1>1. /\ position' = [position EXCEPT ![p] = new]
      /\ token' = TokenOf[q] /\ poolBalance' = [poolBalance EXCEPT ![q] = @ + amount]
      /\ whitelist' = whitelist /\ earned' = earned /\ lost' = lost
      /\ wallet' = wallet /\ walletYield' = walletYield /\ credit' = credit
      /\ ~old.settled
  BY DEF Stake, Stored
<1>2. /\ position \in [Positions -> PositionRecords]
      /\ poolBalance \in [Pools -> Nat] /\ earned \in [Pools -> Nat]
      /\ whitelist \subseteq Pools /\ lost \subseteq Pools
      /\ wallet \in Nat /\ walletYield \in Int /\ credit \in [Payees -> Int]
  BY YieldTypes DEF YieldInv
<1>3. amount \in Nat /\ q \in Pools
  BY YieldAssumption, PoolsTyped
<1>4. /\ position[p].open => old = position[p]
      /\ ~position[p].open => old.staked = 0 /\ old.harvested = 0
      /\ old \in PositionRecords /\ old.open
  BY <1>2 DEF ResolvePosition, Untouched, PositionRecords
<1> HIDE DEF old
<1>5. /\ new \in PositionRecords /\ new.open /\ new.staked = old.staked + amount
      /\ new.harvested = old.harvested /\ new.settled = old.settled /\ old.staked \in Nat
  BY <1>3, <1>4 DEF PositionRecords
<1> HIDE DEF new, q
<1>6. /\ position' \in [Positions -> PositionRecords]
      /\ position'[p] = new /\ \A r \in Positions \ {p} : position'[r] = position[r]
      /\ poolBalance' \in [Pools -> Nat] /\ poolBalance'[q] = poolBalance[q] + amount
      /\ poolBalance[q] \in Nat
  BY <1>1, <1>2, <1>3, <1>5
<1>7. YieldTypeOK'
  <2>1. /\ wallet' \in Nat /\ walletYield' \in Int /\ credit' \in [Payees -> Int]
        /\ token' \in {NoToken} \cup {TokenOf[x] : x \in Pools}
        /\ earned' \in [Pools -> Nat] /\ whitelist' \subseteq Pools /\ lost' \subseteq Pools
    BY <1>1, <1>2, <1>3
  <2> QED
    BY <1>6, <2>1, Zenon DEF YieldTypeOK, PositionRecords, Payees
<1>8. OpenPositions' = OpenPositions \cup {p}
  BY <1>5, <1>6 DEF OpenPositions
<1>9. SettledPositions' = SettledPositions /\ SettledPositions \subseteq OpenPositions
  <2>1. SettledPositions \subseteq OpenPositions
    BY DEF YieldInv, Backed
  <2>2. p \notin SettledPositions
    BY <1>1, <1>4, <2>1 DEF OpenPositions, SettledPositions
  <2>3. ~new.settled
    BY <1>1, <1>5
  <2> QED
    BY <1>6, <2>1, <2>2, <2>3 DEF SettledPositions
<1>10. AllClaims' = AllClaims
  BY <1>1 DEF AllClaims
<1>11. \A r \in OpenPositions' : TokenOf[PoolOf[r]] = token'
  <2>1. \A r \in OpenPositions : TokenOf[PoolOf[r]] = token /\ r \in Positions
    BY DEF YieldInv, Backed, OpenPositions
  <2>2. TokenFits(p)
    BY DEF Stake
  <2>3. \A r \in OpenPositions : token # NoToken
    BY <2>1, YieldAssumption, PoolsTyped
  <2>4. \A r \in OpenPositions : token = TokenOf[q]
    BY <2>1, <2>2, <2>3 DEF TokenFits, OpenPositions, q
  <2> QED
    BY <1>1, <1>8, <2>1, <2>4 DEF q
<1>12. ASSUME Unsettled  PROVE Unsettled'
  <2>1. Whole(p)'
    <3>1. CASE p \in OpenPositions
      <4>1. Whole(p) /\ old = position[p]
        BY <1>4, <1>12, <3>1 DEF Unsettled, OpenPositions
      <4>2. poolBalance[q] >= old.staked => poolBalance'[q] >= new.staked
        BY <1>3, <1>5, <1>6
      <4> QED
        BY <1>1, <1>6, <1>8, <4>1, <4>2 DEF Whole, q
    <3>2. CASE p \notin OpenPositions
      <4>1. new.staked = amount
        BY <1>3, <1>4, <1>5, <3>2 DEF OpenPositions
      <4>2. poolBalance'[q] >= new.staked
        BY <1>3, <1>6, <4>1
      <4> QED
        BY <1>6, <4>2 DEF Whole, q
    <3> QED
      BY <3>1, <3>2
  <2>2. ASSUME NEW r \in OpenPositions, r # p  PROVE Whole(r)'
    <3>1. Whole(r) /\ r \in Positions /\ position'[r] = position[r]
      BY <1>6, <1>12, <2>2 DEF Unsettled, OpenPositions
    <3>2. CASE PoolOf[r] = q
      BY <1>8, <2>2, <3>2 DEF Whole, q
    <3>3. CASE PoolOf[r] # q
      <4>1. poolBalance'[PoolOf[r]] = poolBalance[PoolOf[r]]
        BY <1>1, <1>2, <3>1, <3>3, PoolsTyped
      <4> QED
        BY <1>1, <1>8, <3>1, <4>1 DEF Whole
    <3> QED
      BY <3>2, <3>3
  <2> QED
    BY <1>1, <1>8, <1>12, <2>1, <2>2 DEF Unsettled
<1>13. Backed'
  <2>1. Backed
    BY DEF YieldInv
  <2> QED
    BY <1>1, <1>8, <1>9, <1>10, <1>11, <1>12, <2>1 DEF Backed, OneSettled
<1> QED
  BY <1>7, <1>13 DEF YieldInv

LEMMA UnstakeKeeps ==
    ASSUME YieldInv, NEW p \in Positions, NEW amount \in StakeAmounts, Unstake(p, amount)
    PROVE  YieldInv'
<1> DEFINE new == [position[p] EXCEPT !.staked = @ - amount]
           q == PoolOf[p]
<1>1. /\ position[p].open /\ ~position[p].settled
      /\ amount <= position[p].staked /\ amount <= poolBalance[q]
      /\ position' = [position EXCEPT ![p] = new]
      /\ poolBalance' = [poolBalance EXCEPT ![q] = @ - amount]
      /\ whitelist' = whitelist /\ earned' = earned /\ lost' = lost /\ token' = token
      /\ wallet' = wallet /\ walletYield' = walletYield /\ credit' = credit
  BY DEF Unstake, MayChange
<1>2. /\ position \in [Positions -> PositionRecords]
      /\ poolBalance \in [Pools -> Nat] /\ earned \in [Pools -> Nat]
      /\ whitelist \subseteq Pools /\ lost \subseteq Pools
      /\ wallet \in Nat /\ walletYield \in Int /\ credit \in [Payees -> Int]
      /\ token \in {NoToken} \cup {TokenOf[x] : x \in Pools}
  BY YieldTypes DEF YieldInv
<1>3. amount \in Nat /\ q \in Pools
  BY YieldAssumption, PoolsTyped
<1>4. /\ new \in PositionRecords /\ new.open = position[p].open
      /\ new.staked = position[p].staked - amount /\ position[p].staked \in Nat
      /\ new.harvested = position[p].harvested /\ new.settled = position[p].settled
  <2>1. position[p] \in PositionRecords /\ position[p].staked \in Nat
    BY <1>2 DEF PositionRecords
  <2>2. position[p].staked - amount \in Nat
    BY <1>1, <1>3, <2>1
  <2> QED
    BY <2>1, <2>2 DEF PositionRecords
<1> HIDE DEF new, q
<1>5. /\ position' \in [Positions -> PositionRecords]
      /\ position'[p] = new /\ \A r \in Positions \ {p} : position'[r] = position[r]
      /\ poolBalance' \in [Pools -> Nat] /\ poolBalance'[q] = poolBalance[q] - amount
      /\ poolBalance[q] \in Nat
  <2>1. poolBalance[q] - amount \in Nat
    BY <1>1, <1>2, <1>3
  <2> QED
    BY <1>1, <1>2, <1>3, <1>4, <2>1
<1>6. YieldTypeOK'
  <2>1. /\ wallet' \in Nat /\ walletYield' \in Int /\ credit' \in [Payees -> Int]
        /\ token' \in {NoToken} \cup {TokenOf[x] : x \in Pools}
        /\ earned' \in [Pools -> Nat] /\ whitelist' \subseteq Pools /\ lost' \subseteq Pools
    BY <1>1, <1>2
  <2> QED
    BY <1>5, <2>1, Zenon DEF YieldTypeOK, PositionRecords, Payees
<1>7. OpenPositions' = OpenPositions /\ p \in OpenPositions
  BY <1>1, <1>4, <1>5 DEF OpenPositions
<1>8. SettledPositions' = SettledPositions
  BY <1>1, <1>4, <1>5 DEF SettledPositions
<1>9. AllClaims' = AllClaims
  BY <1>1 DEF AllClaims
<1>10. ASSUME Unsettled  PROVE Unsettled'
  <2>1. Whole(p)'
    <3>1. Whole(p)
      BY <1>7, <1>10 DEF Unsettled
    <3>2. poolBalance[q] >= position[p].staked => poolBalance'[q] >= new.staked
      BY <1>3, <1>4, <1>5
    <3> QED
      BY <1>1, <1>5, <1>7, <3>1, <3>2 DEF Whole, q
  <2>2. ASSUME NEW r \in OpenPositions, r # p  PROVE Whole(r)'
    <3>1. Whole(r) /\ r \in Positions /\ position'[r] = position[r]
      BY <1>5, <1>10, <2>2 DEF Unsettled, OpenPositions
    <3>2. CASE PoolOf[r] = q
      BY <1>7, <2>2, <3>2 DEF Whole, q
    <3>3. CASE PoolOf[r] # q
      <4>1. poolBalance'[PoolOf[r]] = poolBalance[PoolOf[r]]
        BY <1>1, <1>2, <3>1, <3>3, PoolsTyped
      <4> QED
        BY <1>1, <1>7, <3>1, <4>1 DEF Whole
    <3> QED
      BY <3>2, <3>3
  <2> QED
    BY <1>1, <1>7, <1>10, <2>1, <2>2 DEF Unsettled
<1>11. Backed'
  <2>1. Backed
    BY DEF YieldInv
  <2> QED
    BY <1>1, <1>7, <1>8, <1>9, <1>10, <2>1 DEF Backed, OneSettled
<1> QED
  BY <1>6, <1>11 DEF YieldInv

LEMMA HarvestKeeps ==
    ASSUME YieldInv, NEW p \in Positions, HarvestYield(p)
    PROVE  YieldInv'
<1> DEFINE more == AccruedYield(p)
           new == [position[p] EXCEPT !.harvested = @ + more]
           q == PoolOf[p]
<1>1. /\ position[p].open /\ ~position[p].settled
      /\ more \in 1..poolBalance[q]
      /\ position' = [position EXCEPT ![p] = new]
      /\ poolBalance' = [poolBalance EXCEPT ![q] = @ - more]
      /\ credit' = [credit EXCEPT ![Treasury] = @ + more]
      /\ wallet' = wallet + more /\ walletYield' = walletYield + more
      /\ whitelist' = whitelist /\ earned' = earned /\ lost' = lost /\ token' = token
  BY DEF HarvestYield, MayChange
<1>2. /\ position \in [Positions -> PositionRecords]
      /\ poolBalance \in [Pools -> Nat] /\ earned \in [Pools -> Nat]
      /\ whitelist \subseteq Pools /\ lost \subseteq Pools
      /\ wallet \in Nat /\ walletYield \in Int /\ credit \in [Payees -> Int]
      /\ token \in {NoToken} \cup {TokenOf[x] : x \in Pools}
  BY YieldTypes DEF YieldInv
<1>3. q \in Pools /\ poolBalance[q] \in Nat
  BY <1>2, PoolsTyped
<1>4. more = poolBalance[q] + (wallet - walletYield) - position[p].staked
  BY DEF AccruedYield
<1> HIDE DEF more, q
<1>5. more \in Nat /\ more <= poolBalance[q]
  BY <1>1, <1>3
<1>6. /\ new \in PositionRecords /\ new.open = position[p].open
      /\ new.staked = position[p].staked /\ position[p].staked \in Nat
      /\ new.harvested = position[p].harvested + more /\ new.settled = position[p].settled
      /\ position[p].harvested \in Nat
  BY <1>2, <1>5 DEF PositionRecords
<1> HIDE DEF new
<1>7. /\ position' \in [Positions -> PositionRecords]
      /\ position'[p] = new /\ \A r \in Positions \ {p} : position'[r] = position[r]
      /\ poolBalance' \in [Pools -> Nat] /\ poolBalance'[q] = poolBalance[q] - more
  <2>1. poolBalance[q] - more \in Nat
    BY <1>3, <1>5
  <2> QED
    BY <1>1, <1>2, <1>3, <1>6, <2>1
<1>8. /\ credit' \in [Payees -> Int] /\ credit'[Treasury] = credit[Treasury] + more
      /\ \A w \in Winners : credit'[w] = credit[w]
  BY <1>1, <1>2, <1>5, YieldAssumption DEF Payees
<1>9. YieldTypeOK'
  <2>1. /\ wallet' \in Nat /\ walletYield' \in Int
        /\ token' \in {NoToken} \cup {TokenOf[x] : x \in Pools}
        /\ earned' \in [Pools -> Nat] /\ whitelist' \subseteq Pools /\ lost' \subseteq Pools
    BY <1>1, <1>2, <1>5
  <2> QED
    BY <1>7, <1>8, <2>1, Zenon DEF YieldTypeOK, PositionRecords, Payees
<1>10. OpenPositions' = OpenPositions /\ p \in OpenPositions
  BY <1>1, <1>6, <1>7 DEF OpenPositions
<1>11. SettledPositions' = SettledPositions
  BY <1>1, <1>6, <1>7 DEF SettledPositions
<1>12. AllClaims \in Int /\ AllClaims' \in Int /\ AllClaims' <= AllClaims + more
  <2> DEFINE f == Positive(credit)
             g == Positive(credit')
  <2>1. /\ \A w \in Payees : f[w] \in Int /\ g[w] \in Int
        /\ \A w \in Payees \ {Treasury} : g[w] = f[w]
        /\ g[Treasury] <= f[Treasury] + more
    <3>1. credit[Treasury] \in Int /\ Treasury \in Payees
      BY <1>2 DEF Payees
    <3>2. AtLeast(credit[Treasury] + more, 0) <= AtLeast(credit[Treasury], 0) + more
      BY <1>5, <3>1 DEF AtLeast
    <3>3. \A w \in Payees : f[w] = AtLeast(credit[w], 0) /\ g[w] = AtLeast(credit'[w], 0)
      BY DEF Positive
    <3>4. \A w \in Payees \ {Treasury} : credit'[w] = credit[w]
      BY <1>8 DEF Payees
    <3>5. \A x \in Int : AtLeast(x, 0) \in Int
      BY DEF AtLeast
    <3> HIDE DEF f, g
    <3> QED
      BY <1>2, <1>8, <3>1, <3>2, <3>3, <3>4, <3>5
  <2>2. IsFiniteSet(Payees) /\ Treasury \in Payees
    BY YieldAssumption, FS_AddElement DEF Payees
  <2> HIDE DEF f, g
  <2>3. /\ SumFunctionOnSet(g, Payees)
              = SumFunctionOnSet(f, Payees) + (g[Treasury] - f[Treasury])
        /\ SumFunctionOnSet(f, Payees) \in Int
    BY <2>1, <2>2, SumChanges
  <2>4. AllClaims = SumFunctionOnSet(f, Payees) /\ AllClaims' = SumFunctionOnSet(g, Payees)
    BY DEF AllClaims, f, g
  <2> QED
    BY <1>5, <2>1, <2>2, <2>3, <2>4
<1>13. ASSUME Unsettled  PROVE Unsettled'
  <2>1. wallet = walletYield /\ credit[Treasury] = walletYield
        /\ \A w \in Winners : credit[w] = 0
    BY <1>13 DEF Unsettled
  <2>2. poolBalance'[q] = new.staked
    BY <1>2, <1>3, <1>4, <1>5, <1>6, <1>7, <2>1
  <2>3. Whole(p)'
    BY <1>6, <1>7, <2>2 DEF Whole, q
  <2>4. ASSUME NEW r \in OpenPositions, r # p  PROVE Whole(r)'
    <3>1. Whole(r) /\ r \in Positions /\ position'[r] = position[r]
      BY <1>7, <1>13, <2>4 DEF Unsettled, OpenPositions
    <3>2. CASE PoolOf[r] = q
      BY <1>10, <2>4, <3>2 DEF Whole, q
    <3>3. CASE PoolOf[r] # q
      <4>1. poolBalance'[PoolOf[r]] = poolBalance[PoolOf[r]]
        BY <1>1, <1>2, <3>1, <3>3, PoolsTyped
      <4> QED
        BY <1>1, <1>10, <3>1, <4>1 DEF Whole
    <3> QED
      BY <3>2, <3>3
  <2>5. \A r \in OpenPositions' : Whole(r)'
    BY <1>10, <2>3, <2>4
  <2>6. /\ wallet' = walletYield' /\ credit'[Treasury] = walletYield'
        /\ \A w \in Winners : credit'[w] = 0
    BY <1>1, <1>2, <1>5, <1>8, <2>1
  <2> QED
    BY <2>5, <2>6 DEF Unsettled
<1>14. Backed'
  <2>1. Backed
    BY DEF YieldInv
  <2>2. wallet >= AllClaims => wallet' >= AllClaims'
    BY <1>1, <1>2, <1>5, <1>12
  <2> QED
    BY <1>1, <1>10, <1>11, <1>13, <2>1, <2>2 DEF Backed, OneSettled
<1> QED
  BY <1>9, <1>14 DEF YieldInv

\* A settlement credits the winners with the prize, no more and no less; what the treasury
\* has from other positions comes on top.
LEMMA SettleCredits ==
    ASSUME NEW prize \in Nat, NEW split \in Seq(Nat), ValidDistribution(split),
           NEW winners \in [DOMAIN split -> Winners],
           NEW c, \A w \in Winners :
               c[w] = SumFunctionOnSet(PrizeShares(prize, split),
                                       Group(DOMAIN split, winners, w)),
           c[Treasury] \in Int
    PROVE  SumFunctionOnSet(Positive(c), Payees) = prize + AtLeast(c[Treasury], 0)
<1> DEFINE D == DOMAIN split
           share == PrizeShares(prize, split)
           f == Positive(c)
<1>1. share \in [D -> Nat] /\ SumFunctionOnSet(share, D) = prize
  BY SharesAddUp
<1>2. IsFiniteSet(D)
  <2>1. D = 1..Len(split) /\ Len(split) \in Int
    OBVIOUS
  <2>2. \A i, j \in Int : IsFiniteSet(i..j)
    BY FS_Interval
  <2> QED
    BY <2>1, <2>2
<1>3. IsFiniteSet(Winners) /\ Treasury \notin Winners /\ Payees = Winners \cup {Treasury}
  BY YieldAssumption DEF Payees
<1> HIDE DEF share, D
<1>4. ASSUME NEW w \in Winners
      PROVE  c[w] \in Nat /\ c[w] = SumFunctionOnSet(share, Group(D, winners, w))
  <2>1. c[w] = SumFunctionOnSet(share, Group(D, winners, w))
    BY DEF share, D
  <2> DEFINE one == Group(D, winners, w)
  <2>2. IsFiniteSet(one) /\ \A i \in one : share[i] \in Nat
    BY <1>1, <1>2, FS_Subset DEF Group
  <2> HIDE DEF one
  <2>3. SumFunctionOnSet(share, one) \in Nat
    BY <2>2, SumIsNat
  <2> QED
    BY <2>1, <2>3 DEF one
<1>5. /\ \A w \in Winners : f[w] = c[w] /\ f[w] \in Int
      /\ f[Treasury] = AtLeast(c[Treasury], 0) /\ f[Treasury] \in Int
  <2>1. ASSUME NEW w \in Winners  PROVE f[w] = c[w] /\ f[w] \in Int
    <3>1. f[w] = AtLeast(c[w], 0) /\ c[w] \in Nat
      BY <1>3, <1>4 DEF Positive
    <3> QED
      BY <3>1 DEF AtLeast
  <2>2. f[Treasury] = AtLeast(c[Treasury], 0)
    BY <1>3 DEF Positive
  <2>3. f[Treasury] \in Int
    BY <2>2 DEF AtLeast
  <2> QED
    BY <2>1, <2>2, <2>3
<1> HIDE DEF f
<1>6. SumFunctionOnSet(f, Winners) = SumFunctionOnSet(share, D)
  <2>1. \A w \in Winners : f[w] = SumFunctionOnSet(share, Group(D, winners, w))
    BY <1>4, <1>5
  <2>2. (\A i \in D : winners[i] \in Winners) /\ \A i \in D : share[i] \in Int
    BY <1>1 DEF D
  <2>3. IsFiniteSet(Winners)
    BY <1>3
  <2> QED
    BY <1>2, <2>1, <2>2, <2>3, SumByGroups
<1>7. SumFunctionOnSet(f, Winners \cup {Treasury})
        = SumFunctionOnSet(f, Winners) + f[Treasury] /\ SumFunctionOnSet(f, Winners) \in Int
  <2>1. f[Treasury] \in Int
    BY <1>5
  <2> QED
    BY <1>3, <1>5, <2>1, SumAdds
<1>8. SumFunctionOnSet(f, Payees) = prize + AtLeast(c[Treasury], 0)
  BY <1>1, <1>3, <1>5, <1>6, <1>7
<1> QED
  BY <1>8 DEF f

LEMMA SettlementKeeps ==
    ASSUME YieldInv, NEW p \in Positions, NEW split \in Splits,
           NEW winners \in [DOMAIN split -> Winners], SettleTournament(p, winners, split)
    PROVE  YieldInv'
<1> DEFINE new == [position[p] EXCEPT !.staked = 0, !.harvested = 0, !.settled = TRUE]
           q == PoolOf[p]
           gain(w) == SumFunctionOnSet(PrizeShares(Prize(p), split),
                                       Group(DOMAIN split, winners, w))
<1>1. /\ position[p].open /\ ~position[p].settled /\ ValidDistribution(split)
      /\ position' = [position EXCEPT ![p] = new]
      /\ poolBalance' = [poolBalance EXCEPT ![q] = 0]
      /\ credit' = [w \in Payees |-> IF w = Treasury THEN credit[Treasury] - position[p].harvested
                                     ELSE credit[w] + gain(w)]
      /\ wallet' = wallet + poolBalance[q]
      /\ walletYield' = walletYield - position[p].harvested
      /\ whitelist' = whitelist /\ earned' = earned /\ lost' = lost /\ token' = token
  BY DEF SettleTournament, MayChange, TreasuryCredit, Payees, Group
<1>2. /\ position \in [Positions -> PositionRecords]
      /\ poolBalance \in [Pools -> Nat] /\ earned \in [Pools -> Nat]
      /\ whitelist \subseteq Pools /\ lost \subseteq Pools
      /\ wallet \in Nat /\ walletYield \in Int /\ credit \in [Payees -> Int]
      /\ token \in {NoToken} \cup {TokenOf[x] : x \in Pools}
  BY YieldTypes DEF YieldInv
<1>3. q \in Pools /\ poolBalance[q] \in Nat /\ split \in Seq(Nat)
  BY <1>2, PoolsTyped, YieldAssumption
<1>4. /\ new \in PositionRecords /\ new.open = position[p].open /\ new.settled
      /\ position[p].harvested \in Nat
  BY <1>2 DEF PositionRecords
<1>5. \A w \in Winners : gain(w) \in Int
  <2> SUFFICES ASSUME NEW w \in Winners  PROVE gain(w) \in Int
    OBVIOUS
  <2> DEFINE D == DOMAIN split
             one == Group(D, winners, w)
             share == PrizeShares(Prize(p), split)
  <2>1. D = 1..Len(split) /\ Len(split) \in Int
    BY <1>3
  <2>2. IsFiniteSet(one)
    <3>1. \A i, j \in Int : IsFiniteSet(i..j)
      BY FS_Interval
    <3> QED
      BY <2>1, <3>1, FS_Subset DEF Group
  <2>3. Prize(p) \in Int
    <3>1. OtherYield(p) \in Int
      BY <1>2, <1>4 DEF OtherYield, AtMost, AtLeast
    <3> QED
      BY <1>2, <1>3, <3>1 DEF Prize, q
  <2>4. \A i \in one : share[i] \in Int
    <3> DEFINE part == [i \in D |-> (Prize(p) * split[i]) \div 100]
               rest == 2..Len(split)
    <3>1. \A i \in D : part[i] \in Int
      <4>1. \A i \in D : split[i] \in Nat
        BY <1>3
      <4>2. \A x \in Int : x \div 100 \in Int
        OBVIOUS
      <4>3. \A i \in D : Prize(p) * split[i] \in Int
        BY <2>3, <4>1
      <4> QED
        BY <4>2, <4>3
    <3>2. SumFunctionOnSet(part, rest) \in Int
      <4>1. \A i \in rest : i \in D
        BY <2>1
      <4>2. IsFiniteSet(rest)
        BY <2>1, FS_Interval
      <4> HIDE DEF part, rest
      <4> QED
        BY <3>1, <4>1, <4>2, SumIsInt
    <3>3. share = [part EXCEPT ![1] = Prize(p) - SumFunctionOnSet(part, rest)]
      BY DEF PrizeShares
    <3>4. DOMAIN part = D
      OBVIOUS
    <3>5. Prize(p) - SumFunctionOnSet(part, rest) \in Int
      BY <2>3, <3>2
    <3>6. one \subseteq D
      BY DEF Group
    <3>7. part = [i \in D |-> part[i]]
      OBVIOUS
    <3> HIDE DEF part, share, one, D
    <3> QED
      BY <3>1, <3>3, <3>4, <3>5, <3>6, <3>7
  <2> HIDE DEF one, share
  <2>5. SumFunctionOnSet(share, one) \in Int
    BY <2>2, <2>4, SumIsInt
  <2> QED
    BY <2>5 DEF one, share
<1> HIDE DEF new, q
<1>6. /\ position' \in [Positions -> PositionRecords]
      /\ position'[p] = new /\ \A r \in Positions \ {p} : position'[r] = position[r]
      /\ poolBalance' \in [Pools -> Nat]
  BY <1>1, <1>2, <1>3, <1>4
<1>7. credit' \in [Payees -> Int]
  <2> HIDE DEF gain
  <2>1. \A w \in Payees : w # Treasury => w \in Winners
    BY DEF Payees
  <2>2. Treasury \in Payees
    BY DEF Payees
  <2> QED
    BY <1>1, <1>2, <1>4, <1>5, <2>1, <2>2
<1>8. YieldTypeOK'
  <2>1. /\ wallet' \in Nat /\ walletYield' \in Int
        /\ token' \in {NoToken} \cup {TokenOf[x] : x \in Pools}
        /\ earned' \in [Pools -> Nat] /\ whitelist' \subseteq Pools /\ lost' \subseteq Pools
    BY <1>1, <1>2, <1>3, <1>4
  <2> QED
    BY <1>6, <1>7, <2>1, Zenon DEF YieldTypeOK, PositionRecords, Payees
<1>9. OpenPositions' = OpenPositions /\ p \in OpenPositions
  BY <1>1, <1>4, <1>6 DEF OpenPositions
<1>10. SettledPositions' = SettledPositions \cup {p} /\ p \notin SettledPositions
  BY <1>1, <1>4, <1>6 DEF SettledPositions, OpenPositions
<1>11. ASSUME SettledPositions = {}
       PROVE  wallet' >= AllClaims'
  <2>1. /\ wallet = walletYield /\ credit[Treasury] = walletYield
        /\ \A w \in Winners : credit[w] = 0
    BY <1>11 DEF YieldInv, Backed, Unsettled
  <2>2. /\ credit'[Treasury] = walletYield - position[p].harvested
        /\ credit'[Treasury] \in Int
    <3>1. Treasury \in Payees
      BY DEF Payees
    <3>2. credit'[Treasury] = credit[Treasury] - position[p].harvested
      BY <1>1, <3>1
    <3> QED
      BY <1>2, <1>4, <2>1, <3>1, <3>2
  <2>3. OtherYield(p) = AtLeast(credit'[Treasury], 0)
    BY <1>2, <1>4, <2>1, <2>2 DEF OtherYield, AtMost, AtLeast
  <2>4. /\ Prize(p) + AtLeast(credit'[Treasury], 0) = wallet'
        /\ Prize(p) \in Nat
    <3>1. AtLeast(credit'[Treasury], 0) \in Nat /\ AtLeast(credit'[Treasury], 0) <= wallet
      BY <1>2, <1>4, <2>1, <2>2 DEF AtLeast
    <3>2. Prize(p) = poolBalance[q] + wallet - AtLeast(credit'[Treasury], 0)
      BY <2>3 DEF Prize, q
    <3>3. wallet' = wallet + poolBalance[q] /\ wallet \in Nat /\ poolBalance[q] \in Nat
      BY <1>1, <1>2, <1>3
    <3> QED
      BY <3>1, <3>2, <3>3
  <2>5. \A w \in Winners : credit'[w] = gain(w)
    <3> TAKE w \in Winners
    <3>1. w \in Payees /\ w # Treasury /\ credit[w] = 0 /\ gain(w) \in Int
      BY <1>5, <2>1, YieldAssumption DEF Payees
    <3> HIDE DEF gain
    <3> QED
      BY <1>1, <3>1
  <2>6. AllClaims' = Prize(p) + AtLeast(credit'[Treasury], 0)
    <3> DEFINE prize == Prize(p)
    <3>1. \A w \in Winners :
            credit'[w] = SumFunctionOnSet(PrizeShares(prize, split),
                                          Group(DOMAIN split, winners, w))
      BY <2>5
    <3>2. prize \in Nat
      BY <2>4
    <3> HIDE DEF prize
    <3> SUFFICES ASSUME NEW c, c = credit'
                 PROVE  SumFunctionOnSet(Positive(c), Payees)
                          = prize + AtLeast(c[Treasury], 0)
      BY DEF AllClaims, prize
    <3>3. /\ \A w \in Winners :
               c[w] = SumFunctionOnSet(PrizeShares(prize, split),
                                       Group(DOMAIN split, winners, w))
          /\ c[Treasury] \in Int
      BY <2>2, <3>1
    <3>4. ValidDistribution(split) /\ split \in Seq(Nat)
      BY <1>1, <1>3
    <3> QED
      BY <3>2, <3>3, <3>4, SettleCredits
  <2>7. wallet' \in Nat
    BY <1>1, <1>2, <1>3
  <2> QED
    BY <2>4, <2>6, <2>7
<1>12. Backed'
  <2>1. Backed
    BY DEF YieldInv
  <2>2. OneSettled' => SettledPositions = {}
    BY <1>10 DEF OneSettled
  <2>3. SettledPositions' # {} /\ SettledPositions' \subseteq OpenPositions'
    BY <1>9, <1>10, <2>1 DEF Backed
  <2> QED
    BY <1>1, <1>9, <1>11, <2>1, <2>2, <2>3 DEF Backed
<1> QED
  BY <1>8, <1>12 DEF YieldInv

LEMMA ClaimKeeps ==
    ASSUME YieldInv, NEW who \in Payees, NEW amount \in 1..wallet, ClaimEscrow(who, amount)
    PROVE  YieldInv'
<1>1. /\ amount \in 1..credit[who] /\ amount <= wallet
      /\ credit' = [credit EXCEPT ![who] = @ - amount]
      /\ walletYield' = IF who = Treasury THEN walletYield - AtMost(amount, walletYield)
                        ELSE walletYield
      /\ wallet' = wallet - amount
      /\ position' = position /\ poolBalance' = poolBalance
      /\ whitelist' = whitelist /\ earned' = earned /\ lost' = lost /\ token' = token
  BY DEF ClaimEscrow
<1>2. /\ position \in [Positions -> PositionRecords]
      /\ poolBalance \in [Pools -> Nat] /\ earned \in [Pools -> Nat]
      /\ whitelist \subseteq Pools /\ lost \subseteq Pools
      /\ wallet \in Nat /\ walletYield \in Int /\ credit \in [Payees -> Int]
      /\ token \in {NoToken} \cup {TokenOf[x] : x \in Pools}
  BY YieldTypes DEF YieldInv
<1>3. amount \in Nat /\ amount >= 1 /\ amount <= credit[who] /\ credit[who] \in Int
  BY <1>1, <1>2
<1>4. /\ credit' \in [Payees -> Int] /\ credit'[who] = credit[who] - amount
      /\ \A w \in Payees \ {who} : credit'[w] = credit[w]
  BY <1>1, <1>2, <1>3
<1>5. wallet' \in Nat /\ walletYield' \in Int
  BY <1>1, <1>2, <1>3 DEF AtMost
<1>6. YieldTypeOK'
  BY <1>1, <1>2, <1>4, <1>5, Zenon DEF YieldTypeOK, PositionRecords, Payees
<1>7. OpenPositions' = OpenPositions /\ SettledPositions' = SettledPositions
  BY <1>1 DEF OpenPositions, SettledPositions
<1>8. AllClaims' = AllClaims - amount /\ AllClaims \in Int
  <2> DEFINE f == Positive(credit)
             g == Positive(credit')
  <2>1. /\ \A w \in Payees : f[w] \in Int /\ g[w] \in Int
        /\ \A w \in Payees \ {who} : g[w] = f[w]
        /\ f[who] = credit[who] /\ g[who] = credit[who] - amount
    BY <1>2, <1>3, <1>4 DEF AtLeast, Positive
  <2>2. IsFiniteSet(Payees)
    BY YieldAssumption, FS_AddElement DEF Payees
  <2> HIDE DEF f, g
  <2>3. /\ SumFunctionOnSet(g, Payees) = SumFunctionOnSet(f, Payees) + (g[who] - f[who])
        /\ SumFunctionOnSet(f, Payees) \in Int
    BY <2>1, <2>2, SumChanges
  <2>4. SumFunctionOnSet(g, Payees) = SumFunctionOnSet(f, Payees) - amount
    BY <1>3, <2>1, <2>3
  <2> QED
    BY <2>3, <2>4 DEF AllClaims, f, g
<1>9. ASSUME Unsettled  PROVE Unsettled'
  <2>1. who = Treasury
    BY <1>3, <1>9 DEF Unsettled, Payees
  <2>2. walletYield' = walletYield - amount
    BY <1>1, <1>2, <1>3, <1>9, <2>1 DEF Unsettled, AtMost
  <2>3. \A w \in Winners : credit'[w] = 0
    BY <1>4, <1>9, <2>1, YieldAssumption DEF Unsettled, Payees
  <2>4. credit'[Treasury] = walletYield' /\ wallet' = walletYield'
    BY <1>1, <1>2, <1>3, <1>4, <1>9, <2>1, <2>2 DEF Unsettled
  <2>5. \A p \in OpenPositions' : Whole(p)'
    BY <1>1, <1>7, <1>9 DEF Unsettled, Whole
  <2> QED
    BY <2>3, <2>4, <2>5 DEF Unsettled
<1>10. Backed'
  <2>1. Backed
    BY DEF YieldInv
  <2>2. wallet >= AllClaims => wallet' >= AllClaims'
    BY <1>1, <1>2, <1>3, <1>8
  <2> QED
    BY <1>1, <1>7, <1>9, <2>1, <2>2 DEF Backed, OneSettled
<1> QED
  BY <1>6, <1>10 DEF YieldInv

LEMMA YieldInductive == YieldInv /\ [YieldNext]_yieldVars => YieldInv'
<1> SUFFICES ASSUME YieldInv, [YieldNext]_yieldVars  PROVE YieldInv'
  OBVIOUS
<1>1. ASSUME NEW p \in Positions, NEW amount \in StakeAmounts,
             Stake(p, amount) \/ Unstake(p, amount)
      PROVE  YieldInv'
  BY <1>1, StakeKeeps, UnstakeKeeps
<1>2. ASSUME NEW p \in Positions, HarvestYield(p)
      PROVE  YieldInv'
  BY <1>2, HarvestKeeps
<1>3. ASSUME NEW p \in Positions, NEW split \in Splits,
             NEW winners \in [DOMAIN split -> Winners], SettleTournament(p, winners, split)
      PROVE  YieldInv'
  BY <1>3, SettlementKeeps
<1>4. ASSUME NEW w \in Winners \cup {Treasury}, NEW amount \in 1..wallet, ClaimEscrow(w,
             amount)
      PROVE  YieldInv'
  BY <1>4, ClaimKeeps DEF Payees
<1>5. ASSUME \/ \E q \in Pools :
                  WhitelistPool(q) \/ UnwhitelistPool(q) \/ PoolEarns(q) \/ PoolLoses(q)
             \/ \E p \in Positions, allow \in BOOLEAN : SetAllowPrincipalLoss(p, allow)
             \/ UNCHANGED yieldVars
      PROVE  YieldInv'
  BY <1>5, QuietKeeps
<1> QED
  BY <1>1, <1>2, <1>3, <1>4, <1>5, Zenon DEF YieldNext

LEMMA YieldInvSuffices == YieldInv => YieldSound
<1>1. AllClaims = TotalCredit
  BY DEF AllClaims, TotalCredit, Positive, Payees
<1> QED
  BY <1>1 DEF YieldInv, Backed, OneSettled, Unsettled, Whole, YieldSound, CreditsBacked

\* YieldSound: however many tournaments stake, harvest and claim, with any stakes, pools,
\* numbers of winners and ways to split the prize, every credit is covered by the
\* contract's wallet until a second tournament is settled, and until the first is the
\* principal of a position that shares its pool with none stays there.
THEOREM CreditsAreBacked == YieldSpec => []YieldSound
<1>1. YieldInit => YieldInv
  BY YieldStarts
<1>2. YieldInv /\ [YieldNext]_yieldVars => YieldInv'
  BY YieldInductive
<1>3. YieldInv => YieldSound
  BY YieldInvSuffices
<1> QED
  BY <1>1, <1>2, <1>3, PTL DEF YieldSpec

-----------------------------------------------------------------------------
(***************************************************************************)
(* NFTs: the maps speak of the same finite set of numbers.                 *)
(***************************************************************************)
NftTypeOK ==
    /\ IsFiniteSet(Minted)
    /\ nftOwners \in [Minted -> Collectors]
    /\ minterRegistry \in [Minted -> Collectors]
    /\ nftMetadata \in [Minted -> [owner : Collectors, minter : Collectors, version : Nat]]
    /\ {metadataVersion, nftCounter, mints, burns} \subseteq Nat

NftInv == NftTypeOK /\ NftSound

LEMMA NftStarts == NftInit => NftInv
<1> SUFFICES ASSUME NftInit  PROVE NftInv
  OBVIOUS
<1>1. /\ nftOwners = <<>> /\ nftMetadata = <<>> /\ minterRegistry = <<>>
      /\ metadataVersion = 0 /\ nftCounter = 0 /\ mints = 0 /\ burns = 0
  BY DEF NftInit
<1>2. Minted = {} /\ DOMAIN nftMetadata = {} /\ DOMAIN minterRegistry = {}
  BY <1>1 DEF Minted
<1>3. IsFiniteSet(Minted) /\ Cardinality(Minted) = 0
  BY <1>2, FS_EmptySet
<1>4. /\ nftOwners \in [Minted -> Collectors]
      /\ minterRegistry \in [Minted -> Collectors]
      /\ nftMetadata \in [Minted -> [owner : Collectors, minter : Collectors, version : Nat]]
  BY <1>1, <1>2
<1> QED
  BY <1>1, <1>2, <1>3, <1>4 DEF NftInv, NftTypeOK, NftSound

LEMMA MintKeeps ==
    ASSUME NftInv, NEW minter \in Collectors, Mint(minter)
    PROVE  NftInv'
<1> DEFINE id == nftCounter + 1
           all == Minted \cup {id}
           data == [owner |-> minter, minter |-> minter, version |-> 0]
           MetaData == [owner : Collectors, minter : Collectors, version : Nat]
<1>1. /\ nftCounter' = id
      /\ nftOwners' = With(nftOwners, id, minter)
      /\ nftMetadata' = With(nftMetadata, id, data)
      /\ minterRegistry' = With(minterRegistry, id, minter)
      /\ mints' = mints + 1 /\ burns' = burns
      /\ metadataVersion' = metadataVersion
  BY DEF Mint
<1>2. /\ IsFiniteSet(Minted)
      /\ nftOwners \in [Minted -> Collectors] /\ minterRegistry \in [Minted -> Collectors]
      /\ nftMetadata \in [Minted -> MetaData]
      /\ {metadataVersion, nftCounter, mints, burns} \subseteq Nat
      /\ nftCounter = mints - burns /\ Cardinality(Minted) <= nftCounter
      /\ \A i \in Minted :
           /\ nftMetadata[i].owner = nftOwners[i]
           /\ nftMetadata[i].minter = minterRegistry[i]
           /\ nftMetadata[i].version <= metadataVersion
  BY DEF NftInv, NftTypeOK, NftSound
<1>3. data \in MetaData
  OBVIOUS
<1>4. /\ nftOwners' = [j \in all |-> IF j = id THEN minter ELSE nftOwners[j]]
      /\ nftMetadata' = [j \in all |-> IF j = id THEN data ELSE nftMetadata[j]]
      /\ minterRegistry' = [j \in all |-> IF j = id THEN minter ELSE minterRegistry[j]]
  BY <1>1, <1>2 DEF With
<1>5. data.owner = minter /\ data.minter = minter /\ data.version = 0
  OBVIOUS
<1>6. id \in Nat
  BY <1>2
<1> HIDE DEF id, data, MetaData
<1>7. Minted' = all /\ DOMAIN nftMetadata' = all /\ DOMAIN minterRegistry' = all
  BY <1>4 DEF Minted
<1>8. /\ IsFiniteSet(all) /\ Cardinality(all) \in Nat
      /\ Cardinality(all) = Cardinality(Minted) + (IF id \in Minted THEN 0 ELSE 1)
  BY <1>2, FS_AddElement, FS_CardinalityType
<1>9. /\ nftOwners' \in [all -> Collectors] /\ minterRegistry' \in [all -> Collectors]
      /\ nftMetadata' \in [all -> MetaData]
  <2>1. \A j \in all : j # id => j \in Minted
    OBVIOUS
  <2> HIDE DEF all
  <2> QED
    BY <1>2, <1>3, <1>4, <2>1
<1>10. \A i \in all :
         /\ nftMetadata'[i].owner = nftOwners'[i]
         /\ nftMetadata'[i].minter = minterRegistry'[i]
         /\ nftMetadata'[i].version <= metadataVersion'
  BY <1>1, <1>2, <1>4, <1>5
<1>11. /\ nftCounter' = mints' - burns' /\ Cardinality(all) <= nftCounter'
       /\ mints' \in Nat /\ burns' \in Nat
  <2>1. Cardinality(Minted) \in Nat /\ nftCounter' = nftCounter + 1
    BY <1>1, <1>2, FS_CardinalityType DEF id
  <2> QED
    BY <1>1, <1>2, <1>8, <2>1
<1>12. NftTypeOK'
  BY <1>1, <1>2, <1>6, <1>7, <1>8, <1>9, <1>11 DEF NftTypeOK, MetaData
<1>13. NftSound'
  BY <1>7, <1>10, <1>11 DEF NftSound
<1> QED
  BY <1>12, <1>13 DEF NftInv

LEMMA BurnKeeps ==
    ASSUME NftInv, NEW owner \in Collectors, NEW id \in Ids, Burn(owner, id)
    PROVE  NftInv'
<1> DEFINE left == Minted \ {id}
           MetaData == [owner : Collectors, minter : Collectors, version : Nat]
<1>1. /\ id \in Minted
      /\ nftOwners' = Without(nftOwners, id)
      /\ nftMetadata' = Without(nftMetadata, id)
      /\ minterRegistry' = Without(minterRegistry, id)
      /\ nftCounter' = IF nftCounter > 0 THEN nftCounter - 1 ELSE 0
      /\ burns' = burns + 1 /\ mints' = mints /\ metadataVersion' = metadataVersion
  BY DEF Burn, SupplyAfterBurn
<1>2. /\ IsFiniteSet(Minted)
      /\ nftOwners \in [Minted -> Collectors] /\ minterRegistry \in [Minted -> Collectors]
      /\ nftMetadata \in [Minted -> MetaData]
      /\ {metadataVersion, nftCounter, mints, burns} \subseteq Nat
      /\ nftCounter = mints - burns /\ Cardinality(Minted) <= nftCounter
      /\ \A i \in Minted :
           /\ nftMetadata[i].owner = nftOwners[i]
           /\ nftMetadata[i].minter = minterRegistry[i]
           /\ nftMetadata[i].version <= metadataVersion
  BY DEF NftInv, NftTypeOK, NftSound
<1>3. /\ nftOwners' = [j \in left |-> nftOwners[j]]
      /\ nftMetadata' = [j \in left |-> nftMetadata[j]]
      /\ minterRegistry' = [j \in left |-> minterRegistry[j]]
  BY <1>1, <1>2 DEF Without
<1> HIDE DEF MetaData
<1>4. Minted' = left /\ DOMAIN nftMetadata' = left /\ DOMAIN minterRegistry' = left
  BY <1>3 DEF Minted
<1>5. IsFiniteSet(left) /\ Cardinality(left) = Cardinality(Minted) - 1
      /\ Cardinality(left) \in Nat /\ Cardinality(Minted) \in Nat
  BY <1>1, <1>2, FS_RemoveElement, FS_CardinalityType
<1>6. /\ nftCounter' = mints' - burns' /\ Cardinality(left) <= nftCounter'
      /\ {nftCounter', mints', burns'} \subseteq Nat
  BY <1>1, <1>2, <1>5
<1>7. /\ nftOwners' \in [left -> Collectors] /\ minterRegistry' \in [left -> Collectors]
      /\ nftMetadata' \in [left -> MetaData]
  BY <1>2, <1>3
<1>8. \A i \in left :
         /\ nftMetadata'[i].owner = nftOwners'[i]
         /\ nftMetadata'[i].minter = minterRegistry'[i]
         /\ nftMetadata'[i].version <= metadataVersion'
  BY <1>1, <1>2, <1>3
<1>9. NftTypeOK'
  BY <1>1, <1>2, <1>4, <1>5, <1>6, <1>7 DEF NftTypeOK, MetaData
<1>10. NftSound'
  BY <1>4, <1>6, <1>8 DEF NftSound
<1> QED
  BY <1>9, <1>10 DEF NftInv

LEMMA TransferKeeps ==
    ASSUME NftInv, NEW id \in Ids, NEW to \in Collectors, Transfer(id, to)
    PROVE  NftInv'
<1> DEFINE MetaData == [owner : Collectors, minter : Collectors, version : Nat]
           data == [nftMetadata[id] EXCEPT !.owner = to]
<1>1. /\ id \in Minted
      /\ nftOwners' = [nftOwners EXCEPT ![id] = to]
      /\ nftMetadata' = [nftMetadata EXCEPT ![id] = data]
      /\ minterRegistry' = minterRegistry /\ nftCounter' = nftCounter
      /\ mints' = mints /\ burns' = burns /\ metadataVersion' = metadataVersion
  BY DEF Transfer
<1>2. /\ IsFiniteSet(Minted)
      /\ nftOwners \in [Minted -> Collectors] /\ minterRegistry \in [Minted -> Collectors]
      /\ nftMetadata \in [Minted -> MetaData]
      /\ {metadataVersion, nftCounter, mints, burns} \subseteq Nat
      /\ nftCounter = mints - burns /\ Cardinality(Minted) <= nftCounter
      /\ \A i \in Minted :
           /\ nftMetadata[i].owner = nftOwners[i]
           /\ nftMetadata[i].minter = minterRegistry[i]
           /\ nftMetadata[i].version <= metadataVersion
  BY DEF NftInv, NftTypeOK, NftSound
<1>3. /\ data \in MetaData /\ data.owner = to
      /\ data.minter = nftMetadata[id].minter /\ data.version = nftMetadata[id].version
  BY <1>1, <1>2
<1> HIDE DEF MetaData, data
<1>4. /\ nftOwners' \in [Minted -> Collectors] /\ nftMetadata' \in [Minted -> MetaData]
      /\ nftOwners'[id] = to /\ nftMetadata'[id] = data
      /\ \A i \in Minted \ {id} :
           nftOwners'[i] = nftOwners[i] /\ nftMetadata'[i] = nftMetadata[i]
  BY <1>1, <1>2, <1>3
<1>5. Minted' = Minted /\ DOMAIN nftMetadata' = Minted /\ DOMAIN minterRegistry' = Minted
  BY <1>1, <1>2, <1>4 DEF Minted
<1>6. \A i \in Minted :
         /\ nftMetadata'[i].owner = nftOwners'[i]
         /\ nftMetadata'[i].minter = minterRegistry'[i]
         /\ nftMetadata'[i].version <= metadataVersion'
  BY <1>1, <1>2, <1>3, <1>4
<1>7. NftTypeOK'
  BY <1>1, <1>2, <1>4, <1>5 DEF NftTypeOK, MetaData
<1>8. NftSound'
  BY <1>1, <1>2, <1>5, <1>6 DEF NftSound
<1> QED
  BY <1>7, <1>8 DEF NftInv

LEMMA DescribeKeeps ==
    ASSUME NftInv, NEW id \in Ids, NEW caller \in Collectors, UpdateMetadata(caller, id)
    PROVE  NftInv'
<1> DEFINE MetaData == [owner : Collectors, minter : Collectors, version : Nat]
           data == [nftMetadata[id] EXCEPT !.version = metadataVersion']
<1>1. /\ id \in DOMAIN nftMetadata
      /\ metadataVersion' = metadataVersion + 1
      /\ nftMetadata' = [nftMetadata EXCEPT ![id] = data]
      /\ nftOwners' = nftOwners
      /\ minterRegistry' = minterRegistry /\ nftCounter' = nftCounter
      /\ mints' = mints /\ burns' = burns
  BY DEF UpdateMetadata
<1>2. /\ IsFiniteSet(Minted)
      /\ nftOwners \in [Minted -> Collectors] /\ minterRegistry \in [Minted -> Collectors]
      /\ nftMetadata \in [Minted -> MetaData]
      /\ {metadataVersion, nftCounter, mints, burns} \subseteq Nat
      /\ nftCounter = mints - burns /\ Cardinality(Minted) <= nftCounter
      /\ \A i \in Minted :
           /\ nftMetadata[i].owner = nftOwners[i]
           /\ nftMetadata[i].minter = minterRegistry[i]
           /\ nftMetadata[i].version <= metadataVersion
  BY DEF NftInv, NftTypeOK, NftSound
<1>3. id \in Minted /\ metadataVersion' \in Nat
  BY <1>1, <1>2
<1>4. /\ data \in MetaData /\ data.owner = nftMetadata[id].owner
      /\ data.minter = nftMetadata[id].minter /\ data.version = metadataVersion'
  BY <1>2, <1>3
<1> HIDE DEF MetaData, data
<1>5. /\ nftMetadata' \in [Minted -> MetaData] /\ nftMetadata'[id] = data
      /\ \A i \in Minted \ {id} : nftMetadata'[i] = nftMetadata[i]
  BY <1>1, <1>2, <1>3, <1>4
<1>6. Minted' = Minted /\ DOMAIN nftMetadata' = Minted /\ DOMAIN minterRegistry' = Minted
  BY <1>1, <1>2, <1>5 DEF Minted
<1>7. \A i \in Minted :
         /\ nftMetadata'[i].owner = nftOwners'[i]
         /\ nftMetadata'[i].minter = minterRegistry'[i]
         /\ nftMetadata'[i].version <= metadataVersion'
  <2> SUFFICES ASSUME NEW i \in Minted
               PROVE  /\ nftMetadata'[i].owner = nftOwners'[i]
                      /\ nftMetadata'[i].minter = minterRegistry'[i]
                      /\ nftMetadata'[i].version <= metadataVersion'
    OBVIOUS
  <2>1. CASE i = id
    BY <1>1, <1>2, <1>3, <1>4, <1>5, <2>1
  <2>2. CASE i # id
    <3>1. nftMetadata[i].version \in Nat
      BY <1>2 DEF MetaData
    <3> QED
      BY <1>1, <1>2, <1>5, <2>2, <3>1
  <2> QED
    BY <2>1, <2>2
<1>8. NftTypeOK'
  BY <1>1, <1>2, <1>3, <1>5, <1>6 DEF NftTypeOK, MetaData
<1>9. NftSound'
  BY <1>1, <1>2, <1>6, <1>7 DEF NftSound
<1> QED
  BY <1>8, <1>9 DEF NftInv

LEMMA NftInductive == NftInv /\ [NftNext]_nftVars => NftInv'
<1> SUFFICES ASSUME NftInv, [NftNext]_nftVars  PROVE NftInv'
  OBVIOUS
<1>1. CASE PauseNfts \/ UNCHANGED nftVars
  <2>1. /\ nftOwners' = nftOwners /\ nftMetadata' = nftMetadata
        /\ minterRegistry' = minterRegistry /\ metadataVersion' = metadataVersion
        /\ mints' = mints /\ burns' = burns /\ nftCounter' = nftCounter
    BY <1>1 DEF PauseNfts, nftVars
  <2> QED
    BY <2>1 DEF NftInv, NftTypeOK, NftSound, Minted
<1> QED
  BY <1>1, MintKeeps, BurnKeeps, TransferKeeps, DescribeKeeps DEF NftNext

(***************************************************************************)
(* Referrals: the credit of a referrer, drawn or not, is what the players  *)
(* bound to him yielded.                                                   *)
(***************************************************************************)
BoundTo(by) == {r \in Referees : referrer[r] = by}

Yielded(by) == SumFunctionOnSet(commissions, BoundTo(by))

Drawn(by) == SumFunctionOnSet(paidOut[by], Coins)

ReferralTypeOK ==
    /\ referrer \in [Referees -> Referees \cup {NoReferrer}]
    /\ earnings \in [Referees -> Int]
    /\ paidOut \in [Referees -> [Coins -> Int]]
    /\ commissions \in [Referees -> Int]

ReferralInv == ReferralTypeOK /\ ReferralsSound

LEMMA ReferralSums ==
    ASSUME ReferralTypeOK, NEW by \in Referees
    PROVE  /\ IsFiniteSet(BoundTo(by))
           /\ Yielded(by) \in Int /\ Drawn(by) \in Int /\ earnings[by] \in Int
<1>1. IsFiniteSet(BoundTo(by))
  BY ReferralAssumption, FS_Subset DEF BoundTo
<1>2. \A r \in BoundTo(by) : commissions[r] \in Int
  BY DEF ReferralTypeOK, BoundTo
<1>3. \A c \in Coins : paidOut[by][c] \in Int
  BY DEF ReferralTypeOK
<1>4. IsFiniteSet(Coins)
  BY ReferralAssumption
<1>5. earnings[by] \in Int
  BY DEF ReferralTypeOK
<1> QED
  BY <1>1, <1>2, <1>3, <1>4, <1>5, SumIsInt DEF Yielded, Drawn

LEMMA ReferralStarts == ReferralInit => ReferralInv
<1> SUFFICES ASSUME ReferralInit  PROVE ReferralInv
  OBVIOUS
<1>1. ReferralTypeOK
  BY DEF ReferralInit, ReferralTypeOK
<1>2. ASSUME NEW by \in Referees
      PROVE  earnings[by] + Drawn(by) = Yielded(by)
  <2>1. earnings[by] = 0
    BY DEF ReferralInit
  <2>2. Drawn(by) = 0
    <3>1. \A c \in Coins : paidOut[by][c] = 0
      BY DEF ReferralInit
    <3> QED
      BY <3>1, ReferralAssumption, SumOfZeros DEF Drawn
  <2>3. Yielded(by) = 0
    <3>1. IsFiniteSet(BoundTo(by))
      BY <1>1, ReferralSums
    <3>2. \A r \in BoundTo(by) : commissions[r] = 0
      BY DEF ReferralInit, BoundTo
    <3> QED
      BY <3>1, <3>2, SumOfZeros DEF Yielded
  <2> QED
    BY <2>1, <2>2, <2>3
<1>3. \A r \in Referees : referrer[r] = NoReferrer /\ referrer[r] # r /\ commissions[r] = 0
  BY ReferralAssumption DEF ReferralInit
<1> QED
  BY <1>1, <1>2, <1>3 DEF ReferralInv, ReferralsSound, Yielded, Drawn, BoundTo

LEMMA ReferralBooks ==
    ASSUME ReferralInv
    PROVE  /\ ReferralTypeOK
           /\ \A by \in Referees : earnings[by] + Drawn(by) = Yielded(by)
           /\ \A r \in Referees :
                referrer[r] # r /\ (referrer[r] = NoReferrer => commissions[r] = 0)
  BY DEF ReferralInv, ReferralsSound, Drawn, Yielded, BoundTo

LEMMA RegisterReferralKeeps ==
    ASSUME ReferralInv, NEW r \in Referees, NEW to \in Referees, RegisterReferral(r, to)
    PROVE  ReferralInv'
<1>1. /\ to # r /\ referrer[r] = NoReferrer
      /\ referrer' = [referrer EXCEPT ![r] = to]
      /\ earnings' = earnings /\ paidOut' = paidOut /\ commissions' = commissions
  BY DEF RegisterReferral, MayRegister
<1>2. ReferralTypeOK'
  BY <1>1 DEF ReferralInv, ReferralTypeOK
<1>3. commissions[r] = 0
  BY <1>1, ReferralBooks
<1>4. referrer \in [Referees -> Referees \cup {NoReferrer}]
  BY DEF ReferralInv, ReferralTypeOK
<1>5. ASSUME NEW by \in Referees
      PROVE  Yielded(by)' = Yielded(by)
  <2>1. CASE by = to
    <3>1. BoundTo(by)' = BoundTo(by) \cup {r} /\ r \notin BoundTo(by)
      BY SMTT(30), <1>1, <1>4, <2>1, ReferralAssumption DEF BoundTo
    <3> DEFINE old == BoundTo(by)
    <3>2. IsFiniteSet(old) /\ \A y \in old : commissions[y] \in Int
      BY ReferralSums DEF ReferralInv, ReferralTypeOK, BoundTo
    <3>3. SumFunctionOnSet(commissions, old) \in Int
      BY <3>2, SumIsInt
    <3> HIDE DEF old
    <3>4. SumFunctionOnSet(commissions, old \cup {r})
            = SumFunctionOnSet(commissions, old) + commissions[r]
      BY <1>3, <3>1, <3>2, SumAdds DEF old
    <3>5. SumFunctionOnSet(commissions, old \cup {r}) = SumFunctionOnSet(commissions, old)
      BY <1>3, <3>3, <3>4
    <3> QED
      BY <1>1, <3>1, <3>5 DEF Yielded, old
  <2>2. CASE by # to
    <3>1. BoundTo(by)' = BoundTo(by)
      BY <1>1, <1>4, <2>2, ReferralAssumption DEF BoundTo
    <3> QED
      BY <1>1, <3>1 DEF Yielded
  <2> QED
    BY <2>1, <2>2
<1>6. \A by \in Referees : earnings'[by] + Drawn(by)' = Yielded(by)'
  BY <1>1, <1>5, ReferralBooks DEF Drawn
<1>7. \A x \in Referees :
        referrer'[x] # x /\ (referrer'[x] = NoReferrer => commissions'[x] = 0)
  BY <1>1, <1>4, ReferralBooks
<1> QED
  BY <1>2, <1>6, <1>7 DEF ReferralInv, ReferralsSound, Drawn, Yielded, BoundTo

LEMMA SettleRelayedKeeps ==
    ASSUME ReferralInv, NEW r \in Referees, NEW amount \in WagerSizes, SettleWager(r, amount)
    PROVE  ReferralInv'
<1> DEFINE to == referrer[r]
           cut == Cut(amount)
<1>1. /\ to # NoReferrer
      /\ earnings' = [earnings EXCEPT ![to] = @ + cut]
      /\ commissions' = [commissions EXCEPT ![r] = @ + cut]
      /\ referrer' = referrer /\ paidOut' = paidOut
  BY DEF SettleWager
<1>2. cut \in Int
  BY ReferralAssumption DEF Cut
<1> HIDE DEF cut
<1>3. ReferralTypeOK /\ to \in Referees
  BY <1>1 DEF ReferralInv, ReferralTypeOK
<1>4. ReferralTypeOK'
  BY <1>1, <1>2, <1>3 DEF ReferralTypeOK
<1>5. ASSUME NEW by \in Referees
      PROVE  Yielded(by)' = Yielded(by) + (IF by = to THEN cut ELSE 0)
  <2> DEFINE S == BoundTo(by)
  <2>1. /\ BoundTo(by)' = S /\ IsFiniteSet(S) /\ Yielded(by) \in Int
        /\ S \subseteq Referees /\ (r \in S <=> by = to)
    BY <1>1, <1>3, ReferralSums DEF BoundTo
  <2> SUFFICES ASSUME NEW f, f = commissions, NEW g, g = commissions'
               PROVE  SumFunctionOnSet(g, S)
                        = SumFunctionOnSet(f, S) + (IF by = to THEN cut ELSE 0)
    BY <2>1 DEF Yielded
  <2>2. /\ \A y \in S : f[y] \in Int /\ g[y] \in Int
        /\ \A y \in S \ {r} : g[y] = f[y]
        /\ g[r] = f[r] + cut /\ f[r] \in Int
    BY <1>1, <1>2, <1>3, <2>1 DEF ReferralTypeOK
  <2> HIDE DEF S
  <2>3. CASE by = to
    <3>1. SumFunctionOnSet(g, S) = SumFunctionOnSet(f, S) + (g[r] - f[r])
          /\ SumFunctionOnSet(f, S) \in Int
      BY <2>1, <2>2, <2>3, SumChanges
    <3> QED
      BY <1>2, <2>2, <2>3, <3>1
  <2>4. CASE by # to
    <3>1. \A y \in S : f[y] = g[y]
      BY <2>1, <2>2, <2>4
    <3>2. SumFunctionOnSet(f, S) = SumFunctionOnSet(g, S) /\ SumFunctionOnSet(f, S) \in Int
      BY <2>1, <2>2, <3>1, SumOfEquals, SumIsInt
    <3> QED
      BY <2>4, <3>2
  <2> QED
    BY <2>3, <2>4
<1>6. \A by \in Referees : earnings'[by] + Drawn(by)' = Yielded(by)'
  <2> TAKE by \in Referees
  <2>1. /\ earnings'[by] = earnings[by] + (IF by = to THEN cut ELSE 0)
        /\ Drawn(by)' = Drawn(by)
    BY <1>1, <1>2, <1>3 DEF Drawn, ReferralTypeOK
  <2>2. /\ earnings[by] \in Int /\ Drawn(by) \in Int /\ Yielded(by) \in Int
        /\ earnings[by] + Drawn(by) = Yielded(by)
    BY <1>3, ReferralSums, ReferralBooks
  <2> QED
    BY <1>2, <1>5, <2>1, <2>2
<1>7. \A x \in Referees :
        referrer'[x] # x /\ (referrer'[x] = NoReferrer => commissions'[x] = 0)
  BY <1>1, <1>3, ReferralBooks DEF ReferralTypeOK
<1> QED
  BY <1>4, <1>6, <1>7 DEF ReferralInv, ReferralsSound, Drawn, Yielded, BoundTo

LEMMA WithdrawKeeps ==
    ASSUME ReferralInv, NEW who \in Referees, NEW coin \in Coins, WithdrawEarnings(who, coin)
    PROVE  ReferralInv'
<1>1. /\ earnings' = [earnings EXCEPT ![who] = 0]
      /\ paidOut' = [paidOut EXCEPT ![who][coin] = @ + earnings[who]]
      /\ referrer' = referrer /\ commissions' = commissions
  BY DEF WithdrawEarnings, LeftAfterWithdrawal
<1>2. ReferralTypeOK
  BY DEF ReferralInv
<1>3. ReferralTypeOK'
  BY <1>1, <1>2 DEF ReferralTypeOK
<1>4. \A by \in Referees : Yielded(by)' = Yielded(by)
  BY <1>1 DEF Yielded, BoundTo
<1>5. ASSUME NEW by \in Referees
      PROVE  earnings'[by] + Drawn(by)' = earnings[by] + Drawn(by)
  <2>1. CASE by # who
    <3>1. earnings'[by] = earnings[by] /\ paidOut'[by] = paidOut[by]
      BY <1>1, <1>2, <2>1 DEF ReferralTypeOK
    <3> QED
      BY <3>1 DEF Drawn
  <2>2. CASE by = who
    <3> SUFFICES ASSUME NEW f, f = paidOut[who], NEW g, g = paidOut'[who]
                 PROVE  earnings'[who] + SumFunctionOnSet(g, Coins)
                          = earnings[who] + SumFunctionOnSet(f, Coins)
      BY <2>2 DEF Drawn
    <3>1. /\ \A c \in Coins : f[c] \in Int /\ g[c] \in Int
          /\ \A c \in Coins \ {coin} : g[c] = f[c]
          /\ g[coin] = f[coin] + earnings[who] /\ f[coin] \in Int
          /\ earnings'[who] = 0 /\ earnings[who] \in Int
      BY <1>1, <1>2 DEF ReferralTypeOK
    <3>2. IsFiniteSet(Coins)
      BY ReferralAssumption
    <3>3. /\ SumFunctionOnSet(g, Coins) = SumFunctionOnSet(f, Coins) + (g[coin] - f[coin])
          /\ SumFunctionOnSet(f, Coins) \in Int
      BY <3>1, <3>2, SumChanges
    <3> QED
      BY <3>1, <3>3
  <2> QED
    BY <2>1, <2>2
<1>6. \A by \in Referees : earnings'[by] + Drawn(by)' = Yielded(by)'
  BY <1>4, <1>5, ReferralBooks
<1>7. \A x \in Referees :
        referrer'[x] # x /\ (referrer'[x] = NoReferrer => commissions'[x] = 0)
  BY <1>1, ReferralBooks
<1> QED
  BY <1>3, <1>6, <1>7 DEF ReferralInv, ReferralsSound, Drawn, Yielded, BoundTo

LEMMA ReferralInductive == ReferralInv /\ [ReferralNext]_referralVars => ReferralInv'
<1> SUFFICES ASSUME ReferralInv, [ReferralNext]_referralVars  PROVE ReferralInv'
  OBVIOUS
<1>1. CASE (\E c \in Coins : FundSplitter(c)) \/ UNCHANGED referralVars
  <2>1. /\ referrer' = referrer /\ earnings' = earnings /\ paidOut' = paidOut
        /\ commissions' = commissions
    BY <1>1 DEF FundSplitter, referralVars
  <2> QED
    BY <2>1 DEF ReferralInv, ReferralTypeOK, ReferralsSound
<1> QED
  BY <1>1, RegisterReferralKeeps, SettleRelayedKeeps, WithdrawKeeps DEF ReferralNext

(***************************************************************************)
(* The registry: who entered paid once.  Titles: as many grants as it      *)
(* takes.                                                                  *)
(***************************************************************************)
Contests == [capacity : Capacities, fee : EntryFees, participants : Nat]

RegistryTypeOK ==
    /\ registryAdmin \in Persons
    /\ contest \in Contests \cup {Nothing}
    /\ registered \in SUBSET Persons
    /\ purse \in [Persons -> Int]
    /\ collected \in [Persons -> Int]

\* What a participant pays.
Price(fee) == IF fee > 0 THEN fee ELSE 0

\* The books of the registry, before and after its tournament is created.
FeesBooked ==
    /\ contest = Nothing =>
        /\ registered = {}
        /\ \A p \in Persons : collected[p] = 0 /\ purse[p] = Purse
    /\ contest # Nothing =>
        /\ contest.participants = Cardinality(registered)
        /\ contest.participants <= contest.capacity
        /\ SumFunctionOnSet(collected, Persons) = Price(contest.fee) * contest.participants
        /\ \A p \in Persons :
            purse[p] = Purse + collected[p]
                         - (IF p \in registered THEN Price(contest.fee) ELSE 0)

TitleTypeOK ==
    /\ badge \in [Persons -> [title : Titles, active : BOOLEAN] \cup {Nothing}]
    /\ titled \in [Persons -> [granted : Nat, revoked : Nat]]

TitlesGranted ==
    \A p \in Persons :
        /\ titled[p].revoked <= titled[p].granted
        /\ HoldsTitle(p) => titled[p].revoked < titled[p].granted

RegistryInv == RegistryTypeOK /\ FeesBooked /\ TitleTypeOK /\ TitlesGranted

LEMMA RegistryStarts == RegistryInit => RegistryInv
<1> SUFFICES ASSUME RegistryInit  PROVE RegistryInv
  OBVIOUS
<1>1. RegistryTypeOK
  BY RegistryAssumption DEF RegistryInit, RegistryTypeOK
<1>2. FeesBooked
  BY DEF RegistryInit, FeesBooked
<1>3. TitleTypeOK
  BY DEF RegistryInit, TitleTypeOK
<1>4. TitlesGranted
  BY DEF RegistryInit, TitlesGranted, HoldsTitle
<1> QED
  BY <1>1, <1>2, <1>3, <1>4 DEF RegistryInv

LEMMA CreateTournamentKeeps ==
    ASSUME RegistryTypeOK, FeesBooked, NEW capacity \in Capacities, NEW fee \in EntryFees,
           CreateTournament(capacity, fee)
    PROVE  RegistryTypeOK' /\ FeesBooked'
<1> DEFINE new == [capacity |-> capacity, fee |-> fee, participants |-> 0]
<1>1. /\ contest = Nothing /\ contest' = new
      /\ registryAdmin' = registryAdmin /\ registered' = registered
      /\ purse' = purse /\ collected' = collected
  BY DEF CreateTournament
<1>2. /\ new \in Contests
      /\ new.capacity = capacity /\ new.fee = fee /\ new.participants = 0
  BY DEF Contests
<1>3. new # Nothing
  BY <1>2, RegistryAssumption DEF Contests
<1> HIDE DEF new
<1>4. RegistryTypeOK'
  BY <1>1, <1>2 DEF RegistryTypeOK
<1>5. registered = {} /\ \A p \in Persons : collected[p] = 0 /\ purse[p] = Purse
  BY <1>1 DEF FeesBooked
<1>6. SumFunctionOnSet(collected, Persons) = 0
  BY <1>5, RegistryAssumption, SumOfZeros
<1>7. Cardinality(registered) = 0
  BY <1>5, FS_EmptySet
<1>8. capacity \in Nat /\ fee \in Int /\ Price(fee) \in Int
  BY RegistryAssumption DEF Price
<1>9. Price(fee) * 0 = 0
  BY <1>8
<1>10. FeesBooked'
  BY <1>1, <1>2, <1>3, <1>5, <1>6, <1>7, <1>8, <1>9, RegistryAssumption DEF FeesBooked
<1> QED
  BY <1>4, <1>10

LEMMA EnterKeeps ==
    ASSUME RegistryTypeOK, FeesBooked, NEW p \in Persons, RegisterTournament(p)
    PROVE  RegistryTypeOK' /\ FeesBooked'
<1> DEFINE fee == contest.fee
           price == Price(fee)
           n == contest.participants
           all == registered \cup {p}
           new == [contest EXCEPT !.participants = n + 1]
<1>1. /\ contest # Nothing /\ n < contest.capacity /\ p \notin registered
      /\ Charged(p)
      /\ contest' = new /\ registered' = all /\ registryAdmin' = registryAdmin
  BY DEF RegisterTournament, MayEnter
<1>2. /\ contest \in Contests /\ registered \in SUBSET Persons
      /\ purse \in [Persons -> Int] /\ collected \in [Persons -> Int]
      /\ registryAdmin \in Persons
  BY <1>1 DEF RegistryTypeOK
<1>3. n \in Nat /\ contest.capacity \in Nat /\ fee \in Int
  BY <1>2, RegistryAssumption DEF Contests
<1>4. /\ n = Cardinality(registered)
      /\ SumFunctionOnSet(collected, Persons) = price * n
      /\ \A q \in Persons :
           purse[q] = Purse + collected[q] - (IF q \in registered THEN price ELSE 0)
  BY <1>1 DEF FeesBooked
<1>5. /\ new \in Contests /\ new.participants = n + 1 /\ new.fee = fee
      /\ new.capacity = contest.capacity
  <2>1. n + 1 \in Nat
    BY <1>3
  <2> HIDE DEF n
  <2> QED
    BY <1>2, <2>1 DEF Contests
<1>6. new # Nothing
  BY <1>5, RegistryAssumption DEF Contests
<1>7. price \in Int
  BY <1>3 DEF Price
<1>8. /\ purse' \in [Persons -> Int] /\ collected' \in [Persons -> Int]
      /\ collected'[registryAdmin] = collected[registryAdmin] + price
      /\ \A q \in Persons \ {registryAdmin} : collected'[q] = collected[q]
      /\ \A q \in Persons : purse'[q] = purse[q] - (IF q = p THEN price ELSE 0)
                                          + (IF q = registryAdmin THEN price ELSE 0)
  <2>1. CASE fee > 0
    <3>1. /\ purse' = [q \in Persons |-> purse[q] - (IF q = p THEN fee ELSE 0)
                                                 + (IF q = registryAdmin THEN fee ELSE 0)]
          /\ collected' = [collected EXCEPT ![registryAdmin] = @ + fee]
          /\ price = fee
      BY <1>1, <2>1 DEF Charged, Price
    <3> HIDE DEF fee, price
    <3> QED
      BY <1>2, <1>3, <3>1
  <2>2. CASE ~(fee > 0)
    <3>1. purse' = purse /\ collected' = collected /\ price = 0
      BY <1>1, <2>2 DEF Charged, Price
    <3> HIDE DEF fee, price
    <3> QED
      BY <1>2, <3>1
  <2> QED
    BY <2>1, <2>2
<1> HIDE DEF new, all, n, price, fee
<1>9. RegistryTypeOK'
  BY <1>1, <1>2, <1>5, <1>8 DEF RegistryTypeOK, all
<1>10. Cardinality(all) = n + 1
  <2>1. IsFiniteSet(registered)
    BY <1>2, RegistryAssumption, FS_Subset
  <2> QED
    BY <1>1, <1>4, <2>1, FS_AddElement DEF all
<1>11. SumFunctionOnSet(collected', Persons) = price * (n + 1)
  <2> SUFFICES ASSUME NEW f, f = collected, NEW g, g = collected'
               PROVE  SumFunctionOnSet(g, Persons) = price * (n + 1)
    OBVIOUS
  <2>1. /\ \A q \in Persons : f[q] \in Int /\ g[q] \in Int
        /\ \A q \in Persons \ {registryAdmin} : g[q] = f[q]
        /\ g[registryAdmin] = f[registryAdmin] + price /\ f[registryAdmin] \in Int
    BY <1>2, <1>8
  <2>2. IsFiniteSet(Persons)
    BY RegistryAssumption
  <2>3. /\ SumFunctionOnSet(g, Persons)
             = SumFunctionOnSet(f, Persons) + (g[registryAdmin] - f[registryAdmin])
        /\ SumFunctionOnSet(f, Persons) \in Int
    BY <1>2, <2>1, <2>2, SumChanges
  <2>4. SumFunctionOnSet(g, Persons) = price * n + price
    BY <1>4, <1>7, <2>1, <2>3
  <2>5. price * n + price = price * (n + 1)
    BY <1>3, <1>7
  <2> QED
    BY <2>4, <2>5
<1>12. \A q \in Persons :
         purse'[q] = Purse + collected'[q] - (IF q \in all THEN price ELSE 0)
  <2> TAKE q \in Persons
  <2>1. /\ purse[q] \in Int /\ collected[q] \in Int /\ Purse \in Int
        /\ purse[q] = Purse + collected[q] - (IF q \in registered THEN price ELSE 0)
        /\ collected'[q] = collected[q] + (IF q = registryAdmin THEN price ELSE 0)
        /\ purse'[q] = purse[q] - (IF q = p THEN price ELSE 0)
                                + (IF q = registryAdmin THEN price ELSE 0)
    BY <1>2, <1>4, <1>7, <1>8, RegistryAssumption
  <2>2. q \in all <=> (q \in registered \/ q = p)
    BY DEF all
  <2> QED
    BY <1>1, <1>7, <2>1, <2>2
<1>13. FeesBooked'
  <2>1. Price(contest'.fee) = price /\ contest'.participants = n + 1
        /\ contest'.capacity = contest.capacity /\ contest' # Nothing
    BY <1>1, <1>5, <1>6 DEF price
  <2>2. n + 1 <= contest.capacity
    BY <1>1, <1>3
  <2> QED
    BY <1>1, <1>10, <1>11, <1>12, <2>1, <2>2 DEF FeesBooked
<1> QED
  BY <1>9, <1>13

LEMMA FeesInductive ==
    ASSUME RegistryTypeOK, FeesBooked, RegistryNext \/ UNCHANGED registryVars
    PROVE  RegistryTypeOK' /\ FeesBooked'
<1>1. CASE \/ PauseRegistry \/ UNCHANGED registryVars
           \/ \E p \in Persons : SetRegistryAdmin(p)
           \/ \E p \in Persons, g \in GameIds : RecordGame(g, p)
  <2>1. /\ contest' = contest /\ registered' = registered
        /\ purse' = purse /\ collected' = collected /\ registryAdmin' \in Persons
    BY <1>1 DEF PauseRegistry, registryVars, SetRegistryAdmin, RecordGame, RegistryTypeOK
  <2> QED
    BY <2>1 DEF RegistryTypeOK, FeesBooked
<1> QED
  BY <1>1, CreateTournamentKeeps, EnterKeeps DEF RegistryNext

LEMMA TitlesInductive ==
    ASSUME TitleTypeOK, TitlesGranted, BadgeNext \/ UNCHANGED badgeVars
    PROVE  TitleTypeOK' /\ TitlesGranted'
<1>1. ASSUME NEW p \in Persons, NEW t \in Titles, Grant(p, t)
      PROVE  TitleTypeOK' /\ TitlesGranted'
  <2> DEFINE count == [titled[p] EXCEPT !.granted = @ + 1]
  <2>1. /\ badge' = [badge EXCEPT ![p] = [title |-> t, active |-> TRUE]]
        /\ titled' = [titled EXCEPT ![p] = count]
    BY <1>1 DEF Grant
  <2>2. /\ count \in [granted : Nat, revoked : Nat]
        /\ count.granted = titled[p].granted + 1 /\ count.revoked = titled[p].revoked
    BY DEF TitleTypeOK
  <2> HIDE DEF count
  <2>3. TitleTypeOK'
    BY <2>1, <2>2 DEF TitleTypeOK
  <2>4. TitlesGranted'
    <3> SUFFICES ASSUME NEW q \in Persons
                 PROVE  /\ titled'[q].revoked <= titled'[q].granted
                        /\ HoldsTitle(q)' => titled'[q].revoked < titled'[q].granted
      BY DEF TitlesGranted
    <3>1. CASE q = p
      <4>1. /\ titled[p].revoked <= titled[p].granted
            /\ titled[p].revoked \in Nat /\ titled[p].granted \in Nat
        BY DEF TitlesGranted, TitleTypeOK
      <4>2. titled'[q] = count
        BY <2>1, <3>1 DEF TitleTypeOK
      <4> QED
        BY <2>2, <4>1, <4>2
    <3>2. CASE q # p
      <4>1. titled'[q] = titled[q] /\ badge'[q] = badge[q]
        BY <2>1, <3>2 DEF TitleTypeOK
      <4> QED
        BY <4>1 DEF TitlesGranted, HoldsTitle
    <3> QED
      BY <3>1, <3>2
  <2> QED
    BY <2>3, <2>4
<1>2. ASSUME NEW p \in Persons, Revoke(p)
      PROVE  TitleTypeOK' /\ TitlesGranted'
  <2> DEFINE count == [titled[p] EXCEPT !.revoked = @ + 1]
             old == [badge[p] EXCEPT !.active = FALSE]
  <2>1. /\ badge' = [badge EXCEPT ![p] = old]
        /\ titled' = [titled EXCEPT ![p] = count]
        /\ HoldsTitle(p)
    BY <1>2 DEF Revoke
  <2>2. /\ count \in [granted : Nat, revoked : Nat]
        /\ count.granted = titled[p].granted /\ count.revoked = titled[p].revoked + 1
    BY DEF TitleTypeOK
  <2>3. old \in [title : Titles, active : BOOLEAN] /\ old.active = FALSE
    BY <2>1 DEF TitleTypeOK, HoldsTitle
  <2> HIDE DEF count, old
  <2>4. TitleTypeOK'
    BY <2>1, <2>2, <2>3 DEF TitleTypeOK
  <2>5. TitlesGranted'
    <3> SUFFICES ASSUME NEW q \in Persons
                 PROVE  /\ titled'[q].revoked <= titled'[q].granted
                        /\ HoldsTitle(q)' => titled'[q].revoked < titled'[q].granted
      BY DEF TitlesGranted
    <3>1. CASE q = p
      <4>1. /\ titled[p].revoked < titled[p].granted
            /\ titled[p].revoked \in Nat /\ titled[p].granted \in Nat
        BY <2>1 DEF TitlesGranted, TitleTypeOK
      <4>2. titled'[q] = count /\ badge'[q] = old
        BY <2>1, <3>1 DEF TitleTypeOK
      <4>3. ~HoldsTitle(q)'
        BY <2>3, <4>2 DEF HoldsTitle
      <4> QED
        BY <2>2, <4>1, <4>2, <4>3
    <3>2. CASE q # p
      <4>1. titled'[q] = titled[q] /\ badge'[q] = badge[q]
        BY <2>1, <3>2 DEF TitleTypeOK
      <4> QED
        BY <4>1 DEF TitlesGranted, HoldsTitle
    <3> QED
      BY <3>1, <3>2
  <2> QED
    BY <2>4, <2>5
<1>3. CASE UNCHANGED badgeVars
  BY <1>3 DEF badgeVars, TitleTypeOK, TitlesGranted, HoldsTitle
<1> QED
  BY <1>1, <1>2, <1>3 DEF BadgeNext

LEMMA RegistryInductive == RegistryInv /\ [RegistersNext]_registerVars => RegistryInv'
<1> SUFFICES ASSUME RegistryInv, [RegistersNext]_registerVars  PROVE RegistryInv'
  OBVIOUS
<1>1. RegistryNext \/ UNCHANGED registryVars
  BY DEF RegistersNext, registerVars
<1>2. BadgeNext \/ UNCHANGED badgeVars
  BY DEF RegistersNext, registerVars
<1> QED
  BY <1>1, <1>2, FeesInductive, TitlesInductive DEF RegistryInv

LEMMA RegistryInvSuffices == RegistryInv => RegistrySound
<1> SUFFICES ASSUME RegistryInv  PROVE RegistrySound
  OBVIOUS
<1>1. \A p \in Persons :
        /\ titled[p].revoked <= titled[p].granted
        /\ HoldsTitle(p) => titled[p].revoked < titled[p].granted
  BY DEF RegistryInv, TitlesGranted
<1>2. ASSUME contest # Nothing
      PROVE  /\ contest.participants = Cardinality(registered)
             /\ contest.participants <= contest.capacity
             /\ SumFunctionOnSet(collected, Persons)
                  = (IF contest.fee > 0 THEN contest.fee * contest.participants ELSE 0)
             /\ \A p \in Persons :
                 purse[p] = Purse + collected[p]
                   - (IF p \in registered /\ contest.fee > 0 THEN contest.fee ELSE 0)
  <2>1. contest \in Contests
    BY <1>2 DEF RegistryInv, RegistryTypeOK
  <2>2. contest.participants \in Nat /\ contest.fee \in Int
    BY <2>1, RegistryAssumption DEF Contests
  <2>3. /\ contest.participants = Cardinality(registered)
        /\ contest.participants <= contest.capacity
        /\ SumFunctionOnSet(collected, Persons) = Price(contest.fee) * contest.participants
        /\ \A p \in Persons :
            purse[p] = Purse + collected[p]
                         - (IF p \in registered THEN Price(contest.fee) ELSE 0)
    BY <1>2 DEF RegistryInv, FeesBooked
  <2>4. CASE contest.fee > 0
    BY <2>3, <2>4 DEF Price
  <2>5. CASE ~(contest.fee > 0)
    <3>1. Price(contest.fee) = 0 /\ 0 * contest.participants = 0
      BY <2>2, <2>5 DEF Price
    <3> QED
      BY <2>3, <2>5, <3>1
  <2> QED
    BY <2>4, <2>5
<1> QED
  BY <1>1, <1>2 DEF RegistrySound

\* RegistersSound: NFTs keep one owner and minter each and the supply counts them;
\* referrers are credited exactly what their players yielded; participants pay the
\* entry fee once and no title is held that was not granted.
THEOREM RegistersKeepBooks ==
    NftSpec /\ ReferralSpec /\ RegistersSpec => []RegistersSound
<1>1. NftSpec => []NftInv
  BY NftStarts, NftInductive, PTL DEF NftSpec
<1>2. ReferralSpec => []ReferralInv
  BY ReferralStarts, ReferralInductive, PTL DEF ReferralSpec
<1>3. RegistersSpec => []RegistryInv
  BY RegistryStarts, RegistryInductive, PTL DEF RegistersSpec
<1>4. NftInv /\ ReferralInv /\ RegistryInv => RegistersSound
  BY RegistryInvSuffices DEF NftInv, ReferralInv, RegistersSound
<1> QED
  BY <1>1, <1>2, <1>3, <1>4, PTL
==============================================================================
