---------------------------- MODULE ArbiterEscrow ----------------------------
(***************************************************************************)
(* The multi-signature arbiter escrow for high-stakes matches              *)
(* (src/contracts/arbiter_escrow/src/lib.rs).  Each call is a transaction: *)
(* it happens as a whole or, on a panic, not at all.  The model has one    *)
(* token; initialize has been called.                                      *)
(***************************************************************************)
EXTENDS Integers, FiniteSets, Functions

CONSTANTS
    Accounts,       \* players, arbiters, the admin
    NoOne,
    StartTokens,    \* [Accounts -> Nat]
    Matches,        \* match ids
    Pairs,          \* pairs of players that create_escrow is called with
    Panels,         \* panels that create_escrow is called with: sets of accounts
    Stakes,         \* stakes that create_escrow is called with
    Admins,         \* accounts that hold the admin role at some time
    Window,         \* ARBITRATION_WINDOW_SECS
    Timelock,       \* FALLBACK_TIMEOUT_SECS
    MaxTime         \* bound of the model: the last timestamp

ASSUME ArbiterAssumption ==
    /\ IsFiniteSet(Accounts) /\ NoOne \notin Accounts
    /\ IsFiniteSet(Matches)
    /\ StartTokens \in [Accounts -> Nat]
    /\ Pairs \subseteq Accounts \X Accounts
    /\ Panels \subseteq SUBSET Accounts
    /\ Stakes \subseteq Int
    /\ Admins \subseteq Accounts /\ Admins # {}
    /\ Window \in Nat \ {0} /\ Timelock \in Nat /\ Timelock >= Window
    /\ MaxTime \in Nat

QUORUM == 2
ARBITER_COUNT == 3

VoteChoices  == {"PlayerA", "PlayerB", "Refund"}
Statuses == {"None", "AwaitingFunding", "Funded", "Disputed", "Resolved"}

\* MatchEscrow; panel is {arbiter_1, arbiter_2, arbiter_3}.
Escrow == [status : Statuses, playerA : Accounts \cup {NoOne}, playerB : Accounts \cup {NoOne},
           stake : Int, pot : Int, fundedA : BOOLEAN, fundedB : BOOLEAN,
           panel : SUBSET Accounts, arbitrationDeadline : Nat, fallbackDeadline : Nat,
           votesFor : [VoteChoices -> 0 .. ARBITER_COUNT],
           outcome : VoteChoices \cup {"Undecided"}]

NoEscrow == [status |-> "None", playerA |-> NoOne, playerB |-> NoOne, stake |-> 0, pot |-> 0,
             fundedA |-> FALSE, fundedB |-> FALSE, panel |-> {}, arbitrationDeadline |-> 0,
             fallbackDeadline |-> 0, votesFor |-> [c \in VoteChoices |-> 0],
             outcome |-> "Undecided"]

VARIABLES
    escrows,   \* DataKey::Escrow
    votes,     \* DataKey::ArbiterVote
    admin,     \* DataKey::Admin
    tokens,    \* token balances of the accounts
    vault,     \* token balance of the contract
    now        \* env.ledger().timestamp()

vars == <<escrows, votes, admin, tokens, vault, now>>

-----------------------------------------------------------------------------
Credit(f, a, n) == [f EXCEPT ![a] = @ + n]

BadQuorumChoice(e) ==
    IF e.votesFor["PlayerA"] >= QUORUM THEN "PlayerA"
    ELSE IF e.votesFor["PlayerB"] >= QUORUM THEN "PlayerB"
    ELSE IF e.votesFor["Refund"] >= QUORUM - 1 THEN "Refund"
    ELSE "Undecided"

\* quorum_choice
QuorumChoice(e) ==
    IF e.votesFor["PlayerA"] >= QUORUM THEN "PlayerA"
    ELSE IF e.votesFor["PlayerB"] >= QUORUM THEN "PlayerB"
    ELSE IF e.votesFor["Refund"] >= QUORUM THEN "Refund"
    ELSE "Undecided"

BadRelease(e, c) ==
    /\ vault' = vault - e.stake
    /\ tokens' = Credit(tokens, IF c = "PlayerB" THEN e.playerB ELSE e.playerA, e.stake)

\* release
Release(e, c) ==
    LET amount == IF c = "Refund" THEN 2 * e.stake ELSE e.pot
    IN  /\ amount <= vault
        /\ vault' = vault - amount
        /\ tokens' = CASE c = "PlayerA" -> Credit(tokens, e.playerA, e.pot)
                       [] c = "PlayerB" -> Credit(tokens, e.playerB, e.pot)
                       [] c = "Refund"  -> Credit(Credit(tokens, e.playerA, e.stake),
                                                  e.playerB, e.stake)

\* The end of every settlement.
Settle(m, c) ==
    /\ Release(escrows[m], c)
    /\ escrows' = [escrows EXCEPT ![m] = [@ EXCEPT !.status = "Resolved", !.outcome = c]]

-----------------------------------------------------------------------------
Init ==
    /\ escrows = [m \in Matches |-> NoEscrow]
    /\ votes = [m \in Matches |-> [r \in Accounts |-> "None"]]
    /\ admin \in Admins
    /\ tokens = StartTokens
    /\ vault = 0
    /\ now = 0

TransferAdmin(new) ==
    /\ admin' = new
    /\ UNCHANGED <<escrows, votes, tokens, vault, now>>

PanelFits(panel, a, b) ==
    /\ Cardinality(panel) = ARBITER_COUNT
    /\ a \notin panel
    /\ b \notin panel

\* Called by the admin.
CreateEscrow(m, a, b, stake, panel) ==
    /\ escrows[m].status = "None"
    /\ stake > 0
    /\ a # b
    /\ PanelFits(panel, a, b)
    /\ escrows' = [escrows EXCEPT ![m] = [NoEscrow EXCEPT !.status = "AwaitingFunding",
                     !.playerA = a, !.playerB = b, !.stake = stake, !.panel = panel]]
    /\ UNCHANGED <<votes, admin, tokens, vault, now>>

\* What fund_escrow changes in the record when side A (or B) has paid.
BadFunded(e, isA) ==
    [e EXCEPT !.pot = @ + e.stake, !.fundedA = @ \/ isA, !.fundedB = @ \/ ~isA,
              !.status = "Funded"]

Funded(e, isA) ==
    [e EXCEPT !.pot = @ + e.stake, !.fundedA = @ \/ isA, !.fundedB = @ \/ ~isA,
              !.status = IF (e.fundedA \/ isA) /\ (e.fundedB \/ ~isA) THEN "Funded" ELSE @]

CanFund(m, isA) ==
    /\ escrows[m].status = "AwaitingFunding"
    /\ IF isA THEN ~escrows[m].fundedA ELSE ~escrows[m].fundedB

FundEscrow(m, isA) ==
    LET e == escrows[m]
        p == IF isA THEN e.playerA ELSE e.playerB
    IN  /\ CanFund(m, isA)
        /\ e.stake <= tokens[p]
        /\ tokens' = Credit(tokens, p, -e.stake)
        /\ vault' = vault + e.stake
        /\ escrows' = [escrows EXCEPT ![m] = Funded(e, isA)]
        /\ UNCHANGED <<votes, admin, now>>

\* settle_match and settle_refund, called by the admin.
Undisputed(m) == escrows[m].status = "Funded"

SettleMatch(m, c) ==
    /\ Undisputed(m)
    /\ c \in {"PlayerA", "PlayerB"}
    /\ Settle(m, c)
    /\ UNCHANGED <<votes, admin, now>>

SettleRefund(m) ==
    /\ Undisputed(m)
    /\ Settle(m, "Refund")
    /\ UNCHANGED <<votes, admin, now>>

DisputeMatch(m, caller) ==
    /\ escrows[m].status = "Funded"
    /\ caller \in {escrows[m].playerA, escrows[m].playerB, admin}
    /\ now + Timelock <= MaxTime  \* bound: the timelock ends within the model's time
    /\ escrows' = [escrows EXCEPT ![m] = [@ EXCEPT !.status = "Disputed",
                     !.arbitrationDeadline = now + Window, !.fallbackDeadline = now + Timelock]]
    /\ UNCHANGED <<votes, admin, tokens, vault, now>>

BadMayVote(m, r) ==
    /\ escrows[m].status = "Disputed"
    /\ r \in escrows[m].panel
    /\ now < escrows[m].arbitrationDeadline

BadMayVoteLate(m, r) ==
    /\ escrows[m].status = "Disputed"
    /\ r \in escrows[m].panel
    /\ votes[m][r] = "None"

MayVote(m, r) ==
    /\ escrows[m].status = "Disputed"
    /\ r \in escrows[m].panel
    /\ now < escrows[m].arbitrationDeadline
    /\ votes[m][r] = "None"

Vote(m, r, c) ==
    /\ MayVote(m, r)
    /\ votes' = [votes EXCEPT ![m][r] = c]
    /\ escrows' = [escrows EXCEPT ![m].votesFor[c] = @ + 1]
    /\ UNCHANGED <<admin, tokens, vault, now>>

\* Called by the admin, a player or an arbiter.
ResolveDispute(m, c) ==
    /\ escrows[m].status = "Disputed"
    /\ QuorumChoice(escrows[m]) = c
    /\ Settle(m, c)
    /\ UNCHANGED <<votes, admin, now>>

BadMayFallBack(m) ==
    /\ escrows[m].status = "Disputed"
    /\ now >= escrows[m].fallbackDeadline

\* Off by one panel: only a dispute on which somebody voted can fall back.
BadMayFallBackVoted(m) ==
    /\ escrows[m].status = "Disputed"
    /\ now >= escrows[m].fallbackDeadline
    /\ QuorumChoice(escrows[m]) = "Undecided"
    /\ \E c \in VoteChoices : escrows[m].votesFor[c] > 0

MayFallBack(m) ==
    /\ escrows[m].status = "Disputed"
    /\ now >= escrows[m].fallbackDeadline
    /\ QuorumChoice(escrows[m]) = "Undecided"

\* Called by anyone.
ExecuteFallback(m) ==
    /\ MayFallBack(m)
    /\ Settle(m, "Refund")
    /\ UNCHANGED <<votes, admin, now>>

Tick ==
    /\ now < MaxTime
    /\ now' = now + 1
    /\ UNCHANGED <<escrows, votes, admin, tokens, vault>>

MatchStep(m) ==
    \/ \E pair \in Pairs, s \in Stakes, p \in Panels : CreateEscrow(m, pair[1], pair[2], s, p)
    \/ \E isA \in BOOLEAN : FundEscrow(m, isA)
    \/ \E c \in VoteChoices : SettleMatch(m, c)
    \/ SettleRefund(m)
    \/ \E p \in Accounts : DisputeMatch(m, p)
    \/ \E r \in Accounts, c \in VoteChoices : Vote(m, r, c)
    \/ \E c \in VoteChoices : ResolveDispute(m, c)
    \/ ExecuteFallback(m)

Next ==
    \/ \E m \in Matches : MatchStep(m)
    \/ \E a \in Admins : TransferAdmin(a)
    \/ Tick

Spec == Init /\ [][Next]_vars

\* A Stellar ledger closes again and again, and somebody with money in a frozen
\* escrow makes the call that frees it as soon as the contract accepts it.
Fairness ==
    /\ WF_vars(Tick)
    /\ \A m \in Matches : WF_vars(\E c \in VoteChoices : ResolveDispute(m, c))
    /\ \A m \in Matches : WF_vars(ExecuteFallback(m))

LiveSpec == Spec /\ Fairness

-----------------------------------------------------------------------------
\* Every variable keeps its type; no tally outgrows the panel.
TypeOK ==
    /\ escrows \in [Matches -> Escrow]
    /\ votes \in [Matches -> [Accounts -> VoteChoices \cup {"None"}]]
    /\ admin \in Accounts
    /\ tokens \in [Accounts -> Int]
    /\ vault \in Int
    /\ now \in Nat

EscrowFunded(e) ==
    /\ e.status # "None" => /\ {e.playerA, e.playerB} \subseteq Accounts
                            /\ Cardinality(e.panel) = 3
                            /\ {e.playerA, e.playerB} \cap e.panel = {}
    /\ e.status \in {"Funded", "Disputed", "Resolved"} <=> e.fundedA /\ e.fundedB
    /\ e.pot = (IF e.fundedA THEN e.stake ELSE 0) + (IF e.fundedB THEN e.stake ELSE 0)

\* Every escrow has three arbiters none of whom plays, and its pot is what the
\* sides that have funded put in: both, once it can be settled or disputed.
FundedByBoth == \A m \in Matches : EscrowFunded(escrows[m])

Supporters(e, v, c) == {r \in e.panel : v[r] = c}

Counted(e, v) ==
    /\ \A r \in Accounts \ e.panel : v[r] = "None"
    /\ \A c \in VoteChoices : e.votesFor[c] = Cardinality(Supporters(e, v, c))

\* The running tallies agree with the recorded ballots, and only arbiters of
\* the match have cast one: a tally is never bumped twice for one arbiter.
VotesCounted == \A m \in Matches : Counted(escrows[m], votes[m])

Agreed(e, v, c) == \E r, s \in e.panel : r # s /\ v[r] = c /\ v[s] = c

Justified(e, v, time) ==
    /\ e.status = "Resolved" <=> e.outcome # "Undecided"
    /\ e.status = "Resolved" /\ e.fallbackDeadline > 0 =>
          \/ Agreed(e, v, e.outcome)
          \/ /\ e.outcome = "Refund" /\ time >= e.fallbackDeadline
             /\ ~ \E c \in VoteChoices : Agreed(e, v, c)

\* A disputed match is closed by the ballots alone: with the choice of two
\* arbiters, or, if the timelock has run out and no two agree, with a refund.
OutcomeJustified == \A m \in Matches : Justified(escrows[m], votes[m], now)

Owed(e) == IF e.status = "Resolved" THEN 0 ELSE e.pot

\* The contract holds exactly the pots of the matches that are not closed, and
\* the accounts the rest: no match is ever paid from the pot of another,
\* nothing is paid twice, and no token is lost or made.
Solvent ==
    /\ vault = SumFunction([m \in Matches |-> Owed(escrows[m])])
    /\ SumFunction(tokens) + vault = SumFunction(StartTokens)

BallotKept(m, r) ==
    votes'[m][r] # votes[m][r] =>
        /\ votes[m][r] = "None"
        /\ escrows[m].status = "Disputed" /\ now < escrows[m].arbitrationDeadline

\* Ballots are sealed: none is changed or taken back, and none is added before
\* a dispute, after the arbitration window or after the match was closed.
BallotsSealed == [][\A m \in Matches, r \in Accounts : BallotKept(m, r)]_vars

\* A frozen match is freed in the end: between the vote and the timelock there
\* is no state in which neither resolve_dispute nor execute_fallback will do.
DisputeEnds ==
    \A m \in Matches : escrows[m].status = "Disputed" ~> escrows[m].status = "Resolved"

\* The escrow implements the promise of Arbitration.
PhaseOf(e, time) ==
    CASE e.status = "None"            -> "Open"
      [] e.status = "AwaitingFunding" -> "Appointed"
      [] e.status = "Funded"          -> "Locked"
      [] e.status = "Disputed"        -> IF time < e.fallbackDeadline THEN "Frozen" ELSE "Overdue"
      [] e.status = "Resolved"        -> "Closed"

phase == [m \in Matches |-> PhaseOf(escrows[m], now)]

Promise == INSTANCE Arbitration WITH
             panel   <- [m \in Matches |-> escrows[m].panel],
             ballots <- votes,
             verdict <- [m \in Matches |-> escrows[m].outcome]

ImplementsArbitration == Promise!Spec
=============================================================================
