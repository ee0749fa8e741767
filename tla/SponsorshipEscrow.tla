-------------------------- MODULE SponsorshipEscrow --------------------------
(***************************************************************************)
(* Sponsors fund tournaments, an oracle signs off their stages             *)
(* (src/contracts/sponsorship_escrow/src/lib.rs).  All tournaments share   *)
(* the balance the contract holds of a token.  A call that panics changes  *)
(* nothing and is not a step.  Who signs a call is left out: the roles of  *)
(* administrator, organizer and oracle guard calls and hold no tokens.     *)
(***************************************************************************)
EXTENDS Integers, FiniteSets, Functions, Sequences

CONSTANTS
    Cups,           \* tournament ids
    Sponsors,
    Tokens,
    Plans,          \* basis points of the milestones, in order
    Amounts,        \* what a sponsor deposits at once
    MaxDeposit      \* bound: what one sponsor deposits of one token

ASSUME SponsorshipAssumption ==
    /\ IsFiniteSet(Cups) /\ IsFiniteSet(Sponsors)
    /\ Plans \subseteq Seq(Nat)
    /\ Amounts \subseteq Nat \ {0}
    /\ MaxDeposit \in Nat

VARIABLES
    cup,            \* Tournament and its milestones
    deposit,        \* SponsorDeposit
    totalDeposited,
    remaining,      \* RemainingBalance
    disbursed,      \* TotalDisbursed
    chest,          \* the contract's balance of each token
    frozen          \* Paused

cupVars == <<cup, deposit, totalDeposited, remaining, disbursed, chest, frozen>>

CupAccounts == <<deposit, totalDeposited, remaining, disbursed, chest>>

Status == {"none", "accepting_deposits", "active", "completed", "cancelled"}

CupInit ==
    /\ cup = [c \in Cups |-> [status |-> "none", stage |-> 0, plan |-> <<>>,
                              deadline |-> "none"]]
    /\ deposit = [c \in Cups |-> [s \in Sponsors |-> [t \in Tokens |-> 0]]]
    /\ totalDeposited = [c \in Cups |-> [t \in Tokens |-> 0]]
    /\ remaining = [c \in Cups |-> [t \in Tokens |-> 0]]
    /\ disbursed = [c \in Cups |-> [t \in Tokens |-> 0]]
    /\ chest = [t \in Tokens |-> 0]
    /\ frozen = FALSE

TotalBasisPoints(plan) == SumFunctionOnSet(plan, DOMAIN plan)

\* create_tournament: a deadline of 0 means that there is none.
CreateCup(c, plan, deadline) ==
    /\ ~frozen
    /\ cup[c].status = "none"
    /\ plan # <<>>
    /\ \A i \in DOMAIN plan : plan[i] > 0
    /\ TotalBasisPoints(plan) = 10000
    /\ cup' = [cup EXCEPT ![c] = [status |-> "accepting_deposits", stage |-> 0,
                                  plan |-> plan, deadline |-> deadline]]
    /\ UNCHANGED <<CupAccounts, frozen>>

\* Milestones of create_standard_tournament.
StandardPlan == <<2000, 3000, 5000>>

DepositSponsorship(c, s, t, amount) ==
    /\ ~frozen
    /\ cup[c].status = "accepting_deposits"
    /\ deposit[c][s][t] + amount <= MaxDeposit
    /\ chest' = [chest EXCEPT ![t] = @ + amount]
    /\ totalDeposited' = [totalDeposited EXCEPT ![c][t] = @ + amount]
    /\ remaining' = [remaining EXCEPT ![c][t] = @ + amount]
    /\ deposit' = [deposit EXCEPT ![c][s][t] = @ + amount]
    /\ UNCHANGED <<cup, disbursed, frozen>>

LastStage(c) == cup[c].stage + 1 = Len(cup[c].plan)

BadShare(c, t) ==
    (totalDeposited[c][t] * cup[c].plan[cup[c].stage + 1]) \div 10000

\* What a stage pays of one token: the last one everything that is left.
Share(c, t) ==
    IF LastStage(c) THEN remaining[c][t]
    ELSE (totalDeposited[c][t] * cup[c].plan[cup[c].stage + 1]) \div 10000

\* The first sign-off is the kickoff; a token short of its share fails the whole call.
CompleteStage(c) ==
    /\ ~frozen
    /\ cup[c].status \in {"accepting_deposits", "active"}
    /\ \A t \in Tokens : Share(c, t) <= remaining[c][t]
    /\ remaining' = [remaining EXCEPT ![c] = [t \in Tokens |-> @[t] - Share(c, t)]]
    /\ disbursed' = [disbursed EXCEPT ![c] = [t \in Tokens |-> @[t] + Share(c, t)]]
    /\ chest' = [t \in Tokens |-> chest[t] - Share(c, t)]
    /\ cup' = [cup EXCEPT ![c].stage = @ + 1,
                          ![c].status = IF LastStage(c) THEN "completed" ELSE "active"]
    /\ UNCHANGED <<deposit, totalDeposited, frozen>>

BadMayCancel(c) == cup[c].status \in {"accepting_deposits", "active"}

\* Cancellation is possible before kickoff only, also while the contract is paused.
MayCancel(c) == cup[c].status = "accepting_deposits" /\ cup[c].stage = 0

CancelTournament(c) ==
    /\ MayCancel(c)
    /\ cup' = [cup EXCEPT ![c].status = "cancelled"]
    /\ UNCHANGED <<CupAccounts, frozen>>

\* The kickoff deadline of a tournament passes.
DeadlinePasses(c) ==
    /\ cup[c].deadline = "ahead"
    /\ cup' = [cup EXCEPT ![c].deadline = "passed"]
    /\ UNCHANGED <<CupAccounts, frozen>>

CancelIfDeadlinePassed(c) ==
    /\ cup[c].status = "accepting_deposits"
    /\ cup[c].deadline = "passed"
    /\ cup' = [cup EXCEPT ![c].status = "cancelled"]
    /\ UNCHANGED <<CupAccounts, frozen>>

DepositsOf(c, S, t) == SumFunctionOnSet([s \in Sponsors |-> deposit[c][s][t]], S)

BadLess(a, b) == a

\* saturating_sub of an i128, kept above zero by the books alone.
Less(a, b) == a - b

\* What both refunds do for one or all of the sponsors.
Refund(c, S) ==
    /\ deposit' = [deposit EXCEPT ![c] = [s \in Sponsors |->
                      IF s \in S THEN [t \in Tokens |-> 0] ELSE @[s]]]
    /\ remaining' = [remaining EXCEPT ![c] = [t \in Tokens |-> Less(@[t], DepositsOf(c, S, t))]]
    /\ chest' = [t \in Tokens |-> chest[t] - DepositsOf(c, S, t)]
    /\ UNCHANGED <<cup, totalDeposited, disbursed, frozen>>

ClaimRefund(c, s) ==
    /\ cup[c].status = "cancelled"
    /\ \E t \in Tokens : deposit[c][s][t] > 0
    /\ Refund(c, {s})

AdminRefundAllSponsors(c) == cup[c].status = "cancelled" /\ Refund(c, Sponsors)

PauseEscrow == frozen' = ~frozen /\ UNCHANGED <<cup, CupAccounts>>

CupNext ==
    \/ \E c \in Cups :
        \/ \E plan \in Plans \cup {StandardPlan}, d \in {"none", "ahead"} : CreateCup(c, plan, d)
        \/ \E s \in Sponsors :
            \/ \E t \in Tokens, amount \in Amounts : DepositSponsorship(c, s, t, amount)
            \/ ClaimRefund(c, s)
        \/ CompleteStage(c) \/ CancelTournament(c) \/ DeadlinePasses(c)
        \/ CancelIfDeadlinePassed(c) \/ AdminRefundAllSponsors(c)
    \/ PauseEscrow

CupSpec == CupInit /\ [][CupNext]_cupVars

(***************************************************************************)
(* Properties                                                              *)
(***************************************************************************)
\* Every variable keeps its type; no account is ever negative.
CupTypeOK ==
    /\ cup \in [Cups -> [status : Status, stage : Nat, plan : Plans \cup {StandardPlan, <<>>},
                         deadline : {"none", "ahead", "passed"}]]
    /\ deposit \in [Cups -> [Sponsors -> [Tokens -> Nat]]]
    /\ {totalDeposited, remaining, disbursed} \subseteq [Cups -> [Tokens -> Nat]]
    /\ chest \in [Tokens -> Nat]
    /\ frozen \in BOOLEAN

\* What remains of a tournament is what was deposited and not disbursed, or, once it
\* is cancelled, what its sponsors have not claimed yet; a completed one keeps nothing.
CupsBalanced ==
    \A c \in Cups, t \in Tokens :
        /\ cup[c].status = "cancelled" =>
             remaining[c][t] = DepositsOf(c, Sponsors, t) /\ disbursed[c][t] = 0
        /\ cup[c].status # "cancelled" =>
             /\ remaining[c][t] = totalDeposited[c][t] - disbursed[c][t]
             /\ totalDeposited[c][t] = DepositsOf(c, Sponsors, t)
        /\ cup[c].status = "completed" => remaining[c][t] = 0

\* The rounded shares never run a tournament dry before its last stage, so a sign-off
\* is never refused for lack of tokens.
EveryStagePayable ==
    \A c \in Cups : cup[c].status \in {"accepting_deposits", "active"} =>
        \A t \in Tokens : Share(c, t) <= remaining[c][t]

\* The contract holds exactly what remains of all its tournaments: none of them pays
\* its winners or its sponsors from the deposits of another.
ChestBacksAllCups ==
    \A t \in Tokens : chest[t] = SumFunctionOnSet([c \in Cups |-> remaining[c][t]], Cups)

SponsorshipSound ==
    CupTypeOK /\ CupsBalanced /\ EveryStagePayable /\ ChestBacksAllCups
=============================================================================
