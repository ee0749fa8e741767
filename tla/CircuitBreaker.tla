---------------------------- MODULE CircuitBreaker ----------------------------
(***************************************************************************)
(* A pausable token with match escrows, rescue functions that ignore the   *)
(* pause, and an administrator who hands over after a timelock             *)
(* (src/contracts/emergency_circuit_breaker/src/lib.rs).                   *)
(***************************************************************************)
EXTENDS Integers, FiniteSets, Functions

CONSTANTS
    Holders,        \* addresses; some of them administrators
    Escrows,        \* ids of match escrows
    NoHolder,
    Sums,           \* amounts of a call
    Delay,          \* ADMIN_TRANSFER_TIMELOCK_SECS
    MaxIssued,      \* bound: tokens held by all holders, tokens rescued
    EndOfTime       \* bound: the clock

ASSUME BreakerAssumption ==
    /\ IsFiniteSet(Holders) /\ NoHolder \notin Holders
    /\ Sums \subseteq Nat \ {0}
    /\ {Delay, MaxIssued, EndOfTime} \subseteq Nat

VARIABLES
    breakerAdmin, paused, balance, totalSupply, matchEscrow, pendingAdmin, clock,
    rescued,        \* history: what emergency_rescue has credited
    proposal        \* history: by whom and when the last handover was proposed

breakerVars == <<breakerAdmin, paused, balance, totalSupply, matchEscrow, pendingAdmin, clock,
                 rescued, proposal>>

Books == <<balance, totalSupply, matchEscrow, rescued>>

NoHandover == [candidate |-> NoHolder, effectiveAt |-> 0]

BreakerInit ==
    /\ breakerAdmin \in Holders
    /\ paused = FALSE
    /\ balance = [h \in Holders |-> 0]
    /\ totalSupply = 0
    /\ matchEscrow = [e \in Escrows |-> [player |-> NoHolder, amount |-> 0]]
    /\ pendingAdmin = NoHandover
    /\ clock = 0
    /\ rescued = 0
    /\ proposal = [by |-> NoHolder, at |-> 0]

Held == SumFunctionOnSet(balance, Holders)

\* deposit of anybody, mint of the administrator.
Issue(h, amount) ==
    /\ ~paused
    /\ Held + amount <= MaxIssued
    /\ balance' = [balance EXCEPT ![h] = @ + amount]
    /\ totalSupply' = totalSupply + amount
    /\ UNCHANGED <<matchEscrow, rescued, breakerAdmin, paused, pendingAdmin, clock, proposal>>

Claim(h, amount) ==
    /\ ~paused
    /\ balance[h] >= amount
    /\ balance' = [balance EXCEPT ![h] = @ - amount]
    /\ totalSupply' = totalSupply - amount
    /\ UNCHANGED <<matchEscrow, rescued, breakerAdmin, paused, pendingAdmin, clock, proposal>>

DepositMatch(h, e, amount) ==
    /\ ~paused
    /\ matchEscrow[e].player = NoHolder
    /\ balance[h] >= amount
    /\ balance' = [balance EXCEPT ![h] = @ - amount]
    /\ totalSupply' = totalSupply - amount
    /\ matchEscrow' = [matchEscrow EXCEPT ![e] = [player |-> h, amount |-> amount]]
    /\ UNCHANGED <<rescued, breakerAdmin, paused, pendingAdmin, clock, proposal>>

\* Credits a balance and leaves the total supply alone.
EmergencyRescue(h, amount) ==
    /\ Held + amount <= MaxIssued
    /\ rescued + amount <= MaxIssued
    /\ balance' = [balance EXCEPT ![h] = @ + amount]
    /\ rescued' = rescued + amount
    /\ UNCHANGED <<totalSupply, matchEscrow, breakerAdmin, paused, pendingAdmin, clock, proposal>>

BadSupplyAfterRefund(e) == totalSupply

SupplyAfterRefund(e) == totalSupply + matchEscrow[e].amount

AdminRefundMatch(e) ==
    /\ matchEscrow[e].player # NoHolder
    /\ matchEscrow' = [matchEscrow EXCEPT ![e] = [player |-> NoHolder, amount |-> 0]]
    /\ balance' = [balance EXCEPT ![matchEscrow[e].player] = @ + matchEscrow[e].amount]
    /\ totalSupply' = SupplyAfterRefund(e)
    /\ UNCHANGED <<rescued, breakerAdmin, paused, pendingAdmin, clock, proposal>>

PauseBreaker ==
    /\ paused' = ~paused
    /\ UNCHANGED <<Books, breakerAdmin, pendingAdmin, clock, proposal>>

\* A new proposal replaces a pending one and starts the delay again.
TransferBreakerAdmin(h) ==
    /\ pendingAdmin' = [candidate |-> h, effectiveAt |-> clock + Delay]
    /\ proposal' = [by |-> breakerAdmin, at |-> clock]
    /\ UNCHANGED <<Books, breakerAdmin, paused, clock>>

BadAfterHandover == pendingAdmin

\* PendingAdmin is removed when it takes effect.
AfterHandover == NoHandover

AcceptAdminTransfer ==
    /\ pendingAdmin.candidate # NoHolder
    /\ clock >= pendingAdmin.effectiveAt
    /\ breakerAdmin' = pendingAdmin.candidate
    /\ pendingAdmin' = AfterHandover
    /\ UNCHANGED <<Books, paused, clock, proposal>>

CancelAdminTransfer ==
    /\ pendingAdmin.candidate # NoHolder
    /\ pendingAdmin' = NoHandover
    /\ UNCHANGED <<Books, breakerAdmin, paused, clock, proposal>>

TimePasses ==
    /\ clock < EndOfTime
    /\ clock' = clock + 1
    /\ UNCHANGED <<Books, breakerAdmin, paused, pendingAdmin, proposal>>

BreakerNext ==
    \/ \E h \in Holders, amount \in Sums :
        \/ Issue(h, amount) \/ Claim(h, amount) \/ EmergencyRescue(h, amount)
        \/ \E e \in Escrows : DepositMatch(h, e, amount)
    \/ \E e \in Escrows : AdminRefundMatch(e)
    \/ \E h \in Holders : TransferBreakerAdmin(h)
    \/ PauseBreaker \/ AcceptAdminTransfer \/ CancelAdminTransfer \/ TimePasses

BreakerSpec == BreakerInit /\ [][BreakerNext]_breakerVars

(***************************************************************************)
(* Properties                                                              *)
(***************************************************************************)
\* Every variable keeps its type; the supply alone may become negative, when tokens
\* are claimed that were rescued and never added to it.
BreakerTypeOK ==
    /\ breakerAdmin \in Holders
    /\ paused \in BOOLEAN
    /\ balance \in [Holders -> Nat]
    /\ totalSupply \in Int
    /\ matchEscrow \in [Escrows -> [player : Holders \cup {NoHolder}, amount : Nat]]
    /\ pendingAdmin \in [candidate : Holders \cup {NoHolder}, effectiveAt : Nat]
    /\ clock \in Nat
    /\ rescued \in Nat
    /\ proposal \in [by : Holders \cup {NoHolder}, at : Nat]

\* Over deposits, mints, claims, match escrows and their refunds, the total supply is
\* what the holders have; it falls short of that by exactly what was rescued.
SupplyMatchesBalances == totalSupply = Held - rescued

\* A pending handover is one the administrator in power has proposed, and it waits the
\* whole delay from his last proposal on: no proposal outlives the one who made it.
HandoverByAdmin ==
    pendingAdmin.candidate # NoHolder =>
        /\ proposal.by = breakerAdmin
        /\ pendingAdmin.effectiveAt = proposal.at + Delay

BreakerSound == BreakerTypeOK /\ SupplyMatchesBalances /\ HandoverByAdmin
=============================================================================
