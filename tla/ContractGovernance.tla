-------------------------- MODULE ContractGovernance --------------------------
(***************************************************************************)
(* What the game contract does beside games                                *)
(* (src/contracts/game_contract/src/lib.rs): rotation of the backend's     *)
(* signing key, fee changes by several signatures, puzzle rewards and      *)
(* SEP-10 challenges.  Keys are the backend's; a signature made with one   *)
(* key verifies with that key only.  Fees share no state with the rest.    *)
(* An error undoes the whole call and is not a step; so does a pause,      *)
(* which is left out.                                                      *)
(***************************************************************************)
EXTENDS Integers, FiniteSets, Sequences, Functions

CONSTANTS
    AdminKeys, NoAdminKey,
    RotationDelay,  \* ADMIN_TIMELOCK_DURATION
    LastSeq,        \* bound: ledgers
    Signers,        \* addresses that may be configured as signers
    MaxListed,      \* bound: length of a list of signers
    NoSigner,
    FeeBips,        \* fee rates up to the 1000 that are allowed
    Claims,         \* signed rewards: recipient, amount, nonce and key
    Challenges      \* nonces of challenges

Recipients == {c.recipient : c \in Claims}

ASSUME GovernanceAssumption ==
    /\ IsFiniteSet(Signers) /\ IsFiniteSet(Claims) /\ IsFiniteSet(Challenges)
    /\ NoAdminKey \notin AdminKeys
    /\ {RotationDelay, LastSeq, MaxListed} \subseteq Nat
    /\ NoSigner \notin Signers
    /\ FeeBips \subseteq 0..1000
    /\ \A c \in Claims : c.amount \in Nat \ {0} /\ c.key \in AdminKeys

VARIABLES
    seq,            \* the ledger sequence
    adminKey,
    pendingKey,     \* PENDING_ADMIN_KEY, PENDING_ADMIN_TIMESTAMP, ADMIN_TIMELOCK
    rotation,       \* history: ledgers between proposal and acceptance of a key
    signers, threshold,
    feeProposal,    \* PENDING_FEE_PROPOSAL
    approvals,      \* FEE_PROPOSAL_APPROVALS
    feeBips,
    consent,        \* history: who proposed or approved the pending change as a signer
    weak,           \* history: a change that fewer of these than the threshold wanted
    treasury, rewards, usedNonces,
    claimed,        \* history: the claims that were paid
    challenge,      \* SEP10_CHALLENGES: expiry of an open challenge, or 0
    verified,       \* SEP10_VERIFIED, counted
    issues          \* history: challenges issued

keyVars == <<adminKey, pendingKey, rotation>>
feeVars == <<signers, threshold, feeProposal, approvals, feeBips, consent, weak>>
puzzleVars == <<treasury, rewards, usedNonces, claimed>>
sep10Vars == <<challenge, verified, issues>>
governanceVars == <<seq, keyVars, feeVars, puzzleVars, sep10Vars>>

NoKeyProposal == [key |-> NoAdminKey, at |-> 0, lock |-> 0]

NoFeeProposal == [bips |-> 0, proposer |-> NoSigner]

\* The treasury that initialize_puzzle_rewards is given.
StartTreasury == 3

GovernanceInit ==
    /\ seq \in 1..LastSeq
    /\ adminKey \in AdminKeys
    /\ pendingKey = NoKeyProposal
    /\ rotation = RotationDelay
    /\ signers = {} /\ threshold = 0
    /\ feeProposal = NoFeeProposal /\ approvals = {}
    /\ feeBips \in FeeBips
    /\ consent = {}
    /\ weak = FALSE
    /\ treasury = StartTreasury
    /\ rewards = [r \in Recipients |-> 0]
    /\ usedNonces = {}
    /\ claimed = {}
    /\ challenge = [c \in Challenges |-> 0]
    /\ verified = 0
    /\ issues = 0

(***************************************************************************)
(* The signing key                                                         *)
(***************************************************************************)
ProposeNewAdminKey(k) ==
    /\ pendingKey.key = NoAdminKey
    /\ pendingKey' = [key |-> k, at |-> seq, lock |-> seq + RotationDelay]
    /\ UNCHANGED <<seq, adminKey, rotation, feeVars, puzzleVars, sep10Vars>>

BadUnlocked == seq >= pendingKey.lock - RotationDelay

\* The lock is the ledger of the proposal plus the delay, and the acceptance adds the
\* ledger of the proposal once more.
Unlocked == seq >= pendingKey.at + pendingKey.lock

AcceptNewAdminKey ==
    /\ pendingKey.key # NoAdminKey
    /\ Unlocked
    /\ adminKey' = pendingKey.key
    /\ pendingKey' = NoKeyProposal
    /\ rotation' = seq - pendingKey.at
    /\ UNCHANGED <<seq, feeVars, puzzleVars, sep10Vars>>

LedgerCloses ==
    /\ seq < LastSeq
    /\ seq' = seq + 1
    /\ UNCHANGED <<keyVars, feeVars, puzzleVars, sep10Vars>>

(***************************************************************************)
(* Fees                                                                    *)
(***************************************************************************)
\* The threshold is compared with the length of the list, which may name a signer twice.
\* Neither the proposal nor its approvals are touched.
ConfigureMultisig(list, n) ==
    /\ n \in 1..Len(list)
    /\ signers' = Range(list)
    /\ threshold' = n
    /\ UNCHANGED <<seq, keyVars, feeProposal, approvals, feeBips, consent, weak, puzzleVars,
                   sep10Vars>>

\* The proposer approves at once, but only an approval executes the change.
ProposeFeeChange(s, bips) ==
    /\ s \in signers
    /\ feeProposal' = [bips |-> bips, proposer |-> s]
    /\ approvals' = {s}
    /\ consent' = {s}
    /\ UNCHANGED <<seq, keyVars, signers, threshold, feeBips, weak, puzzleVars, sep10Vars>>

BadEnough(A) == Cardinality(A) + 1 >= threshold

Enough(A) == Cardinality(A) >= threshold

\* Approvals of signers who were replaced since count on.
ApproveFeeProposal(s) ==
    /\ s \in signers \ approvals
    /\ feeProposal # NoFeeProposal
    /\ \/ /\ Enough(approvals \cup {s})
          /\ feeBips' = feeProposal.bips
          /\ weak' = (weak \/ Cardinality(consent \cup {s}) < threshold)
          /\ feeProposal' = NoFeeProposal
          /\ approvals' = {} /\ consent' = {}
       \/ /\ ~Enough(approvals \cup {s})
          /\ approvals' = approvals \cup {s} /\ consent' = consent \cup {s}
          /\ UNCHANGED <<feeProposal, feeBips, weak>>
    /\ UNCHANGED <<seq, keyVars, signers, threshold, puzzleVars, sep10Vars>>

CancelFeeProposal(s) ==
    /\ s \in signers
    /\ feeProposal # NoFeeProposal
    /\ feeProposal' = NoFeeProposal
    /\ approvals' = {} /\ consent' = {}
    /\ UNCHANGED <<seq, keyVars, signers, threshold, feeBips, weak, puzzleVars, sep10Vars>>

\* configure_fees: the administrator alone, whatever the signers have agreed on.
ConfigureFees(bips) ==
    /\ feeBips' = bips
    /\ UNCHANGED <<seq, keyVars, signers, threshold, feeProposal, approvals, consent,
                   weak, puzzleVars, sep10Vars>>

(***************************************************************************)
(* Puzzle rewards and challenges                                           *)
(***************************************************************************)
BadFresh(S) == \A c \in S : c.nonce \notin usedNonces

\* The nonces of a batch are new, among themselves as well.
Fresh(S) ==
    /\ \A c \in S : c.nonce \notin usedNonces
    /\ \A c, d \in S : c # d => c.nonce # d.nonce

AmountOf == [c \in Claims |-> c.amount]

Amount(S) == SumFunctionOnSet(AmountOf, S)

\* claim_puzzle_rewards_batch pays all of its claims or none; claim_puzzle_reward is a
\* batch of one.
ClaimPuzzleRewards(S) ==
    /\ S # {}
    /\ \A c \in S : c.key = adminKey
    /\ Fresh(S)
    /\ Amount(S) <= treasury
    /\ usedNonces' = usedNonces \cup {c.nonce : c \in S}
    /\ treasury' = treasury - Amount(S)
    /\ rewards' = [r \in Recipients |-> rewards[r] + Amount({c \in S : c.recipient = r})]
    /\ claimed' = claimed \cup S
    /\ UNCHANGED <<seq, keyVars, feeVars, sep10Vars>>

IssueSep10Challenge(c, expiry) ==
    /\ challenge[c] = 0
    /\ expiry > seq
    /\ issues < 2 * Cardinality(Challenges)
    /\ challenge' = [challenge EXCEPT ![c] = expiry]
    /\ issues' = issues + 1
    /\ UNCHANGED <<seq, keyVars, feeVars, puzzleVars, verified>>

\* A challenge is consumed by the account it verifies; one that expired stays for good.
VerifySep10Challenge(c) ==
    /\ challenge[c] # 0
    /\ seq <= challenge[c]
    /\ challenge' = [challenge EXCEPT ![c] = 0]
    /\ verified' = verified + 1
    /\ UNCHANGED <<seq, keyVars, feeVars, puzzleVars, issues>>

SignerLists == UNION {[1..k -> Signers] : k \in 1..MaxListed}

FeeNext ==
    \/ \E list \in SignerLists, n \in 1..MaxListed : ConfigureMultisig(list, n)
    \/ \E s \in Signers :
        \/ \E bips \in FeeBips : ProposeFeeChange(s, bips)
        \/ ApproveFeeProposal(s) \/ CancelFeeProposal(s)
    \/ \E bips \in FeeBips : ConfigureFees(bips)

BackendNext ==
    \/ \E k \in AdminKeys : ProposeNewAdminKey(k)
    \/ AcceptNewAdminKey \/ LedgerCloses
    \/ \E S \in SUBSET Claims : ClaimPuzzleRewards(S)
    \/ \E c \in Challenges :
        \/ \E expiry \in 1..LastSeq : IssueSep10Challenge(c, expiry)
        \/ VerifySep10Challenge(c)

GovernanceNext == FeeNext \/ BackendNext

GovernanceSpec == GovernanceInit /\ [][GovernanceNext]_governanceVars

(***************************************************************************)
(* Properties                                                              *)
(***************************************************************************)
\* Every variable keeps its type.
GovernanceTypeOK ==
    /\ seq \in Nat
    /\ adminKey \in AdminKeys
    /\ pendingKey \in [key : AdminKeys \cup {NoAdminKey}, at : Nat, lock : Nat]
    /\ rotation \in Int
    /\ signers \subseteq Signers
    /\ threshold \in Nat
    /\ feeProposal \in [bips : FeeBips \cup {0}, proposer : Signers \cup {NoSigner}]
    /\ approvals \subseteq Signers
    /\ feeBips \in FeeBips
    /\ consent \subseteq Signers /\ weak \in BOOLEAN
    /\ treasury \in Nat
    /\ rewards \in [Recipients -> Nat]
    /\ claimed \subseteq Claims
    /\ usedNonces = {c.nonce : c \in claimed}
    /\ challenge \in [Challenges -> Nat]
    /\ {verified, issues} \subseteq Nat

\* A key comes into force a whole delay after it was proposed, never earlier; the code makes
\* it wait longer.
KeysWait == rotation >= RotationDelay

\* No change by vote is made unless as many as the threshold says, at the time of the last
\* approval, proposed or approved this very change, each of them a signer when he did: an
\* approval of an earlier proposal never counts, whoever replaced or cancelled it, and nobody
\* counts twice.  They need not be signers any more.
FeesApproved == ~weak

\* Every nonce is paid once: what the treasury has lost is what the recipients have
\* been credited, claim by claim, in single calls and batches, across key rotations.
RewardsPaidOnce ==
    /\ treasury + Amount(claimed) = StartTreasury
    /\ \A r \in Recipients : rewards[r] = Amount({c \in claimed : c.recipient = r})
    /\ \A c, d \in claimed : c.nonce = d.nonce => c = d

\* A challenge verifies once; what was issued is verified or still open.
ChallengesConsumed ==
    issues = verified + Cardinality({c \in Challenges : challenge[c] # 0})

GovernanceSound ==
    /\ GovernanceTypeOK
    /\ KeysWait /\ FeesApproved
    /\ RewardsPaidOnce
    /\ ChallengesConsumed
=============================================================================
