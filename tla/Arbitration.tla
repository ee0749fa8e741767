----------------------------- MODULE Arbitration -----------------------------
(***************************************************************************)
(* What the arbiter escrow promises two players who stake on a match: the  *)
(* stakes are locked, and come out once.  As long as nobody disputes, they *)
(* come out by agreement; after a dispute only two arbiters who agree can  *)
(* give them away, and if no two do until the dispute is overdue, they go  *)
(* back.                                                                   *)
(***************************************************************************)
EXTENDS Integers, FiniteSets

CONSTANTS Matches, Accounts, VoteChoices

VARIABLES
    phase,     \* [Matches -> {"Open", "Appointed", "Locked", "Frozen", "Overdue", "Closed"}]
    panel,     \* [Matches -> SUBSET Accounts]
    ballots,   \* [Matches -> [Accounts -> VoteChoices \cup {"None"}]]
    verdict    \* [Matches -> VoteChoices \cup {"Undecided"}]

Init ==
    /\ phase = [m \in Matches |-> "Open"]
    /\ panel = [m \in Matches |-> {}]
    /\ ballots = [m \in Matches |-> [r \in Accounts |-> "None"]]
    /\ verdict = [m \in Matches |-> "Undecided"]

Majority(m, c) ==
    \E r, s \in panel[m] : r # s /\ ballots[m][r] = c /\ ballots[m][s] = c

Appoint(m, arbiters) ==
    /\ phase[m] = "Open"
    /\ Cardinality(arbiters) = 3
    /\ phase' = [phase EXCEPT ![m] = "Appointed"]
    /\ panel' = [panel EXCEPT ![m] = arbiters]
    /\ UNCHANGED <<ballots, verdict>>

Lock(m) ==
    /\ phase[m] = "Appointed"
    /\ phase' = [phase EXCEPT ![m] = "Locked"]
    /\ UNCHANGED <<panel, ballots, verdict>>

Freeze(m) ==
    /\ phase[m] = "Locked"
    /\ phase' = [phase EXCEPT ![m] = "Frozen"]
    /\ UNCHANGED <<panel, ballots, verdict>>

Cast(m, r, c) ==
    /\ phase[m] = "Frozen"
    /\ r \in panel[m] /\ ballots[m][r] = "None"
    /\ ballots' = [ballots EXCEPT ![m][r] = c]
    /\ UNCHANGED <<phase, panel, verdict>>

Close(m, c) ==
    /\ phase' = [phase EXCEPT ![m] = "Closed"]
    /\ verdict' = [verdict EXCEPT ![m] = c]
    /\ UNCHANGED <<panel, ballots>>

Agree(m, c) == phase[m] = "Locked" /\ Close(m, c)

Rule(m, c) ==
    /\ phase[m] \in {"Frozen", "Overdue"}
    /\ Majority(m, c)
    /\ Close(m, c)

Lapse(m) ==
    /\ phase[m] = "Overdue"
    /\ ~ \E c \in VoteChoices : Majority(m, c)
    /\ Close(m, "Refund")

\* Time passes: some disputes are overdue.
Expire ==
    \E S \in SUBSET {m \in Matches : phase[m] = "Frozen"} :
        /\ phase' = [m \in Matches |-> IF m \in S THEN "Overdue" ELSE phase[m]]
        /\ UNCHANGED <<panel, ballots, verdict>>

MatchNext(m) ==
    \/ \E arbiters \in SUBSET Accounts : Appoint(m, arbiters)
    \/ Lock(m)
    \/ Freeze(m)
    \/ \E r \in Accounts, c \in VoteChoices : Cast(m, r, c)
    \/ \E c \in VoteChoices : Agree(m, c)
    \/ \E c \in VoteChoices : Rule(m, c)
    \/ Lapse(m)

Next == Expire \/ \E m \in Matches : MatchNext(m)

Spec == Init /\ [][Next]_<<phase, panel, ballots, verdict>>
=============================================================================
