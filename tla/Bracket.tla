------------------------------- MODULE Bracket -------------------------------
\* The brackets of the tournament crate (modules/tournament/src/bracket.rs): single
\* and double elimination and round robin, from creation through every recorded
\* result.  A player is his seed: create_bracket sorts the participants by rating
\* before it looks at anything else.  A match is found by its bracket, round and
\* number, and is Completed exactly when it has a winner.  At the end of the module,
\* with variables of its own, is the registration that makes and stores a bracket.
EXTENDS Naturals, FiniteSets, FiniteSetsExt

CONSTANTS
    Fields,     \* the tournaments to be played: <<format, number of participants>>
    Empty       \* a seat nobody has, a match nobody has won

ASSUME FieldsAssumption ==
    /\ Fields \subseteq {"SingleElimination", "DoubleElimination", "RoundRobin"} \X (2..16)
    /\ Empty \notin 1..16

VARIABLES
    bracket,    \* the TournamentBracket
    early       \* ghost: a match was decided before its second player was known

bracketVars == <<bracket, early>>

-----------------------------------------------------------------------------
\* How large the bracket is

DivCeil2(k) == (k + 1) \div 2

TotalRounds(n) == CHOOSE r \in 1..4 : 2^r >= n /\ (r = 1 \/ 2^(r - 1) < n)

BracketSize(n) == 2^TotalRounds(n)

Byes(n) == BracketSize(n) - n

FirstRound(n) == BracketSize(n) \div 2

\* How many matches each losers round gets.
LosersMatches(n) ==
    LET pairs == (FirstRound(n) - Byes(n)) \div 2
        Dropped(r) == IF r % 2 = 0 THEN FirstRound(n) \div 2^(r \div 2) ELSE 0
        count[r \in 1..8] ==
            IF r = 1 THEN pairs ELSE Max({(Dropped(r) + count[r - 1]) \div 2, 1})
    IN [r \in 1..Max({2, 2 * TotalRounds(n) - 2}) |-> count[r]]

Match(p1, p2, w) == [p1 |-> p1, p2 |-> p2, winner |-> w]
NoPlayers == Match(Empty, Empty, Empty)

\* The first seed meets the last; where the last is missing, the first has a bye.
Opening(n, i) ==
    IF i <= Byes(n) THEN Match(i, Empty, i) ELSE Match(i, BracketSize(n) + 1 - i, Empty)

\* How many matches a round of the winners' bracket has.
Width(n, r) == BracketSize(n) \div 2^r

WinnersPlaces(n) ==
    UNION {{"Winners"} \X {r} \X (1..Width(n, r)) : r \in 1..TotalRounds(n)}

\* The winners' bracket, with the byes already seated in its second round.
WinnersBracket(n) ==
    LET Passed(i) == IF i <= Byes(n) THEN i ELSE Empty
    IN [id \in WinnersPlaces(n) |->
           CASE id[2] = 1 -> Opening(n, id[3])
             [] id[2] = 2 -> Match(Passed(2 * id[3] - 1), Passed(2 * id[3]), Empty)
             [] OTHER     -> NoPlayers]

GrandFinal(n, number) == <<"GrandFinals", TotalRounds(n) + 1, number>>

LosersAndFinal(n) ==
    LET rounds == LosersMatches(n)
    IN UNION {{"Losers"} \X {r} \X (1..rounds[r]) : r \in DOMAIN rounds} \cup {GrandFinal(n, 1)}

Merged(f, ids, v) == [id \in DOMAIN f \cup ids |-> IF id \in ids THEN v ELSE f[id]]

\* Every two participants meet once.
RoundRobin(n) ==
    LET pairs == {p \in (1..n) \X (1..n) : p[1] < p[2]}
    IN [id \in {"Winners"} \X {1} \X pairs |-> Match(id[3][1], id[3][2], Empty)]

GenerateMatches(format, n) ==
    CASE format = "SingleElimination" -> WinnersBracket(n)
      [] format = "DoubleElimination" -> Merged(WinnersBracket(n), LosersAndFinal(n), NoPlayers)
      [] format = "RoundRobin" -> RoundRobin(n)

CreateBracket(format, n) ==
    [format |-> format, players |-> n, status |-> "Registration",
     matches |-> GenerateMatches(format, n), winner |-> Empty, reset |-> FALSE]

-----------------------------------------------------------------------------
\* Advancing the players of a decided match

\* The losers match that takes a player: the preferred one, else the first of the
\* round, if it has a free seat.
LosersSeats(ms, round, number) ==
    {id \in {<<"Losers", round, number>>} \cap DOMAIN ms :
        ms[id].p1 = Empty \/ ms[id].p2 = Empty}

TakenUpBy(ms, round, preferred) ==
    IF LosersSeats(ms, round, preferred) # {}
    THEN LosersSeats(ms, round, preferred) ELSE LosersSeats(ms, round, 1)

Seated(ms, id, p) ==
    IF ms[id].p1 = Empty THEN [ms EXCEPT ![id].p1 = p] ELSE [ms EXCEPT ![id].p2 = p]

\* Nobody hears of it when the round has no seat: the player is gone.
PlaceInLB(ms, round, preferred, p) ==
    LET slot == TakenUpBy(ms, round, preferred)
    IN IF slot = {} THEN ms ELSE Seated(ms, CHOOSE id \in slot : TRUE, p)

\* A winner goes on to the next round of his bracket, to the upper or lower seat.
NextWinners(id) == <<"Winners", id[2] + 1, DivCeil2(id[3])>>

AdvanceWinner(ms, id, w) ==
    IF id[3] % 2 = 1
    THEN [ms EXCEPT ![NextWinners(id)].p1 = w]
    ELSE [ms EXCEPT ![NextWinners(id)].p2 = w]

BadDropLoser(ms, n, id, l) ==
    IF l = Empty THEN ms
    ELSE IF id[2] = 1 THEN PlaceInLB(ms, 1, DivCeil2(id[3] - Byes(n)), l)
    ELSE PlaceInLB(ms, 2 * id[2] - 1, id[3], l)

\* Where a double elimination sends the loser of a winners' match.
DropLoser(ms, n, id, l) ==
    IF l = Empty THEN ms
    ELSE IF id[2] = 1 THEN PlaceInLB(ms, 1, DivCeil2(id[3] - Byes(n)), l)
    ELSE PlaceInLB(ms, 2 * id[2] - 2, id[3], l)

\* The champion of the losers' bracket takes the second seat of the final.
ToGrandFinal(ms, final, w) ==
    IF ms[final].p1 # Empty /\ ms[final].p2 # Empty THEN ms ELSE [ms EXCEPT ![final].p2 = w]

AdvanceLosers(ms, n, id, w) ==
    LET preferred == DivCeil2(id[3])
    IN IF TakenUpBy(ms, id[2] + 1, preferred) = {}
       THEN ToGrandFinal(ms, GrandFinal(n, 1), w)
       ELSE PlaceInLB(ms, id[2] + 1, preferred, w)

\* The rounds a player won: the standings of get_standings.
Wins(ms, p) == Cardinality({id \in DOMAIN ms : ms[id].winner = p})

Leaders(b, ms) ==
    {p \in 1..b.players : \A q \in 1..b.players : Wins(ms, q) <= Wins(ms, p)}

-----------------------------------------------------------------------------
\* BracketService

BracketInit ==
    /\ bracket \in {CreateBracket(f[1], f[2]) : f \in Fields}
    /\ early = FALSE

StartTournament ==
    /\ bracket.status = "Registration"
    /\ bracket' = [bracket EXCEPT !.status = "InProgress"]
    /\ UNCHANGED early

\* What every record_result requires, and the matches with the result in.
MayRecord(id, w) ==
    /\ bracket.status = "InProgress"
    /\ bracket.matches[id].winner = Empty
    /\ w # Empty
    /\ w \in {bracket.matches[id].p1, bracket.matches[id].p2}

Recorded(id, w) == [bracket.matches EXCEPT ![id].winner = w]

Loser(id, w) ==
    IF bracket.matches[id].p1 = w THEN bracket.matches[id].p2 ELSE bracket.matches[id].p1

Won(ms, w) ==
    [bracket EXCEPT !.matches = ms, !.winner = w, !.status = "Completed"]

RecordSingle(id, w) ==
    /\ bracket.format = "SingleElimination"
    /\ MayRecord(id, w)
    /\ bracket' =
          IF NextWinners(id) \in DOMAIN bracket.matches
          THEN [bracket EXCEPT !.matches = AdvanceWinner(Recorded(id, w), id, w)]
          ELSE Won(Recorded(id, w), w)

RecordWinners(id, w) ==
    /\ bracket.format = "DoubleElimination"
    /\ id[1] = "Winners"
    /\ MayRecord(id, w)
    /\ LET advanced ==
             IF NextWinners(id) \in DOMAIN bracket.matches
             THEN AdvanceWinner(Recorded(id, w), id, w)
             ELSE [Recorded(id, w) EXCEPT ![GrandFinal(bracket.players, 1)].p1 = w]
       IN bracket' = [bracket EXCEPT
              !.matches = DropLoser(advanced, bracket.players, id, Loser(id, w))]

RecordLosers(id, w) ==
    /\ id[1] = "Losers"
    /\ MayRecord(id, w)
    /\ bracket' = [bracket EXCEPT
           !.matches = AdvanceLosers(Recorded(id, w), bracket.players, id, w)]

\* The first final: if the losers' champion wins, both have lost once and meet again.
RecordGrandFinal(id, w) ==
    /\ id[1] = "GrandFinals"
    /\ ~bracket.reset
    /\ MayRecord(id, w)
    /\ bracket' =
          IF bracket.matches[id].p1 = w
          THEN Won(Recorded(id, w), w)
          ELSE [bracket EXCEPT
                   !.reset = TRUE,
                   !.matches = Merged(Recorded(id, w), {GrandFinal(bracket.players, 2)},
                                      Match(bracket.matches[id].p1, w, Empty))]

RecordReset(id, w) ==
    /\ id[1] = "GrandFinals"
    /\ bracket.reset
    /\ MayRecord(id, w)
    /\ bracket' = Won(Recorded(id, w), w)

RecordRoundRobin(id, w) ==
    /\ bracket.format = "RoundRobin"
    /\ MayRecord(id, w)
    /\ LET ms == Recorded(id, w)
       IN IF \A m \in DOMAIN ms : ms[m].winner # Empty
          THEN \E first \in Leaders(bracket, ms) : bracket' = Won(ms, first)
          ELSE bracket' = [bracket EXCEPT !.matches = ms]

RecordResult ==
    \E id \in DOMAIN bracket.matches, w \in 1..bracket.players :
        /\ \/ RecordSingle(id, w)
           \/ RecordWinners(id, w)
           \/ RecordLosers(id, w)
           \/ RecordGrandFinal(id, w)
           \/ RecordReset(id, w)
           \/ RecordRoundRobin(id, w)
        /\ early' = (early \/ Loser(id, w) = Empty)

BracketNext == StartTournament \/ RecordResult

BracketSpec == BracketInit /\ [][BracketNext]_bracketVars

-----------------------------------------------------------------------------
Matches == DOMAIN bracket.matches
Sits(p, id) == p \in {bracket.matches[id].p1, bracket.matches[id].p2}
Undecided == {id \in Matches : bracket.matches[id].winner = Empty}
Losses(p) == Cardinality({id \in Matches \ Undecided : Sits(p, id) /\ bracket.matches[id].winner # p})
Allowed == IF bracket.format = "SingleElimination" THEN 1 ELSE 2

\* In an elimination whose matches are decided once both players are known, nobody
\* is lost: while it runs, whoever has lost less often than it allows sits in exactly
\* one match still to be played, whoever is out sits in none, and some match can be
\* played; when it is over everybody but the champion has lost as often as it takes
\* (bracket.rs:513, 588).
NobodyLost ==
    (bracket.format # "RoundRobin" /\ ~early) =>
        /\ bracket.status # "Completed" =>
              /\ \E id \in Undecided : ~Sits(Empty, id)
              /\ \A p \in 1..bracket.players :
                     Cardinality({id \in Undecided : Sits(p, id)}) =
                         IF Losses(p) < Allowed THEN 1 ELSE 0
        /\ bracket.status = "Completed" =>
              /\ Losses(bracket.winner) < Allowed
              /\ \A p \in 1..bracket.players \ {bracket.winner} : Losses(p) = Allowed

\* A round robin is over when every match is decided, and not before, and nobody has
\* won more of them than its champion (bracket.rs:575).
RoundRobinWon ==
    bracket.format = "RoundRobin" =>
        /\ (bracket.status = "Completed") <=> (Undecided = {})
        /\ bracket.status = "Completed" => bracket.winner \in Leaders(bracket, bracket.matches)

\* However the results come in, nobody sits twice in a match, a decided match was won
\* by a player of it, and the champion won the match that ended the tournament.
MatchesCoherent ==
    /\ \A id \in Matches :
          LET m == bracket.matches[id]
          IN (m.p1 # m.p2 \/ m.p1 = Empty) /\ (m.winner # Empty => Sits(m.winner, id))
    /\ (bracket.status = "Completed") <=> (bracket.winner # Empty)

\* "Falls back to the first match in the round with a free slot" (bracket.rs:111-114):
\* a player whose first loss was in the winners' bracket, and who is not in a match to
\* be played, found no free seat in the losers round he drops into.
LosersSeated ==
    \A id \in Matches \ Undecided :
        (/\ bracket.format = "DoubleElimination" /\ ~early
         /\ id[1] = "Winners" /\ id[2] > 1) =>
            LET l == Loser(id, bracket.matches[id].winner)
            IN \/ Losses(l) = 2
               \/ \E m \in Matches : m[1] # "Winners" /\ Sits(l, m)
               \/ \A m \in Matches :
                      m[1] = "Losers" /\ m[2] = 2 * id[2] - 2 => ~Sits(Empty, m)

BracketSound == NobodyLost /\ RoundRobinWon /\ MatchesCoherent

\* All of this where nobody plays on in a losers' bracket.
OneBracketSound == bracket.format # "DoubleElimination" => BracketSound

-----------------------------------------------------------------------------
(***************************************************************************)
(* Registering for a stored tournament (modules/api/src/tournaments.rs):   *)
(* every request reads and writes the database step by step on its own     *)
(* connection, and the bracket it stores is made from the participants it  *)
(* has listed.  A bracket is here the set of its participants.             *)
(***************************************************************************)
CONSTANTS
    Registrations,  \* the requests
    Casts,          \* who may send the requests: functions from them to players
    NoBracket,      \* bracket_data of a tournament nobody has made a bracket for
    MaxBroken       \* bound: requests the database fails

\* An empty bracket_data is no list of participants.
ASSUME NoBracketAssumption ==
    \A cast \in Casts : \A drawn \in SUBSET {cast[r] : r \in Registrations} : drawn # NoBracket

VARIABLES
    registration,   \* registration[r]: where request r is and what it listed
    participants,   \* the rows of tournament_participants
    bracketData,    \* bracket_data of the tournament's row
    beside          \* ghost: the players who were inserted while request r was at work

regVars == <<registration, participants, bracketData, beside>>

Entering(r) == registration[r].player
RegAt(r, step) == registration[r].at = step
Going(r) == ~RegAt(r, "idle") /\ ~RegAt(r, "registered") /\ ~RegAt(r, "conflict") /\ ~RegAt(r, "failed")
Goes(r, step) == registration' = [registration EXCEPT ![r].at = step]

Over(r, answer) == [at |-> answer, listed |-> {}, player |-> Entering(r)]

RegInit ==
    /\ registration \in {[r \in Registrations |->
              [at |-> "idle", listed |-> {}, player |-> cast[r]]] : cast \in Casts}
    /\ participants = {}
    /\ bracketData = NoBracket
    /\ beside = [r \in Registrations |-> {}]

\* The tournament is found and the player is not among its participants.
CheckRegistration(r) ==
    /\ RegAt(r, "idle")
    /\ Goes(r, IF Entering(r) \in participants THEN "conflict" ELSE "checked")
    /\ UNCHANGED <<participants, bracketData, beside>>

\* The insertion; the unique index turns away a player who got in meanwhile.
InsertParticipant(r) ==
    /\ RegAt(r, "checked")
    /\ Goes(r, IF Entering(r) \in participants THEN "conflict" ELSE "inserted")
    /\ participants' = participants \cup {Entering(r)}
    /\ beside' = [s \in Registrations |->
                     IF s # r /\ Going(s) /\ Entering(r) \notin participants
                     THEN beside[s] \cup {Entering(r)} ELSE beside[s]]
    /\ UNCHANGED bracketData

\* All participants; one alone makes no bracket.
ListParticipants(r) ==
    /\ RegAt(r, "inserted")
    /\ registration' = [registration EXCEPT
           ![r] = IF Cardinality(participants) >= 2
                  THEN [@ EXCEPT !.at = "listed", !.listed = participants] ELSE Over(r, "registered")]
    /\ UNCHANGED <<participants, bracketData, beside>>

\* The bracket of what was listed replaces the stored one, whatever that is by now.
SaveBracket(r) ==
    /\ RegAt(r, "listed")
    /\ bracketData' = registration[r].listed
    /\ registration' = [registration EXCEPT ![r] = Over(r, "registered")]
    /\ UNCHANGED <<participants, beside>>

\* The database refuses a step: what was written stays.
RegistrationFails(r) ==
    /\ Going(r)
    /\ Cardinality({s \in Registrations : RegAt(s, "failed")}) < MaxBroken
    /\ registration' = [registration EXCEPT ![r] = Over(r, "failed")]
    /\ UNCHANGED <<participants, bracketData, beside>>

RegNext ==
    \E r \in Registrations :
        \/ CheckRegistration(r)
        \/ InsertParticipant(r)
        \/ ListParticipants(r)
        \/ SaveBracket(r)
        \/ RegistrationFails(r)

RegSpec == RegInit /\ [][RegNext]_regVars

-----------------------------------------------------------------------------
Drawn(p) == bracketData # NoBracket /\ p \in bracketData

Answered(r) == RegAt(r, "registered")

\* Nobody is drawn without being registered, a bracket has at least two players, and
\* a player has at most one request that got him in.
BracketRegistered ==
    /\ bracketData # NoBracket => bracketData \subseteq participants /\ Cardinality(bracketData) >= 2
    /\ \A r, s \in Registrations :
          (Answered(r) /\ Answered(s) /\ Entering(r) = Entering(s)) => r = s

\* A player who was told that he is registered, with somebody else registered too, is
\* in the stored bracket, unless a request that was already at work when he came in
\* stored its own older list after his, or he was alone when he came in and no later
\* request has got to its end (tournaments.rs:200, 236).
MissingOnlyToRaces ==
    \A r \in Registrations :
        (Answered(r) /\ Cardinality(participants) >= 2 /\ ~Drawn(Entering(r))) =>
            \/ \E s \in Registrations \ {r} : Entering(r) \in beside[s]
            \/ \A s \in Registrations \ {r} : ~Answered(s)

RegistrationSound == BracketRegistered /\ MissingOnlyToRaces
=============================================================================
