---------------------------- MODULE SwissTournament ----------------------------
\* The Swiss tournaments of the tournament crate (swiss/mod.rs, swiss/pairer.rs): a
\* round is paired, bye first, then within the score groups, then the rest; its
\* results are applied and the next round is paired.  Scores are counted in half
\* points.  Players are 1..n; Ratings[p] is the rating of player p.
EXTENDS Integers, Sequences, FiniteSets, FiniteSetsExt, SequencesExt

CONSTANTS
    Ratings,    \* the rating of each player who may enter
    Sizes,      \* how many players enter
    MaxRounds,  \* bound: rounds played
    MaxRefused  \* bound: attempts to pair a round that fail

ASSUME SwissAssumption ==
    /\ Ratings \in Seq(Int) /\ Sizes \subseteq 2..Len(Ratings)
    /\ MaxRounds \in Nat /\ MaxRefused \in Nat

VARIABLES
    entrants,   \* the Player of each entrant: score, colour balance, opponents, floats
    pairings,   \* TournamentState.pairings, of every round so far
    round,      \* current_round
    byes,       \* ghost: the byes of the published rounds, <<round, player>>
    failed      \* ghost: attempts that failed, by whether they had awarded a bye

swissVars == <<entrants, pairings, round, byes, failed>>

Entrants == DOMAIN entrants
Score(p) == entrants[p].score

NewPlayer == [score |-> 0, balance |-> 0, opponents |-> <<>>, float |-> 0]

-----------------------------------------------------------------------------
\* The standings and the bye

\* By score, then rating; players who tie come in any order (a HashMap's).
Above(p, q) == Score(p) > Score(q) \/ (Score(p) = Score(q) /\ Ratings[p] > Ratings[q])

Standings ==
    {s \in SetToSeqs(Entrants) : \A i, j \in DOMAIN s : i < j => ~Above(s[j], s[i])}

\* has_had_bye asks for a player without opponents who has completed a round, which
\* it counts in opponents.
HasHadBye(p) ==
    Score(p) = 2 /\ entrants[p].opponents = <<>> /\ Len(entrants[p].opponents) > 0

\* Who of some players comes first in the standings.
First(s, some) == s[Min({i \in DOMAIN s : s[i] \in some})]

\* The first of the lowest ranked who qualify for the bye.
ByeOf(s) ==
    LET may == {p \in Entrants : ~HasHadBye(p)}
    IN First(s, {p \in may : \A q \in may : ~Above(p, q)})

-----------------------------------------------------------------------------
\* Pairing the others

BadCanPair(p, q) == p # q

\* check_color_preference turns nobody down.
CanPair(p, q) == p # q /\ q \notin Range(entrants[p].opponents)

PrefersWhite(p) == entrants[p].balance < 0

\* The game of two players, white first.
CreatePairing(p, q) ==
    CASE PrefersWhite(p) -> <<p, q>>
      [] ~PrefersWhite(p) /\ PrefersWhite(q) -> <<q, p>>
      [] OTHER -> IF Ratings[p] >= Ratings[q] THEN <<p, q>> ELSE <<q, p>>

\* Pairing takes two of those who are left.
PairOff(r, p, q) ==
    [r EXCEPT !.pairs = Append(@, <<p, q>>), !.left = @ \ {p, q}]

\* A score group: its head takes the first he may meet, until a head finds nobody.
GroupTurn(s, r) ==
    LET fits == {q \in r.left : CanPair(First(s, r.left), q)}
    IN IF fits = {} THEN r ELSE PairOff(r, First(s, r.left), First(s, fits))

WithinGroup(s, group) ==
    LET after[i \in 0..Len(s)] ==
            IF i = 0 THEN [pairs |-> <<>>, left |-> group] ELSE GroupTurn(s, after[i - 1])
    IN Range(after[Len(s)].pairs)

InGroups(s, others) ==
    UNION {WithinGroup(s, {p \in others : Score(p) = score}) : score \in {Score(p) : p \in others}}

Paired(pairs) == UNION {{g[1], g[2]} : g \in pairs}

\* The rest: neighbours meet, and two that may not meet fail the round.
FloatTurn(s, r) ==
    LET next == First(s, r.left \ {First(s, r.left)})
    IN IF Cardinality(r.left) < 2 \/ ~CanPair(First(s, r.left), next)
       THEN r ELSE PairOff(r, First(s, r.left), next)

HandleFloaters(s, rest) ==
    LET after[i \in 0..Len(s)] ==
            IF i = 0 THEN [pairs |-> <<>>, left |-> rest] ELSE FloatTurn(s, after[i - 1])
    IN after[Len(s)]

\* A floater's float score: up by one if he meets a lower score, down if a higher one.
Against(p, q) == IF Score(p) > Score(q) THEN 1 ELSE IF Score(p) < Score(q) THEN -1 ELSE 0

FloatChange(pairs, p) ==
    IF p \notin Paired(pairs) THEN 0
    ELSE LET g == CHOOSE g \in pairs : p \in {g[1], g[2]}
         IN IF p = g[1] THEN Against(g[1], g[2]) ELSE Against(g[2], g[1])

-----------------------------------------------------------------------------
\* TournamentState and SwissPairer

SwissInit ==
    /\ entrants \in {[p \in 1..n |-> NewPlayer] : n \in Sizes}
    /\ pairings = {}
    /\ round = 1
    /\ byes = {}
    /\ failed = [even |-> 0, odd |-> 0]

Odd == Cardinality(Entrants) % 2 = 1

\* An attempt, by the order the standings come in: the bye, the pairs within the groups,
\* and the floaters that are paired before the first who may not meet.
PairingAttempt(s) ==
    LET bye == IF Odd THEN {ByeOf(s)} ELSE {}
        grouped == InGroups(s, Entrants \ bye)
    IN [bye |-> bye, grouped |-> grouped,
        floated |-> HandleFloaters(s, (Entrants \ bye) \ Paired(grouped))]

\* What it writes whether it succeeds or not: the bye's point and the floats of the pairs
\* made so far.
Attempted(a) ==
    [p \in Entrants |->
        [entrants[p] EXCEPT
            !.score = IF p \in a.bye THEN @ + 2 ELSE @,
            !.float = @ + FloatChange(Range(a.floated.pairs), p)]]

\* No two players are left that may not meet.
Succeeds(a) == Cardinality(a.floated.left) < 2

Unpaired == ~\E g \in pairings : g[3] = round

PairRound ==
    /\ Unpaired /\ round <= MaxRounds
    /\ \E s \in Standings :
           LET a == PairingAttempt(s)
           IN /\ Succeeds(a)
              /\ entrants' = Attempted(a)
              /\ pairings' = pairings \cup
                    {<<CreatePairing(g[1], g[2])[1], CreatePairing(g[1], g[2])[2], round>> :
                        g \in a.grouped \cup Range(a.floated.pairs)}
              /\ byes' = byes \cup {<<round, p>> : p \in a.bye}
    /\ UNCHANGED <<round, failed>>

\* CannotPairRemainingPlayers: nothing is published, and the bye's point stays.
PairRoundFails ==
    /\ Unpaired /\ round <= MaxRounds
    /\ failed.even + failed.odd < MaxRefused
    /\ \E s \in Standings :
           ~Succeeds(PairingAttempt(s)) /\ entrants' = Attempted(PairingAttempt(s))
    /\ failed' = IF Odd THEN [failed EXCEPT !.odd = @ + 1] ELSE [failed EXCEPT !.even = @ + 1]
    /\ UNCHANGED <<pairings, round, byes>>

Playing == {g \in pairings : g[3] = round}

Points(result, side) ==
    CASE result = "draw" -> 1
      [] result = side -> 2
      [] OTHER -> 0

\* add_game_result of both players of a game.
AfterGame(p, g, result) ==
    LET side == IF p = g[1] THEN "white" ELSE "black"
    IN [entrants[p] EXCEPT
           !.score = @ + Points(result, side),
           !.balance = IF side = "white" THEN @ + 1 ELSE @ - 1,
           !.opponents = Append(@, IF p = g[1] THEN g[2] ELSE g[1])]

\* Each player's result goes to the game of the current round he sits in.
ApplyRoundResults ==
    /\ ~Unpaired
    /\ \E results \in [Playing -> {"white", "black", "draw"}] :
          entrants' = [p \in Entrants |->
              IF \E g \in Playing : p \in {g[1], g[2]}
              THEN LET g == CHOOSE g \in Playing : p \in {g[1], g[2]}
                   IN AfterGame(p, g, results[g])
              ELSE entrants[p]]
    /\ round' = round + 1
    /\ UNCHANGED <<pairings, byes, failed>>

SwissNext == PairRound \/ PairRoundFails \/ ApplyRoundResults

SwissSpec == SwissInit /\ [][SwissNext]_swissVars

-----------------------------------------------------------------------------
\* A published round seats every player exactly once, the bye included (pairer.rs:15,
\* 88, 186), and no two players are ever paired twice, however the rounds before went
\* and whichever attempts failed (swiss/mod.rs:112).
RoundsAreWhole ==
    /\ \A r \in {g[3] : g \in pairings} : \A p \in Entrants :
          Cardinality({g \in pairings : g[3] = r /\ p \in {g[1], g[2]}})
              + Cardinality({b \in byes : b = <<r, p>>}) = 1
    /\ \A g, h \in pairings : {g[1], g[2]} = {h[1], h[2]} => g = h

\* The points of a tournament are those its games and byes are worth, with one full
\* point more for every attempt of an odd field that failed after its bye was awarded
\* (pairer.rs:72); and floating up and down cancels out (pairer.rs:288).
PointsAccounted ==
    /\ SumFunctionOnSet([p \in Entrants |-> entrants[p].score], Entrants) =
           2 * (Cardinality(pairings \ Playing) + Cardinality(byes) + failed.odd)
    /\ SumFunctionOnSet([p \in Entrants |-> entrants[p].float], Entrants) = 0

\* Both players of a game remember each other.
Met(p, q) == q \in Range(entrants[p].opponents)

SwissSound ==
    /\ RoundsAreWhole
    /\ PointsAccounted
    /\ \A p, q \in Entrants : Met(p, q) => Met(q, p)
-----------------------------------------------------------------------------
(***************************************************************************)
(* The pairing of single rounds: build_round and SwissPairer of the        *)
(* pairing crate, which POST /v1/tournaments/{id}/pairings calls with the  *)
(* standings and histories it is sent, and the arena pairing of the        *)
(* tournament crate.  Players are 1..n, ranked by rating and then id: the  *)
(* lower the number, the better.  An organiser plays round after round and *)
(* sends the histories back.                                               *)
(***************************************************************************)
CONSTANTS
    Boards,     \* the sizes of the field
    Limits,     \* max_pairings_per_round
    Memory      \* bound: how many opponents a history keeps (10 in the code)

ASSUME PairingAssumption ==
    /\ Boards \subseteq Nat \ {0} /\ Limits \subseteq Nat \ {0} /\ Memory \in Nat \ {0}

VARIABLES
    history,    \* recent_opponents of each player, oldest first
    chart       \* the round built last: its kind, settings, pairings and byes

pairVars == <<history, chart>>

Field == DOMAIN history

-----------------------------------------------------------------------------
\* pairing/src/swiss.rs

HasPlayedAgainst(p, q) == q \in Range(history[p])

Forbidden(avoid, p, q) == avoid /\ (HasPlayedAgainst(p, q) \/ HasPlayedAgainst(q, p))

\* The best of those who are left comes first; those he may meet.
Opponents(avoid, left) == {q \in left \ {Min(left)} : ~Forbidden(avoid, Min(left), q)}

\* The head meets the best he may, unless the round has all its pairs.
TryPairHead(avoid, limit, r) ==
    IF r.left = {} \/ Len(r.pairs) = limit \/ Opponents(avoid, r.left) = {} THEN r
    ELSE PairOff(r, Min(r.left), Min(Opponents(avoid, r.left)))

\* The trait's pair lets a head who fits nobody float and goes on with the others.
PairOrFloat(avoid, limit, r) ==
    IF r.left # {} /\ Len(r.pairs) < limit /\ Opponents(avoid, r.left) = {}
    THEN [r EXCEPT !.floated = @ \cup {Min(r.left)}, !.left = @ \ {Min(r.left)}]
    ELSE TryPairHead(avoid, limit, r)

\* tournament/src/arena.rs: the nearest player who was not the last opponent, else
\* the nearest.
LastMet(p, q) == history[p] # <<>> /\ Last(history[p]) = q

ArenaOpponent(left) ==
    LET others == left \ {Min(left)}
        fresh == {q \in others : ~LastMet(Min(left), q) /\ ~LastMet(q, Min(left))}
    IN Min(IF fresh # {} THEN fresh ELSE others)

PairNearest(r) ==
    IF Cardinality(r.left) < 2 THEN r ELSE PairOff(r, Min(r.left), ArenaOpponent(r.left))

Turn(kind, avoid, limit, r) ==
    CASE kind = "round" -> TryPairHead(avoid, limit, r)
      [] kind = "pair"  -> PairOrFloat(avoid, limit, r)
      [] kind = "arena" -> PairNearest(r)

\* A head a turn: there are no more heads than players.
AllTurns(kind, avoid, limit) ==
    LET after[i \in 0..Len(history)] ==
            IF i = 0 THEN [pairs |-> <<>>, left |-> Field, floated |-> {}]
            ELSE Turn(kind, avoid, limit, after[i - 1])
    IN after[Len(history)]

\* add_opponent keeps the last ones.
AddOpponent(h, q) ==
    IF Len(h) = Memory THEN Append(Tail(h), q) ELSE Append(h, q)

-----------------------------------------------------------------------------
PairInit ==
    /\ history \in {[p \in 1..n |-> <<>>] : n \in Boards}
    /\ chart = [kind |-> "none"]

Played(pairs) ==
    history' = [p \in Field |->
        IF \E g \in Range(pairs) : p \in {g[1], g[2]}
        THEN LET g == CHOOSE g \in Range(pairs) : p \in {g[1], g[2]}
             IN AddOpponent(history[p], IF p = g[1] THEN g[2] ELSE g[1])
        ELSE history[p]]

\* The round as it is sent, with what the players knew when it was built.  Whoever is
\* left has a bye; the trait's pair leaves out whom it did not come to.
Charted(kind, avoid, limit) ==
    LET r == AllTurns(kind, avoid, limit)
    IN /\ chart' = [kind |-> kind, avoid |-> avoid, limit |-> limit, before |-> history,
                    pairs |-> r.pairs, left |-> IF kind = "pair" THEN r.floated ELSE r.left]
       /\ Played(r.pairs)

BuildPairingRound == \E avoid \in BOOLEAN, limit \in Limits : Charted("round", avoid, limit)

PairStrategy == \E avoid \in BOOLEAN, limit \in Limits : Charted("pair", avoid, limit)

PairArenaRound == Charted("arena", FALSE, Len(history))

PairNext == BuildPairingRound \/ PairStrategy \/ PairArenaRound

PairSpec == PairInit /\ [][PairNext]_pairVars

-----------------------------------------------------------------------------
InPairs(p) == \E g \in Range(chart.pairs) : p \in {g[1], g[2]}
KnewEachOther(p, q) ==
    q \in Range(chart.before[p]) \/ p \in Range(chart.before[q])

\* Every round that is sent passes validate_round (pairings.rs:86): nobody sits in two
\* of its pairs and byes, and everybody sits in one.
RoundCovered ==
    chart.kind \in {"round", "arena"} =>
        \A p \in Field :
            Cardinality({i \in DOMAIN chart.pairs : p \in Range(chart.pairs[i])})
                + Cardinality(chart.left \cap {p}) = 1

\* With rematches to be avoided, no pair that is remembered meets again (swiss.rs:13), and
\* whom the trait's pairing lets float could not have met one another (swiss.rs:113).
NoRematches ==
    chart.kind \in {"round", "pair"} =>
        /\ chart.avoid => \A g \in Range(chart.pairs) : ~KnewEachOther(g[1], g[2])
        /\ chart.kind = "pair" => \A p, q \in chart.left :
               p # q => chart.avoid /\ KnewEachOther(p, q)

\* Why a built round stops early: it has all the pairs it may, or the best of those left
\* has already met every other, though two of those might still meet (swiss.rs:140).
StoppedEarly ==
    \/ Len(chart.pairs) = chart.limit
    \/ chart.avoid /\ \A q \in chart.left \ {Min(chart.left)} : KnewEachOther(Min(chart.left), q)

\* A built round has at most one bye, and that only when the field is odd (swiss.rs:31),
\* unless it stopped early: then everybody left has one, which the comment leaves out.
OneByeAtMost ==
    chart.kind = "round" => Cardinality(chart.left) = Len(history) % 2 \/ StoppedEarly

\* Two who had not just met when the round was built; whom it still had for a head.
NotJustMet(p, q) ==
    /\ ~(chart.before[p] # <<>> /\ Last(chart.before[p]) = q)
    /\ ~(chart.before[q] # <<>> /\ Last(chart.before[q]) = p)

StillThere(i) ==
    chart.left \cup UNION {Range(chart.pairs[j]) : j \in (i + 1)..Len(chart.pairs)}

\* The arena leaves out one player of an odd field and nobody of an even one, and a
\* pair meets twice running only if the better player's other possible opponents had
\* all just met him or had been paired before (arena.rs:40).
ArenaFull ==
    chart.kind = "arena" =>
        /\ Cardinality(chart.left) = Len(history) % 2
        /\ \A i \in DOMAIN chart.pairs :
              ~NotJustMet(chart.pairs[i][1], chart.pairs[i][2]) =>
                  \A o \in StillThere(i) : ~NotJustMet(chart.pairs[i][1], o)

PairingSound == RoundCovered /\ NoRematches /\ OneByeAtMost /\ ArenaFull
=============================================================================
