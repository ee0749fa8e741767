-------------------------- MODULE GameEscrowProofs --------------------------
(***************************************************************************)
(* Proofs about GameEscrow for every value of its constants.  First its    *)
(* types.  Then, all the handlers that touch a game change it in one of    *)
(* six ways (Evolves), and the inductive invariant IndInv, the finality of *)
(* outcomes and the refinement of GameLifecycle follow from those alone.   *)
(* Then the books: the contract holds what is at stake and the fees of     *)
(* disputes, the ledger keeps what is booked, no token is lost, and the    *)
(* counters of profiles and tournament escrows agree with the games and    *)
(* escrows they count.                                                     *)
(***************************************************************************)
EXTENDS GameEscrow, Sums

-----------------------------------------------------------------------------
(* Types.                                                                  *)

\* The sets of the bounded identifiers are never expanded further than this.
LEMMA IdTypes ==
    /\ GameIds \subseteq Nat /\ DisputeIds \subseteq Nat /\ EscrowIds \subseteq Nat
    /\ MaxGames \in Nat /\ MaxDisputes \in Nat /\ MaxTourneys \in Nat
    /\ MaxSeq \in Nat /\ MaxAdminCalls \in Nat
BY ConstantsAssumption DEF GameIds, DisputeIds, EscrowIds

LEMMA PlusType ==
    ASSUME NEW f \in [Accounts -> Int], NEW a \in Accounts \cup {NoOne}, NEW n \in Int
    PROVE  Plus(f, a, n) \in [Accounts -> Int]
<1>1. CASE a \in Accounts
  BY <1>1 DEF Plus
<1>2. CASE a \notin Accounts
  BY <1>2 DEF Plus
<1>3. QED
  BY <1>1, <1>2

LEMMA TwoPlusType ==
    ASSUME NEW f \in [Accounts -> Int], NEW a \in Accounts \cup {NoOne}, NEW m \in Int,
           NEW b \in Accounts \cup {NoOne}, NEW n \in Int
    PROVE  Plus(Plus(f, a, m), b, n) \in [Accounts -> Int]
<1>1. Plus(f, a, m) \in [Accounts -> Int]
  BY PlusType
<1>2. QED
  BY <1>1, PlusType

LEMMA FeeType ==
    ASSUME TypeOK, NEW pool \in Int
    PROVE  Fee(pool) \in Int
BY DEF Fee, TypeOK, Config

LEMMA SplitType ==
    ASSUME NEW f \in [Accounts -> Int], NEW w1 \in Accounts, NEW w2 \in Accounts, NEW total \in Int, NEW pct \in 0..100
    PROVE  Split(f, w1, w2, total, pct) \in [Accounts -> Int]
<1>1. FirstShare(total, pct) \in Int /\ SecondShare(total, pct) \in Int
  BY DEF FirstShare, SecondShare
<1>2. Dust(total, pct) \in Int
  BY <1>1 DEF Dust
<1>3. Plus(f, w1, FirstShare(total, pct) + Dust(total, pct)) \in [Accounts -> Int]
  BY SMTT(30), <1>1, <1>2, PlusType
<1>4. QED
  BY <1>1, <1>3, PlusType DEF Split

\* A wager that goes into the contract or comes back.
LEMMA StakeType ==
    ASSUME TypeOK, NEW a \in Accounts \cup {NoOne}, NEW m \in Int
    PROVE  /\ Plus(tokens, a, m) \in [Accounts -> Int] /\ Plus(tokens, a, -m) \in [Accounts -> Int]
           /\ Plus(escrow, a, m) \in [Accounts -> Int] /\ Plus(escrow, a, -m) \in [Accounts -> Int]
           /\ vault + m \in Int /\ vault - m \in Int
<1>1. -m \in Int /\ tokens \in [Accounts -> Int] /\ escrow \in [Accounts -> Int] /\ vault \in Int
  BY DEF TypeOK
<1>2. Plus(tokens, a, m) \in [Accounts -> Int] /\ Plus(escrow, a, m) \in [Accounts -> Int]
  BY <1>1, PlusType
<1>3. Plus(tokens, a, -m) \in [Accounts -> Int] /\ Plus(escrow, a, -m) \in [Accounts -> Int]
  <2> DEFINE n == -m
  <2> HIDE DEF n
  <2>1. Plus(tokens, a, n) \in [Accounts -> Int] /\ Plus(escrow, a, n) \in [Accounts -> Int]
    BY <1>1, PlusType DEF n
  <2>2. QED
    BY <2>1 DEF n
<1>4. QED
  BY <1>1, <1>2, <1>3

\* Both ways of paying out keep the token, ledger and history types.
LEMMA PayoutType ==
    ASSUME TypeOK, NEW g \in GameIds, NEW w \in Accounts \cup {NoOne}, ProcessPayout(g, w)
    PROVE  /\ escrow' \in [Accounts -> Int] /\ tokens' \in [Accounts -> Int]
           /\ vault' \in Int /\ settlements' \in [GameIds -> Nat]
<1>1. /\ games[g].player1 \in Accounts \cup {NoOne} /\ games[g].player2 \in Accounts \cup {NoOne}
      /\ games[g].wager \in Int /\ cfg.treasury \in Accounts
  BY DEF TypeOK, Game, Config
<1>2. Fee(2 * games[g].wager) \in Int
  BY <1>1, FeeType
<1>3. escrow' \in [Accounts -> Int]
  <2> DEFINE m == games[g].wager
             n == Fee(2 * m)
             e == Plus(Plus(escrow, games[g].player1, -m), games[g].player2, -m)
  <2>1. m \in Int /\ -m \in Int /\ n \in Int /\ 2 * m - n \in Int
    BY <1>1, <1>2
  <2>2. escrow \in [Accounts -> Int]
    BY DEF TypeOK
  <2> HIDE DEF m, n
  <2>3. e \in [Accounts -> Int]
    BY <1>1, <2>1, <2>2, TwoPlusType
  <2> HIDE DEF e
  <2>4. Plus(Plus(e, w, 2 * m - n), cfg.treasury, n) \in [Accounts -> Int]
    BY <1>1, <2>1, <2>3, TwoPlusType
  <2>5. QED
    BY <2>4 DEF ProcessPayout, LedgerAfterPayout, m, n, e
<1>4. tokens' \in [Accounts -> Int]
  <2> DEFINE m == 2 * games[g].wager
             n == Fee(m)
  <2>1. n \in Int /\ m - n \in Int
    BY <1>1, <1>2
  <2>2. tokens \in [Accounts -> Int]
    BY DEF TypeOK
  <2> HIDE DEF m, n
  <2>3. Plus(Plus(tokens, w, m - n), cfg.treasury, n) \in [Accounts -> Int]
    BY <1>1, <2>1, <2>2, TwoPlusType
  <2>4. QED
    BY <2>3 DEF ProcessPayout, m, n
<1>5. vault' \in Int /\ settlements' \in [GameIds -> Nat]
  BY <1>1 DEF ProcessPayout, TypeOK
<1>6. QED
  BY <1>3, <1>4, <1>5

LEMMA DrawPayoutType ==
    ASSUME TypeOK, NEW g \in GameIds, ProcessDrawPayout(g)
    PROVE  /\ escrow' \in [Accounts -> Int] /\ tokens' \in [Accounts -> Int]
           /\ vault' \in Int /\ settlements' \in [GameIds -> Nat]
<1>1. /\ games[g].player1 \in Accounts \cup {NoOne} /\ games[g].player2 \in Accounts \cup {NoOne}
      /\ games[g].wager \in Int
  BY DEF TypeOK, Game
<1>2. escrow' \in [Accounts -> Int] /\ tokens' \in [Accounts -> Int]
  <2> DEFINE m == games[g].wager
  <2>1. m \in Int /\ -m \in Int
    BY <1>1
  <2>2. escrow \in [Accounts -> Int] /\ tokens \in [Accounts -> Int]
    BY DEF TypeOK
  <2> HIDE DEF m
  <2>3. /\ Plus(Plus(escrow, games[g].player1, -m), games[g].player2, -m) \in [Accounts -> Int]
        /\ Plus(Plus(tokens, games[g].player1, m), games[g].player2, m) \in [Accounts -> Int]
    BY <1>1, <2>1, <2>2, TwoPlusType
  <2>4. QED
    BY <2>3 DEF ProcessDrawPayout, m
<1>3. vault' \in Int /\ settlements' \in [GameIds -> Nat]
  BY <1>1 DEF ProcessDrawPayout, TypeOK
<1>4. QED
  BY <1>2, <1>3

LEMMA ProfileTypes ==
    ASSUME NEW p \in Profile
    PROVE  /\ AfterWin(p) \in Profile /\ AfterLoss(p) \in Profile /\ AfterDraw(p) \in Profile
           /\ \A r \in Int : Rated(p, r) \in Profile
<1>1. \A r \in Int : Rated(p, r) \in Profile
  BY DEF Profile, Rated
<1>2. p.rating \in Int /\ AtLeastZero(p.rating - 16) \in Int
  BY DEF Profile, AtLeastZero
<1>3. \A q \in Profile : /\ [q EXCEPT !.wins = @ + 1] \in Profile
                        /\ [q EXCEPT !.losses = @ + 1] \in Profile
                        /\ [q EXCEPT !.draws = @ + 1] \in Profile
  BY DEF Profile
<1>4. /\ Rated(p, p.rating + 32) \in Profile /\ Rated(p, p.rating + 8) \in Profile
      /\ Rated(p, AtLeastZero(p.rating - 16)) \in Profile
  BY <1>1, <1>2
<1>5. QED
  BY <1>1, <1>3, <1>4 DEF AfterWin, AfterLoss, AfterDraw

LEMMA RecordTypes ==
    ASSUME TypeOK, NEW a \in Accounts \cup {NoOne}, NEW b \in Accounts \cup {NoOne}
    PROVE  RecordWin(a, b) \in [Accounts -> Profile] /\ RecordDraw(a, b) \in [Accounts -> Profile]
BY ProfileTypes DEF TypeOK, RecordWin, RecordDraw

LEMMA MoveBaseType ==
    ASSUME TypeOK, NEW g \in GameIds
    PROVE  MoveBase(g) \in Game
<1>1. games[g] \in Game /\ seq \in Int
  BY IdTypes DEF TypeOK
<1>2. 3 - games[g].turn \in {1, 2}
  BY <1>1 DEF Game
<1>3. QED
  BY <1>1, <1>2 DEF Game, MoveBase

\* The tail shared by the five ways of winning.
LEMMA SettleForType ==
    ASSUME TypeOK, NEW g \in GameIds, NEW w \in Accounts \cup {NoOne}, SettleFor(g, w)
    PROVE  /\ games' \in [GameIds -> Game] /\ profiles' \in [Accounts -> Profile]
           /\ escrow' \in [Accounts -> Int] /\ tokens' \in [Accounts -> Int]
           /\ vault' \in Int /\ settlements' \in [GameIds -> Nat]
<1>1. games' \in [GameIds -> Game]
  <2>1. games[g] \in Game
    BY DEF TypeOK
  <2>2. [games[g] EXCEPT !.state = "Settled", !.winner = w] \in Game
    BY <2>1 DEF Game, GameStates
  <2>3. QED
    BY <2>2 DEF SettleFor, TypeOK
<1>2. Opponent(g, w) \in Accounts \cup {NoOne}
  BY DEF Opponent, TypeOK, Game
<1>3. profiles' \in [Accounts -> Profile]
  BY <1>2, RecordTypes DEF SettleFor
<1>4. QED
  BY <1>1, <1>3, PayoutType DEF SettleFor

LEMMA GameStepType ==
    ASSUME TypeOK, NEW g \in GameIds, GameStep(g)
    PROVE  TypeOK'
<1> USE DEF disputeVars, tourneyVars, adminVars, tokenVars
<1>0. /\ games[g].player1 \in Accounts \cup {NoOne} /\ games[g].player2 \in Accounts \cup {NoOne}
      /\ games[g].wager \in Int /\ -games[g].wager \in Int
  BY DEF TypeOK, Game
<1>1. ASSUME NEW p \in Accounts, JoinGame(g, p)
      PROVE  TypeOK'
  <2>1. games' \in [GameIds -> Game]
    <3>1. games[g] \in Game /\ seq \in Int
      BY IdTypes DEF TypeOK
    <3>2. [games[g] EXCEPT !.state = "InProgress", !.player2 = p, !.turn = 1,
                           !.lastMoveAt = seq] \in Game
      BY <3>1 DEF Game, GameStates
    <3>3. QED
      BY <1>1, <3>2 DEF JoinGame, TypeOK
  <2>2. tokens' \in [Accounts -> Int] /\ escrow' \in [Accounts -> Int] /\ vault' \in Int
    BY <1>0, <1>1, StakeType DEF JoinGame
  <2>3. QED
    BY <1>1, <2>1, <2>2 DEF JoinGame, TypeOK
<1>2. CASE CancelGame(g)
  <2>1. games' \in [GameIds -> Game]
    BY SMTT(30), <1>2 DEF CancelGame, TypeOK, Game, GameStates
  <2>2. tokens' \in [Accounts -> Int] /\ escrow' \in [Accounts -> Int] /\ vault' \in Int
    BY <1>0, <1>2, StakeType DEF CancelGame
  <2>3. settlements' \in [GameIds -> Nat]
    BY <1>2 DEF CancelGame, TypeOK
  <2>4. QED
    BY <1>2, <2>1, <2>2, <2>3 DEF CancelGame, TypeOK
<1>3. CASE SubmitMove(g)
  <2>1. games' \in [GameIds -> Game]
    BY <1>3, MoveBaseType DEF SubmitMove, TypeOK
  <2>2. QED
    BY <1>3, <2>1 DEF SubmitMove, TypeOK
<1>4. CASE SubmitMate(g)
  <2>1. OnTheClock(g) \in Accounts \cup {NoOne}
    BY <1>0 DEF OnTheClock
  <2>2. [MoveBase(g) EXCEPT !.state = "Completed", !.winner = OnTheClock(g)] \in Game
    BY <2>1, MoveBaseType DEF Game, GameStates
  <2>3. games' \in [GameIds -> Game]
    BY <1>4, <2>2 DEF SubmitMate, TypeOK
  <2>4. QED
    BY <1>4, <2>1, <2>3, PayoutType DEF SubmitMate, TypeOK
<1>5. CASE SubmitDrawingMove(g)
  <2>1. [MoveBase(g) EXCEPT !.state = "Drawn"] \in Game
    BY MoveBaseType DEF Game, GameStates
  <2>2. games' \in [GameIds -> Game]
    BY <1>5, <2>1 DEF SubmitDrawingMove, TypeOK
  <2>3. QED
    BY <1>5, <2>2, DrawPayoutType DEF SubmitDrawingMove, TypeOK
<1>6. CASE ClaimDraw(g)
  <2>1. games' \in [GameIds -> Game]
    BY SMTT(30), <1>6 DEF ClaimDraw, TypeOK, Game, GameStates
  <2>2. profiles' \in [Accounts -> Profile]
    BY <1>0, <1>6, RecordTypes DEF ClaimDraw
  <2>3. QED
    BY <1>6, <2>1, <2>2, DrawPayoutType DEF ClaimDraw, TypeOK
<1>7. ASSUME NEW w \in Accounts, ClaimWin(g, w)
      PROVE  TypeOK'
  BY <1>7, SettleForType DEF ClaimWin, TypeOK
<1>8. ASSUME NEW p \in Accounts, Forfeit(g, p)
      PROVE  TypeOK'
  <2>1. Opponent(g, p) \in Accounts \cup {NoOne}
    BY <1>0 DEF Opponent
  <2>2. QED
    BY <1>8, <2>1, SettleForType DEF Forfeit, TypeOK
<1>9. CASE ClaimTimeoutWin(g) \/ ClaimTimeoutVictory(g)
  <2>1. WaitingPlayer(g) \in Accounts \cup {NoOne}
    BY <1>0 DEF WaitingPlayer
  <2>2. QED
    BY <1>9, <2>1, SettleForType DEF ClaimTimeoutWin, ClaimTimeoutVictory, TypeOK
<1>10. CASE Payout(g)
  <2>1. games' \in [GameIds -> Game] /\ games[g].winner \in Accounts \cup {NoOne}
    BY <1>10 DEF Payout, TypeOK, Game, GameStates
  <2>2. QED
    BY <1>10, <2>1, PayoutType DEF Payout, TypeOK
<1>11. QED
  BY <1>1, <1>2, <1>3, <1>4, <1>5, <1>6, <1>7, <1>8, <1>9, <1>10 DEF GameStep

LEMMA CreateGameType ==
    ASSUME TypeOK, NEW p \in Accounts, NEW wager \in Wagers, CreateGame(p, wager)
    PROVE  TypeOK'
<1> USE DEF disputeVars, tourneyVars, adminVars, tokenVars
<1>1. gameCounter' \in 0..MaxGames /\ gameCounter + 1 \in GameIds
  BY SMTT(30), IdTypes DEF CreateGame, TypeOK, GameIds
<1>2. wager \in Int /\ seq \in Int
  BY IdTypes, ConstantsAssumption DEF TypeOK
<1>3. [NoGame EXCEPT !.state = "Created", !.player1 = p, !.wager = wager, !.lastMoveAt = seq] \in Game
  BY <1>2 DEF NoGame, Game, GameStates
<1>4. games' \in [GameIds -> Game]
  BY <1>1, <1>3 DEF CreateGame, TypeOK
<1>5. tokens' \in [Accounts -> Int] /\ escrow' \in [Accounts -> Int] /\ vault' \in Int
  BY <1>2, StakeType DEF CreateGame
<1>6. QED
  BY <1>1, <1>4, <1>5 DEF CreateGame, TypeOK

LEMMA PrizePoolType ==
    ASSUME TypeOK, NEW g \in GameIds
    PROVE  PrizePool(g) \in Int
BY DEF PrizePool, TypeOK, Game

LEMMA SplitsType ==
    ASSUME NEW s \in Splits
    PROVE  s[1] \in Accounts /\ s[2] \in Accounts /\ s[3] \in 0..100
BY ConstantsAssumption

LEMMA PrizeStepType ==
    ASSUME TypeOK, NEW g \in GameIds, PrizeStep(g)
    PROVE  TypeOK'
<1> USE DEF disputeVars, tourneyVars, adminVars, tokenVars
<1>0. PrizePool(g) \in Int /\ games[g].wager \in Int
  BY PrizePoolType DEF TypeOK, Game
<1>1. ASSUME NEW s \in Splits, PayoutTournament(g, s[1], s[2], s[3])
      PROVE  TypeOK'
  <2> DEFINE m     == games[g].wager
             p1    == games[g].player1
             p2    == games[g].player2
             minus == IF p2 = NoOne THEN Plus(escrow, p1, -m) ELSE Plus(Plus(escrow, p1, -m), p2, -m)
  <2>1. /\ p1 \in Accounts \cup {NoOne} /\ p2 \in Accounts \cup {NoOne} /\ -m \in Int
        /\ escrow \in [Accounts -> Int]
    BY DEF TypeOK, Game
  <2>2. minus \in [Accounts -> Int]
    <3> DEFINE n == -m
    <3>1. n \in Int
      BY <2>1
    <3> HIDE DEF n
    <3>2. Plus(escrow, p1, n) \in [Accounts -> Int] /\ Plus(Plus(escrow, p1, n), p2, n) \in [Accounts -> Int]
      BY <2>1, <3>1, PlusType, TwoPlusType
    <3>3. QED
      BY <3>2 DEF n
  <2>3. escrow' = Split(minus, s[1], s[2], PrizePool(g), s[3])
    BY <1>1 DEF PayoutTournament
  <2> HIDE DEF minus
  <2>4. escrow' \in [Accounts -> Int]
    BY <1>0, <2>2, <2>3, SplitsType, SplitType
  <2>5. games' \in [GameIds -> Game]
    BY SMTT(30), <1>1 DEF PayoutTournament, TypeOK, Game, GameStates
  <2>6. QED
    BY <1>1, <2>4, <2>5 DEF PayoutTournament, TypeOK
<1>2. ASSUME NEW s \in Splits, PayoutTournamentOptimized(g, s[1], s[2], s[3])
      PROVE  TypeOK'
  <2>1. tokens \in [Accounts -> Int]
    BY DEF TypeOK
  <2>2. tokens' \in [Accounts -> Int]
    BY <1>0, <1>2, <2>1, SplitsType, SplitType DEF PayoutTournamentOptimized
  <2>3. games' \in [GameIds -> Game]
    <3>1. games[g] \in Game
      BY DEF TypeOK
    <3>2. [games[g] EXCEPT !.state = "Settled"] \in Game
      BY <3>1 DEF Game, GameStates
    <3>3. QED
      BY <1>2, <3>2 DEF PayoutTournamentOptimized, TypeOK
  <2>4. vault' \in Int /\ settlements' \in [GameIds -> Nat]
    BY <1>0, <1>2 DEF PayoutTournamentOptimized, TypeOK
  <2>5. QED
    BY <1>2, <2>2, <2>3, <2>4 DEF PayoutTournamentOptimized, TypeOK
<1>3. CASE CreateTournamentEscrow(g)
  <2>1. tourneyCount' \in 0..MaxTourneys /\ tourneyCount + 1 \in EscrowIds
    BY <1>3, IdTypes DEF CreateTournamentEscrow, TypeOK, EscrowIds
  <2>2. games[g].player1 \in Accounts \cup {NoOne} /\ cfg.timelock \in Int /\ seq \in Int
    BY IdTypes DEF TypeOK, Game, Config
  <2>3. [status |-> "Locked", game |-> g, player |-> games[g].player1,
         total |-> PrizePool(g), lockedUntil |-> seq + cfg.timelock] \in Tourney
    BY <1>0, <2>2 DEF Tourney
  <2>4. tourneys' \in [EscrowIds -> Tourney]
    BY <1>3, <2>1, <2>3 DEF CreateTournamentEscrow, TypeOK
  <2>5. activeEscrows' \in [Accounts -> Int]
    <3> DEFINE p   == games[g].player1
               one == 1
    <3>1. /\ activeEscrows \in [Accounts -> Int]
          /\ p \in Accounts \cup {NoOne} /\ one \in Int
      BY <2>2 DEF TypeOK
    <3>2. activeEscrows' = Plus(activeEscrows, p, one)
      BY <1>3 DEF CreateTournamentEscrow
    <3> HIDE DEF p, one
    <3>3. QED
      BY <3>1, <3>2, PlusType
  <2>6. QED
    BY <1>3, <2>1, <2>4, <2>5 DEF CreateTournamentEscrow, TypeOK
<1>4. QED
  BY <1>1, <1>2, <1>3 DEF PrizeStep

LEMMA EscrowStepType ==
    ASSUME TypeOK, NEW e \in EscrowIds, EscrowStep(e)
    PROVE  TypeOK'
<1> USE DEF disputeVars, tourneyVars, adminVars, tokenVars
<1>1. PICK s \in Splits : ReleaseTournamentEscrow(e, s[1], s[2], s[3])
  BY DEF EscrowStep
<1>2. /\ tourneys[e].total \in Int /\ tourneys[e].game \in GameIds
      /\ tourneys[e].player \in Accounts \cup {NoOne} /\ tokens \in [Accounts -> Int]
  BY DEF TypeOK, Tourney
<1>3. tokens' \in [Accounts -> Int]
  BY <1>1, <1>2, SplitsType, SplitType DEF ReleaseTournamentEscrow
<1>4. tourneys' \in [EscrowIds -> Tourney]
  BY <1>1 DEF ReleaseTournamentEscrow, TypeOK, Tourney
<1>5. activeEscrows' \in [Accounts -> Int]
  <2>1. CASE tourneys[e].player \in Accounts
    BY <1>1, <2>1 DEF ReleaseTournamentEscrow, TypeOK, OneLess
  <2>2. CASE tourneys[e].player \notin Accounts
    BY <1>1, <2>2 DEF ReleaseTournamentEscrow, TypeOK, OneLess
  <2>3. QED
    BY <2>1, <2>2
<1>6. vault' \in Int /\ settlements' \in [GameIds -> Nat]
  BY <1>1, <1>2 DEF ReleaseTournamentEscrow, TypeOK
<1>7. QED
  BY <1>1, <1>3, <1>4, <1>5, <1>6 DEF ReleaseTournamentEscrow, TypeOK

LEMMA FileDisputeType ==
    ASSUME TypeOK, NEW g \in GameIds, NEW p \in Accounts, FileDispute(g, p)
    PROVE  TypeOK'
<1> USE DEF disputeVars, tourneyVars, adminVars, tokenVars
<1>0. cfg.disputeFee \in Int
  BY DEF TypeOK, Config
<1>1. disputeCounter' \in 0..MaxDisputes /\ disputeCounter + 1 \in DisputeIds
  BY IdTypes DEF FileDispute, TypeOK, DisputeIds
<1>2. [status |-> "Pending", game |-> g, filer |-> p, paidFee |-> cfg.disputeFee, refund |-> 0] \in Dispute
  BY <1>0, <1>1 DEF Dispute
<1>3. disputes' \in [DisputeIds -> Dispute]
  BY <1>1, <1>2 DEF FileDispute, TypeOK
<1>4. tokens' \in [Accounts -> Int] /\ vault' \in Int
  BY <1>0, StakeType DEF FileDispute
<1>5. QED
  BY <1>1, <1>3, <1>4 DEF FileDispute, TypeOK

LEMMA DisputeStepType ==
    ASSUME TypeOK, NEW d \in DisputeIds, DisputeStep(d)
    PROVE  TypeOK'
<1> USE DEF disputeVars, tourneyVars, adminVars, tokenVars
<1>0. cfg.disputeFee \in Int
  BY DEF TypeOK, Config
<1>1. disputes[d].game \in GameIds /\ disputes[d].filer \in Accounts \cup {NoOne}
  BY DEF TypeOK, Dispute
<1>2. ASSUME NEW w \in Accounts, ResolveDisputeForWinner(d, w)
      PROVE  TypeOK'
  <2>1. disputes' \in [DisputeIds -> Dispute]
    BY <1>2 DEF ResolveDisputeForWinner, TypeOK, Dispute
  <2>2. QED
    BY <1>1, <1>2, <2>1, SettleForType DEF ResolveDisputeForWinner, TypeOK
<1>3. CASE ResolveDisputeAsDraw(d)
  <2>1. disputes' \in [DisputeIds -> Dispute]
    BY <1>3 DEF ResolveDisputeAsDraw, TypeOK, Dispute
  <2>2. games' \in [GameIds -> Game]
    <3>1. games \in [GameIds -> Game] /\ games[disputes[d].game] \in Game
      BY <1>1 DEF TypeOK
    <3>2. [games[disputes[d].game] EXCEPT !.state = "Drawn"] \in Game
      BY <3>1 DEF Game, GameStates
    <3>3. games' = [games EXCEPT ![disputes[d].game] =
                      [games[disputes[d].game] EXCEPT !.state = "Drawn"]]
      BY <1>3 DEF ResolveDisputeAsDraw
    <3>4. QED
      BY <1>1, <3>1, <3>2, <3>3
  <2>3. QED
    BY <1>1, <1>3, <2>1, <2>2, DrawPayoutType DEF ResolveDisputeAsDraw, TypeOK
<1>4. CASE RejectDispute(d)
  <2>1. disputes' \in [DisputeIds -> Dispute]
    <3>1. cfg.disputeFee \in Int /\ disputes[d] \in Dispute
      BY <1>0 DEF TypeOK
    <3>2. [disputes[d] EXCEPT !.status = "Rejected", !.refund = cfg.disputeFee] \in Dispute
      BY <3>1 DEF Dispute
    <3>3. QED
      BY <1>4, <3>2 DEF RejectDispute, TypeOK
  <2>2. tokens' \in [Accounts -> Int] /\ vault' \in Int
    BY <1>0, <1>1, <1>4, StakeType DEF RejectDispute
  <2>3. QED
    BY <1>4, <2>1, <2>2 DEF RejectDispute, TypeOK
<1>5. QED
  BY <1>2, <1>3, <1>4 DEF DisputeStep

\* An admin call writes a well-typed configuration and nothing else.
LEMMA AdminCallType ==
    ASSUME TypeOK, NEW newCfg \in Config, AdminCall(newCfg)
    PROVE  TypeOK'
BY IdTypes DEF AdminCall, TypeOK, disputeVars, tourneyVars, tokenVars

\* What the admin may be asked to write.
LEMMA ChoiceTypes ==
    /\ StakeLimits \subseteq Int /\ PoolLimits \subseteq Int /\ FeeChoices \subseteq Int
    /\ DisputeFees \subseteq Int /\ Durations \subseteq Int /\ Ratings \subseteq Int
BY ConstantsAssumption

LEMMA AdminStepType ==
    ASSUME TypeOK, AdminStep
    PROVE  TypeOK'
<1>0. cfg \in Config
  BY DEF TypeOK
<1>1. CASE Pause \/ Unpause
  <2>1. [cfg EXCEPT !.paused = TRUE] \in Config /\ [cfg EXCEPT !.paused = FALSE] \in Config
    BY <1>0 DEF Config
  <2>2. QED
    BY <1>1, <2>1, AdminCallType DEF Pause, Unpause
<1>2. CASE AddWhitelistedToken \/ RemoveWhitelistedToken
  <2>1. [cfg EXCEPT !.whitelisted = TRUE] \in Config /\ [cfg EXCEPT !.whitelisted = FALSE] \in Config
    BY <1>0 DEF Config
  <2>2. QED
    BY <1>2, <2>1, AdminCallType DEF AddWhitelistedToken, RemoveWhitelistedToken
<1>3. ASSUME NEW n \in StakeLimits, SetMaxStake(n)
      PROVE  TypeOK'
  <2>1. [cfg EXCEPT !.maxStake = n] \in Config
    BY <1>0, ChoiceTypes DEF Config
  <2>2. QED
    BY <1>3, <2>1, AdminCallType DEF SetMaxStake
<1>4. ASSUME NEW n \in PoolLimits, SetMaxPrizePool(n)
      PROVE  TypeOK'
  <2>1. [cfg EXCEPT !.maxPrizePool = n] \in Config
    BY <1>0, ChoiceTypes DEF Config
  <2>2. QED
    BY <1>4, <2>1, AdminCallType DEF SetMaxPrizePool
<1>5. ASSUME NEW b \in FeeChoices, NEW t \in Accounts, ConfigureFees(b, t)
      PROVE  TypeOK'
  <2>1. [cfg EXCEPT !.feeBips = b, !.treasury = t] \in Config
    BY <1>0, ChoiceTypes DEF Config
  <2>2. QED
    BY <1>5, <2>1, AdminCallType DEF ConfigureFees
<1>6. ASSUME NEW fee \in DisputeFees, ConfigureDisputeSystem(fee)
      PROVE  TypeOK'
  <2>1. [cfg EXCEPT !.arbitrator = TRUE, !.disputeFee = fee] \in Config
    BY <1>0, ChoiceTypes DEF Config
  <2>2. QED
    BY <1>6, <2>1, AdminCallType DEF ConfigureDisputeSystem
<1>7. ASSUME NEW n \in Durations, ConfigureTimeout(n) \/ ConfigureTournamentTimelock(n)
      PROVE  TypeOK'
  <2>1. [cfg EXCEPT !.timeout = n] \in Config /\ [cfg EXCEPT !.timelock = n] \in Config
    BY <1>0, ChoiceTypes DEF Config
  <2>2. QED
    BY <1>7, <2>1, AdminCallType DEF ConfigureTimeout, ConfigureTournamentTimelock
<1>8. ASSUME NEW n \in Durations, NEW b \in Durations, ConfigureTimeoutDeadline(n, b)
      PROVE  TypeOK'
  <2>1. [cfg EXCEPT !.deadline = n, !.buffer = b] \in Config
    BY <1>0, ChoiceTypes DEF Config
  <2>2. QED
    BY <1>8, <2>1, AdminCallType DEF ConfigureTimeoutDeadline
<1>9. ASSUME NEW p \in Accounts, NEW r \in Ratings, SetPlayerRating(p, r)
      PROVE  TypeOK'
  <2>1. profiles' \in [Accounts -> Profile]
    BY <1>9, ChoiceTypes, ProfileTypes DEF SetPlayerRating, TypeOK
  <2>2. adminCalls' \in 0..MaxAdminCalls
    BY <1>9, IdTypes DEF SetPlayerRating, TypeOK
  <2>3. QED
    BY <1>9, <2>1, <2>2 DEF SetPlayerRating, TypeOK, tokenVars, disputeVars, tourneyVars
<1>10. QED
  BY <1>1, <1>2, <1>3, <1>4, <1>5, <1>6, <1>7, <1>8, <1>9 DEF AdminStep

LEMMA StutterType ==
    ASSUME TypeOK, UNCHANGED vars
    PROVE  TypeOK'
BY DEF TypeOK, vars, tokenVars, disputeVars, tourneyVars, adminVars

LEMMA NextType ==
    ASSUME TypeOK, [Next]_vars
    PROVE  TypeOK'
<1>1. CASE LedgerCloses
  <2>1. seq' \in 0..MaxSeq
    BY <1>1, IdTypes DEF LedgerCloses, TypeOK
  <2>2. QED
    BY <1>1, <2>1 DEF LedgerCloses, TypeOK, tokenVars, disputeVars, tourneyVars, adminVars
<1>2. CASE UNCHANGED vars
  BY <1>2, StutterType
<1>3. QED
  BY <1>1, <1>2, CreateGameType, GameStepType, PrizeStepType, EscrowStepType, FileDisputeType,
     DisputeStepType, AdminStepType DEF Next

LEMMA InitType ==
    ASSUME Init
    PROVE  TypeOK
<1>1. cfg \in Config
  BY InitialCfgsAssumption DEF Init, Config
<1>2. NoGame \in Game /\ FreshProfile \in Profile
  BY DEF NoGame, Game, GameStates, FreshProfile, Profile
<1>3. 1 \in GameIds
  BY ConstantsAssumption DEF GameIds
<1>4. /\ games \in [GameIds -> Game] /\ profiles \in [Accounts -> Profile]
      /\ settlements \in [GameIds -> Nat]
  BY <1>2 DEF Init
<1>5. disputes \in [DisputeIds -> Dispute]
  BY <1>3 DEF Init, Dispute
<1>6. tourneys \in [EscrowIds -> Tourney]
  BY <1>3 DEF Init, Tourney
<1>7. /\ escrow \in [Accounts -> Int] /\ activeEscrows \in [Accounts -> Int]
      /\ tokens \in [Accounts -> Int] /\ vault \in Int
  BY ConstantsAssumption DEF Init
<1>8. /\ gameCounter \in 0..MaxGames /\ disputeCounter \in 0..MaxDisputes
      /\ tourneyCount \in 0..MaxTourneys /\ seq \in 0..MaxSeq /\ adminCalls \in 0..MaxAdminCalls
  BY IdTypes DEF Init
<1>9. QED
  BY <1>1, <1>4, <1>5, <1>6, <1>7, <1>8 DEF TypeOK

\* Every variable keeps its type, whatever calls are made in whatever order.
THEOREM TypeCorrect == Spec => []TypeOK
<1>1. Init => TypeOK
  BY InitType
<1>2. TypeOK /\ [Next]_vars => TypeOK'
  BY NextType
<1>3. QED
  BY <1>1, <1>2, PTL DEF Spec

-----------------------------------------------------------------------------
(* Safety.                                                                 *)

\* The ways a game record may change, with the number of settlements made.
Evolves(old, new, paid) ==
    /\ new.player1 = old.player1 /\ new.wager = old.wager
    /\ \/ /\ old.state = "Created" /\ new.state = "InProgress" /\ paid = 0
          /\ new.player2 \in Accounts \ {old.player1} /\ new.winner = old.winner
       \/ /\ old.state = "Created" /\ new.state = "Completed" /\ paid = 1
          /\ new.player2 = old.player2 /\ new.winner = old.winner
       \/ /\ old.state = "InProgress" /\ new.state = "InProgress" /\ paid = 0
          /\ new.player2 = old.player2 /\ new.winner = old.winner
       \/ /\ old.state = "InProgress" /\ new.state = "Drawn" /\ paid = 1
          /\ new.player2 = old.player2 /\ new.winner = old.winner
       \/ /\ old.state = "InProgress" /\ new.state \in {"Completed", "Settled"} /\ paid = 1
          /\ new.player2 = old.player2 /\ new.winner \in {old.player1, old.player2}
       \/ /\ old.state = "Completed" /\ new.state = "Settled"
          /\ new.player2 = old.player2 /\ new.winner = old.winner

Evolving(g) ==
    /\ gameCounter' = gameCounter
    /\ \E r \in Game, k \in {0, 1} :
          /\ games' = [games EXCEPT ![g] = r]
          /\ settlements' = [settlements EXCEPT ![g] = @ + k]
          /\ Evolves(games[g], r, k)

LEMMA EvolvingBy ==
    ASSUME NEW g \in GameIds, NEW r \in Game, NEW k \in {0, 1}, gameCounter' = gameCounter,
           games' = [games EXCEPT ![g] = r], settlements' = [settlements EXCEPT ![g] = @ + k],
           Evolves(games[g], r, k)
    PROVE  Evolving(g)
BY DEF Evolving

LEMMA SameSettlements ==
    ASSUME TypeOK, NEW g \in GameIds
    PROVE  settlements = [settlements EXCEPT ![g] = @ + 0]
BY DEF TypeOK

\* A change of one of the six kinds keeps a game coherent and correctly paid,
\* and leaves the identity and the wager of seated players alone.
LEMMA EvolvesSound ==
    ASSUME NEW old \in Game, NEW new \in Game, NEW n \in Nat, NEW k \in {0, 1},
           Evolves(old, new, k), CoherentGame(old), PaidFor(old.state, n)
    PROVE  /\ old.state \in {"Created", "InProgress", "Completed"} /\ new.state # "Absent"
           /\ CoherentGame(new) /\ PaidFor(new.state, n + k)
           /\ Seated(old) => Seated(new)
           /\ old.state = "Completed" => (new.state = "Settled" /\ (Seated(old) <=> Seated(new)))
<1>1. /\ old.state \in {"Created", "InProgress", "Completed"} /\ new.state # "Absent"
      /\ CoherentGame(new)
      /\ Seated(old) => Seated(new)
      /\ old.state = "Completed" => (new.state = "Settled" /\ (Seated(old) <=> Seated(new)))
  BY ConstantsAssumption DEF Evolves, CoherentGame, Seated, Live, Game
<1>2. PaidFor(new.state, n + k)
  BY DEF Evolves, PaidFor, Live
<1>3. QED
  BY <1>1, <1>2

\* The tail shared by the winning handlers is of the fifth kind.
LEMMA SettleForEvolves ==
    ASSUME TypeOK, NEW g \in GameIds, NEW w, games[g].state = "InProgress",
           w \in {games[g].player1, games[g].player2}, SettleFor(g, w), gameCounter' = gameCounter
    PROVE  Evolving(g)
<1> DEFINE r == [games[g] EXCEPT !.state = "Settled", !.winner = w]
<1>1. games[g] \in Game
  BY DEF TypeOK
<1>2. r \in Game /\ Evolves(games[g], r, 1)
  BY <1>1 DEF Game, GameStates, Evolves
<1>3. games' = [games EXCEPT ![g] = r] /\ settlements' = [settlements EXCEPT ![g] = @ + 1]
  BY DEF SettleFor, ProcessPayout
<1>4. QED
  BY <1>2, <1>3 DEF Evolving

\* Both players of a running game are candidates for the win, and the account
\* that a handler picks is always one of them.
LEMMA PlayersOf ==
    ASSUME NEW g \in GameIds, NEW p
    PROVE  /\ p \in Players(g) => p \in {games[g].player1, games[g].player2}
           /\ Opponent(g, p) \in {games[g].player1, games[g].player2}
           /\ WaitingPlayer(g) \in {games[g].player1, games[g].player2}
           /\ OnTheClock(g) \in {games[g].player1, games[g].player2}
BY DEF Players, Opponent, WaitingPlayer, OnTheClock

LEMMA GameStepEvolves ==
    ASSUME TypeOK, GamesCoherent, NEW g \in GameIds, GameStep(g)
    PROVE  /\ Evolving(g)
           /\ UNCHANGED <<tourneys, tourneyCount, disputes, disputeCounter>>
<1> USE DEF disputeVars, tourneyVars, adminVars
<1>a. UNCHANGED <<tourneys, tourneyCount, disputes, disputeCounter>>
  BY DEF GameStep, JoinGame, CancelGame, SubmitMove, SubmitMate, SubmitDrawingMove, ClaimDraw,
         ClaimWin, Forfeit, ClaimTimeoutWin, ClaimTimeoutVictory, Payout
<1>b. SUFFICES Evolving(g)
  BY <1>a
<1>0. games[g] \in Game /\ seq \in Int
  BY IdTypes DEF TypeOK
<1>1. ASSUME NEW p \in Accounts, JoinGame(g, p)
      PROVE  Evolving(g)
  <2> DEFINE r == [games[g] EXCEPT !.state = "InProgress", !.player2 = p, !.turn = 1,
                                   !.lastMoveAt = seq]
  <2>1. r \in Game /\ Evolves(games[g], r, 0)
    BY <1>0, <1>1 DEF Game, GameStates, Evolves, JoinGame, SeatFree
  <2>2. games' = [games EXCEPT ![g] = r] /\ settlements' = settlements /\ gameCounter' = gameCounter
    BY <1>1 DEF JoinGame
  <2>3. QED
    BY <2>1, <2>2, SameSettlements, EvolvingBy
<1>2. CASE CancelGame(g)
  <2> DEFINE r == [games[g] EXCEPT !.state = "Completed"]
  <2>1. r \in Game /\ Evolves(games[g], r, 1)
    BY <1>0, <1>2 DEF Game, GameStates, Evolves, CancelGame
  <2>2. /\ games' = [games EXCEPT ![g] = r] /\ gameCounter' = gameCounter
        /\ settlements' = [settlements EXCEPT ![g] = @ + 1]
    BY <1>2 DEF CancelGame
  <2>3. QED
    BY <2>1, <2>2, EvolvingBy
<1>3. CASE SubmitMove(g)
  <2>1. MoveBase(g) \in Game
    BY MoveBaseType
  <2>2. Evolves(games[g], MoveBase(g), 0)
    BY <1>0, <1>3 DEF Game, Evolves, SubmitMove, InPlay, MoveBase
  <2>3. /\ games' = [games EXCEPT ![g] = MoveBase(g)] /\ gameCounter' = gameCounter
        /\ settlements' = settlements
    BY <1>3 DEF SubmitMove
  <2>4. QED
    BY <2>1, <2>2, <2>3, SameSettlements, EvolvingBy
<1>4. CASE SubmitMate(g) \/ SubmitDrawingMove(g)
  <2>1. MoveBase(g) \in Game
    BY MoveBaseType
  <2>2. CASE SubmitMate(g)
    <3> DEFINE r == [MoveBase(g) EXCEPT !.state = "Completed", !.winner = OnTheClock(g)]
    <3>1. OnTheClock(g) \in Accounts \cup {NoOne}
      BY <1>0 DEF OnTheClock, Game
    <3>2. r \in Game
      BY <2>1, <3>1 DEF Game, GameStates
    <3>3. Evolves(games[g], r, 1)
      BY <1>0, <2>2, PlayersOf DEF Evolves, SubmitMate, InPlay, MoveBase, Game
    <3>4. /\ games' = [games EXCEPT ![g] = r] /\ gameCounter' = gameCounter
          /\ settlements' = [settlements EXCEPT ![g] = @ + 1]
      BY <2>2 DEF SubmitMate, ProcessPayout
    <3>5. QED
      BY <3>2, <3>3, <3>4, EvolvingBy
  <2>3. CASE SubmitDrawingMove(g)
    <3> DEFINE r == [MoveBase(g) EXCEPT !.state = "Drawn"]
    <3>1. r \in Game
      BY <2>1 DEF Game, GameStates
    <3>2. Evolves(games[g], r, 1)
      BY <1>0, <2>3 DEF Evolves, SubmitDrawingMove, InPlay, MoveBase, Game
    <3>3. /\ games' = [games EXCEPT ![g] = r] /\ gameCounter' = gameCounter
          /\ settlements' = [settlements EXCEPT ![g] = @ + 1]
      BY <2>3 DEF SubmitDrawingMove, ProcessDrawPayout
    <3>4. QED
      BY <3>1, <3>2, <3>3, EvolvingBy
  <2>4. QED
    BY <1>4, <2>2, <2>3
<1>5. CASE ClaimDraw(g)
  <2> DEFINE r == [games[g] EXCEPT !.state = "Drawn"]
  <2>1. r \in Game /\ Evolves(games[g], r, 1)
    BY <1>0, <1>5 DEF Game, GameStates, Evolves, ClaimDraw, InPlay
  <2>2. /\ games' = [games EXCEPT ![g] = r] /\ gameCounter' = gameCounter
        /\ settlements' = [settlements EXCEPT ![g] = @ + 1]
    BY <1>5 DEF ClaimDraw, ProcessDrawPayout
  <2>3. QED
    BY <2>1, <2>2, EvolvingBy
<1>6. ASSUME NEW p \in Accounts, ClaimWin(g, p) \/ Forfeit(g, p)
      PROVE  Evolving(g)
  BY <1>6, PlayersOf, SettleForEvolves DEF ClaimWin, Forfeit, InPlay
<1>7. CASE ClaimTimeoutWin(g) \/ ClaimTimeoutVictory(g)
  BY <1>7, PlayersOf, SettleForEvolves DEF ClaimTimeoutWin, ClaimTimeoutVictory, InPlay
<1>8. CASE Payout(g)
  <2> DEFINE r == [games[g] EXCEPT !.state = "Settled"]
  <2>1. r \in Game /\ Evolves(games[g], r, 1)
    BY <1>0, <1>8 DEF Game, GameStates, Evolves, Payout
  <2>2. /\ games' = [games EXCEPT ![g] = r] /\ gameCounter' = gameCounter
        /\ settlements' = [settlements EXCEPT ![g] = @ + 1]
    BY <1>8 DEF Payout, ProcessPayout
  <2>3. QED
    BY <2>1, <2>2, EvolvingBy
<1>9. QED
  BY <1>1, <1>2, <1>3, <1>4, <1>5, <1>6, <1>7, <1>8 DEF GameStep

LEMMA PrizeStepEvolves ==
    ASSUME TypeOK, NEW g \in GameIds, PrizeStep(g), ~CreateTournamentEscrow(g)
    PROVE  /\ Evolving(g)
           /\ UNCHANGED <<tourneys, tourneyCount, disputes, disputeCounter>>
<1> USE DEF disputeVars, tourneyVars, adminVars
<1>a. UNCHANGED <<tourneys, tourneyCount, disputes, disputeCounter>>
  BY DEF PrizeStep, PayoutTournament, PayoutTournamentOptimized
<1>b. SUFFICES Evolving(g)
  BY <1>a
<1> DEFINE r == [games[g] EXCEPT !.state = "Settled"]
<1>0. games[g] \in Game
  BY DEF TypeOK
<1>1. r \in Game /\ \A k : games[g].state = "Completed" => Evolves(games[g], r, k)
  BY <1>0 DEF Game, GameStates, Evolves
<1>2. ASSUME NEW s \in Splits, PayoutTournament(g, s[1], s[2], s[3])
      PROVE  Evolving(g)
  <2>1. /\ games[g].state = "Completed" /\ games' = [games EXCEPT ![g] = r]
        /\ settlements' = settlements /\ gameCounter' = gameCounter
    BY <1>2 DEF PayoutTournament
  <2>2. QED
    BY <1>1, <2>1, SameSettlements, EvolvingBy
<1>3. ASSUME NEW s \in Splits, PayoutTournamentOptimized(g, s[1], s[2], s[3])
      PROVE  Evolving(g)
  <2>1. /\ games[g].state = "Completed" /\ games' = [games EXCEPT ![g] = r]
        /\ settlements' = [settlements EXCEPT ![g] = @ + 1] /\ gameCounter' = gameCounter
    BY <1>3 DEF PayoutTournamentOptimized
  <2>2. QED
    BY <1>1, <2>1, EvolvingBy
<1>4. QED
  BY <1>2, <1>3 DEF PrizeStep

LEMMA ResolveEvolves ==
    ASSUME TypeOK, NEW d \in DisputeIds,
           (\E w \in Accounts : ResolveDisputeForWinner(d, w)) \/ ResolveDisputeAsDraw(d)
    PROVE  /\ Evolving(disputes[d].game)
           /\ games[disputes[d].game].state = "InProgress"
           /\ games'[disputes[d].game].state \in {"Drawn", "Settled"}
           /\ disputes[d].status = "Pending"
           /\ disputes' = [disputes EXCEPT ![d].status = "Resolved"]
           /\ UNCHANGED <<tourneys, tourneyCount, disputeCounter>>
<1> DEFINE g == disputes[d].game
<1>0. g \in GameIds /\ games[g] \in Game
  BY DEF TypeOK, Dispute
<1>1. /\ games[g].state = "InProgress" /\ disputes[d].status = "Pending"
      /\ disputes' = [disputes EXCEPT ![d].status = "Resolved"]
      /\ UNCHANGED <<tourneys, tourneyCount, disputeCounter>>
  BY DEF ResolveDisputeForWinner, ResolveDisputeAsDraw, InPlay, tourneyVars
<1>2. games'[g].state \in {"Drawn", "Settled"}
  <2>1. games \in [GameIds -> Game]
    BY DEF TypeOK
  <2>2. ASSUME NEW w \in Accounts, ResolveDisputeForWinner(d, w)
        PROVE  games'[g].state = "Settled"
    <3>1. games' = [games EXCEPT ![g] = [@ EXCEPT !.state = "Settled", !.winner = w]]
      BY <2>2 DEF ResolveDisputeForWinner, SettleFor
    <3>2. games'[g] = [games[g] EXCEPT !.state = "Settled", !.winner = w]
      BY <1>0, <2>1, <3>1
    <3>3. QED
      BY <1>0, <3>2 DEF Game
  <2>3. CASE ResolveDisputeAsDraw(d)
    BY <1>0, <2>1, <2>3 DEF ResolveDisputeAsDraw, Game
  <2>4. QED
    BY <2>2, <2>3
<1>3. Evolving(g)
  <2>1. ASSUME NEW w \in Accounts, ResolveDisputeForWinner(d, w)
        PROVE  Evolving(g)
    <3>1. SettleFor(g, w) /\ w \in Players(g) /\ gameCounter' = gameCounter
      BY <2>1 DEF ResolveDisputeForWinner
    <3>2. QED
      BY <1>0, <1>1, <3>1, PlayersOf, SettleForEvolves
  <2>2. CASE ResolveDisputeAsDraw(d)
    <3> DEFINE r == [games[g] EXCEPT !.state = "Drawn"]
    <3>1. r \in Game /\ Evolves(games[g], r, 1)
      BY <1>0, <1>1 DEF Game, GameStates, Evolves
    <3>2. /\ games' = [games EXCEPT ![g] = r] /\ gameCounter' = gameCounter
          /\ settlements' = [settlements EXCEPT ![g] = @ + 1]
      BY <2>2 DEF ResolveDisputeAsDraw, ProcessDrawPayout
    <3>3. QED
      BY <1>0, <3>1, <3>2, EvolvingBy
  <2>3. QED
    BY <2>1, <2>2
<1>4. QED
  BY <1>1, <1>2, <1>3

\* What one such change can do to any game, the one it is about or another.
LEMMA EvolvingKeeps ==
    ASSUME TypeOK, GamesCoherent, PaidByState, NEW g \in GameIds, Evolving(g), NEW h \in GameIds
    PROVE  /\ games[g].state \in {"Created", "InProgress", "Completed"}
           /\ h # g => games'[h] = games[h] /\ settlements'[h] = settlements[h]
           /\ games'[h].player1 = games[h].player1 /\ games'[h].wager = games[h].wager
           /\ games[h].state # "Created" => games'[h].player2 = games[h].player2
           /\ games[h].state = "Completed" => /\ games'[h].state \in {"Completed", "Settled"}
                                              /\ games'[h].winner = games[h].winner
           /\ games[h].state \in {"Drawn", "Settled"} => games'[h] = games[h]
           /\ games[h].state = "Absent" <=> games'[h].state = "Absent"
           /\ CoherentGame(games'[h]) /\ PaidFor(games'[h].state, settlements'[h])
<1>1. PICK r \in Game, k \in {0, 1} :
          /\ games' = [games EXCEPT ![g] = r]
          /\ settlements' = [settlements EXCEPT ![g] = @ + k]
          /\ Evolves(games[g], r, k)
  BY DEF Evolving
<1>2. /\ games \in [GameIds -> Game] /\ settlements \in [GameIds -> Nat]
      /\ games[g] \in Game /\ settlements[g] \in Nat
  BY DEF TypeOK
<1>3. games'[g] = r /\ settlements'[g] = settlements[g] + k
  BY <1>1, <1>2
<1>4. \A i \in GameIds : CoherentGame(games[i]) /\ PaidFor(games[i].state, settlements[i])
  BY DEF GamesCoherent, PaidByState
<1>5. /\ games[g].state \in {"Created", "InProgress", "Completed"} /\ r.state # "Absent"
      /\ CoherentGame(r) /\ PaidFor(r.state, settlements'[g])
      /\ games[g].state = "Completed" => r.state = "Settled"
  BY <1>1, <1>2, <1>3, <1>4, EvolvesSound
<1>6. CASE h = g
  <2>1. /\ r.player1 = games[g].player1 /\ r.wager = games[g].wager
        /\ games[g].state # "Created" => r.player2 = games[g].player2
        /\ games[g].state = "Completed" => r.winner = games[g].winner
    BY <1>1 DEF Evolves
  <2>2. QED
    BY <1>3, <1>5, <1>6, <2>1
<1>7. CASE h # g
  <2>1. games'[h] = games[h] /\ settlements'[h] = settlements[h]
    BY <1>1, <1>2, <1>7
  <2>2. QED
    BY <1>4, <1>5, <1>7, <2>1
<1>8. QED
  BY <1>6, <1>7

\* The part of IndInv that says more than the types.
Coherence == GamesCoherent /\ PaidByState /\ TourneysCoherent /\ DisputesCoherent

LEMMA EvolvingGames ==
    ASSUME IndInv, NEW g \in GameIds, Evolving(g)
    PROVE  GamesCoherent' /\ PaidByState'
<1>1. TypeOK /\ GamesCoherent /\ PaidByState /\ gameCounter' = gameCounter
  BY DEF IndInv, Evolving
<1>2. GamesCoherent'
  <2>1. ASSUME NEW h \in GameIds
        PROVE  (games'[h].state = "Absent" <=> h > gameCounter') /\ CoherentGame(games'[h])
    <3>1. games[h].state = "Absent" <=> h > gameCounter
      BY <1>1 DEF GamesCoherent
    <3>2. QED
      BY <1>1, <3>1, EvolvingKeeps
  <2>2. QED
    BY <2>1 DEF GamesCoherent, CoherentGame, Seated
<1>3. PaidByState'
  <2>1. \A h \in GameIds : PaidFor(games'[h].state, settlements'[h])
    BY <1>1, EvolvingKeeps
  <2>2. QED
    BY <2>1 DEF PaidByState, PaidFor
<1>4. QED
  BY <1>2, <1>3

LEMMA EvolvingTourneys ==
    ASSUME IndInv, NEW g \in GameIds, Evolving(g), UNCHANGED <<tourneys, tourneyCount>>
    PROVE  TourneysCoherent'
<1>1. TypeOK /\ GamesCoherent /\ PaidByState /\ TourneysCoherent
  BY DEF IndInv
<1>2. ASSUME NEW e \in EscrowIds, tourneys[e].status # "Absent"
      PROVE  LET game == games'[tourneys[e].game]
             IN  /\ game.state \in {"Completed", "Settled"}
                 /\ tourneys[e].player = game.player1
                 /\ tourneys[e].total = IF Seated(game) THEN 2 * game.wager ELSE game.wager
  <2> DEFINE h == tourneys[e].game
  <2>1. /\ games[h].state \in {"Completed", "Settled"}
        /\ tourneys[e].player = games[h].player1
        /\ tourneys[e].total = IF Seated(games[h]) THEN 2 * games[h].wager ELSE games[h].wager
    BY <1>1, <1>2 DEF TourneysCoherent
  <2>2. h \in GameIds
    BY <1>1 DEF TypeOK, Tourney
  <2>3. /\ games'[h].state \in {"Completed", "Settled"} /\ games'[h].wager = games[h].wager
        /\ games'[h].player1 = games[h].player1 /\ games'[h].player2 = games[h].player2
    BY <1>1, <2>1, <2>2, EvolvingKeeps
  <2>4. Seated(games'[h]) <=> Seated(games[h])
    BY <2>3 DEF Seated
  <2>5. QED
    BY <2>1, <2>3, <2>4
<1>3. QED
  BY <1>1, <1>2 DEF TourneysCoherent, Seated

\* The players of a dispute's game, and its status, survive such a change.
LEMMA EvolvingDispute ==
    ASSUME IndInv, NEW g \in GameIds, Evolving(g), NEW d \in DisputeIds,
           disputes[d].status # "Absent"
    PROVE  LET game == games'[disputes[d].game]
           IN  /\ Seated(game) /\ disputes[d].filer \in {game.player1, game.player2} \ {NoOne}
               /\ disputes[d].status = "Resolved" => /\ game.state \in {"Drawn", "Settled"}
                                                     /\ disputes[d].game # g
<1> DEFINE h == disputes[d].game
<1>1. /\ TypeOK /\ GamesCoherent /\ PaidByState /\ DisputesCoherent /\ h \in GameIds
      /\ CoherentGame(games[h])
  BY DEF IndInv, TypeOK, Dispute, GamesCoherent
<1>2. /\ Seated(games[h]) /\ disputes[d].filer \in Players(h)
      /\ disputes[d].status = "Resolved" => games[h].state \in {"Drawn", "Settled"}
  BY <1>1 DEF DisputesCoherent
<1>3. games[h].state # "Created"
  BY <1>1, <1>2, ConstantsAssumption DEF CoherentGame, Seated
<1>4. /\ games[g].state \in {"Created", "InProgress", "Completed"}
      /\ games'[h].player1 = games[h].player1 /\ games'[h].player2 = games[h].player2
      /\ games[h].state \in {"Drawn", "Settled"} => games'[h] = games[h]
  BY <1>1, <1>3, EvolvingKeeps
<1>5. QED
  BY <1>2, <1>4 DEF Seated, Players

LEMMA EvolvingDisputes ==
    ASSUME IndInv, NEW g \in GameIds, Evolving(g), UNCHANGED <<disputes, disputeCounter>>
    PROVE  DisputesCoherent'
<1>1. DisputesCoherent
  BY DEF IndInv
<1>2. QED
  BY <1>1, EvolvingDispute DEF DisputesCoherent, Seated, Players

LEMMA ResolveCoherent ==
    ASSUME IndInv, NEW d \in DisputeIds,
           (\E w \in Accounts : ResolveDisputeForWinner(d, w)) \/ ResolveDisputeAsDraw(d)
    PROVE  Coherence'
<1> DEFINE g == disputes[d].game
<1>1. TypeOK /\ DisputesCoherent /\ g \in GameIds
  BY DEF IndInv, TypeOK, Dispute
<1>2. /\ Evolving(g) /\ games'[g].state \in {"Drawn", "Settled"}
      /\ disputes[d].status = "Pending"
      /\ disputes' = [disputes EXCEPT ![d].status = "Resolved"]
      /\ UNCHANGED <<tourneys, tourneyCount, disputeCounter>>
  BY <1>1, ResolveEvolves
<1>3. GamesCoherent' /\ PaidByState' /\ TourneysCoherent'
  BY <1>1, <1>2, EvolvingGames, EvolvingTourneys
<1>4. /\ \A c \in DisputeIds : disputes'[c].game = disputes[c].game /\ disputes'[c].filer = disputes[c].filer
      /\ \A c \in DisputeIds \ {d} : disputes'[c].status = disputes[c].status
      /\ disputes'[d].status = "Resolved"
  BY <1>1, <1>2 DEF TypeOK, Dispute
<1>5. DisputesCoherent'
  <2>1. ASSUME NEW c \in DisputeIds
        PROVE  /\ disputes'[c].status = "Absent" <=> c > disputeCounter'
               /\ disputes'[c].status # "Absent" =>
                     /\ Seated(games'[disputes'[c].game])
                     /\ disputes'[c].filer \in {games'[disputes'[c].game].player1,
                                                games'[disputes'[c].game].player2} \ {NoOne}
               /\ disputes'[c].status = "Resolved" =>
                     /\ games'[disputes'[c].game].state \in {"Drawn", "Settled"}
                     /\ c # d => disputes'[c].game # g
    <3>1. disputes[c].status = "Absent" <=> c > disputeCounter
      BY <1>1 DEF DisputesCoherent
    <3>2. QED
      BY <1>1, <1>2, <1>4, <3>1, EvolvingDispute
  <2>2. ASSUME NEW c \in DisputeIds, NEW b \in DisputeIds \ {c},
               disputes'[c].status = "Resolved", disputes'[b].status = "Resolved"
        PROVE  disputes'[b].game # disputes'[c].game
    <3>1. CASE c = d \/ b = d
      BY <1>4, <2>1, <2>2, <3>1
    <3>2. CASE c # d /\ b # d
      BY <1>1, <1>4, <2>2, <3>2 DEF DisputesCoherent
    <3>3. QED
      BY <3>1, <3>2
  <2>3. QED
    BY <2>1, <2>2 DEF DisputesCoherent, Seated, Players
<1>6. QED
  BY <1>3, <1>5 DEF Coherence

\* Steps that leave games, their payments, escrows and disputes alone.
LEMMA UntouchedCoherent ==
    ASSUME IndInv,
           UNCHANGED <<games, gameCounter, settlements, tourneys, tourneyCount, disputes, disputeCounter>>
    PROVE  Coherence'
<1>1. GamesCoherent /\ PaidByState /\ TourneysCoherent /\ DisputesCoherent
  BY DEF IndInv
<1>2. GamesCoherent' /\ PaidByState'
  BY <1>1 DEF GamesCoherent, CoherentGame, Seated, PaidByState, PaidFor
<1>3. TourneysCoherent' /\ DisputesCoherent'
  BY <1>1 DEF TourneysCoherent, DisputesCoherent, Seated, Players
<1>4. QED
  BY <1>2, <1>3 DEF Coherence

LEMMA CreateGameCoherent ==
    ASSUME IndInv, NEW p \in Accounts, NEW wager \in Wagers, CreateGame(p, wager)
    PROVE  Coherence'
<1> DEFINE n == gameCounter + 1
           r == [NoGame EXCEPT !.state = "Created", !.player1 = p, !.wager = wager, !.lastMoveAt = seq]
<1>1. /\ TypeOK /\ GamesCoherent /\ PaidByState /\ TourneysCoherent /\ DisputesCoherent
      /\ n \in GameIds /\ gameCounter \in Nat /\ games \in [GameIds -> Game]
  <2>1. TypeOK /\ GamesCoherent /\ PaidByState /\ TourneysCoherent /\ DisputesCoherent
    BY DEF IndInv
  <2>2. gameCounter \in 0..MaxGames /\ gameCounter < MaxGames /\ games \in [GameIds -> Game]
    BY <2>1 DEF CreateGame, TypeOK
  <2>3. QED
    BY <2>1, <2>2, IdTypes DEF GameIds
<1>2. /\ games' = [games EXCEPT ![n] = r] /\ gameCounter' = n
      /\ UNCHANGED <<settlements, tourneys, tourneyCount, disputes, disputeCounter>>
  BY DEF CreateGame, tourneyVars, disputeVars
<1>3. games[n].state = "Absent" /\ CoherentGame(games[n])
  BY <1>1, IdTypes DEF GamesCoherent
<1>4. r.state = "Created" /\ CoherentGame(r)
  BY ConstantsAssumption DEF NoGame, CoherentGame, Live
<1>5. games'[n] = r /\ \A h \in GameIds \ {n} : games'[h] = games[h]
  BY <1>1, <1>2
<1>6. GamesCoherent'
  <2>1. \A h \in GameIds : /\ games'[h].state = "Absent" <=> h > gameCounter'
                           /\ CoherentGame(games'[h])
    BY <1>1, <1>2, <1>4, <1>5, IdTypes DEF GamesCoherent
  <2>2. QED
    BY <2>1 DEF GamesCoherent, CoherentGame, Seated
<1>7. PaidByState'
  <2>1. settlements[n] = 0
    BY <1>1, <1>3 DEF PaidByState, PaidFor
  <2>2. \A h \in GameIds : PaidFor(games'[h].state, settlements[h])
    BY <1>1, <1>4, <1>5, <2>1 DEF PaidByState, PaidFor, Live
  <2>3. QED
    BY <1>2, <2>2 DEF PaidByState, PaidFor
<1>8. TourneysCoherent'
  <2>1. \A e \in EscrowIds : tourneys[e].status # "Absent" =>
           games'[tourneys[e].game] = games[tourneys[e].game]
    BY <1>1, <1>3, <1>5 DEF TourneysCoherent, TypeOK, Tourney
  <2>2. ASSUME NEW e \in EscrowIds
        PROVE  /\ tourneys[e].status = "Absent" <=> e > tourneyCount
               /\ tourneys[e].status # "Absent" =>
                     LET game == games'[tourneys[e].game]
                     IN  /\ game.state \in {"Completed", "Settled"}
                         /\ tourneys[e].player = game.player1
                         /\ tourneys[e].total = IF Seated(game) THEN 2 * game.wager ELSE game.wager
    BY <1>1, <2>1 DEF TourneysCoherent
  <2>3. QED
    BY <1>2, <2>2 DEF TourneysCoherent, Seated
<1>9. DisputesCoherent'
  <2>1. \A d \in DisputeIds : disputes[d].status # "Absent" =>
           games'[disputes[d].game] = games[disputes[d].game]
    BY <1>1, <1>3, <1>5 DEF DisputesCoherent, TypeOK, Dispute, CoherentGame, Seated
  <2>2. ASSUME NEW d \in DisputeIds
        PROVE  /\ disputes[d].status = "Absent" <=> d > disputeCounter
               /\ disputes[d].status # "Absent" =>
                     /\ Seated(games'[disputes[d].game])
                     /\ disputes[d].filer \in {games'[disputes[d].game].player1,
                                              games'[disputes[d].game].player2} \ {NoOne}
               /\ disputes[d].status = "Resolved" =>
                     /\ games'[disputes[d].game].state \in {"Drawn", "Settled"}
                     /\ \A c \in DisputeIds \ {d} :
                           disputes[c].status = "Resolved" => disputes[c].game # disputes[d].game
    BY <1>1, <2>1 DEF DisputesCoherent, Players
  <2>3. QED
    BY <1>2, <2>2 DEF DisputesCoherent, Seated, Players
<1>10. QED
  BY <1>6, <1>7, <1>8, <1>9 DEF Coherence

LEMMA ReleaseCoherent ==
    ASSUME IndInv, NEW e \in EscrowIds, EscrowStep(e)
    PROVE  Coherence'
<1>1. PICK s \in Splits : ReleaseTournamentEscrow(e, s[1], s[2], s[3])
  BY DEF EscrowStep
<1> DEFINE h == tourneys[e].game
<1>2. /\ TypeOK /\ GamesCoherent /\ PaidByState /\ TourneysCoherent /\ DisputesCoherent
      /\ h \in GameIds /\ settlements \in [GameIds -> Nat] /\ tourneys \in [EscrowIds -> Tourney]
      /\ tourneys[e] \in Tourney
  BY DEF IndInv, TypeOK, Tourney
<1>3. /\ tourneys[e].status = "Locked"
      /\ tourneys' = [tourneys EXCEPT ![e].status = "Released"]
      /\ settlements' = [settlements EXCEPT ![h] = @ + 1]
      /\ UNCHANGED <<games, gameCounter, tourneyCount, disputes, disputeCounter>>
  BY <1>1 DEF ReleaseTournamentEscrow, disputeVars
<1>4. games[h].state \in {"Completed", "Settled"}
  BY <1>2, <1>3 DEF TourneysCoherent
<1>5. GamesCoherent' /\ DisputesCoherent'
  BY <1>2, <1>3 DEF GamesCoherent, CoherentGame, DisputesCoherent, Seated, Players
<1>6. PaidByState'
  <2>1. \A g \in GameIds : PaidFor(games[g].state, settlements'[g])
    <3>1. settlements'[h] = settlements[h] + 1 /\ settlements[h] \in Nat
      BY <1>2, <1>3
    <3>2. \A g \in GameIds \ {h} : settlements'[g] = settlements[g]
      BY <1>2, <1>3
    <3>3. QED
      BY <1>2, <1>4, <3>1, <3>2 DEF PaidByState, PaidFor, Live
  <2>2. QED
    BY <1>3, <2>1 DEF PaidByState, PaidFor
<1>7. TourneysCoherent'
  <2>1. /\ \A c \in EscrowIds : /\ tourneys'[c].game = tourneys[c].game
                                /\ tourneys'[c].player = tourneys[c].player
                                /\ tourneys'[c].total = tourneys[c].total
                                /\ tourneys'[c].status = "Absent" <=> tourneys[c].status = "Absent"
    BY <1>2, <1>3 DEF Tourney
  <2>2. QED
    BY <1>2, <1>3, <2>1 DEF TourneysCoherent, Seated
<1>8. QED
  BY <1>5, <1>6, <1>7 DEF Coherence

LEMMA CreateEscrowCoherent ==
    ASSUME IndInv, NEW g \in GameIds, CreateTournamentEscrow(g)
    PROVE  Coherence'
<1> DEFINE n == tourneyCount + 1
           t == [status |-> "Locked", game |-> g, player |-> games[g].player1,
                 total |-> PrizePool(g), lockedUntil |-> seq + cfg.timelock]
<1>1. TypeOK /\ GamesCoherent /\ PaidByState /\ TourneysCoherent /\ DisputesCoherent
  BY DEF IndInv
<1>2. n \in EscrowIds /\ tourneyCount \in Nat /\ tourneys \in [EscrowIds -> Tourney]
  <2>1. tourneyCount \in 0..MaxTourneys /\ tourneyCount < MaxTourneys /\ tourneys \in [EscrowIds -> Tourney]
    BY <1>1 DEF CreateTournamentEscrow, TypeOK
  <2>2. QED
    BY <2>1, IdTypes DEF EscrowIds
<1>3. /\ games[g].state = "Completed" /\ tourneys' = [tourneys EXCEPT ![n] = t] /\ tourneyCount' = n
      /\ UNCHANGED <<games, gameCounter, settlements, disputes, disputeCounter>>
  BY DEF CreateTournamentEscrow, disputeVars
<1>4. GamesCoherent' /\ PaidByState' /\ DisputesCoherent'
  BY <1>1, <1>3 DEF GamesCoherent, CoherentGame, PaidByState, PaidFor, DisputesCoherent, Seated, Players
<1>5. PrizePool(g) = IF Seated(games[g]) THEN 2 * games[g].wager ELSE games[g].wager
  <2>1. CoherentGame(games[g])
    BY <1>1 DEF GamesCoherent
  <2>2. QED
    BY <1>3, <2>1, ConstantsAssumption DEF PrizePool, CoherentGame, Seated
<1>6. TourneysCoherent'
  <2>1. tourneys'[n] = t /\ \A c \in EscrowIds \ {n} : tourneys'[c] = tourneys[c]
    BY <1>2, <1>3
  <2>2. ASSUME NEW e \in EscrowIds
        PROVE  /\ tourneys'[e].status = "Absent" <=> e > n
               /\ tourneys'[e].status # "Absent" =>
                     LET game == games[tourneys'[e].game]
                     IN  /\ game.state \in {"Completed", "Settled"}
                         /\ tourneys'[e].player = game.player1
                         /\ tourneys'[e].total = IF Seated(game) THEN 2 * game.wager ELSE game.wager
    <3>1. CASE e = n
      BY <1>2, <1>3, <1>5, <2>1, <3>1, IdTypes
    <3>2. CASE e # n
      BY <1>1, <1>2, <2>1, <3>2, IdTypes DEF TourneysCoherent
    <3>3. QED
      BY <3>1, <3>2
  <2>3. QED
    BY <1>3, <2>2 DEF TourneysCoherent, Seated
<1>7. QED
  BY <1>4, <1>6 DEF Coherence

LEMMA FileDisputeCoherent ==
    ASSUME IndInv, NEW g \in GameIds, NEW p \in Accounts, FileDispute(g, p)
    PROVE  Coherence'
<1> DEFINE n == disputeCounter + 1
           r == [status |-> "Pending", game |-> g, filer |-> p, paidFee |-> cfg.disputeFee, refund |-> 0]
<1>1. TypeOK /\ GamesCoherent /\ PaidByState /\ TourneysCoherent /\ DisputesCoherent
  BY DEF IndInv
<1>2. n \in DisputeIds /\ disputeCounter \in Nat /\ disputes \in [DisputeIds -> Dispute]
  <2>1. disputeCounter \in 0..MaxDisputes /\ disputeCounter < MaxDisputes /\ disputes \in [DisputeIds -> Dispute]
    BY <1>1 DEF FileDispute, TypeOK
  <2>2. QED
    BY <2>1, IdTypes DEF DisputeIds
<1>3. /\ games[g].state = "InProgress" /\ p \in Players(g)
      /\ disputes' = [disputes EXCEPT ![n] = r] /\ disputeCounter' = n
      /\ UNCHANGED <<games, gameCounter, settlements, tourneys, tourneyCount>>
  BY DEF FileDispute, InPlay, tourneyVars
<1>4. GamesCoherent' /\ PaidByState' /\ TourneysCoherent'
  BY <1>1, <1>3 DEF GamesCoherent, CoherentGame, PaidByState, PaidFor, TourneysCoherent, Seated
<1>5. Seated(games[g])
  BY <1>1, <1>3 DEF GamesCoherent, CoherentGame
<1>6. DisputesCoherent'
  <2>1. disputes'[n] = r /\ \A c \in DisputeIds \ {n} : disputes'[c] = disputes[c]
    BY <1>2, <1>3
  <2>2. ASSUME NEW d \in DisputeIds
        PROVE  /\ disputes'[d].status = "Absent" <=> d > n
               /\ disputes'[d].status # "Absent" =>
                     /\ Seated(games[disputes'[d].game])
                     /\ disputes'[d].filer \in Players(disputes'[d].game)
               /\ disputes'[d].status = "Resolved" =>
                     /\ games[disputes'[d].game].state \in {"Drawn", "Settled"}
                     /\ \A c \in DisputeIds \ {d} :
                           disputes'[c].status = "Resolved" => disputes'[c].game # disputes'[d].game
    <3>1. CASE d = n
      BY <1>2, <1>3, <1>5, <2>1, <3>1, IdTypes
    <3>2. CASE d # n
      BY <1>1, <1>2, <2>1, <3>2, IdTypes DEF DisputesCoherent
    <3>3. QED
      BY <3>1, <3>2
  <2>3. QED
    BY <1>3, <2>2 DEF DisputesCoherent, Seated, Players
<1>7. QED
  BY <1>4, <1>6 DEF Coherence

LEMMA RejectCoherent ==
    ASSUME IndInv, NEW d \in DisputeIds, RejectDispute(d)
    PROVE  Coherence'
<1>1. /\ TypeOK /\ GamesCoherent /\ PaidByState /\ TourneysCoherent /\ DisputesCoherent
      /\ disputes \in [DisputeIds -> Dispute]
  BY DEF IndInv, TypeOK
<1>2. /\ disputes[d].status = "Pending"
      /\ disputes' = [disputes EXCEPT ![d] = [@ EXCEPT !.status = "Rejected", !.refund = cfg.disputeFee]]
      /\ UNCHANGED <<games, gameCounter, settlements, tourneys, tourneyCount, disputeCounter>>
  BY DEF RejectDispute, tourneyVars
<1>3. GamesCoherent' /\ PaidByState' /\ TourneysCoherent'
  BY <1>1, <1>2 DEF GamesCoherent, CoherentGame, PaidByState, PaidFor, TourneysCoherent, Seated
<1>4. /\ \A c \in DisputeIds : disputes'[c].game = disputes[c].game /\ disputes'[c].filer = disputes[c].filer
      /\ \A c \in DisputeIds \ {d} : disputes'[c].status = disputes[c].status
      /\ disputes'[d].status = "Rejected"
  BY <1>1, <1>2 DEF Dispute
<1>5. DisputesCoherent'
  BY <1>1, <1>2, <1>4 DEF DisputesCoherent, Seated, Players
<1>6. QED
  BY <1>3, <1>5 DEF Coherence

LEMMA OtherCoherent ==
    ASSUME IndInv, AdminStep \/ LedgerCloses \/ UNCHANGED vars
    PROVE  Coherence'
<1> USE DEF disputeVars, tourneyVars
<1>1. CASE AdminStep
  BY <1>1, UntouchedCoherent DEF AdminStep, AdminCall, Pause, Unpause, AddWhitelistedToken,
     RemoveWhitelistedToken, SetMaxStake, SetMaxPrizePool, ConfigureFees, ConfigureDisputeSystem,
     ConfigureTimeout, ConfigureTimeoutDeadline, ConfigureTournamentTimelock, SetPlayerRating
<1>2. CASE LedgerCloses \/ UNCHANGED vars
  BY <1>2, UntouchedCoherent DEF LedgerCloses, vars
<1>3. QED
  BY <1>1, <1>2

LEMMA EvolvingCoherent ==
    ASSUME IndInv, NEW g \in GameIds, Evolving(g),
           UNCHANGED <<tourneys, tourneyCount, disputes, disputeCounter>>
    PROVE  Coherence'
BY EvolvingGames, EvolvingTourneys, EvolvingDisputes DEF Coherence

LEMMA NextCoherent ==
    ASSUME IndInv, [Next]_vars
    PROVE  Coherence'
<1>0. TypeOK /\ GamesCoherent
  BY DEF IndInv
<1>1. ASSUME NEW g \in GameIds, GameStep(g)
      PROVE  Coherence'
  BY <1>0, <1>1, GameStepEvolves, EvolvingCoherent
<1>2. ASSUME NEW g \in GameIds, PrizeStep(g)
      PROVE  Coherence'
  BY <1>0, <1>2, PrizeStepEvolves, EvolvingCoherent, CreateEscrowCoherent
<1>3. ASSUME NEW d \in DisputeIds, DisputeStep(d)
      PROVE  Coherence'
  BY <1>3, ResolveCoherent, RejectCoherent DEF DisputeStep
<1>4. QED
  BY <1>1, <1>2, <1>3, CreateGameCoherent, ReleaseCoherent, FileDisputeCoherent, OtherCoherent DEF Next

LEMMA InitCoherent ==
    ASSUME Init
    PROVE  Coherence
<1>1. \A g \in GameIds : g > 0
  BY ConstantsAssumption DEF GameIds
<1>2. (\A d \in DisputeIds : d > 0) /\ (\A e \in EscrowIds : e > 0)
  BY ConstantsAssumption DEF DisputeIds, EscrowIds
<1>3. CoherentGame(NoGame)
  BY ConstantsAssumption DEF CoherentGame, NoGame, Live
<1>4. GamesCoherent /\ PaidByState
  BY <1>1, <1>3 DEF Init, GamesCoherent, PaidByState, PaidFor, NoGame
<1>5. TourneysCoherent /\ DisputesCoherent
  BY <1>2 DEF Init, TourneysCoherent, DisputesCoherent
<1>6. QED
  BY <1>4, <1>5 DEF Coherence

\* The inductive invariant: games, payments, tournament escrows and disputes
\* fit each other after every call.  It needs all its parts: without
\* TourneysCoherent, releasing an escrow could pay out a drawn game; without
\* GamesCoherent, a dispute could lose its second player.
THEOREM Inductive == Spec => []IndInv
<1>1. Init => IndInv
  BY InitType, InitCoherent DEF IndInv, Coherence
<1>2. IndInv /\ [Next]_vars => IndInv'
  BY NextType, NextCoherent DEF IndInv, Coherence
<1>3. QED
  BY <1>1, <1>2, PTL DEF Spec

\* However calls race to end a game, its outcome fits the way it ended.
THEOREM GamesStayCoherent == Spec => []GamesCoherent
BY Inductive, PTL DEF IndInv

\* The stake of a game stays while the game is live and has left once it is
\* over, exactly once for a draw.
THEOREM StakesPaidWhenOver == Spec => []PaidByState
BY Inductive, PTL DEF IndInv

\* A tournament escrow holds the stake of a finished, undrawn game.
THEOREM TourneysStayCoherent == Spec => []TourneysCoherent
BY Inductive, PTL DEF IndInv

\* A resolved dispute has ended its game, and no other dispute of it has.
THEOREM DisputesStayCoherent == Spec => []DisputesCoherent
BY Inductive, PTL DEF IndInv

-----------------------------------------------------------------------------
\* The finality of outcomes and the refinement of GameLifecycle.

\* Every step of the contract is about one game, opens one, or leaves them be.
LEMMA StepKinds ==
    ASSUME IndInv, [Next]_vars
    PROVE  \/ \E p \in Accounts, w \in Wagers : CreateGame(p, w)
           \/ \E g \in GameIds : Evolving(g)
           \/ games' = games /\ \A g \in GameIds : settlements'[g] > 0 <=> settlements[g] > 0
<1>0. TypeOK /\ GamesCoherent /\ PaidByState /\ TourneysCoherent
  BY DEF IndInv
<1>1. ASSUME NEW g \in GameIds, GameStep(g)
      PROVE  Evolving(g)
  BY <1>0, <1>1, GameStepEvolves
<1>2. ASSUME NEW g \in GameIds, PrizeStep(g)
      PROVE  Evolving(g) \/ UNCHANGED <<games, settlements>>
  BY <1>0, <1>2, PrizeStepEvolves DEF CreateTournamentEscrow
<1>3. ASSUME NEW d \in DisputeIds, DisputeStep(d)
      PROVE  (\E g \in GameIds : Evolving(g)) \/ UNCHANGED <<games, settlements>>
  <2>1. disputes[d].game \in GameIds
    BY <1>0 DEF TypeOK, Dispute
  <2>2. QED
    BY <1>0, <1>3, <2>1, ResolveEvolves DEF DisputeStep, RejectDispute
<1>4. ASSUME NEW e \in EscrowIds, EscrowStep(e)
      PROVE  games' = games /\ \A g \in GameIds : settlements'[g] > 0 <=> settlements[g] > 0
  <2> DEFINE h == tourneys[e].game
  <2>1. PICK s \in Splits : ReleaseTournamentEscrow(e, s[1], s[2], s[3])
    BY <1>4 DEF EscrowStep
  <2>2. /\ tourneys[e].status = "Locked" /\ games' = games
        /\ settlements' = [settlements EXCEPT ![h] = @ + 1]
    BY <2>1 DEF ReleaseTournamentEscrow
  <2>3. games[h].state \in {"Completed", "Settled"} /\ h \in GameIds
    BY <1>0, <2>2 DEF TourneysCoherent, TypeOK, Tourney
  <2>4. settlements \in [GameIds -> Nat] /\ settlements[h] >= 1
    BY <1>0, <2>3 DEF PaidByState, PaidFor, TypeOK
  <2>5. QED
    BY <2>2, <2>3, <2>4
<1>5. CASE \E g \in GameIds, p \in Accounts : FileDispute(g, p)
  BY <1>5 DEF FileDispute
<1>6. CASE AdminStep \/ LedgerCloses \/ UNCHANGED vars
  BY <1>6 DEF AdminStep, AdminCall, Pause, Unpause, AddWhitelistedToken,
     RemoveWhitelistedToken, SetMaxStake, SetMaxPrizePool, ConfigureFees, ConfigureDisputeSystem,
     ConfigureTimeout, ConfigureTimeoutDeadline, ConfigureTournamentTimelock, SetPlayerRating,
     LedgerCloses, vars
<1>7. QED
  BY <1>1, <1>2, <1>3, <1>4, <1>5, <1>6 DEF Next

OutcomeKept(g) ==
    /\ games[g].state \in {"Drawn", "Settled"} => games'[g] = games[g]
    /\ games[g].state = "Completed" =>
          /\ games'[g].state \in {"Completed", "Settled"}
          /\ games'[g].winner = games[g].winner
    /\ games[g].state \notin {"Absent", "Created"} =>
          /\ games'[g].player1 = games[g].player1
          /\ games'[g].player2 = games[g].player2
          /\ games'[g].wager = games[g].wager

LEMMA CreateGameKeeps ==
    ASSUME IndInv, NEW p \in Accounts, NEW w \in Wagers, CreateGame(p, w)
    PROVE  /\ gameCounter + 1 \in GameIds /\ games[gameCounter + 1].state = "Absent"
           /\ \A g \in GameIds : g # gameCounter + 1 => games'[g] = games[g]
           /\ games'[gameCounter + 1] =
                 [NoGame EXCEPT !.state = "Created", !.player1 = p, !.wager = w, !.lastMoveAt = seq]
           /\ settlements' = settlements
<1>1. TypeOK /\ GamesCoherent
  BY DEF IndInv
<1>2. gameCounter \in 0..MaxGames /\ gameCounter < MaxGames /\ games \in [GameIds -> Game]
  BY <1>1 DEF CreateGame, TypeOK
<1>3. gameCounter + 1 \in GameIds /\ gameCounter + 1 > gameCounter
  BY <1>2, IdTypes DEF GameIds
<1>4. QED
  BY <1>1, <1>2, <1>3 DEF CreateGame, GamesCoherent

LEMMA NextKeepsOutcome ==
    ASSUME IndInv, [Next]_vars, NEW g \in GameIds
    PROVE  OutcomeKept(g)
<1>0. TypeOK /\ GamesCoherent /\ PaidByState
  BY DEF IndInv
<1>1. ASSUME NEW p \in Accounts, NEW w \in Wagers, CreateGame(p, w)
      PROVE  OutcomeKept(g)
  BY <1>1, CreateGameKeeps DEF OutcomeKept
<1>2. ASSUME NEW h \in GameIds, Evolving(h)
      PROVE  OutcomeKept(g)
  BY <1>0, <1>2, EvolvingKeeps DEF OutcomeKept
<1>3. CASE games' = games
  BY <1>3 DEF OutcomeKept
<1>4. QED
  BY <1>1, <1>2, <1>3, StepKinds

\* No call takes back a recorded outcome or reseats a running game.
THEOREM OutcomesFinal == Spec => OutcomeFinal
<1>1. IndInv /\ [Next]_vars => \A g \in GameIds : OutcomeKept(g)
  BY NextKeepsOutcome
<1>2. QED
  BY <1>1, Inductive, PTL DEF Spec, OutcomeFinal, OutcomeKept

-----------------------------------------------------------------------------
\* How the abstract variables follow a change of one game.
LEMMA ViewOfChange ==
    ASSUME TypeOK, NEW g \in GameIds, NEW r, games' = [games EXCEPT ![g] = r]
    PROVE  board[g] = View(games[g]) /\ board' = [board EXCEPT ![g] = View(r)]
<1>1. games \in [GameIds -> Game]
  BY DEF TypeOK
<1>2. board' = [h \in GameIds |-> View(games'[h])]
  BY DEF board, View
<1>3. games'[g] = r /\ \A h \in GameIds \ {g} : games'[h] = games[h]
  BY <1>1
<1>4. [board EXCEPT ![g] = View(r)] =
         [h \in GameIds |-> IF h = g THEN View(r) ELSE View(games[h])]
  BY DEF board
<1>5. \A h \in GameIds : View(games'[h]) = IF h = g THEN View(r) ELSE View(games[h])
  BY <1>3
<1>6. board' = [h \in GameIds |-> IF h = g THEN View(r) ELSE View(games[h])]
  BY <1>2, <1>5
<1>7. QED
  BY <1>4, <1>6 DEF board

LEMMA ReleasedOfChange ==
    ASSUME TypeOK, NEW g \in GameIds, NEW k \in {0, 1},
           settlements' = [settlements EXCEPT ![g] = @ + k]
    PROVE  /\ k = 0 => released' = released
           /\ k = 1 => released' = [released EXCEPT ![g] = TRUE]
           /\ released[g] <=> settlements[g] > 0
           /\ settlements[g] > 0 => released' = released
<1>1. settlements \in [GameIds -> Nat] /\ settlements[g] \in Nat
  BY DEF TypeOK
<1>2. /\ settlements'[g] = settlements[g] + k
      /\ \A h \in GameIds \ {g} : settlements'[h] = settlements[h]
  BY <1>1
<1>3. released[g] <=> settlements[g] > 0
  BY DEF released
<1>4. ASSUME k = 0 \/ settlements[g] > 0
      PROVE  released' = released
  <2>1. \A h \in GameIds : (settlements'[h] > 0) = (settlements[h] > 0)
    BY <1>1, <1>2, <1>4
  <2>2. QED
    BY <2>1 DEF released
<1>5. ASSUME k = 1
      PROVE  released' = [released EXCEPT ![g] = TRUE]
  <2>1. \A h \in GameIds : (settlements'[h] > 0) = IF h = g THEN TRUE ELSE settlements[h] > 0
    <3>1. settlements'[g] > 0
      BY <1>1, <1>2, <1>5
    <3>2. TAKE h \in GameIds
    <3>3. CASE h = g
      <4>1. (settlements'[h] > 0) = TRUE
        BY <3>1, <3>3, Zenon
      <4>2. QED
        BY <3>3, <4>1, Zenon
    <3>4. CASE h # g
      BY <1>2, <3>4
    <3>5. QED
      BY <3>3, <3>4
  <2>2. released' = [h \in GameIds |-> IF h = g THEN TRUE ELSE settlements[h] > 0]
    BY <2>1 DEF released
  <2>3. [released EXCEPT ![g] = TRUE] =
           [h \in GameIds |-> IF h = g THEN TRUE ELSE settlements[h] > 0]
    BY DEF released
  <2>4. QED
    BY <2>2, <2>3
<1>6. QED
  BY <1>3, <1>4, <1>5

LEMMA EvolvingRefines ==
    ASSUME IndInv, NEW g \in GameIds, Evolving(g)
    PROVE  [Lifecycle!Next]_<<board, released>>
<1>0. /\ TypeOK /\ CoherentGame(games[g]) /\ PaidFor(games[g].state, settlements[g])
      /\ games[g] \in Game /\ settlements[g] \in Nat
  BY DEF IndInv, TypeOK, GamesCoherent, PaidByState
<1>1. PICK r \in Game, k \in {0, 1} :
          /\ games' = [games EXCEPT ![g] = r]
          /\ settlements' = [settlements EXCEPT ![g] = @ + k]
          /\ Evolves(games[g], r, k)
  BY DEF Evolving
<1>2. board[g] = View(games[g]) /\ board' = [board EXCEPT ![g] = View(r)]
  BY <1>0, <1>1, ViewOfChange
<1>3. /\ k = 0 => released' = released
      /\ k = 1 => released' = [released EXCEPT ![g] = TRUE]
      /\ released[g] <=> settlements[g] > 0
      /\ settlements[g] > 0 => released' = released
  BY <1>0, <1>1, ReleasedOfChange
<1>4. /\ board[g].state = games[g].state /\ board[g].player1 = games[g].player1
      /\ board[g].player2 = games[g].player2 /\ board[g].winner = games[g].winner
  BY <1>2 DEF View
<1>5. CASE games[g].state = "Created"
  <2>1. ~released[g] /\ games[g].player2 = NoOne /\ games[g].winner = NoOne
    BY <1>0, <1>3, <1>5 DEF PaidFor, Live, CoherentGame
  <2>2. CASE r.state = "InProgress"
    <3>1. /\ r.player2 \in Accounts /\ r.player2 # board[g].player1 /\ released' = released
      BY <1>1, <1>3, <1>4, <1>5, <2>2 DEF Evolves
    <3>2. View(r) = Lifecycle!Record("InProgress", board[g].player1, r.player2, NoOne)
      BY <1>1, <1>4, <1>5, <2>1, <2>2 DEF Evolves, View, Lifecycle!Record
    <3>3. Lifecycle!Seat(g, r.player2)
      BY <1>2, <1>4, <1>5, <3>1, <3>2 DEF Lifecycle!Seat
    <3>4. QED
      BY <3>1, <3>3 DEF Lifecycle!Next, Lifecycle!GameNext
  <2>3. CASE r.state = "Completed"
    <3>1. View(r) = [board[g] EXCEPT !.state = "Completed"] /\ k = 1
      BY <1>1, <1>2, <1>5, <2>3 DEF Evolves, View
    <3>2. Lifecycle!Withdraw(g)
      BY <1>2, <1>3, <1>4, <1>5, <2>1, <3>1 DEF Lifecycle!Withdraw, Lifecycle!End
    <3>3. QED
      BY <3>2 DEF Lifecycle!Next, Lifecycle!GameNext
  <2>4. QED
    BY <1>1, <1>5, <2>2, <2>3 DEF Evolves
<1>6. CASE games[g].state = "InProgress"
  <2>1. ~released[g] /\ games[g].player1 \in Accounts /\ games[g].player2 \in Accounts
    BY <1>0, <1>3, <1>6 DEF PaidFor, Live, CoherentGame, Seated
  <2>2. CASE r.state = "InProgress"
    <3>1. View(r) = board[g] /\ k = 0
      BY <1>1, <1>2, <1>6, <2>2 DEF Evolves, View
    <3>2. board' = board
      BY <1>2, <3>1 DEF board
    <3>3. QED
      BY <1>3, <3>1, <3>2
  <2>3. CASE r.state = "Drawn"
    <3>1. View(r) = [board[g] EXCEPT !.state = "Drawn"] /\ k = 1
      BY <1>1, <1>2, <1>6, <2>3 DEF Evolves, View
    <3>2. Lifecycle!Draw(g)
      BY <1>2, <1>3, <1>4, <1>6, <2>1, <3>1 DEF Lifecycle!Draw, Lifecycle!End
    <3>3. QED
      BY <3>2 DEF Lifecycle!Next, Lifecycle!GameNext
  <2>4. CASE r.state \in {"Completed", "Settled"}
    <3>1. /\ View(r) = Lifecycle!Record(r.state, board[g].player1, board[g].player2, r.winner)
          /\ r.winner \in {games[g].player1, games[g].player2} /\ k = 1
      BY <1>1, <1>4, <1>6, <2>4 DEF Evolves, View, Lifecycle!Record
    <3>2. Lifecycle!Decide(g, r.winner, r.state)
      BY <1>2, <1>3, <1>4, <1>6, <2>1, <3>1 DEF Lifecycle!Decide, Lifecycle!End
    <3>3. r.winner \in Accounts
      BY <2>1, <3>1
    <3>4. QED
      BY <2>4, <3>2, <3>3 DEF Lifecycle!Next, Lifecycle!GameNext
  <2>5. QED
    BY <1>1, <1>6, <2>2, <2>3, <2>4 DEF Evolves
<1>7. CASE games[g].state = "Completed"
  <2>1. settlements[g] > 0
    BY <1>0, <1>7 DEF PaidFor
  <2>2. View(r) = [board[g] EXCEPT !.state = "Settled"]
    BY <1>1, <1>2, <1>7 DEF Evolves, View
  <2>3. Lifecycle!Close(g)
    BY <1>2, <1>3, <1>4, <1>7, <2>1, <2>2 DEF Lifecycle!Close
  <2>4. QED
    BY <2>3 DEF Lifecycle!Next, Lifecycle!GameNext
<1>8. QED
  BY <1>1, <1>5, <1>6, <1>7 DEF Evolves

LEMMA NextRefines ==
    ASSUME IndInv, [Next]_vars
    PROVE  [Lifecycle!Next]_<<board, released>>
<1>1. ASSUME NEW p \in Accounts, NEW w \in Wagers, CreateGame(p, w)
      PROVE  [Lifecycle!Next]_<<board, released>>
  <2> DEFINE n == gameCounter + 1
             r == [NoGame EXCEPT !.state = "Created", !.player1 = p, !.wager = w, !.lastMoveAt = seq]
  <2>1. /\ n \in GameIds /\ games[n].state = "Absent" /\ TypeOK
        /\ games' = [games EXCEPT ![n] = r] /\ settlements' = settlements
    BY <1>1, CreateGameKeeps DEF CreateGame, IndInv
  <2>2. board[n] = View(games[n]) /\ board' = [board EXCEPT ![n] = View(r)]
    BY <2>1, ViewOfChange
  <2>3. View(r) = Lifecycle!Record("Created", p, NoOne, NoOne)
    BY DEF View, NoGame, Lifecycle!Record
  <2>4. released' = released
    BY <2>1 DEF released
  <2>5. Lifecycle!Open(n, p)
    <3>1. board[n].state = "Absent"
      BY <2>1, <2>2 DEF View
    <3>2. QED
      BY <2>2, <2>3, <2>4, <3>1 DEF Lifecycle!Open
  <2>6. QED
    BY <2>1, <2>5 DEF Lifecycle!Next, Lifecycle!GameNext
<1>2. CASE games' = games /\ \A g \in GameIds : settlements'[g] > 0 <=> settlements[g] > 0
  <2>1. board' = board
    BY <1>2 DEF board, View
  <2>2. \A g \in GameIds : (settlements'[g] > 0) = (settlements[g] > 0)
    BY <1>2
  <2>3. released' = released
    BY <2>2 DEF released
  <2>4. QED
    BY <2>1, <2>3
<1>3. QED
  BY <1>1, <1>2, EvolvingRefines, StepKinds

LEMMA InitRefines ==
    ASSUME Init
    PROVE  Lifecycle!Init
<1>1. View(NoGame) = Lifecycle!Unopened
  BY DEF View, NoGame, Lifecycle!Unopened, Lifecycle!Record
<1>2. \A g \in GameIds : games[g] = NoGame /\ settlements[g] = 0
  BY DEF Init
<1>3. board = [g \in GameIds |-> Lifecycle!Unopened]
  BY <1>1, <1>2 DEF board
<1>4. \A g \in GameIds : (settlements[g] > 0) = FALSE
  BY <1>2
<1>5. released = [g \in GameIds |-> FALSE]
  BY <1>4 DEF released
<1>6. QED
  BY <1>3, <1>5 DEF Lifecycle!Init

\* The contract implements the life cycle it promises the players.
THEOREM Refinement == Spec => ImplementsLifecycle
<1>1. Init => Lifecycle!Init
  BY InitRefines
<1>2. IndInv /\ [Next]_vars => [Lifecycle!Next]_<<board, released>>
  BY NextRefines
<1>3. QED
  BY <1>1, <1>2, Inductive, PTL DEF Spec, ImplementsLifecycle, Lifecycle!Spec

-----------------------------------------------------------------------------
(* The books.                                                              *)


\* An id that is not in use has an empty record, and a dispute that was not
\* rejected has given nothing back.
Blank ==
    /\ \A g \in GameIds : games[g].state = "Absent" => games[g] = NoGame
    /\ \A d \in DisputeIds :
          /\ disputes[d].status = "Absent" => disputes[d].paidFee = 0
          /\ disputes[d].status \in {"Absent", "Pending"} => disputes[d].refund = 0

LEMMA FiniteIds ==
    /\ IsFiniteSet(Accounts) /\ IsFiniteSet(GameIds)
    /\ IsFiniteSet(DisputeIds) /\ IsFiniteSet(EscrowIds)
BY ConstantsAssumption, FS_Interval DEF GameIds, DisputeIds, EscrowIds

-----------------------------------------------------------------------------
(* Totals.                                                                 *)

Purses  == SumFunction(tokens)
Ledger  == SumFunction(escrow)
Stakes  == SumFunction([g \in GameIds |-> AtStake(g)])
Fees    == SumFunction([d \in DisputeIds |-> FeeKept(d)])
Entries == SumFunction([g \in GameIds |-> Booked(g)])

\* Paying an account changes the total by what it is paid.
LEMMA PlusAdds ==
    ASSUME NEW f \in [Accounts -> Int], NEW a \in Accounts, NEW n \in Int
    PROVE  /\ Plus(f, a, n) \in [Accounts -> Int]
           /\ SumFunction(Plus(f, a, n)) = SumFunction(f) + n
           /\ SumFunction(f) \in Int
<1> DEFINE g == Plus(f, a, n)
<1>1. g \in [Accounts -> Int]
  BY PlusType
<1>2. g[a] = f[a] + n /\ \A b \in Accounts \ {a} : g[b] = f[b]
  BY DEF Plus
<1>3. DOMAIN g = Accounts /\ DOMAIN f = Accounts /\ f[a] \in Int
  BY <1>1
<1> HIDE DEF g
<1>4. \A b \in Accounts : f[b] \in Int /\ g[b] \in Int
  BY <1>1
<1>5. /\ SumFunctionOnSet(g, Accounts) = SumFunctionOnSet(f, Accounts) + (g[a] - f[a])
      /\ SumFunctionOnSet(f, Accounts) \in Int
  BY <1>2, <1>4, FiniteIds, SumChanges
<1> QED
  BY <1>1, <1>2, <1>3, <1>5 DEF SumFunction, g

LEMMA PlusTwiceAdds ==
    ASSUME NEW f \in [Accounts -> Int], NEW a \in Accounts, NEW m \in Int,
           NEW b \in Accounts, NEW n \in Int
    PROVE  /\ SumFunction(Plus(Plus(f, a, m), b, n)) = SumFunction(f) + m + n
           /\ SumFunction(f) \in Int
<1> DEFINE h == Plus(f, a, m)
<1>1. h \in [Accounts -> Int] /\ SumFunction(h) = SumFunction(f) + m /\ SumFunction(f) \in Int
  BY PlusAdds
<1> HIDE DEF h
<1>2. SumFunction(Plus(h, b, n)) = SumFunction(h) + n
  BY <1>1, PlusAdds
<1> QED
  BY <1>1, <1>2 DEF h

\* A split pays out the whole pool, whatever the percentages leave as dust.
LEMMA SplitAdds ==
    ASSUME NEW f \in [Accounts -> Int], NEW w1 \in Accounts, NEW w2 \in Accounts,
           NEW total \in Int, NEW pct \in 0..100
    PROVE  SumFunction(Split(f, w1, w2, total, pct)) = SumFunction(f) + total
           /\ SumFunction(f) \in Int
<1> DEFINE a == FirstShare(total, pct)
           b == SecondShare(total, pct)
           d == Dust(total, pct)
<1>1. a \in Int /\ b \in Int
  BY DEF FirstShare, SecondShare
<1>2. d = total - a - b
  BY DEF Dust
<1>3. Split(f, w1, w2, total, pct) = Plus(Plus(f, w1, a + d), w2, b)
  BY DEF Split
<1> HIDE DEF a, b, d
<1>4. a + d \in Int /\ (a + d) + b = total
  BY <1>1, <1>2
<1> DEFINE c == a + d
<1> HIDE DEF c
<1>5. SumFunction(Plus(Plus(f, w1, c), w2, b)) = SumFunction(f) + c + b /\ SumFunction(f) \in Int
  BY <1>1, <1>4, PlusTwiceAdds DEF c
<1> QED
  BY <1>1, <1>3, <1>4, <1>5 DEF c

LEMMA SplitsAdd ==
    ASSUME NEW f \in [Accounts -> Int], NEW s \in Splits, NEW total \in Int
    PROVE  SumFunction(Split(f, s[1], s[2], total, s[3])) = SumFunction(f) + total
<1>1. s[1] \in Accounts /\ s[2] \in Accounts /\ s[3] \in 0..100
  BY SplitsType
<1>2. ASSUME NEW w1, NEW w2, NEW pct, w1 = s[1], w2 = s[2], pct = s[3]
      PROVE  SumFunction(Split(f, w1, w2, total, pct)) = SumFunction(f) + total
  <2>1. w1 \in Accounts /\ w2 \in Accounts /\ pct \in 0..100
    BY <1>1, <1>2
  <2> QED
    BY ZenonT(40), <2>1, SplitAdds
<1> QED
  BY <1>2

\* What a step takes out of the contract goes to the accounts, and the ledger
\* changes by what the step books.
Moves(out, booked) ==
    /\ vault' = vault - out
    /\ Purses' = Purses + out
    /\ Ledger' = Ledger + booked

\* process_payout: the pool leaves, the ledger keeps its total.
LEMMA PayoutMoves ==
    ASSUME TypeOK, NEW g \in GameIds, NEW w \in Accounts, Seated(games[g]), ProcessPayout(g, w)
    PROVE  Moves(2 * games[g].wager, 0)
<1> DEFINE m == games[g].wager
           n == -m
           fee == Fee(2 * m)
           rest == 2 * m - fee
           p1 == games[g].player1
           p2 == games[g].player2
           bank == cfg.treasury
           h == Plus(Plus(escrow, p1, n), p2, n)
<1>1. p1 \in Accounts /\ p2 \in Accounts /\ bank \in Accounts
  BY DEF TypeOK, Config, Seated
<1>2. escrow \in [Accounts -> Int] /\ tokens \in [Accounts -> Int] /\ vault \in Int
  BY DEF TypeOK
<1>3. m \in Int /\ n \in Int /\ n = -m
  BY DEF TypeOK, Game
<1>4. fee \in Int /\ rest \in Int /\ rest + fee = 2 * m
  BY <1>3, FeeType
<1>5. /\ vault' = vault - 2 * m
      /\ tokens' = Plus(Plus(tokens, w, rest), bank, fee)
      /\ escrow' = Plus(Plus(h, w, rest), bank, fee)
  BY DEF ProcessPayout, LedgerAfterPayout
<1> HIDE DEF m, n, fee, rest, p1, p2, bank
<1>6. /\ SumFunction(Plus(Plus(tokens, w, rest), bank, fee)) = SumFunction(tokens) + rest + fee
      /\ SumFunction(tokens) \in Int
  <2>1. rest \in Int /\ fee \in Int /\ bank \in Accounts /\ tokens \in [Accounts -> Int]
    BY <1>1, <1>2, <1>4
  <2> HIDE DEF h
  <2> QED
    BY <2>1, PlusTwiceAdds
<1>7. h \in [Accounts -> Int] /\ SumFunction(h) = SumFunction(escrow) + n + n
      /\ SumFunction(escrow) \in Int
  <2>1. n \in Int /\ p1 \in Accounts /\ p2 \in Accounts /\ escrow \in [Accounts -> Int]
    BY <1>1, <1>2, <1>3
  <2>2. SumFunction(h) = SumFunction(escrow) + n + n /\ SumFunction(escrow) \in Int
    BY <2>1, PlusTwiceAdds
  <2>3. h \in [Accounts -> Int]
    BY <2>1, TwoPlusType
  <2> QED
    BY <2>2, <2>3
<1> HIDE DEF h
<1>8. SumFunction(Plus(Plus(h, w, rest), bank, fee)) = SumFunction(h) + rest + fee
  <2>1. rest \in Int /\ fee \in Int /\ h \in [Accounts -> Int]
    BY <1>4, <1>7
  <2> QED
    BY <1>1, <2>1, PlusTwiceAdds
<1>9. Ledger' = Ledger + 0 /\ Purses' = Purses + 2 * m
  BY <1>3, <1>4, <1>5, <1>6, <1>7, <1>8 DEF Ledger, Purses
<1> QED
  BY <1>5, <1>9 DEF Moves, m

\* process_draw_payout: both wagers leave, and their entries with them.
LEMMA DrawMoves ==
    ASSUME TypeOK, NEW g \in GameIds, Seated(games[g]), ProcessDrawPayout(g)
    PROVE  Moves(2 * games[g].wager, -2 * games[g].wager)
<1> DEFINE m == games[g].wager
           n == -m
           p1 == games[g].player1
           p2 == games[g].player2
<1>1. /\ m \in Int /\ n \in Int /\ n = -m /\ p1 \in Accounts /\ p2 \in Accounts
      /\ escrow \in [Accounts -> Int] /\ tokens \in [Accounts -> Int] /\ vault \in Int
  BY DEF TypeOK, Game, Seated
<1>2. /\ vault' = vault - 2 * m
      /\ tokens' = Plus(Plus(tokens, p1, m), p2, m)
      /\ escrow' = Plus(Plus(escrow, p1, n), p2, n)
  BY DEF ProcessDrawPayout
<1> HIDE DEF m, n, p1, p2
<1>3. Purses' = Purses + m + m /\ Purses \in Int
  BY <1>1, <1>2, PlusTwiceAdds DEF Purses
<1>4. Ledger' = Ledger + n + n /\ Ledger \in Int
  <2>1. /\ SumFunction(Plus(Plus(escrow, p1, n), p2, n)) = SumFunction(escrow) + n + n
        /\ SumFunction(escrow) \in Int
    BY <1>1, PlusTwiceAdds
  <2> QED
    BY <1>2, <2>1 DEF Ledger
<1>5. Purses' = Purses + 2 * m /\ Ledger' = Ledger + (-2 * m)
  BY <1>1, <1>3, <1>4
<1> QED
  BY <1>2, <1>5 DEF Moves, m

\* A wager or a fee that goes in, and one that comes back.
LEMMA OnePlusMoves ==
    ASSUME TypeOK, NEW a \in Accounts, NEW m \in Int
    PROVE  /\ tokens' = Plus(tokens, a, -m) => Purses' = Purses - m
           /\ tokens' = Plus(tokens, a, m) => Purses' = Purses + m
           /\ escrow' = Plus(escrow, a, -m) => Ledger' = Ledger - m
           /\ escrow' = Plus(escrow, a, m) => Ledger' = Ledger + m
           /\ Purses \in Int /\ Ledger \in Int
<1> DEFINE n == -m
<1>1. escrow \in [Accounts -> Int] /\ tokens \in [Accounts -> Int] /\ n \in Int /\ n = -m
  BY DEF TypeOK
<1> HIDE DEF n
<1>2. /\ tokens' = Plus(tokens, a, n) => Purses' = Purses + n
      /\ tokens' = Plus(tokens, a, m) => Purses' = Purses + m
      /\ escrow' = Plus(escrow, a, n) => Ledger' = Ledger + n
      /\ escrow' = Plus(escrow, a, m) => Ledger' = Ledger + m
      /\ Purses \in Int /\ Ledger \in Int
  <2>1. /\ SumFunction(Plus(tokens, a, n)) = SumFunction(tokens) + n
        /\ SumFunction(Plus(tokens, a, m)) = SumFunction(tokens) + m
        /\ SumFunction(tokens) \in Int
    BY <1>1, PlusAdds
  <2>2. /\ SumFunction(Plus(escrow, a, n)) = SumFunction(escrow) + n
        /\ SumFunction(Plus(escrow, a, m)) = SumFunction(escrow) + m
        /\ SumFunction(escrow) \in Int
    BY <1>1, PlusAdds
  <2> QED
    BY <2>1, <2>2 DEF Purses, Ledger
<1> QED
  BY <1>1, <1>2
-----------------------------------------------------------------------------
(* What a step on one game does to the contract and to the ledger.         *)

LEMMA PlayerCount ==
    ASSUME NEW a \in Accounts, NEW b \in (Accounts \ {a}) \cup {NoOne}
    PROVE  Cardinality({a, b} \ {NoOne}) = IF b = NoOne THEN 1 ELSE 2
<1>0. a # NoOne
  BY ConstantsAssumption
<1>1. CASE b = NoOne
  <2>1. {a, b} \ {NoOne} = {a}
    BY <1>0, <1>1
  <2> QED
    BY <1>1, <2>1, FS_Singleton
<1>2. CASE b # NoOne
  <2> DEFINE S == {a}
  <2>1. {a, b} \ {NoOne} = S \cup {b} /\ b \notin S
    BY <1>0, <1>2
  <2>2. IsFiniteSet(S) /\ Cardinality(S) = 1
    BY FS_Singleton
  <2> HIDE DEF S
  <2>3. Cardinality(S \cup {b}) = 2
    BY <2>1, <2>2, FS_AddElement
  <2> QED
    BY <1>2, <2>1, <2>3
<1> QED
  BY <1>1, <1>2

\* What the players of a game record have put in.
Worth(game) == IF game.player2 = NoOne THEN game.wager ELSE 2 * game.wager

Sat(game) == game.player1 \in Accounts /\ game.player2 \in (Accounts \ {game.player1}) \cup {NoOne}

LEMMA StakedIs ==
    ASSUME NEW g \in GameIds
    PROVE  /\ games[g].wager \in Int /\ Sat(games[g]) => Staked(g) = Worth(games[g])
           /\ games'[g].wager \in Int /\ Sat(games'[g]) => Staked(g)' = Worth(games'[g])
<1>1. ASSUME NEW a \in Accounts, NEW b \in (Accounts \ {a}) \cup {NoOne}, NEW w \in Int
      PROVE  w * Cardinality({a, b} \ {NoOne}) = IF b = NoOne THEN w ELSE 2 * w
  <2>1. CASE b = NoOne
    BY <2>1, PlayerCount
  <2>2. CASE b # NoOne
    BY <2>2, PlayerCount
  <2> QED
    BY <2>1, <2>2
<1>2. ASSUME games[g].wager \in Int, Sat(games[g])
      PROVE  Staked(g) = Worth(games[g])
  BY <1>1, <1>2 DEF Staked, Players, Worth, Sat
<1>3. ASSUME games'[g].wager \in Int, Sat(games'[g])
      PROVE  Staked(g)' = Worth(games'[g])
  BY <1>1, <1>3 DEF Staked, Players, Worth, Sat
<1> QED
  BY <1>2, <1>3

LEMMA SatIfCoherent ==
    ASSUME NEW game, CoherentGame(game), game.state # "Absent", game \in Game
    PROVE  Sat(game)
BY DEF CoherentGame, Sat, Seated, Game, GameStates, Live

\* The step leaves in the contract what is at stake in g, and in the ledger
\* what is booked for g.
MovesFor(g) == Moves(AtStake(g) - AtStake(g)', Booked(g)' - Booked(g))

SameStake(g) ==
    /\ games'[g].player1 = games[g].player1
    /\ games'[g].player2 = games[g].player2
    /\ games'[g].wager = games[g].wager

\* A settlement takes the stake of g out of the contract.
LEMMA SettlementMoves ==
    ASSUME TypeOK, NEW g \in GameIds, Sat(games[g]), SameStake(g),
           settlements' = [settlements EXCEPT ![g] = @ + 1]
    PROVE  /\ AtStake(g) - AtStake(g)' = Worth(games[g]) /\ Worth(games[g]) \in Int
           /\ Staked(g) = Worth(games[g]) /\ Staked(g)' = Worth(games[g])
<1>1. games[g].wager \in Int /\ settlements[g] \in Nat /\ settlements'[g] = settlements[g] + 1
  BY DEF TypeOK, Game
<1>2. Staked(g) = Worth(games[g]) /\ Staked(g)' = Worth(games[g])
  BY <1>1, StakedIs DEF SameStake, Worth, Sat
<1>3. Worth(games[g]) \in Int
  BY <1>1 DEF Worth
<1>4. \A s \in Int, k \in Nat : s * (1 - k) - s * (1 - (k + 1)) = s
  OBVIOUS
<1>5. /\ AtStake(g) = Worth(games[g]) * (1 - settlements[g])
      /\ AtStake(g)' = Worth(games[g]) * (1 - (settlements[g] + 1))
  BY <1>1, <1>2 DEF AtStake
<1> QED
  BY <1>1, <1>2, <1>3, <1>4, <1>5

\* Nothing is paid, and the stake of g stays what it was.
LEMMA NoSettlement ==
    ASSUME TypeOK, NEW g \in GameIds, Sat(games[g]), SameStake(g), settlements' = settlements
    PROVE  /\ AtStake(g) - AtStake(g)' = 0
           /\ Staked(g) = Worth(games[g]) /\ Staked(g)' = Worth(games[g])
           /\ Worth(games[g]) \in Int
<1>1. games[g].wager \in Int /\ settlements[g] \in Nat
  BY DEF TypeOK, Game
<1>2. Staked(g) = Worth(games[g]) /\ Staked(g)' = Worth(games[g])
  BY <1>1, StakedIs DEF SameStake, Worth, Sat
<1>3. Worth(games[g]) \in Int
  BY <1>1 DEF Worth
<1>4. AtStake(g)' = AtStake(g) /\ AtStake(g) \in Int
  BY <1>1, <1>2, <1>3 DEF AtStake
<1> QED
  BY <1>2, <1>3, <1>4
\* The fields of g after a step that rewrites its record.
LEMMA Rewritten ==
    ASSUME TypeOK, NEW g \in GameIds, NEW r, games' = [games EXCEPT ![g] = r]
    PROVE  games'[g] = r /\ games[g] \in Game
BY DEF TypeOK

\* What is booked for a game with two players, before and after it ends.
LEMMA SeatedBooked ==
    ASSUME NEW g \in GameIds, Seated(games[g]), games[g].state # "Drawn"
    PROVE  Booked(g) = Staked(g) /\ Worth(games[g]) = 2 * games[g].wager
BY ConstantsAssumption DEF Seated, Booked, Refunded, Worth

LEMMA SeatedBookedAfter ==
    ASSUME NEW g \in GameIds, Seated(games[g]), SameStake(g)
    PROVE  Booked(g)' = IF games'[g].state = "Drawn" THEN 0 ELSE Staked(g)'
<1>1. games'[g].player2 # NoOne
  BY ConstantsAssumption DEF Seated, SameStake
<1> QED
  BY <1>1 DEF Booked, Refunded

\* The routes that pay a winner: the pool leaves, its entries stay.
LEMMA WinMoves ==
    ASSUME TypeOK, NEW g \in GameIds, Seated(games[g]), games[g].state # "Drawn", SameStake(g),
           games'[g].state # "Drawn", NEW w \in Accounts, ProcessPayout(g, w)
    PROVE  MovesFor(g)
<1>1. Moves(2 * games[g].wager, 0)
  BY PayoutMoves
<1>2. settlements' = [settlements EXCEPT ![g] = @ + 1]
  BY DEF ProcessPayout
<1>3. Sat(games[g])
  BY DEF Seated, Sat
<1>4. /\ AtStake(g) - AtStake(g)' = Worth(games[g]) /\ Worth(games[g]) \in Int
      /\ Staked(g) = Worth(games[g]) /\ Staked(g)' = Worth(games[g])
  BY <1>2, <1>3, SettlementMoves
<1>5. Booked(g)' - Booked(g) = 0 /\ Worth(games[g]) = 2 * games[g].wager
  BY <1>4, SeatedBooked, SeatedBookedAfter
<1> QED
  BY <1>1, <1>4, <1>5 DEF MovesFor

\* The routes that draw a game: the pool leaves, and its entries with it.
LEMMA DrawnMoves ==
    ASSUME TypeOK, NEW g \in GameIds, Seated(games[g]), games[g].state # "Drawn", SameStake(g),
           games'[g].state = "Drawn", ProcessDrawPayout(g)
    PROVE  MovesFor(g)
<1>1. Moves(2 * games[g].wager, -2 * games[g].wager)
  BY DrawMoves
<1>2. settlements' = [settlements EXCEPT ![g] = @ + 1]
  BY DEF ProcessDrawPayout
<1>3. Sat(games[g]) /\ games[g].wager \in Int
  BY DEF Seated, Sat, TypeOK, Game
<1>4. /\ AtStake(g) - AtStake(g)' = Worth(games[g]) /\ Worth(games[g]) \in Int
      /\ Staked(g) = Worth(games[g]) /\ Staked(g)' = Worth(games[g])
  BY <1>2, <1>3, SettlementMoves
<1>5. Booked(g)' - Booked(g) = -2 * games[g].wager /\ Worth(games[g]) = 2 * games[g].wager
  BY <1>3, <1>4, SeatedBooked, SeatedBookedAfter
<1> QED
  BY <1>1, <1>4, <1>5 DEF MovesFor

\* The tail of the winning handlers.
LEMMA SettleForMoves ==
    ASSUME TypeOK, NEW g \in GameIds, Seated(games[g]), games[g].state = "InProgress",
           NEW w \in Accounts, SettleFor(g, w)
    PROVE  MovesFor(g)
<1> DEFINE r == [games[g] EXCEPT !.state = "Settled", !.winner = w]
<1>1. games' = [games EXCEPT ![g] = r] /\ ProcessPayout(g, w)
  BY DEF SettleFor
<1>2. games'[g] = r /\ games[g] \in Game
  BY <1>1, Rewritten
<1>3. SameStake(g) /\ games'[g].state = "Settled"
  BY <1>2 DEF SameStake, Game
<1> QED
  BY <1>1, <1>3, WinMoves

\* A seated player's choices are seated players.
LEMMA SeatedPlayers ==
    ASSUME NEW g \in GameIds, Seated(games[g]), NEW p
    PROVE  /\ p \in Players(g) => p \in Accounts
           /\ Opponent(g, p) \in Accounts /\ WaitingPlayer(g) \in Accounts
           /\ OnTheClock(g) \in Accounts
BY PlayersOf DEF Seated

LEMMA GameStepMoves ==
    ASSUME TypeOK, GamesCoherent, PaidByState, NEW g \in GameIds, GameStep(g)
    PROVE  MovesFor(g)
<1>0. /\ games[g] \in Game /\ CoherentGame(games[g]) /\ games[g].wager \in Int
      /\ vault \in Int /\ PaidFor(games[g].state, settlements[g])
  BY DEF TypeOK, GamesCoherent, Game, PaidByState
<1>a. games[g].state = "InProgress" => Seated(games[g])
  BY <1>0 DEF CoherentGame
<1>b. games[g].state = "Created" => games[g].player1 \in Accounts /\ games[g].player2 = NoOne
  BY <1>0 DEF CoherentGame
<1>1. ASSUME NEW p \in Accounts, JoinGame(g, p)
      PROVE  MovesFor(g)
  <2> DEFINE m == games[g].wager
             r == [games[g] EXCEPT !.state = "InProgress", !.player2 = p, !.turn = 1,
                                   !.lastMoveAt = seq]
  <2>1. /\ games' = [games EXCEPT ![g] = r] /\ tokens' = Plus(tokens, p, -m)
        /\ escrow' = Plus(escrow, p, m) /\ vault' = vault + m /\ settlements' = settlements
        /\ games[g].state = "Created" /\ games[g].player1 # p
    BY <1>1 DEF JoinGame, SeatFree
  <2>2. games'[g] = r
    BY <2>1, Rewritten
  <2>3. /\ games'[g].state = "InProgress" /\ games'[g].player2 = p /\ games'[g].wager = m
        /\ games'[g].player1 = games[g].player1
    BY <1>0, <2>2 DEF Game
  <2> HIDE DEF r
  <2>4. p # NoOne /\ settlements[g] = 0
    BY <1>0, <2>1, ConstantsAssumption DEF PaidFor, Live
  <2>5. Staked(g) = m /\ Staked(g)' = 2 * m
    BY <1>0, <1>b, <2>1, <2>3, <2>4, StakedIs DEF Sat, Worth
  <2>6. ~Refunded(g) /\ ~Refunded(g)'
    BY <2>1, <2>3, <2>4 DEF Refunded, Live
  <2> HIDE DEF m
  <2>7. m \in Int
    BY <1>0 DEF m
  <2>8. AtStake(g) - AtStake(g)' = -m /\ Booked(g)' - Booked(g) = m
    BY <2>1, <2>4, <2>5, <2>6, <2>7 DEF AtStake, Booked
  <2>9. Purses' = Purses - m /\ Ledger' = Ledger + m /\ Purses \in Int
    BY <2>1, <2>7, OnePlusMoves
  <2> QED
    BY <1>0, <2>1, <2>7, <2>8, <2>9 DEF MovesFor, Moves
<1>2. CASE CancelGame(g)
  <2> DEFINE m == games[g].wager
             r == [games[g] EXCEPT !.state = "Completed"]
             p == games[g].player1
  <2>1. /\ games' = [games EXCEPT ![g] = r] /\ tokens' = Plus(tokens, p, m)
        /\ escrow' = Plus(escrow, p, -m) /\ vault' = vault - m
        /\ settlements' = [settlements EXCEPT ![g] = @ + 1]
        /\ games[g].state = "Created"
    BY <1>2 DEF CancelGame
  <2>2. games'[g] = r
    BY <2>1, Rewritten
  <2>3. SameStake(g) /\ games'[g].state = "Completed" /\ games'[g].player2 = NoOne
    BY <1>0, <1>b, <2>1, <2>2 DEF Game, SameStake
  <2> HIDE DEF r
  <2>4. Sat(games[g]) /\ Worth(games[g]) = m
    BY <1>b, <2>1 DEF Sat, Worth
  <2>5. AtStake(g) - AtStake(g)' = m /\ Staked(g) = m
    BY <2>1, <2>3, <2>4, SettlementMoves
  <2>6. ~Refunded(g) /\ Refunded(g)'
    BY <2>1, <2>3 DEF Refunded, Live
  <2>7. m \in Int /\ p \in Accounts
    BY <1>0, <1>b, <2>1
  <2> HIDE DEF m, p
  <2>8. Booked(g)' - Booked(g) = -m
    BY <2>5, <2>6, <2>7 DEF Booked
  <2>9. Purses' = Purses + m /\ Ledger' = Ledger - m /\ Ledger \in Int
    BY <2>1, <2>7, OnePlusMoves
  <2> QED
    BY <2>1, <2>5, <2>7, <2>8, <2>9 DEF MovesFor, Moves
<1>3. CASE SubmitMove(g)
  <2>1. games' = [games EXCEPT ![g] = MoveBase(g)] /\ games[g].state = "InProgress"
        /\ UNCHANGED <<tokens, escrow, vault, settlements>>
    BY <1>3 DEF SubmitMove, InPlay, tokenVars
  <2>2. games'[g] = MoveBase(g)
    BY <2>1, Rewritten
  <2>3. SameStake(g) /\ games'[g].state = "InProgress"
    BY <1>0, <2>1, <2>2 DEF SameStake, MoveBase, Game
  <2>4. Sat(games[g])
    BY <1>a, <2>1 DEF Seated, Sat
  <2>5. /\ AtStake(g) - AtStake(g)' = 0 /\ Worth(games[g]) \in Int
        /\ Staked(g) = Worth(games[g]) /\ Staked(g)' = Worth(games[g])
    BY <2>1, <2>3, <2>4, NoSettlement
  <2>6. Booked(g)' - Booked(g) = 0
    BY <1>a, <2>1, <2>3, <2>5, SeatedBooked, SeatedBookedAfter
  <2>7. escrow \in [Accounts -> Int] /\ tokens \in [Accounts -> Int]
    BY DEF TypeOK
  <2>8. Purses \in Int /\ Ledger \in Int
    BY <2>7, PlusAdds, OnePlusMoves, <1>a, <2>1 DEF Seated
  <2>9. Purses' = Purses /\ Ledger' = Ledger
    BY <2>1 DEF Purses, Ledger
  <2> QED
    BY <1>0, <2>1, <2>5, <2>6, <2>8, <2>9 DEF MovesFor, Moves
<1>4. CASE SubmitMate(g)
  <2> DEFINE r == [MoveBase(g) EXCEPT !.state = "Completed", !.winner = OnTheClock(g)]
  <2>1. games' = [games EXCEPT ![g] = r] /\ games[g].state = "InProgress"
        /\ ProcessPayout(g, OnTheClock(g))
    BY <1>4 DEF SubmitMate, InPlay
  <2>2. games'[g] = r
    BY <2>1, Rewritten
  <2>3. SameStake(g) /\ games'[g].state = "Completed"
    BY <1>0, <2>2 DEF SameStake, MoveBase, Game
  <2> HIDE DEF r
  <2>4. OnTheClock(g) \in Accounts
    BY <1>a, <2>1, SeatedPlayers
  <2> QED
    BY <1>a, <2>1, <2>3, <2>4, WinMoves
<1>5. CASE SubmitDrawingMove(g)
  <2> DEFINE r == [MoveBase(g) EXCEPT !.state = "Drawn"]
  <2>1. games' = [games EXCEPT ![g] = r] /\ games[g].state = "InProgress" /\ ProcessDrawPayout(g)
    BY <1>5 DEF SubmitDrawingMove, InPlay
  <2>2. games'[g] = r
    BY <2>1, Rewritten
  <2>3. SameStake(g) /\ games'[g].state = "Drawn"
    BY <1>0, <2>2 DEF SameStake, MoveBase, Game
  <2> HIDE DEF r
  <2> QED
    BY <1>a, <2>1, <2>3, DrawnMoves
<1>6. CASE ClaimDraw(g)
  <2> DEFINE r == [games[g] EXCEPT !.state = "Drawn"]
  <2>1. games' = [games EXCEPT ![g] = r] /\ games[g].state = "InProgress" /\ ProcessDrawPayout(g)
    BY <1>6 DEF ClaimDraw, InPlay
  <2>2. games'[g] = r
    BY <2>1, Rewritten
  <2>3. SameStake(g) /\ games'[g].state = "Drawn"
    BY <1>0, <2>2 DEF SameStake, Game
  <2> HIDE DEF r
  <2> QED
    BY <1>a, <2>1, <2>3, DrawnMoves
<1>7. ASSUME NEW w \in Accounts, ClaimWin(g, w)  PROVE MovesFor(g)
  BY <1>7, <1>a, SettleForMoves DEF ClaimWin, InPlay
<1>8. ASSUME NEW p \in Accounts, Forfeit(g, p)  PROVE MovesFor(g)
  BY <1>8, <1>a, SeatedPlayers, SettleForMoves DEF Forfeit, InPlay
<1>9. CASE ClaimTimeoutWin(g) \/ ClaimTimeoutVictory(g)
  BY <1>9, <1>a, SeatedPlayers, SettleForMoves DEF ClaimTimeoutWin, ClaimTimeoutVictory, InPlay
<1>10. CASE Payout(g)
  <2> DEFINE r == [games[g] EXCEPT !.state = "Settled"]
  <2>1. games' = [games EXCEPT ![g] = r] /\ games[g].state = "Completed"
        /\ games[g].winner # NoOne /\ ProcessPayout(g, games[g].winner)
    BY <1>10 DEF Payout
  <2>2. games'[g] = r
    BY <2>1, Rewritten
  <2>3. SameStake(g) /\ games'[g].state = "Settled"
    BY <1>0, <2>2 DEF SameStake, Game
  <2> HIDE DEF r
  <2>4. Seated(games[g]) /\ games[g].winner \in Accounts
    BY <1>0, <2>1 DEF CoherentGame, Seated
  <2> QED
    BY <2>1, <2>3, <2>4, WinMoves
<1> QED
  BY <1>1, <1>2, <1>3, <1>4, <1>5, <1>6, <1>7, <1>8, <1>9, <1>10 DEF GameStep
\* A step that leaves the ledger and the game record's seats alone.
LEMMA UnmovedTotals ==
    ASSUME TypeOK, NEW a \in Accounts
    PROVE  /\ tokens' = tokens => Purses' = Purses + 0
           /\ escrow' = escrow => Ledger' = Ledger + 0
           /\ Purses \in Int /\ Ledger \in Int
<1>1. Purses \in Int /\ Ledger \in Int
  BY OnePlusMoves
<1>2. (tokens' = tokens => Purses' = Purses) /\ (escrow' = escrow => Ledger' = Ledger)
  BY DEF Purses, Ledger
<1> QED
  BY <1>1, <1>2

\* total_pool and total_amount are what the players have put in.
LEMMA PrizeStepMoves ==
    ASSUME TypeOK, GamesCoherent, NEW g \in GameIds, PrizeStep(g), ~CreateTournamentEscrow(g)
    PROVE  MovesFor(g)
<1> DEFINE r == [games[g] EXCEPT !.state = "Settled"]
           m == Worth(games[g])
<1>0. /\ games[g] \in Game /\ CoherentGame(games[g]) /\ vault \in Int
      /\ PrizePool(g) = m
  BY DEF TypeOK, GamesCoherent, PrizePool, Worth
<1>1. games[g].state = "Completed" /\ games' = [games EXCEPT ![g] = r]
  BY DEF PrizeStep, PayoutTournament, PayoutTournamentOptimized
<1>2. games'[g] = r
  BY <1>1, Rewritten
<1>3. SameStake(g) /\ games'[g].state = "Settled"
  BY <1>0, <1>2 DEF SameStake, Game
<1>4. Sat(games[g])
  BY <1>0, <1>1, SatIfCoherent
<1>5. Refunded(g)' <=> Refunded(g)
  BY <1>1, <1>3 DEF Refunded, SameStake, Live
<1> HIDE DEF r, m
<1>6. ASSUME NEW s \in Splits, PayoutTournament(g, s[1], s[2], s[3])
      PROVE  MovesFor(g)
  <2> DEFINE w == games[g].wager
             n == -w
             p1 == games[g].player1
             p2 == games[g].player2
             minus == IF p2 = NoOne THEN Plus(escrow, p1, n) ELSE Plus(Plus(escrow, p1, n), p2, n)
  <2>1. /\ escrow' = Split(minus, s[1], s[2], m, s[3])
        /\ UNCHANGED <<tokens, vault, settlements>>
    BY <1>0, <1>6 DEF PayoutTournament
  <2>2. /\ AtStake(g) - AtStake(g)' = 0 /\ m \in Int
        /\ Staked(g) = m /\ Staked(g)' = m
    BY <1>3, <1>4, <2>1, NoSettlement DEF m
  <2>3. Booked(g)' - Booked(g) = 0
    BY <1>5, <2>2 DEF Booked
  <2>4. /\ p1 \in Accounts /\ p2 \in Accounts \cup {NoOne} /\ n \in Int /\ n = -w /\ w \in Int
        /\ escrow \in [Accounts -> Int] /\ m = (IF p2 = NoOne THEN w ELSE 2 * w)
    BY <1>0, <1>4 DEF TypeOK, Game, Sat, Worth, m
  <2> HIDE DEF w, n, p1, p2
  <2>5. minus \in [Accounts -> Int] /\ SumFunction(minus) = Ledger - m /\ Ledger \in Int
    <3>1. CASE p2 = NoOne
      <4>1. /\ SumFunction(Plus(escrow, p1, n)) = SumFunction(escrow) + n
            /\ SumFunction(escrow) \in Int /\ Plus(escrow, p1, n) \in [Accounts -> Int]
        BY <2>4, PlusAdds
      <4> QED
        BY <2>4, <3>1, <4>1 DEF Ledger
    <3>2. CASE p2 # NoOne
      <4>1. n \in Int /\ p1 \in Accounts /\ p2 \in Accounts /\ escrow \in [Accounts -> Int]
        BY <2>4, <3>2
      <4>2. /\ SumFunction(Plus(Plus(escrow, p1, n), p2, n)) = SumFunction(escrow) + n + n
            /\ SumFunction(escrow) \in Int
        BY <4>1, PlusTwiceAdds
      <4>3. Plus(Plus(escrow, p1, n), p2, n) \in [Accounts -> Int]
        BY <4>1, TwoPlusType
      <4> QED
        BY <2>4, <3>2, <4>2, <4>3 DEF Ledger
    <3> QED
      BY <3>1, <3>2
  <2> HIDE DEF minus
  <2>6. SumFunction(Split(minus, s[1], s[2], m, s[3])) = SumFunction(minus) + m
    BY <2>2, <2>5, SplitsAdd
  <2>7. Ledger' = Ledger
    BY <2>1, <2>2, <2>5, <2>6 DEF Ledger
  <2>8. Purses' = Purses + 0 /\ Purses \in Int
    BY <2>1, <2>4, UnmovedTotals
  <2> QED
    BY <1>0, <2>1, <2>2, <2>3, <2>5, <2>7, <2>8 DEF MovesFor, Moves
<1>7. ASSUME NEW s \in Splits, PayoutTournamentOptimized(g, s[1], s[2], s[3])
      PROVE  MovesFor(g)
  <2>1. /\ tokens' = Split(tokens, s[1], s[2], m, s[3]) /\ vault' = vault - m
        /\ settlements' = [settlements EXCEPT ![g] = @ + 1] /\ escrow' = escrow
    BY <1>0, <1>7 DEF PayoutTournamentOptimized
  <2>2. /\ AtStake(g) - AtStake(g)' = m /\ m \in Int
        /\ Staked(g) = m /\ Staked(g)' = m
    BY <1>3, <1>4, <2>1, SettlementMoves DEF m
  <2>3. Booked(g)' - Booked(g) = 0
    BY <1>5, <2>2 DEF Booked
  <2>4. tokens \in [Accounts -> Int]
    BY DEF TypeOK
  <2>5. Purses' = Purses + m
    <3>1. SumFunction(Split(tokens, s[1], s[2], m, s[3])) = SumFunction(tokens) + m
      BY <2>2, <2>4, SplitsAdd
    <3> QED
      BY <2>1, <3>1 DEF Purses
  <2>6. Ledger' = Ledger + 0
    BY <1>4, <2>1, UnmovedTotals DEF Sat
  <2> QED
    BY <2>1, <2>2, <2>3, <2>5, <2>6 DEF MovesFor, Moves
<1> QED
  BY <1>6, <1>7 DEF PrizeStep

\* resolve_dispute ends the game like any other ending.
LEMMA ResolveMoves ==
    ASSUME TypeOK, GamesCoherent, NEW d \in DisputeIds, NEW g, g = disputes[d].game,
           (\E w \in Accounts : ResolveDisputeForWinner(d, w)) \/ ResolveDisputeAsDraw(d)
    PROVE  MovesFor(g)
<1>0. g \in GameIds
  BY DEF TypeOK, Dispute
<1>1. games[g].state = "InProgress"
  BY DEF ResolveDisputeForWinner, ResolveDisputeAsDraw, InPlay
<1>2. Seated(games[g]) /\ games[g] \in Game
  BY <1>0, <1>1 DEF GamesCoherent, CoherentGame, TypeOK
<1>3. ASSUME NEW w \in Accounts, ResolveDisputeForWinner(d, w)  PROVE MovesFor(g)
  <2>1. SettleFor(g, w)
    BY <1>3 DEF ResolveDisputeForWinner
  <2> QED
    BY <1>0, <1>1, <1>2, <2>1, SettleForMoves
<1>4. CASE ResolveDisputeAsDraw(d)
  <2> DEFINE r == [games[g] EXCEPT !.state = "Drawn"]
  <2>1. games' = [games EXCEPT ![g] = r] /\ ProcessDrawPayout(g)
    BY <1>4 DEF ResolveDisputeAsDraw
  <2>2. games'[g] = r
    BY <1>0, <2>1, Rewritten
  <2>3. SameStake(g) /\ games'[g].state = "Drawn"
    BY <1>2, <2>2 DEF SameStake, Game
  <2> HIDE DEF r
  <2> QED
    BY <1>0, <1>1, <1>2, <2>1, <2>3, DrawnMoves
<1> QED
  BY <1>3, <1>4

\* release_tournament_escrow pays the stake of its game.
LEMMA ReleaseMoves ==
    ASSUME TypeOK, GamesCoherent, TourneysCoherent, NEW e \in EscrowIds, NEW s \in Splits,
           NEW g, g = tourneys[e].game, ReleaseTournamentEscrow(e, s[1], s[2], s[3])
    PROVE  MovesFor(g)
<1> SUFFICES ASSUME NEW m, m = tourneys[e].total
             PROVE  MovesFor(g)
  OBVIOUS
<1>0. g \in GameIds /\ m \in Int /\ tokens \in [Accounts -> Int]
  BY DEF TypeOK, Tourney
<1>1. /\ tourneys[e].status = "Locked" /\ vault' = vault - m
      /\ tokens' = Split(tokens, s[1], s[2], m, s[3])
      /\ settlements' = [settlements EXCEPT ![g] = @ + 1]
      /\ UNCHANGED <<games, escrow>>
  BY DEF ReleaseTournamentEscrow
<1>2. /\ games[g].state \in {"Completed", "Settled"} /\ CoherentGame(games[g]) /\ games[g] \in Game
      /\ m = IF Seated(games[g]) THEN 2 * games[g].wager ELSE games[g].wager
  BY <1>0, <1>1 DEF TourneysCoherent, GamesCoherent, TypeOK
<1>3. Sat(games[g])
  BY <1>2, SatIfCoherent
<1>4. Worth(games[g]) = m
  BY <1>2, ConstantsAssumption DEF Worth, CoherentGame, Seated
<1>5. SameStake(g)
  BY <1>1 DEF SameStake
<1>6. AtStake(g) - AtStake(g)' = m /\ Staked(g) = m /\ Staked(g)' = m
  BY <1>0, <1>1, <1>3, <1>4, <1>5, SettlementMoves
<1>7. Booked(g)' - Booked(g) = 0
  <2>1. Refunded(g)' <=> Refunded(g)
    BY <1>1 DEF Refunded
  <2> QED
    BY <1>0, <1>6, <2>1 DEF Booked
<1>8. SumFunction(Split(tokens, s[1], s[2], m, s[3])) = SumFunction(tokens) + m
  BY <1>0, SplitsAdd
<1>9. Purses' = Purses + m
  BY <1>1, <1>8 DEF Purses
<1>10. Ledger' = Ledger + 0
  BY <1>1, <1>3, UnmovedTotals DEF Sat
<1> QED
  BY <1>1, <1>6, <1>7, <1>9, <1>10 DEF MovesFor, Moves
-----------------------------------------------------------------------------
(* The totals over all games and disputes.                                 *)

LEMMA SeatCount == ASSUME NEW a, NEW b  PROVE Cardinality({a, b} \ {NoOne}) \in Nat
<1> DEFINE S == {a} \cup {b}
<1>1. IsFiniteSet(S)
  <2>1. IsFiniteSet({a}) /\ IsFiniteSet({b})
    BY FS_Singleton
  <2> QED
    BY <2>1, FS_Union
<1> HIDE DEF S
<1>2. IsFiniteSet(S \ {NoOne})
  BY <1>1, FS_Subset
<1>3. Cardinality(S \ {NoOne}) \in Nat
  BY <1>2, FS_CardinalityType
<1>4. {a, b} \ {NoOne} = S \ {NoOne}
  BY DEF S
<1> QED
  BY <1>3, <1>4

LEMMA EntriesAreInts ==
    ASSUME NEW g \in GameIds
    PROVE  /\ TypeOK => AtStake(g) \in Int /\ Booked(g) \in Int
           /\ TypeOK' => AtStake(g)' \in Int /\ Booked(g)' \in Int
<1>1. \A w \in Int, c \in Nat, n \in Nat : w * c \in Int /\ (w * c) * (1 - n) \in Int
  OBVIOUS
<1>2. ASSUME TypeOK  PROVE AtStake(g) \in Int /\ Booked(g) \in Int
  <2>1. games[g].wager \in Int /\ settlements[g] \in Nat
    BY <1>2 DEF TypeOK, Game
  <2>2. Cardinality(Players(g)) \in Nat
    BY SeatCount DEF Players
  <2> QED
    BY <1>1, <2>1, <2>2 DEF AtStake, Booked, Staked
<1>3. ASSUME TypeOK'  PROVE AtStake(g)' \in Int /\ Booked(g)' \in Int
  <2>1. games'[g].wager \in Int /\ settlements'[g] \in Nat
    BY <1>3 DEF TypeOK, Game
  <2>2. Cardinality(Players(g)') \in Nat
    BY SeatCount DEF Players
  <2> QED
    BY <1>1, <2>1, <2>2 DEF AtStake, Booked, Staked
<1> QED
  BY <1>2, <1>3

\* Only g changes, so the totals change by what g adds to them.
OnlyGame(g) ==
    \A h \in GameIds \ {g} : games'[h] = games[h] /\ settlements'[h] = settlements[h]

LEMMA StakesMove ==
    ASSUME TypeOK, TypeOK', NEW g \in GameIds, OnlyGame(g)
    PROVE  Stakes' = Stakes + (AtStake(g)' - AtStake(g)) /\ Stakes \in Int
<1> DEFINE f == [h \in GameIds |-> AtStake(h)]
           k == [h \in GameIds |-> AtStake(h)']
<1>1. \A h \in GameIds \ {g} : AtStake(h)' = AtStake(h)
  BY DEF OnlyGame, AtStake, Staked, Players
<1>2. /\ \A h \in GameIds : f[h] \in Int /\ k[h] \in Int
      /\ \A h \in GameIds \ {g} : k[h] = f[h]
      /\ f[g] = AtStake(g) /\ k[g] = AtStake(g)'
  BY <1>1, EntriesAreInts
<1>3. SumFunction(f) = SumFunctionOnSet(f, GameIds) /\ SumFunction(k) = SumFunctionOnSet(k, GameIds)
  BY DEF SumFunction
<1>4. Stakes = SumFunction(f) /\ Stakes' = SumFunction(k)
  BY DEF Stakes
<1> HIDE DEF f, k
<1>5. /\ SumFunctionOnSet(k, GameIds) = SumFunctionOnSet(f, GameIds) + (k[g] - f[g])
      /\ SumFunctionOnSet(f, GameIds) \in Int
  BY <1>2, FiniteIds, SumChanges
<1> QED
  BY <1>2, <1>3, <1>4, <1>5

LEMMA EntriesMove ==
    ASSUME TypeOK, TypeOK', NEW g \in GameIds, OnlyGame(g)
    PROVE  Entries' = Entries + (Booked(g)' - Booked(g)) /\ Entries \in Int
<1> DEFINE f == [h \in GameIds |-> Booked(h)]
           k == [h \in GameIds |-> Booked(h)']
<1>1. \A h \in GameIds \ {g} : Booked(h)' = Booked(h)
  BY DEF OnlyGame, Booked, Refunded, Staked, Players
<1>2. /\ \A h \in GameIds : f[h] \in Int /\ k[h] \in Int
      /\ \A h \in GameIds \ {g} : k[h] = f[h]
      /\ f[g] = Booked(g) /\ k[g] = Booked(g)'
  BY <1>1, EntriesAreInts
<1>3. SumFunction(f) = SumFunctionOnSet(f, GameIds) /\ SumFunction(k) = SumFunctionOnSet(k, GameIds)
  BY DEF SumFunction
<1>4. Entries = SumFunction(f) /\ Entries' = SumFunction(k)
  BY DEF Entries
<1> HIDE DEF f, k
<1>5. /\ SumFunctionOnSet(k, GameIds) = SumFunctionOnSet(f, GameIds) + (k[g] - f[g])
      /\ SumFunctionOnSet(f, GameIds) \in Int
  BY <1>2, FiniteIds, SumChanges
<1> QED
  BY <1>2, <1>3, <1>4, <1>5

LEMMA FeesMove ==
    ASSUME TypeOK, TypeOK', NEW d \in DisputeIds,
           \A c \in DisputeIds \ {d} : FeeKept(c)' = FeeKept(c)
    PROVE  Fees' = Fees + (FeeKept(d)' - FeeKept(d)) /\ Fees \in Int
<1> DEFINE f == [c \in DisputeIds |-> FeeKept(c)]
           k == [c \in DisputeIds |-> FeeKept(c)']
<1>1. \A c \in DisputeIds : FeeKept(c) \in Int /\ FeeKept(c)' \in Int
  BY DEF TypeOK, Dispute, FeeKept
<1>2. /\ \A c \in DisputeIds : f[c] \in Int /\ k[c] \in Int
      /\ \A c \in DisputeIds \ {d} : k[c] = f[c]
      /\ f[d] = FeeKept(d) /\ k[d] = FeeKept(d)'
  BY <1>1
<1>3. /\ SumFunction(f) = SumFunctionOnSet(f, DisputeIds)
      /\ SumFunction(k) = SumFunctionOnSet(k, DisputeIds)
  BY DEF SumFunction
<1>4. Fees = SumFunction(f) /\ Fees' = SumFunction(k)
  BY DEF Fees
<1> HIDE DEF f, k
<1>5. /\ SumFunctionOnSet(k, DisputeIds) = SumFunctionOnSet(f, DisputeIds) + (k[d] - f[d])
      /\ SumFunctionOnSet(f, DisputeIds) \in Int
  BY <1>2, FiniteIds, SumChanges
<1> QED
  BY <1>2, <1>3, <1>4, <1>5

LEMMA FeesStay ==
    ASSUME TypeOK, \A c \in DisputeIds : FeeKept(c)' = FeeKept(c)
    PROVE  Fees' = Fees /\ Fees \in Int
<1> DEFINE f == [c \in DisputeIds |-> FeeKept(c)]
<1>1. Fees' = Fees
  BY DEF Fees
<1>2. \A c \in DisputeIds : f[c] \in Int
  BY DEF TypeOK, Dispute, FeeKept
<1>3. Fees = SumFunctionOnSet(f, DisputeIds)
  BY DEF Fees, SumFunction
<1> HIDE DEF f
<1>4. SumFunctionOnSet(f, DisputeIds) \in Int
  BY <1>2, FiniteIds, SumIsInt
<1> QED
  BY <1>1, <1>3, <1>4

Money == VaultAccounting /\ LedgerAccounting /\ NoTokenLost

LEMMA MoneyIs ==
    /\ Money <=> vault = Stakes + Fees /\ Ledger = Entries
                 /\ vault + Purses = SumFunction(StartTokens)
    /\ Money' <=> vault' = Stakes' + Fees' /\ Ledger' = Entries'
                  /\ vault' + Purses' = SumFunction(StartTokens)
BY DEF Money, VaultAccounting, LedgerAccounting, NoTokenLost, Stakes, Fees, Ledger, Entries, Purses

\* A step on one game keeps the books.
LEMMA GameMoney ==
    ASSUME TypeOK, TypeOK', Money, NEW g \in GameIds, OnlyGame(g), MovesFor(g),
           \A c \in DisputeIds : FeeKept(c)' = FeeKept(c)
    PROVE  Money'
<1>1. /\ Stakes' = Stakes + (AtStake(g)' - AtStake(g)) /\ Stakes \in Int
      /\ Entries' = Entries + (Booked(g)' - Booked(g)) /\ Entries \in Int
      /\ Fees' = Fees /\ Fees \in Int
  BY StakesMove, EntriesMove, FeesStay
<1>2. /\ AtStake(g) \in Int /\ AtStake(g)' \in Int /\ Booked(g) \in Int /\ Booked(g)' \in Int
  BY EntriesAreInts
<1>3. /\ vault' = vault - (AtStake(g) - AtStake(g)')
      /\ Purses' = Purses + (AtStake(g) - AtStake(g)')
      /\ Ledger' = Ledger + (Booked(g)' - Booked(g))
  BY DEF MovesFor, Moves
<1>4. Purses \in Int
  <2>1. tokens \in [Accounts -> Int]
    BY DEF TypeOK
  <2>2. \A a \in Accounts : tokens[a] \in Int
    BY <2>1
  <2>3. SumFunctionOnSet(tokens, Accounts) \in Int
    BY <2>2, FiniteIds, SumIsInt
  <2>4. DOMAIN tokens = Accounts
    BY <2>1
  <2> QED
    BY <2>3, <2>4 DEF Purses, SumFunction
<1> QED
  BY <1>1, <1>2, <1>3, <1>4, MoneyIs

\* A fee comes in or goes back.
LEMMA FeeMoney ==
    ASSUME TypeOK, TypeOK', Money, NEW d \in DisputeIds, NEW n \in Int, NEW a \in Accounts,
           \A c \in DisputeIds \ {d} : FeeKept(c)' = FeeKept(c),
           FeeKept(d)' = FeeKept(d) + n, vault' = vault + n, Purses' = Purses - n,
           UNCHANGED <<games, settlements, escrow>>
    PROVE  Money'
<1>1. Fees' = Fees + (FeeKept(d)' - FeeKept(d)) /\ Fees \in Int
  BY FeesMove
<1>2. FeeKept(d) \in Int
  BY DEF TypeOK, Dispute, FeeKept
<1>3. Stakes' = Stakes /\ Entries' = Entries /\ Ledger' = Ledger
  BY DEF Stakes, Entries, Ledger, AtStake, Booked, Refunded, Staked, Players
<1>4. Purses \in Int
  BY UnmovedTotals
<1>5. Stakes \in Int
  <2>1. 1 \in GameIds
    BY ConstantsAssumption DEF GameIds
  <2>2. OnlyGame(1)
    BY DEF OnlyGame
  <2> QED
    BY <2>1, <2>2, StakesMove
<1> QED
  BY <1>1, <1>2, <1>3, <1>4, <1>5, MoneyIs
-----------------------------------------------------------------------------
(* Every step keeps the books.                                             *)

LEMMA MoneyStays ==
    ASSUME Money, UNCHANGED <<games, settlements, disputes, tokens, escrow, vault>>
    PROVE  Money'
<1>1. Stakes' = Stakes /\ Entries' = Entries /\ Fees' = Fees
  BY DEF Stakes, Entries, Fees, AtStake, Booked, Refunded, Staked, Players, FeeKept
<1>2. Purses' = Purses /\ Ledger' = Ledger
  BY DEF Purses, Ledger
<1> QED
  BY <1>1, <1>2, MoneyIs

LEMMA EvolvingOnly ==
    ASSUME IndInv, NEW g \in GameIds, Evolving(g)
    PROVE  OnlyGame(g)
BY EvolvingKeeps DEF IndInv, OnlyGame

LEMMA CreateGameMoney ==
    ASSUME IndInv, TypeOK', Blank, Money, NEW p \in Accounts, NEW w \in Wagers, CreateGame(p, w)
    PROVE  Money'
<1> SUFFICES ASSUME NEW g, g = gameCounter + 1
             PROVE  Money'
  OBVIOUS
<1> DEFINE r == [NoGame EXCEPT !.state = "Created", !.player1 = p, !.wager = w,
                               !.lastMoveAt = seq]
<1>0. TypeOK /\ PaidByState
  BY DEF IndInv
<1>1. /\ g \in GameIds /\ games[g].state = "Absent" /\ games'[g] = r
      /\ \A h \in GameIds : h # g => games'[h] = games[h]
      /\ settlements' = settlements
  BY CreateGameKeeps
<1>2. games[g] = NoGame /\ settlements[g] = 0
  BY <1>0, <1>1 DEF Blank, PaidByState, PaidFor
<1>3. w \in Int /\ p # NoOne
  BY ConstantsAssumption
<1>4. /\ games'[g].state = "Created" /\ games'[g].player1 = p /\ games'[g].player2 = NoOne
      /\ games'[g].wager = w
  BY <1>1 DEF NoGame
<1> HIDE DEF r
<1>5. Staked(g)' = w
  BY <1>1, <1>3, <1>4, StakedIs DEF Sat, Worth
<1>6. Staked(g) = 0
  <2>1. games[g].wager = 0
    BY <1>2 DEF NoGame
  <2>2. Cardinality(Players(g)) \in Nat
    BY SeatCount DEF Players
  <2> QED
    BY <2>1, <2>2 DEF Staked
<1>7. AtStake(g) = 0 /\ AtStake(g)' = w
  BY <1>1, <1>2, <1>3, <1>5, <1>6 DEF AtStake
<1>8. Booked(g) = 0 /\ Booked(g)' = w
  BY <1>4, <1>5, <1>6 DEF Booked, Refunded, Live
<1>9. /\ vault' = vault + w /\ tokens' = Plus(tokens, p, -w) /\ escrow' = Plus(escrow, p, w)
      /\ disputes' = disputes
  BY DEF CreateGame, disputeVars
<1>10. MovesFor(g)
  <2>1. Purses' = Purses - w /\ Ledger' = Ledger + w /\ Purses \in Int
    BY <1>0, <1>3, <1>9, OnePlusMoves
  <2>2. vault \in Int
    BY <1>0 DEF TypeOK
  <2> QED
    BY <1>3, <1>7, <1>8, <1>9, <2>1, <2>2 DEF MovesFor, Moves
<1>11. OnlyGame(g)
  BY <1>1 DEF OnlyGame
<1>12. \A c \in DisputeIds : FeeKept(c)' = FeeKept(c)
  BY <1>9 DEF FeeKept
<1> QED
  BY <1>0, <1>1, <1>10, <1>11, <1>12, GameMoney

LEMMA GameStepMoney ==
    ASSUME IndInv, TypeOK', Money, NEW g \in GameIds, GameStep(g) \/ PrizeStep(g)
    PROVE  Money'
<1>0. TypeOK /\ GamesCoherent /\ PaidByState
  BY DEF IndInv
<1>1. CASE CreateTournamentEscrow(g)
  <2>1. UNCHANGED <<games, settlements, disputes, tokens, escrow, vault>>
    BY <1>1 DEF CreateTournamentEscrow, tokenVars, disputeVars
  <2> QED
    BY <2>1, MoneyStays
<1>2. CASE ~CreateTournamentEscrow(g)
  <2>1. Evolving(g) /\ disputes' = disputes
    BY <1>0, <1>2, GameStepEvolves, PrizeStepEvolves
  <2>2. MovesFor(g)
    BY <1>0, <1>2, GameStepMoves, PrizeStepMoves
  <2>3. \A c \in DisputeIds : FeeKept(c)' = FeeKept(c)
    BY <2>1 DEF FeeKept
  <2>4. OnlyGame(g)
    BY <2>1, EvolvingOnly
  <2> QED
    BY <1>0, <2>2, <2>3, <2>4, GameMoney
<1> QED
  BY <1>1, <1>2

LEMMA ReleaseMoney ==
    ASSUME IndInv, TypeOK', Money, NEW e \in EscrowIds, EscrowStep(e)
    PROVE  Money'
<1> SUFFICES ASSUME NEW g, g = tourneys[e].game
             PROVE  Money'
  OBVIOUS
<1>0. TypeOK /\ GamesCoherent /\ TourneysCoherent /\ g \in GameIds
  BY DEF IndInv, TypeOK, Tourney
<1>1. PICK s \in Splits : ReleaseTournamentEscrow(e, s[1], s[2], s[3])
  BY DEF EscrowStep
<1>2. MovesFor(g)
  BY <1>0, <1>1, ReleaseMoves
<1>3. settlements' = [settlements EXCEPT ![g] = @ + 1] /\ UNCHANGED <<games, disputes>>
  BY <1>1 DEF ReleaseTournamentEscrow, disputeVars
<1>4. OnlyGame(g)
  BY <1>0, <1>3 DEF OnlyGame, TypeOK
<1>5. \A c \in DisputeIds : FeeKept(c)' = FeeKept(c)
  BY <1>3 DEF FeeKept
<1> QED
  BY <1>0, <1>2, <1>4, <1>5, GameMoney

LEMMA FileDisputeMoney ==
    ASSUME IndInv, TypeOK', Blank, Money, NEW g \in GameIds, NEW p \in Accounts, FileDispute(g, p)
    PROVE  Money'
<1> SUFFICES ASSUME NEW d, d = disputeCounter + 1, NEW fee, fee = cfg.disputeFee
             PROVE  Money'
  OBVIOUS
<1> DEFINE r == [status |-> "Pending", game |-> g, filer |-> p, paidFee |-> fee, refund |-> 0]
<1>0. TypeOK /\ DisputesCoherent
  BY DEF IndInv
<1>1. /\ d \in DisputeIds /\ d > disputeCounter
  <2>1. disputeCounter \in 0..MaxDisputes /\ disputeCounter < MaxDisputes
    BY <1>0 DEF FileDispute, TypeOK
  <2> QED
    BY <2>1, IdTypes DEF DisputeIds
<1>2. disputes[d].status = "Absent"
  BY <1>0, <1>1 DEF DisputesCoherent
<1>3. fee \in Int /\ disputes \in [DisputeIds -> Dispute]
  BY <1>0 DEF TypeOK, Config
<1>4. /\ disputes' = [disputes EXCEPT ![d] = r] /\ tokens' = Plus(tokens, p, -fee)
      /\ vault' = vault + fee /\ UNCHANGED <<games, settlements, escrow>>
  BY DEF FileDispute
<1>5. disputes'[d] = r /\ \A c \in DisputeIds \ {d} : disputes'[c] = disputes[c]
  BY <1>1, <1>3, <1>4
<1>6. FeeKept(d) = 0 /\ FeeKept(d)' = fee
  BY <1>1, <1>2, <1>3, <1>5 DEF FeeKept, Blank
<1>7. \A c \in DisputeIds \ {d} : FeeKept(c)' = FeeKept(c)
  BY <1>5 DEF FeeKept
<1>8. Purses' = Purses - fee
  BY <1>0, <1>3, <1>4, OnePlusMoves
<1>9. FeeKept(d)' = FeeKept(d) + fee
  BY <1>3, <1>6
<1> HIDE DEF r
<1> QED
  BY <1>0, <1>1, <1>3, <1>4, <1>7, <1>8, <1>9, FeeMoney

LEMMA RejectDisputeMoney ==
    ASSUME IndInv, TypeOK', Blank, Money, NEW d \in DisputeIds, RejectDispute(d)
    PROVE  Money'
<1> SUFFICES ASSUME NEW fee, fee = cfg.disputeFee, NEW n, n = -fee, NEW p, p = disputes[d].filer
             PROVE  Money'
  OBVIOUS
<1> DEFINE r == [disputes[d] EXCEPT !.status = "Rejected", !.refund = fee]
<1>0. TypeOK /\ DisputesCoherent
  BY DEF IndInv
<1>1. /\ fee \in Int /\ n \in Int /\ disputes \in [DisputeIds -> Dispute]
      /\ disputes[d] \in Dispute /\ vault \in Int
  BY <1>0 DEF TypeOK, Config
<1>2. p \in Accounts
  BY <1>0 DEF RejectDispute, DisputesCoherent, Players, Seated
<1>3. /\ disputes' = [disputes EXCEPT ![d] = r] /\ tokens' = Plus(tokens, p, fee)
      /\ vault' = vault - fee /\ UNCHANGED <<games, settlements, escrow>>
      /\ disputes[d].status = "Pending"
  BY DEF RejectDispute
<1>4. disputes'[d] = r /\ \A c \in DisputeIds \ {d} : disputes'[c] = disputes[c]
  BY <1>1, <1>3
<1>5. disputes'[d].refund = fee /\ disputes'[d].paidFee = disputes[d].paidFee
  BY <1>1, <1>4 DEF Dispute
<1> HIDE DEF r
<1>6. disputes[d].refund = 0 /\ disputes[d].paidFee \in Int
  BY <1>1, <1>3 DEF Blank, Dispute
<1>7. FeeKept(d)' = FeeKept(d) + n
  BY <1>1, <1>5, <1>6 DEF FeeKept
<1>8. \A c \in DisputeIds \ {d} : FeeKept(c)' = FeeKept(c)
  BY <1>4 DEF FeeKept
<1>9. Purses' = Purses + fee /\ Purses \in Int
  BY <1>0, <1>1, <1>2, <1>3, OnePlusMoves
<1>10. Purses' = Purses - n /\ vault' = vault + n
  BY <1>1, <1>3, <1>9
<1> QED
  BY <1>0, <1>1, <1>2, <1>3, <1>7, <1>8, <1>10, FeeMoney

LEMMA ResolveMoney ==
    ASSUME IndInv, TypeOK', Money, NEW d \in DisputeIds,
           (\E w \in Accounts : ResolveDisputeForWinner(d, w)) \/ ResolveDisputeAsDraw(d)
    PROVE  Money'
<1> SUFFICES ASSUME NEW g, g = disputes[d].game
             PROVE  Money'
  OBVIOUS
<1>0. TypeOK /\ GamesCoherent /\ g \in GameIds
  BY DEF IndInv, TypeOK, Dispute
<1>1. Evolving(g) /\ disputes' = [disputes EXCEPT ![d].status = "Resolved"]
  BY <1>0, ResolveEvolves
<1>2. MovesFor(g)
  BY <1>0, ResolveMoves
<1>3. \A c \in DisputeIds : FeeKept(c)' = FeeKept(c)
  BY <1>0, <1>1 DEF FeeKept, TypeOK, Dispute
<1>4. OnlyGame(g)
  BY <1>1, <1>0, EvolvingOnly
<1> QED
  BY <1>0, <1>2, <1>3, <1>4, GameMoney

LEMMA NextMoney ==
    ASSUME IndInv, TypeOK', Blank, Money, [Next]_vars
    PROVE  Money'
<1>1. CASE AdminStep \/ LedgerCloses \/ UNCHANGED vars
  <2>1. UNCHANGED <<games, settlements, disputes, tokens, escrow, vault>>
    BY <1>1 DEF AdminStep, AdminCall, Pause, Unpause, AddWhitelistedToken,
       RemoveWhitelistedToken, SetMaxStake, SetMaxPrizePool, ConfigureFees,
       ConfigureDisputeSystem, ConfigureTimeout, ConfigureTimeoutDeadline,
       ConfigureTournamentTimelock, SetPlayerRating, LedgerCloses, vars, tokenVars, disputeVars
  <2> QED
    BY <2>1, MoneyStays
<1>2. ASSUME NEW d \in DisputeIds, DisputeStep(d)  PROVE Money'
  BY <1>2, ResolveMoney, RejectDisputeMoney DEF DisputeStep
<1> QED
  BY <1>1, <1>2, CreateGameMoney, GameStepMoney, ReleaseMoney, FileDisputeMoney DEF Next

LEMMA InitMoney == ASSUME Init PROVE Money /\ Blank
<1>0. 1 \in GameIds
  BY ConstantsAssumption DEF GameIds
<1>1. \A g \in GameIds : games[g] = NoGame /\ settlements[g] = 0
  BY DEF Init
<1>2. \A g \in GameIds : AtStake(g) = 0 /\ Booked(g) = 0
  <2> TAKE g \in GameIds
  <2>1. Cardinality(Players(g)) \in Nat
    BY SeatCount DEF Players
  <2>2. Staked(g) = 0
    BY <1>1, <2>1 DEF Staked, NoGame
  <2> QED
    BY <1>1, <2>2 DEF AtStake, Booked
<1>3. \A d \in DisputeIds : FeeKept(d) = 0
  BY DEF Init, FeeKept
<1>4. Stakes = 0 /\ Entries = 0
  <2> DEFINE f == [g \in GameIds |-> AtStake(g)]
             k == [g \in GameIds |-> Booked(g)]
  <2>1. (\A g \in GameIds : f[g] = 0) /\ (\A g \in GameIds : k[g] = 0)
    BY <1>2
  <2>2. Stakes = SumFunctionOnSet(f, GameIds) /\ Entries = SumFunctionOnSet(k, GameIds)
    BY DEF Stakes, Entries, SumFunction
  <2> HIDE DEF f, k
  <2> QED
    BY <2>1, <2>2, FiniteIds, SumOfZeros
<1>5. Fees = 0
  <2> DEFINE f == [d \in DisputeIds |-> FeeKept(d)]
  <2>1. \A d \in DisputeIds : f[d] = 0
    BY <1>3
  <2>2. Fees = SumFunctionOnSet(f, DisputeIds)
    BY DEF Fees, SumFunction
  <2> HIDE DEF f
  <2> QED
    BY <2>1, <2>2, FiniteIds, SumOfZeros
<1>6. Ledger = 0
  <2>1. escrow = [a \in Accounts |-> 0]
    BY DEF Init
  <2>2. (\A a \in Accounts : escrow[a] = 0) /\ Ledger = SumFunctionOnSet(escrow, Accounts)
    BY <2>1 DEF Ledger, SumFunction
  <2> QED
    BY <2>2, FiniteIds, SumOfZeros
<1>7. vault + Purses = SumFunction(StartTokens)
  <2>1. TypeOK /\ tokens = StartTokens /\ vault = 0
    BY InitType DEF Init
  <2>2. \A a \in Accounts : StartTokens[a] \in Int
    BY ConstantsAssumption
  <2>3. SumFunctionOnSet(StartTokens, Accounts) \in Int
    BY <2>2, FiniteIds, SumIsInt
  <2>4. DOMAIN StartTokens = Accounts
    BY ConstantsAssumption
  <2> QED
    BY <2>1, <2>3, <2>4 DEF Purses, SumFunction
<1>8. Money
  BY <1>4, <1>5, <1>6, <1>7, MoneyIs DEF Init
<1>9. Blank
  BY <1>1 DEF Init, Blank
<1> QED
  BY <1>8, <1>9
-----------------------------------------------------------------------------
(* Unused ids stay empty.                                                  *)

LEMMA DisputesChange ==
    ASSUME IndInv, [Next]_vars
    PROVE  \/ disputes' = disputes
           \/ \E d \in DisputeIds : \E r :
                 /\ disputes' = [disputes EXCEPT ![d] = r]
                 /\ r.status \in {"Pending", "Resolved", "Rejected"}
                 /\ r.status = "Pending" => r.refund = 0
<1>0. TypeOK
  BY DEF IndInv
<1>1. ASSUME NEW g \in GameIds, NEW p \in Accounts, FileDispute(g, p)
      PROVE  \E d \in DisputeIds : \E r :
                 /\ disputes' = [disputes EXCEPT ![d] = r]
                 /\ r.status = "Pending" /\ r.refund = 0
  <2> DEFINE r == [status |-> "Pending", game |-> g, filer |-> p, paidFee |-> cfg.disputeFee,
                   refund |-> 0]
  <2>1. disputeCounter \in 0..MaxDisputes /\ disputeCounter < MaxDisputes
    BY <1>0, <1>1 DEF FileDispute, TypeOK
  <2>2. disputeCounter + 1 \in DisputeIds
    BY <2>1, IdTypes DEF DisputeIds
  <2>3. disputes' = [disputes EXCEPT ![disputeCounter + 1] = r]
    BY <1>1 DEF FileDispute
  <2>4. r.status = "Pending" /\ r.refund = 0
    OBVIOUS
  <2> HIDE DEF r
  <2> QED
    BY <2>2, <2>3, <2>4
<1>2. ASSUME NEW d \in DisputeIds, DisputeStep(d)
      PROVE  \E r : disputes' = [disputes EXCEPT ![d] = r] /\ r.status \in {"Resolved", "Rejected"}
  <2>1. disputes[d] \in Dispute
    BY <1>0 DEF TypeOK
  <2>2. CASE RejectDispute(d)
    <3> DEFINE r == [disputes[d] EXCEPT !.status = "Rejected", !.refund = cfg.disputeFee]
    <3>1. disputes' = [disputes EXCEPT ![d] = r] /\ r.status = "Rejected"
      BY <2>1, <2>2 DEF RejectDispute, Dispute
    <3> QED
      BY <3>1
  <2>3. CASE (\E w \in Accounts : ResolveDisputeForWinner(d, w)) \/ ResolveDisputeAsDraw(d)
    <3> DEFINE r == [disputes[d] EXCEPT !.status = "Resolved"]
    <3>1. disputes' = [disputes EXCEPT ![d] = r] /\ r.status = "Resolved"
      BY <1>0, <2>1, <2>3, ResolveEvolves DEF Dispute
    <3> QED
      BY <3>1
  <2> QED
    BY <1>2, <2>2, <2>3 DEF DisputeStep
<1>3. ASSUME NEW g \in GameIds, GameStep(g) \/ PrizeStep(g)  PROVE disputes' = disputes
  BY <1>0, <1>3, GameStepEvolves, PrizeStepEvolves DEF IndInv, CreateTournamentEscrow, disputeVars
<1>4. CASE AdminStep \/ LedgerCloses \/ UNCHANGED vars
  BY <1>4 DEF AdminStep, AdminCall, Pause, Unpause, AddWhitelistedToken,
     RemoveWhitelistedToken, SetMaxStake, SetMaxPrizePool, ConfigureFees,
     ConfigureDisputeSystem, ConfigureTimeout, ConfigureTimeoutDeadline,
     ConfigureTournamentTimelock, SetPlayerRating, LedgerCloses, vars, disputeVars
<1>5. ASSUME (\E p \in Accounts, w \in Wagers : CreateGame(p, w))
             \/ \E e \in EscrowIds : EscrowStep(e)
      PROVE  disputes' = disputes
  BY <1>5 DEF CreateGame, EscrowStep, ReleaseTournamentEscrow, disputeVars
<1> QED
  BY <1>1, <1>2, <1>3, <1>4, <1>5 DEF Next

LEMMA NextBlank ==
    ASSUME IndInv, Blank, [Next]_vars
    PROVE  Blank'
<1>0. TypeOK /\ GamesCoherent /\ PaidByState
  BY DEF IndInv
<1>1. \A g \in GameIds : games'[g].state = "Absent" => games'[g] = NoGame
  <2>1. ASSUME NEW p \in Accounts, NEW w \in Wagers, CreateGame(p, w), NEW g \in GameIds,
               games'[g].state = "Absent"
        PROVE  games'[g] = NoGame
    <3>1. games'[gameCounter + 1].state = "Created"
      BY <2>1, CreateGameKeeps DEF NoGame
    <3>2. games'[g] = games[g]
      BY <2>1, <3>1, CreateGameKeeps
    <3> QED
      BY <2>1, <3>2 DEF Blank
  <2>2. ASSUME NEW h \in GameIds, Evolving(h), NEW g \in GameIds, games'[g].state = "Absent"
        PROVE  games'[g] = NoGame
    <3>1. games[g].state = "Absent" /\ g # h
      BY <1>0, <2>2, EvolvingKeeps
    <3>2. games'[g] = games[g]
      BY <1>0, <2>2, <3>1, EvolvingKeeps
    <3> QED
      BY <3>1, <3>2 DEF Blank
  <2>3. CASE games' = games
    BY <2>3 DEF Blank
  <2> QED
    BY <2>1, <2>2, <2>3, StepKinds
<1>2. \A d \in DisputeIds :
          /\ disputes'[d].status = "Absent" => disputes'[d].paidFee = 0
          /\ disputes'[d].status \in {"Absent", "Pending"} => disputes'[d].refund = 0
  <2>1. disputes \in [DisputeIds -> Dispute]
    BY <1>0 DEF TypeOK
  <2> QED
    BY <2>1, DisputesChange DEF Blank
<1> QED
  BY <1>1, <1>2 DEF Blank

-----------------------------------------------------------------------------
(* The active escrows of an organiser.                                     *)

LEMMA LockedForIsFinite ==
    \A a \in Accounts : IsFiniteSet(LockedFor(a)) /\ Cardinality(LockedFor(a)) \in Nat
<1> TAKE a \in Accounts
<1>1. LockedFor(a) \in SUBSET EscrowIds
  BY DEF LockedFor
<1>2. IsFiniteSet(LockedFor(a))
  BY <1>1, FiniteIds, FS_Subset
<1> QED
  BY <1>2, FS_CardinalityType

LEMMA CreateEscrowCounted ==
    ASSUME IndInv, ActiveEscrowsCounted, NEW g \in GameIds, CreateTournamentEscrow(g)
    PROVE  ActiveEscrowsCounted'
<1> SUFFICES ASSUME NEW n, n = tourneyCount + 1, NEW p, p = games[g].player1
             PROVE  ActiveEscrowsCounted'
  OBVIOUS
<1> DEFINE t == [status |-> "Locked", game |-> g, player |-> p,
                 total |-> PrizePool(g), lockedUntil |-> seq + cfg.timelock]
<1>0. TypeOK /\ GamesCoherent /\ TourneysCoherent
  BY DEF IndInv
<1>1. n \in EscrowIds /\ n > tourneyCount
  <2>1. tourneyCount \in 0..MaxTourneys /\ tourneyCount < MaxTourneys
    BY <1>0 DEF CreateTournamentEscrow, TypeOK
  <2> QED
    BY <2>1, IdTypes DEF EscrowIds
<1>2. tourneys[n].status = "Absent"
  BY <1>0, <1>1 DEF TourneysCoherent
<1>3. /\ tourneys \in [EscrowIds -> Tourney] /\ activeEscrows \in [Accounts -> Int]
  BY <1>0 DEF TypeOK
<1>4. /\ tourneys' = [tourneys EXCEPT ![n] = t] /\ activeEscrows' = Plus(activeEscrows, p, 1)
      /\ activeEscrows[p] < MaxActiveEscrows /\ games[g].state = "Completed"
  BY DEF CreateTournamentEscrow
<1>5. p \in Accounts
  BY <1>0, <1>4 DEF GamesCoherent, CoherentGame
<1>6. tourneys'[n] = t /\ \A c \in EscrowIds \ {n} : tourneys'[c] = tourneys[c]
  BY <1>1, <1>3, <1>4
<1>7. tourneys'[n].status = "Locked" /\ tourneys'[n].player = p
  BY <1>6
<1> HIDE DEF t
<1>8. n \notin LockedFor(p)
  BY <1>2 DEF LockedFor
<1>9. /\ LockedFor(p)' = LockedFor(p) \cup {n}
      /\ \A a \in Accounts \ {p} : LockedFor(a)' = LockedFor(a)
  BY <1>1, <1>2, <1>6, <1>7 DEF LockedFor
<1>10. Cardinality(LockedFor(p)') = Cardinality(LockedFor(p)) + 1
  <2> DEFINE S == LockedFor(p)
  <2>1. IsFiniteSet(S) /\ n \notin S
    BY <1>5, <1>8, LockedForIsFinite
  <2> HIDE DEF S
  <2>2. Cardinality(S \cup {n}) = Cardinality(S) + 1
    BY <2>1, FS_AddElement
  <2> QED
    BY <1>9, <2>2 DEF S
<1>11. activeEscrows'[p] = activeEscrows[p] + 1 /\ activeEscrows[p] \in Int
       /\ \A a \in Accounts \ {p} : activeEscrows'[a] = activeEscrows[a]
  BY <1>3, <1>4, <1>5 DEF Plus
<1>12. ASSUME NEW a \in Accounts
       PROVE  /\ activeEscrows'[a] = Cardinality(LockedFor(a)')
              /\ activeEscrows'[a] <= MaxActiveEscrows
  <2>1. activeEscrows[a] = Cardinality(LockedFor(a)) /\ activeEscrows[a] <= MaxActiveEscrows
    BY DEF ActiveEscrowsCounted
  <2>2. CASE a = p
    BY <1>4, <1>10, <1>11, <2>1, <2>2, ConstantsAssumption
  <2>3. CASE a # p
    BY <1>9, <1>11, <2>1, <2>3
  <2> QED
    BY <2>2, <2>3
<1> QED
  BY <1>12 DEF ActiveEscrowsCounted

LEMMA ReleaseCounted ==
    ASSUME IndInv, ActiveEscrowsCounted, NEW e \in EscrowIds, EscrowStep(e)
    PROVE  ActiveEscrowsCounted'
<1> SUFFICES ASSUME NEW p, p = tourneys[e].player
             PROVE  ActiveEscrowsCounted'
  OBVIOUS
<1> DEFINE t == [tourneys[e] EXCEPT !.status = "Released"]
<1>0. TypeOK /\ GamesCoherent /\ TourneysCoherent
  BY DEF IndInv
<1>1. /\ tourneys[e].status = "Locked" /\ tourneys' = [tourneys EXCEPT ![e] = t]
      /\ activeEscrows' = [activeEscrows EXCEPT ![p] = OneLess(@)]
  BY DEF EscrowStep, ReleaseTournamentEscrow
<1>2. /\ tourneys \in [EscrowIds -> Tourney] /\ activeEscrows \in [Accounts -> Int]
      /\ tourneys[e] \in Tourney /\ tourneys[e].game \in GameIds
  BY <1>0 DEF TypeOK, Tourney
<1>3. p \in Accounts
  BY <1>0, <1>1, <1>2 DEF GamesCoherent, CoherentGame, TourneysCoherent
<1>4. tourneys'[e] = t /\ \A c \in EscrowIds \ {e} : tourneys'[c] = tourneys[c]
  BY <1>1, <1>2
<1>5. tourneys'[e].status = "Released"
  BY <1>2, <1>4 DEF Tourney
<1> HIDE DEF t
<1>6. e \in LockedFor(p)
  BY <1>1 DEF LockedFor
<1>7. /\ LockedFor(p)' = LockedFor(p) \ {e}
      /\ \A a \in Accounts \ {p} : LockedFor(a)' = LockedFor(a)
  BY <1>4, <1>5 DEF LockedFor
<1>8. Cardinality(LockedFor(p)') = Cardinality(LockedFor(p)) - 1 /\ Cardinality(LockedFor(p)) \in Nat
      /\ Cardinality(LockedFor(p)') \in Nat
  <2> DEFINE S == LockedFor(p)
  <2>1. IsFiniteSet(S) /\ e \in S
    BY <1>3, <1>6, LockedForIsFinite
  <2> HIDE DEF S
  <2>2. Cardinality(S \ {e}) = Cardinality(S) - 1 /\ IsFiniteSet(S \ {e})
    BY <2>1, FS_RemoveElement
  <2>3. Cardinality(S) \in Nat /\ Cardinality(S \ {e}) \in Nat
    BY <2>1, <2>2, FS_CardinalityType
  <2> QED
    BY <1>7, <2>2, <2>3 DEF S
<1>9. activeEscrows[p] = Cardinality(LockedFor(p)) /\ activeEscrows[p] <= MaxActiveEscrows
  BY <1>3 DEF ActiveEscrowsCounted
<1>10. activeEscrows'[p] = activeEscrows[p] - 1
       /\ \A a \in Accounts \ {p} : activeEscrows'[a] = activeEscrows[a]
  BY <1>1, <1>2, <1>3, <1>8, <1>9 DEF OneLess
<1>11. ASSUME NEW a \in Accounts
       PROVE  /\ activeEscrows'[a] = Cardinality(LockedFor(a)')
              /\ activeEscrows'[a] <= MaxActiveEscrows
  <2>1. CASE a = p
    BY <1>8, <1>9, <1>10, <2>1, ConstantsAssumption
  <2>2. CASE a # p
    BY <1>7, <1>10, <2>2 DEF ActiveEscrowsCounted
  <2> QED
    BY <2>1, <2>2
<1> QED
  BY <1>11 DEF ActiveEscrowsCounted

LEMMA NextCounted ==
    ASSUME IndInv, ActiveEscrowsCounted, [Next]_vars
    PROVE  ActiveEscrowsCounted'
<1>1. CASE UNCHANGED tourneyVars
  BY <1>1 DEF tourneyVars, ActiveEscrowsCounted, LockedFor
<1>2. ASSUME NEW g \in GameIds, GameStep(g)  PROVE UNCHANGED tourneyVars
  BY <1>2 DEF GameStep, JoinGame, CancelGame, SubmitMove, SubmitMate, SubmitDrawingMove,
     ClaimDraw, ClaimWin, Forfeit, ClaimTimeoutWin, ClaimTimeoutVictory, Payout
<1>3. ASSUME NEW g \in GameIds, PrizeStep(g)
      PROVE  UNCHANGED tourneyVars \/ CreateTournamentEscrow(g)
  BY <1>3 DEF PrizeStep, PayoutTournament, PayoutTournamentOptimized
<1>4. ASSUME NEW d \in DisputeIds, DisputeStep(d)  PROVE UNCHANGED tourneyVars
  BY <1>4 DEF DisputeStep, ResolveDisputeForWinner, ResolveDisputeAsDraw, RejectDispute
<1>5. CASE AdminStep \/ LedgerCloses \/ UNCHANGED vars
  BY <1>5, <1>1 DEF AdminStep, AdminCall, Pause, Unpause, AddWhitelistedToken,
     RemoveWhitelistedToken, SetMaxStake, SetMaxPrizePool, ConfigureFees,
     ConfigureDisputeSystem, ConfigureTimeout, ConfigureTimeoutDeadline,
     ConfigureTournamentTimelock, SetPlayerRating, LedgerCloses, vars
<1>6. ASSUME (\E p \in Accounts, w \in Wagers : CreateGame(p, w))
             \/ \E g \in GameIds, p \in Accounts : FileDispute(g, p)
      PROVE  UNCHANGED tourneyVars
  BY <1>6 DEF CreateGame, FileDispute
<1> QED
  BY <1>1, <1>2, <1>3, <1>4, <1>5, <1>6, CreateEscrowCounted, ReleaseCounted DEF Next

LEMMA InitCounted == ASSUME Init PROVE ActiveEscrowsCounted
<1>1. \A a \in Accounts : LockedFor(a) = {}
  BY DEF Init, LockedFor
<1>2. \A a \in Accounts : activeEscrows[a] = 0
  BY DEF Init
<1>3. Cardinality({}) = 0
  BY FS_EmptySet
<1>4. 0 <= MaxActiveEscrows
  BY ConstantsAssumption
<1> QED
  BY <1>1, <1>2, <1>3, <1>4 DEF ActiveEscrowsCounted
-----------------------------------------------------------------------------
(* Profiles and the games they count.                                      *)

Net(a) == profiles[a].wins - profiles[a].losses

\* A profile counts no game that its player did not finish that way.
Fair(a) ==
    /\ profiles[a].wins <= Cardinality(WonBy(a))
    /\ profiles[a].losses <= Cardinality(LostBy(a))
    /\ profiles[a].draws <= Cardinality(DrawnBy(a))
    /\ profiles[a].rating <= profiles[a].highest

LEMMA BalancedIs ==
    /\ ProfilesBalanced <=> /\ SumFunction([a \in Accounts |-> Net(a)]) = 0
                            /\ \A a \in Accounts : Fair(a)
    /\ ProfilesBalanced' <=> /\ SumFunction([a \in Accounts |-> Net(a)']) = 0
                             /\ \A a \in Accounts : Fair(a)'
BY DEF ProfilesBalanced, Net, Fair

\* What the updates do to one profile.
LEMMA Updates ==
    ASSUME NEW p \in Profile
    PROVE  /\ AfterWin(p).wins = p.wins + 1 /\ AfterWin(p).losses = p.losses
           /\ AfterWin(p).draws = p.draws /\ AfterWin(p).rating <= AfterWin(p).highest
           /\ AfterLoss(p).losses = p.losses + 1 /\ AfterLoss(p).wins = p.wins
           /\ AfterLoss(p).draws = p.draws /\ AfterLoss(p).rating <= AfterLoss(p).highest
           /\ AfterDraw(p).draws = p.draws + 1 /\ AfterDraw(p).wins = p.wins
           /\ AfterDraw(p).losses = p.losses /\ AfterDraw(p).rating <= AfterDraw(p).highest
           /\ \A r \in Int : /\ Rated(p, r).wins = p.wins /\ Rated(p, r).losses = p.losses
                             /\ Rated(p, r).draws = p.draws
                             /\ Rated(p, r).rating <= Rated(p, r).highest
<1>1. \A r \in Int : /\ Rated(p, r) \in Profile
                     /\ Rated(p, r).wins = p.wins /\ Rated(p, r).losses = p.losses
                     /\ Rated(p, r).draws = p.draws
                     /\ Rated(p, r).rating <= Rated(p, r).highest
  <2> TAKE r \in Int
  <2> DEFINE h == IF r > p.highest THEN r ELSE p.highest
  <2>1. h \in Int /\ r <= h
    BY DEF Profile
  <2>2. Rated(p, r) = [p EXCEPT !.rating = r, !.highest = h]
    BY DEF Rated
  <2> HIDE DEF h
  <2> QED
    BY <2>1, <2>2 DEF Profile
<1>2. p.rating + 32 \in Int /\ p.rating + 8 \in Int /\ AtLeastZero(p.rating - 16) \in Int
  BY DEF Profile, AtLeastZero
<1>3. ASSUME NEW q \in Profile
      PROVE  /\ [q EXCEPT !.wins = @ + 1].wins = q.wins + 1
             /\ [q EXCEPT !.wins = @ + 1].losses = q.losses
             /\ [q EXCEPT !.wins = @ + 1].draws = q.draws
             /\ [q EXCEPT !.wins = @ + 1].rating = q.rating
             /\ [q EXCEPT !.wins = @ + 1].highest = q.highest
             /\ [q EXCEPT !.losses = @ + 1].losses = q.losses + 1
             /\ [q EXCEPT !.losses = @ + 1].wins = q.wins
             /\ [q EXCEPT !.losses = @ + 1].draws = q.draws
             /\ [q EXCEPT !.losses = @ + 1].rating = q.rating
             /\ [q EXCEPT !.losses = @ + 1].highest = q.highest
             /\ [q EXCEPT !.draws = @ + 1].draws = q.draws + 1
             /\ [q EXCEPT !.draws = @ + 1].wins = q.wins
             /\ [q EXCEPT !.draws = @ + 1].losses = q.losses
             /\ [q EXCEPT !.draws = @ + 1].rating = q.rating
             /\ [q EXCEPT !.draws = @ + 1].highest = q.highest
  BY DEF Profile
<1> QED
  BY <1>1, <1>2, <1>3 DEF AfterWin, AfterLoss, AfterDraw

LEMMA Counts ==
    ASSUME NEW S \in SUBSET GameIds, NEW T \in SUBSET GameIds, S \subseteq T
    PROVE  /\ Cardinality(S) <= Cardinality(T)
           /\ \A g \in T \ S : Cardinality(S) + 1 <= Cardinality(T)
           /\ Cardinality(S) \in Nat /\ Cardinality(T) \in Nat
<1>1. IsFiniteSet(S) /\ IsFiniteSet(T)
  BY FiniteIds, FS_Subset
<1>2. Cardinality(S) \in Nat /\ Cardinality(T) \in Nat /\ Cardinality(S) <= Cardinality(T)
  BY <1>1, FS_Subset, FS_CardinalityType
<1>3. ASSUME NEW g \in T \ S  PROVE Cardinality(S) + 1 <= Cardinality(T)
  <2> DEFINE R == S \cup {g}
  <2>1. Cardinality(R) = Cardinality(S) + 1
    BY <1>1, <1>3, FS_AddElement
  <2>2. R \in SUBSET T
    BY <1>3
  <2> HIDE DEF R
  <2>3. Cardinality(R) <= Cardinality(T)
    BY <1>1, <2>2, FS_Subset
  <2> QED
    BY <2>1, <2>3
<1> QED
  BY <1>2, <1>3

\* Outcomes are final, so the games an account won, lost or drew stay so.
LEMMA OutcomesGrow ==
    ASSUME IndInv, [Next]_vars, NEW a \in Accounts
    PROVE  /\ WonBy(a) \subseteq WonBy(a)' /\ LostBy(a) \subseteq LostBy(a)'
           /\ DrawnBy(a) \subseteq DrawnBy(a)'
           /\ WonBy(a) \in SUBSET GameIds /\ WonBy(a)' \in SUBSET GameIds
           /\ LostBy(a) \in SUBSET GameIds /\ LostBy(a)' \in SUBSET GameIds
           /\ DrawnBy(a) \in SUBSET GameIds /\ DrawnBy(a)' \in SUBSET GameIds
<1>1. \A g \in GameIds : CoherentGame(games[g]) /\ games[g] \in Game /\ OutcomeKept(g)
  BY NextKeepsOutcome DEF IndInv, TypeOK, GamesCoherent
<1>2. ASSUME NEW g \in GameIds, games[g].winner \in Accounts
      PROVE  /\ games'[g].winner = games[g].winner
             /\ games'[g].player1 = games[g].player1 /\ games'[g].player2 = games[g].player2
  <2>1. games[g].state \in {"Completed", "Settled"}
    BY <1>1, <1>2, ConstantsAssumption DEF CoherentGame, Game, GameStates, Live
  <2> QED
    BY <1>1, <2>1 DEF OutcomeKept
<1>3. ASSUME NEW g \in GameIds, games[g].state = "Drawn"
      PROVE  games'[g] = games[g]
  BY <1>1, <1>3 DEF OutcomeKept
<1> QED
  BY <1>2, <1>3 DEF WonBy, LostBy, DrawnBy, Players

\* A profile that counts nothing new stays fair.
LEMMA StaysFair ==
    ASSUME IndInv, [Next]_vars, NEW a \in Accounts, Fair(a), profiles[a] \in Profile,
           profiles'[a].wins = profiles[a].wins, profiles'[a].losses = profiles[a].losses,
           profiles'[a].draws = profiles[a].draws, profiles'[a].rating <= profiles'[a].highest
    PROVE  Fair(a)'
<1>1. /\ Cardinality(WonBy(a)) <= Cardinality(WonBy(a)')
      /\ Cardinality(WonBy(a)) \in Nat /\ Cardinality(WonBy(a)') \in Nat
  BY OutcomesGrow, Counts
<1>2. /\ Cardinality(LostBy(a)) <= Cardinality(LostBy(a)')
      /\ Cardinality(LostBy(a)) \in Nat /\ Cardinality(LostBy(a)') \in Nat
  BY OutcomesGrow, Counts
<1>3. /\ Cardinality(DrawnBy(a)) <= Cardinality(DrawnBy(a)')
      /\ Cardinality(DrawnBy(a)) \in Nat /\ Cardinality(DrawnBy(a)') \in Nat
  BY OutcomesGrow, Counts
<1>4. profiles[a].wins \in Int /\ profiles[a].losses \in Int /\ profiles[a].draws \in Int
  BY DEF Profile
<1> QED
  BY <1>1, <1>2, <1>3, <1>4 DEF Fair

\* One more game won, lost or drawn by a, and one more result in the profile.
LEMMA WinStaysFair ==
    ASSUME IndInv, [Next]_vars, NEW a \in Accounts, Fair(a), profiles[a] \in Profile,
           NEW g \in GameIds, games[g].winner # a, games'[g].winner = a,
           profiles'[a] = AfterWin(profiles[a])
    PROVE  Fair(a)'
<1>1. g \in WonBy(a)' \ WonBy(a)
  BY DEF WonBy
<1>2. /\ Cardinality(WonBy(a)) + 1 <= Cardinality(WonBy(a)')
      /\ Cardinality(WonBy(a)) \in Nat /\ Cardinality(WonBy(a)') \in Nat
  BY <1>1, OutcomesGrow, Counts
<1>3. /\ Cardinality(LostBy(a)) <= Cardinality(LostBy(a)')
      /\ Cardinality(LostBy(a)) \in Nat /\ Cardinality(LostBy(a)') \in Nat
  BY OutcomesGrow, Counts
<1>4. /\ Cardinality(DrawnBy(a)) <= Cardinality(DrawnBy(a)')
      /\ Cardinality(DrawnBy(a)) \in Nat /\ Cardinality(DrawnBy(a)') \in Nat
  BY OutcomesGrow, Counts
<1>5. profiles[a].wins \in Int /\ profiles[a].losses \in Int /\ profiles[a].draws \in Int
  BY DEF Profile
<1>6. /\ profiles'[a].wins = profiles[a].wins + 1 /\ profiles'[a].losses = profiles[a].losses
      /\ profiles'[a].draws = profiles[a].draws /\ profiles'[a].rating <= profiles'[a].highest
  BY Updates
<1> QED
  BY <1>2, <1>3, <1>4, <1>5, <1>6 DEF Fair

LEMMA LossStaysFair ==
    ASSUME IndInv, [Next]_vars, NEW a \in Accounts, Fair(a), profiles[a] \in Profile,
           NEW g \in GameIds, games[g].winner = NoOne, games'[g].winner \in Accounts \ {a},
           a \in {games'[g].player1, games'[g].player2}, profiles'[a] = AfterLoss(profiles[a])
    PROVE  Fair(a)'
<1>1. g \in LostBy(a)' \ LostBy(a)
  BY ConstantsAssumption DEF LostBy, Players
<1>2. /\ Cardinality(LostBy(a)) + 1 <= Cardinality(LostBy(a)')
      /\ Cardinality(LostBy(a)) \in Nat /\ Cardinality(LostBy(a)') \in Nat
  BY <1>1, OutcomesGrow, Counts
<1>3. /\ Cardinality(WonBy(a)) <= Cardinality(WonBy(a)')
      /\ Cardinality(WonBy(a)) \in Nat /\ Cardinality(WonBy(a)') \in Nat
  BY OutcomesGrow, Counts
<1>4. /\ Cardinality(DrawnBy(a)) <= Cardinality(DrawnBy(a)')
      /\ Cardinality(DrawnBy(a)) \in Nat /\ Cardinality(DrawnBy(a)') \in Nat
  BY OutcomesGrow, Counts
<1>5. profiles[a].wins \in Int /\ profiles[a].losses \in Int /\ profiles[a].draws \in Int
  BY DEF Profile
<1>6. /\ profiles'[a].losses = profiles[a].losses + 1 /\ profiles'[a].wins = profiles[a].wins
      /\ profiles'[a].draws = profiles[a].draws /\ profiles'[a].rating <= profiles'[a].highest
  BY Updates
<1> QED
  BY <1>2, <1>3, <1>4, <1>5, <1>6 DEF Fair

LEMMA DrawStaysFair ==
    ASSUME IndInv, [Next]_vars, NEW a \in Accounts, Fair(a), profiles[a] \in Profile,
           NEW g \in GameIds, games[g].state # "Drawn", games'[g].state = "Drawn",
           a \in {games'[g].player1, games'[g].player2}, profiles'[a] = AfterDraw(profiles[a])
    PROVE  Fair(a)'
<1>1. g \in DrawnBy(a)' \ DrawnBy(a)
  BY ConstantsAssumption DEF DrawnBy, Players
<1>2. /\ Cardinality(DrawnBy(a)) + 1 <= Cardinality(DrawnBy(a)')
      /\ Cardinality(DrawnBy(a)) \in Nat /\ Cardinality(DrawnBy(a)') \in Nat
  BY <1>1, OutcomesGrow, Counts
<1>3. /\ Cardinality(WonBy(a)) <= Cardinality(WonBy(a)')
      /\ Cardinality(WonBy(a)) \in Nat /\ Cardinality(WonBy(a)') \in Nat
  BY OutcomesGrow, Counts
<1>4. /\ Cardinality(LostBy(a)) <= Cardinality(LostBy(a)')
      /\ Cardinality(LostBy(a)) \in Nat /\ Cardinality(LostBy(a)') \in Nat
  BY OutcomesGrow, Counts
<1>5. profiles[a].wins \in Int /\ profiles[a].losses \in Int /\ profiles[a].draws \in Int
  BY DEF Profile
<1>6. /\ profiles'[a].draws = profiles[a].draws + 1 /\ profiles'[a].wins = profiles[a].wins
      /\ profiles'[a].losses = profiles[a].losses /\ profiles'[a].rating <= profiles'[a].highest
  BY Updates
<1> QED
  BY <1>2, <1>3, <1>4, <1>5, <1>6 DEF Fair

\* Results that are not decisive leave the balance of wins and losses alone.
LEMMA EvenBalance ==
    ASSUME IndInv, [Next]_vars, ProfilesBalanced, \A a \in Accounts : Fair(a)',
           \A a \in Accounts : Net(a)' = Net(a)
    PROVE  ProfilesBalanced'
<1>1. [a \in Accounts |-> Net(a)'] = [a \in Accounts |-> Net(a)]
  OBVIOUS
<1> QED
  BY <1>1, BalancedIs

LEMMA SettleForBalanced ==
    ASSUME IndInv, [Next]_vars, ProfilesBalanced, NEW g \in GameIds,
           games[g].state = "InProgress", NEW w \in Players(g), SettleFor(g, w)
    PROVE  ProfilesBalanced'
<1> SUFFICES ASSUME NEW l, l = Opponent(g, w)
             PROVE  ProfilesBalanced'
  OBVIOUS
<1> DEFINE r == [games[g] EXCEPT !.state = "Settled", !.winner = w]
<1>0. TypeOK /\ Seated(games[g]) /\ games[g].winner = NoOne
  BY DEF IndInv, GamesCoherent, CoherentGame, Live
<1>1. /\ w \in Accounts /\ l \in Accounts /\ w # l
      /\ l \in {games[g].player1, games[g].player2}
  BY <1>0 DEF Players, Opponent, Seated
<1>2. games' = [games EXCEPT ![g] = r] /\ profiles' = RecordWin(w, l)
  BY DEF SettleFor
<1>3. games'[g] = r /\ games[g] \in Game
  BY <1>0, <1>2, Rewritten
<1>4. /\ games'[g].winner = w /\ games'[g].player1 = games[g].player1
      /\ games'[g].player2 = games[g].player2
  BY <1>3 DEF Game
<1> HIDE DEF r
<1>5. \A a \in Accounts : profiles[a] \in Profile /\ Fair(a)
  BY <1>0, BalancedIs DEF TypeOK
<1>6. /\ profiles'[w] = AfterWin(profiles[w]) /\ profiles'[l] = AfterLoss(profiles[l])
      /\ \A a \in Accounts \ {w, l} : profiles'[a] = profiles[a]
  BY <1>0, <1>1, <1>2 DEF RecordWin, TypeOK
<1>7. \A a \in Accounts : Fair(a)'
  <2>1. Fair(w)'
    BY <1>0, <1>1, <1>4, <1>5, <1>6, ConstantsAssumption, WinStaysFair
  <2>2. Fair(l)'
    BY <1>0, <1>1, <1>4, <1>5, <1>6, LossStaysFair
  <2>3. ASSUME NEW a \in Accounts \ {w, l}  PROVE Fair(a)'
    <3>1. profiles'[a] = profiles[a] /\ profiles[a].rating <= profiles[a].highest
      BY <1>5, <1>6 DEF Fair
    <3> QED
      BY <1>5, <3>1, StaysFair
  <2> QED
    BY <2>1, <2>2, <2>3
<1>8. SumFunction([a \in Accounts |-> Net(a)']) = 0
  <2> DEFINE f == [a \in Accounts |-> Net(a)]
             k == [a \in Accounts |-> Net(a)']
  <2>1. /\ Net(w)' = Net(w) + 1 /\ Net(l)' = Net(l) - 1
        /\ \A a \in Accounts : Net(a) \in Int
        /\ \A a \in Accounts \ {w, l} : Net(a)' = Net(a)
    <3>1. \A a \in Accounts : profiles[a].wins \in Int /\ profiles[a].losses \in Int
      BY <1>5 DEF Profile
    <3>2. /\ profiles'[w].wins = profiles[w].wins + 1 /\ profiles'[w].losses = profiles[w].losses
          /\ profiles'[l].losses = profiles[l].losses + 1 /\ profiles'[l].wins = profiles[l].wins
      BY <1>1, <1>5, <1>6, Updates
    <3> QED
      BY <1>1, <1>6, <3>1, <3>2 DEF Net
  <2>2. /\ f[w] \in Int /\ k[w] - f[w] = 1 /\ f[l] \in Int /\ k[l] - f[l] = -1
        /\ \A a \in Accounts : f[a] \in Int /\ k[a] \in Int
        /\ \A a \in Accounts \ {w, l} : k[a] = f[a]
    BY <1>1, <2>1
  <2>3. SumFunction(f) = SumFunctionOnSet(f, Accounts) /\ SumFunction(k) = SumFunctionOnSet(k, Accounts)
    BY DEF SumFunction
  <2>4. SumFunction(f) = 0
    BY BalancedIs
  <2> HIDE DEF f, k
  <2>5. SumFunctionOnSet(k, Accounts) =
           SumFunctionOnSet(f, Accounts) + (k[w] - f[w]) + (k[l] - f[l])
    BY <1>1, <2>2, FiniteIds, SumChangesTwice
  <2>6. SumFunction(k) = 0
    <3>1. SumFunctionOnSet(f, Accounts) = 0
      BY <2>3, <2>4
    <3>2. SumFunctionOnSet(k, Accounts) = 0 + 1 + (-1)
      BY <2>2, <2>5, <3>1
    <3> QED
      BY <2>3, <3>2
  <2> QED
    BY <2>6 DEF k
<1> QED
  BY <1>7, <1>8, BalancedIs

LEMMA ClaimDrawBalanced ==
    ASSUME IndInv, [Next]_vars, ProfilesBalanced, NEW g \in GameIds, ClaimDraw(g)
    PROVE  ProfilesBalanced'
<1> SUFFICES ASSUME NEW p, p = games[g].player1, NEW q, q = games[g].player2
             PROVE  ProfilesBalanced'
  OBVIOUS
<1> DEFINE r == [games[g] EXCEPT !.state = "Drawn"]
<1>1. /\ games[g].state = "InProgress" /\ games' = [games EXCEPT ![g] = r]
      /\ profiles' = RecordDraw(p, q)
  BY DEF ClaimDraw, InPlay
<1>2. TypeOK /\ p \in Accounts /\ q \in Accounts /\ p # q
  BY <1>1 DEF IndInv, GamesCoherent, CoherentGame, Seated
<1>3. games'[g] = r /\ games[g] \in Game
  BY <1>1, <1>2, Rewritten
<1>4. games'[g].state = "Drawn" /\ games'[g].player1 = p /\ games'[g].player2 = q
  BY <1>3 DEF Game
<1> HIDE DEF r
<1>5. \A a \in Accounts : profiles[a] \in Profile /\ Fair(a)
  BY <1>2, BalancedIs DEF TypeOK
<1>6. /\ profiles'[p] = AfterDraw(profiles[p]) /\ profiles'[q] = AfterDraw(profiles[q])
      /\ \A a \in Accounts \ {p, q} : profiles'[a] = profiles[a]
  BY <1>1, <1>2 DEF RecordDraw, TypeOK
<1>7. ASSUME NEW a \in Accounts  PROVE Fair(a)'
  <2>1. CASE a \in {p, q}
    BY <1>1, <1>4, <1>5, <1>6, <2>1, DrawStaysFair
  <2>2. CASE a \notin {p, q}
    <3>1. profiles'[a] = profiles[a] /\ profiles[a].rating <= profiles[a].highest
      BY <1>5, <1>6, <2>2 DEF Fair
    <3> QED
      BY <1>5, <3>1, StaysFair
  <2> QED
    BY <2>1, <2>2
<1>8. \A a \in Accounts : Net(a)' = Net(a)
  BY <1>2, <1>5, <1>6, Updates DEF Net
<1> QED
  BY <1>7, <1>8, EvenBalance

LEMMA SetRatingBalanced ==
    ASSUME IndInv, [Next]_vars, ProfilesBalanced, NEW p \in Accounts, NEW r \in Ratings,
           SetPlayerRating(p, r)
    PROVE  ProfilesBalanced'
<1>0. TypeOK /\ r \in Int
  BY ConstantsAssumption DEF IndInv
<1>1. \A a \in Accounts : profiles[a] \in Profile /\ Fair(a)
  BY <1>0, BalancedIs DEF TypeOK
<1>2. /\ profiles'[p] = Rated(profiles[p], r)
      /\ \A a \in Accounts \ {p} : profiles'[a] = profiles[a]
  BY <1>0 DEF SetPlayerRating, TypeOK
<1>3. \A a \in Accounts :
          /\ profiles'[a].wins = profiles[a].wins /\ profiles'[a].losses = profiles[a].losses
          /\ profiles'[a].draws = profiles[a].draws
          /\ profiles'[a].rating <= profiles'[a].highest
  BY <1>0, <1>1, <1>2, Updates DEF Fair
<1>4. \A a \in Accounts : Fair(a)'
  BY <1>1, <1>3, StaysFair
<1>5. \A a \in Accounts : Net(a)' = Net(a)
  BY <1>3 DEF Net
<1> QED
  BY <1>4, <1>5, EvenBalance

LEMMA SameProfilesBalanced ==
    ASSUME IndInv, [Next]_vars, ProfilesBalanced, profiles' = profiles
    PROVE  ProfilesBalanced'
<1>1. \A a \in Accounts : profiles[a] \in Profile /\ Fair(a)
  BY BalancedIs DEF IndInv, TypeOK
<1>2. \A a \in Accounts : Fair(a)'
  <2> TAKE a \in Accounts
  <2>1. profiles'[a] = profiles[a] /\ profiles[a].rating <= profiles[a].highest
    BY <1>1 DEF Fair
  <2> QED
    BY <1>1, <2>1, StaysFair
<1>3. \A a \in Accounts : Net(a)' = Net(a)
  BY DEF Net
<1> QED
  BY <1>2, <1>3, EvenBalance

LEMMA NextBalanced ==
    ASSUME IndInv, ProfilesBalanced, [Next]_vars
    PROVE  ProfilesBalanced'
<1>0. TypeOK
  BY DEF IndInv
<1>a. ASSUME NEW g \in GameIds, games[g].state = "InProgress", NEW p
      PROVE  /\ p \in Players(g) => Opponent(g, p) \in Players(g)
             /\ WaitingPlayer(g) \in Players(g)
  <2>1. Seated(games[g])
    BY <1>a DEF IndInv, GamesCoherent, CoherentGame
  <2> QED
    BY <2>1, ConstantsAssumption DEF Seated, Players, Opponent, WaitingPlayer
<1>1. ASSUME NEW g \in GameIds, GameStep(g)  PROVE ProfilesBalanced'
  <2>1. ASSUME NEW w \in Accounts, ClaimWin(g, w)  PROVE ProfilesBalanced'
    BY <2>1, SettleForBalanced DEF ClaimWin, InPlay
  <2>2. ASSUME NEW p \in Accounts, Forfeit(g, p)  PROVE ProfilesBalanced'
    BY <2>2, <1>a, SettleForBalanced DEF Forfeit, InPlay
  <2>3. CASE ClaimTimeoutWin(g) \/ ClaimTimeoutVictory(g)
    BY <2>3, <1>a, SettleForBalanced DEF ClaimTimeoutWin, ClaimTimeoutVictory, InPlay
  <2>4. CASE (\E p \in Accounts : JoinGame(g, p)) \/ CancelGame(g) \/ SubmitMove(g)
             \/ SubmitMate(g) \/ SubmitDrawingMove(g) \/ Payout(g)
    BY <2>4, SameProfilesBalanced
       DEF JoinGame, CancelGame, SubmitMove, SubmitMate, SubmitDrawingMove, Payout
  <2> QED
    BY <1>1, <2>1, <2>2, <2>3, <2>4, ClaimDrawBalanced DEF GameStep
<1>2. ASSUME NEW g \in GameIds, PrizeStep(g)  PROVE ProfilesBalanced'
  BY <1>2, SameProfilesBalanced
     DEF PrizeStep, PayoutTournament, PayoutTournamentOptimized, CreateTournamentEscrow
<1>3. ASSUME NEW d \in DisputeIds, DisputeStep(d)  PROVE ProfilesBalanced'
  <2>1. disputes[d].game \in GameIds
    BY <1>0 DEF TypeOK, Dispute
  <2>2. ASSUME NEW w \in Accounts, ResolveDisputeForWinner(d, w)  PROVE ProfilesBalanced'
    BY <2>1, <2>2, SettleForBalanced DEF ResolveDisputeForWinner, InPlay
  <2>3. CASE ResolveDisputeAsDraw(d) \/ RejectDispute(d)
    BY <2>3, SameProfilesBalanced DEF ResolveDisputeAsDraw, RejectDispute
  <2> QED
    BY <1>3, <2>2, <2>3 DEF DisputeStep
<1>4. CASE AdminStep
  <2>1. CASE \E p \in Accounts, r \in Ratings : SetPlayerRating(p, r)
    BY <2>1, SetRatingBalanced
  <2>2. CASE profiles' = profiles
    BY <2>2, SameProfilesBalanced
  <2> QED
    BY <1>4, <2>1, <2>2 DEF AdminStep, AdminCall, Pause, Unpause, AddWhitelistedToken,
       RemoveWhitelistedToken, SetMaxStake, SetMaxPrizePool, ConfigureFees,
       ConfigureDisputeSystem, ConfigureTimeout, ConfigureTimeoutDeadline,
       ConfigureTournamentTimelock
<1>5. CASE LedgerCloses \/ UNCHANGED vars
  BY <1>5, SameProfilesBalanced DEF LedgerCloses, vars
<1>6. ASSUME (\E p \in Accounts, w \in Wagers : CreateGame(p, w))
             \/ (\E e \in EscrowIds : EscrowStep(e))
             \/ \E g \in GameIds, p \in Accounts : FileDispute(g, p)
      PROVE  ProfilesBalanced'
  BY <1>6, SameProfilesBalanced DEF CreateGame, EscrowStep, ReleaseTournamentEscrow, FileDispute
<1> QED
  BY <1>1, <1>2, <1>3, <1>4, <1>5, <1>6 DEF Next

LEMMA InitBalanced == ASSUME Init PROVE ProfilesBalanced
<1>1. \A a \in Accounts : profiles[a] = FreshProfile
  BY DEF Init
<1>2. \A a \in Accounts : Net(a) = 0
  BY <1>1 DEF Net, FreshProfile
<1>3. SumFunction([a \in Accounts |-> Net(a)]) = 0
  <2> DEFINE f == [a \in Accounts |-> Net(a)]
  <2>1. (\A a \in Accounts : f[a] = 0) /\ SumFunction(f) = SumFunctionOnSet(f, Accounts)
    BY <1>2 DEF SumFunction
  <2> HIDE DEF f
  <2>2. SumFunction(f) = 0
    BY <2>1, FiniteIds, SumOfZeros
  <2> QED
    BY <2>2 DEF f
<1>4. ASSUME NEW a \in Accounts  PROVE Fair(a)
  <2>1. WonBy(a) \in SUBSET GameIds /\ LostBy(a) \in SUBSET GameIds /\ DrawnBy(a) \in SUBSET GameIds
    BY DEF WonBy, LostBy, DrawnBy
  <2>2. /\ Cardinality(WonBy(a)) \in Nat /\ Cardinality(LostBy(a)) \in Nat
        /\ Cardinality(DrawnBy(a)) \in Nat
    BY <2>1, Counts
  <2> QED
    BY <1>1, <2>2 DEF Fair, FreshProfile
<1> QED
  BY <1>3, <1>4, BalancedIs

-----------------------------------------------------------------------------
\* IndInv, with what the accounts, the counters and the empty records add.
BooksInv == IndInv /\ Blank /\ BooksBalance

LEMMA BooksAre == BooksBalance <=> Money /\ ProfilesBalanced /\ ActiveEscrowsCounted
BY DEF BooksBalance, Money

LEMMA NextBooks ==
    ASSUME BooksInv, IndInv', [Next]_vars
    PROVE  BooksInv'
<1>1. IndInv /\ Blank /\ Money /\ ProfilesBalanced /\ ActiveEscrowsCounted /\ TypeOK'
  BY BooksAre DEF BooksInv, IndInv
<1>2. Blank' /\ Money'
  BY <1>1, NextBlank, NextMoney
<1>3. ProfilesBalanced' /\ ActiveEscrowsCounted'
  BY <1>1, NextBalanced, NextCounted
<1> QED
  BY <1>2, <1>3 DEF BooksInv, BooksBalance, Money

LEMMA InitBooks ==
    ASSUME Init, IndInv
    PROVE  BooksInv
BY InitMoney, InitBalanced, InitCounted, BooksAre DEF BooksInv

\* The books agree with each other after every call: what the contract holds,
\* what its ledger says, the tokens in circulation, the results in the profiles
\* and the counters of tournament escrows.
THEOREM BooksKept == Spec => []BooksBalance
<1>1. Init /\ IndInv => BooksInv
  BY InitBooks
<1>2. BooksInv /\ IndInv' /\ [Next]_vars => BooksInv'
  BY NextBooks
<1>3. BooksInv => BooksBalance
  BY DEF BooksInv
<1> QED
  BY <1>1, <1>2, <1>3, Inductive, PTL DEF Spec

\* The contract holds the stakes of its live games and the fees of disputes:
\* every settlement, by any route, takes exactly one pool out of it.
THEOREM VaultKept == Spec => []VaultAccounting
BY BooksKept, PTL DEF BooksBalance
=============================================================================
