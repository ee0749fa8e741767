----------------------------- MODULE GameEscrow -----------------------------
(***************************************************************************)
(* The staked-game life cycle of the KnightVerse Soroban contract          *)
(* (src/contracts/game_contract/src/lib.rs): games and their stakes, the   *)
(* internal ESCROW ledger, the tokens the contract really holds, disputes, *)
(* time-locked tournament escrows, player profiles and the configuration   *)
(* that the handlers read.                                                 *)
(*                                                                         *)
(* One contract call is one Soroban transaction: it either returns Ok and  *)
(* all its writes take effect, or it fails (an Err, a panic, a transfer    *)
(* that the token contract refuses) and nothing changes.  So a handler is  *)
(* one action, its early returns are the negations of its conjuncts, and a *)
(* failed call is a stuttering step.  require_auth is the environment's    *)
(* promise that the account named in the call made it; the host refuses    *)
(* re-entry, so the R_GUARD flag is 0 between calls and is not a variable. *)
(***************************************************************************)
EXTENDS Integers, FiniteSets, Functions

CONSTANTS
    Accounts,          \* addresses that hold tokens: players and the treasury
    NoOne,             \* Option::None for an address
    StartTokens,       \* [Accounts -> Nat], token balances at deployment
    Wagers,            \* wager amounts that create_game is called with
    Splits,            \* <<first winner, second winner, percentage of the first>>
    Ratings,           \* ratings that set_player_rating is called with
    InitialCfgs,       \* configurations the admin has chosen before play starts
    FeeChoices, StakeLimits, PoolLimits, DisputeFees, Durations, \* arguments of later admin calls
    SecondsPerLedger,  \* ledger close time: timestamp = sequence * SecondsPerLedger
    MaxActiveEscrows,  \* MAX_ACTIVE_ESCROWS
    \* Bounds of the model:
    MaxGames, MaxDisputes, MaxTourneys, MaxSeq, MaxAdminCalls

GameIds    == 1..MaxGames
DisputeIds == 1..MaxDisputes
EscrowIds  == 1..MaxTourneys

\* GameState, without Forfeited and Escrowed, which no line of the code assigns.
GameStates == {"Absent", "Created", "InProgress", "Completed", "Drawn", "Settled"}
Live       == {"Created", "InProgress"}

\* The fields of Game that the handlers read.  last_move_at (a sequence) and
\* last_activity_ts (a timestamp) are always written together.
Game == [state : GameStates, player1 : Accounts \cup {NoOne},
         player2 : Accounts \cup {NoOne}, winner : Accounts \cup {NoOne},
         wager : Int, turn : {1, 2}, lastMoveAt : Int]

NoGame == [state |-> "Absent", player1 |-> NoOne, player2 |-> NoOne,
           winner |-> NoOne, wager |-> 0, turn |-> 1, lastMoveAt |-> 0]

\* Dispute; paidFee and refund are history fields: the tokens that filing took
\* from the filer and the tokens that rejection gave back.
Dispute == [status : {"Absent", "Pending", "Resolved", "Rejected"}, game : GameIds,
            filer : Accounts \cup {NoOne}, paidFee : Int, refund : Int]

\* TournamentEscrow
Tourney == [status : {"Absent", "Locked", "Released"}, game : GameIds,
            player : Accounts \cup {NoOne}, total : Int, lockedUntil : Int]

\* PlayerRating; an account without a stored profile reads as FreshProfile,
\* which initialize_player_profile would store for it.
Profile == [rating : Int, highest : Int, wins : Int, losses : Int, draws : Int]

FreshProfile == [rating |-> 1200, highest |-> 1200, wins |-> 0, losses |-> 0, draws |-> 0]

\* Instance storage written by the admin calls; 0 stands for a duration that
\* has not been configured, FALSE for an arbitrator that has not.
Config == [paused : BOOLEAN, whitelisted : BOOLEAN, maxStake : Int, maxPrizePool : Int,
           feeBips : Int, treasury : Accounts, arbitrator : BOOLEAN, disputeFee : Int,
           timeout : Int, deadline : Int, buffer : Int, timelock : Int]

ASSUME ConstantsAssumption ==
    /\ IsFiniteSet(Accounts) /\ NoOne \notin Accounts
    /\ StartTokens \in [Accounts -> Nat]
    /\ Wagers \subseteq Nat
    /\ Splits \subseteq Accounts \X Accounts \X (0..100)
    /\ Ratings \subseteq Nat
    /\ FeeChoices \subseteq 0..1000
    /\ StakeLimits \subseteq Nat \ {0} /\ PoolLimits \subseteq Nat \ {0}
    /\ DisputeFees \subseteq Nat /\ Durations \subseteq Nat
    /\ SecondsPerLedger \in Nat \ {0}
    /\ MaxActiveEscrows \in Nat
    /\ MaxGames \in Nat \ {0} /\ MaxDisputes \in Nat /\ MaxTourneys \in Nat
    /\ MaxSeq \in Nat /\ MaxAdminCalls \in Nat

\* initialize_puzzle_rewards and the configure_* calls refuse anything else.
ASSUME InitialCfgsAssumption ==
    InitialCfgs \subseteq
        { c \in [paused : BOOLEAN, whitelisted : BOOLEAN, maxStake : Nat, maxPrizePool : Nat,
                 feeBips : Nat, treasury : Accounts, arbitrator : BOOLEAN, disputeFee : Nat,
                 timeout : Nat, deadline : Nat, buffer : Nat, timelock : Nat] :
          c.feeBips <= 1000 }

VARIABLES
    games,         \* GAMES
    gameCounter,   \* GAME_COUNTER
    escrow,        \* ESCROW, the internal ledger
    tokens,        \* token contract: balances of the accounts
    vault,         \* token contract: balance of the game contract
    profiles,      \* PLAYER_PROFILES
    disputes, disputeCounter,          \* DISPUTES, DISPUTE_COUNTER
    tourneys, tourneyCount,            \* TOURNAMENT_ESCROWS and its len()
    activeEscrows, \* PLAYER_ACTIVE_ESCROWS
    cfg,           \* configuration keys of instance storage
    seq,           \* env.ledger().sequence()
    adminCalls,    \* bound: admin calls made so far
    settlements    \* history: how often the stake of a game left the contract

tokenVars   == <<escrow, tokens, vault>>
disputeVars == <<disputes, disputeCounter>>
tourneyVars == <<tourneys, tourneyCount, activeEscrows>>
adminVars   == <<cfg, adminCalls>>
vars == <<games, gameCounter, tokenVars, profiles, disputeVars, tourneyVars,
          adminVars, seq, settlements>>

-----------------------------------------------------------------------------
(* Helpers shared by the handlers.                                         *)

\* check_not_paused and require_not_paused
NotPaused == ~cfg.paused

Timestamp == seq * SecondsPerLedger

\* elapsed = sequence.saturating_sub(last_move_at); time never goes back.
LedgersSinceMove(g) == seq - games[g].lastMoveAt
SecondsSinceMove(g) == Timestamp - games[g].lastMoveAt * SecondsPerLedger

Players(g)     == {games[g].player1, games[g].player2} \ {NoOne}
Opponent(g, p) == IF p = games[g].player1 THEN games[g].player2 ELSE games[g].player1
OnTheClock(g)  == IF games[g].turn = 1 THEN games[g].player1 ELSE games[g].player2

\* The account that a timeout claim requires: the one not on the clock.
WaitingPlayer(g) == IF games[g].turn = 1 THEN games[g].player2 ELSE games[g].player1

\* Faulty variants of the definitions that follow them carry the prefix Bad: a
\* plausible slip in the code, used to show that a property can fail.
BadInPlayAfterDraw(g) == NotPaused /\ games[g].state \in {"InProgress", "Drawn"}
BadInPlayAfterMate(g) == NotPaused /\ games[g].state \in {"InProgress", "Completed"}
BadInPlayAfterEnd(g)  == NotPaused /\ games[g].state \in {"InProgress", "Drawn", "Settled"}

\* What every handler that moves or ends a running game checks first.
InPlay(g) == NotPaused /\ games[g].state = "InProgress"

BadSeatFree(g, p) == games[g].state = "Created" /\ games[g].player2 = NoOne

\* What join_game asks of the game and of the second player.
SeatFree(g, p) ==
    /\ games[g].state = "Created"
    /\ games[g].player2 = NoOne
    /\ games[g].player1 # p

BadPrizePool(g) == 2 * games[g].wager

\* total_pool of the tournament payouts, total_amount of a tournament escrow.
PrizePool(g) == IF games[g].player2 = NoOne THEN games[g].wager ELSE 2 * games[g].wager

Plus(f, a, n) == [f EXCEPT ![a] = @ + n]

Fee(pool) == (pool * cfg.feeBips) \div 1000

BadLedgerAfterPayout(f, p1, p2, w, amount) ==
    Plus(Plus(Plus(f, p1, -amount), p2, -amount), w, 2 * amount - Fee(2 * amount))

\* Both stakes are debited, the winner and the treasury credited.
LedgerAfterPayout(f, p1, p2, w, amount) ==
    Plus(Plus(Plus(Plus(f, p1, -amount), p2, -amount), w, 2 * amount - Fee(2 * amount)),
         cfg.treasury, Fee(2 * amount))

\* process_payout: the ledger moves, and the same tokens leave the contract.
ProcessPayout(g, w) ==
    LET pool == 2 * games[g].wager
    IN  /\ games[g].player2 # NoOne
        /\ pool <= vault
        /\ escrow' = LedgerAfterPayout(escrow, games[g].player1, games[g].player2, w, games[g].wager)
        /\ tokens' = Plus(Plus(tokens, w, pool - Fee(pool)), cfg.treasury, Fee(pool))
        /\ vault' = vault - pool
        /\ settlements' = [settlements EXCEPT ![g] = @ + 1]

BadProcessDrawPayout(g) ==
    /\ games[g].wager <= vault
    /\ escrow' = Plus(escrow, games[g].player1, -games[g].wager)
    /\ tokens' = Plus(tokens, games[g].player1, games[g].wager)
    /\ vault' = vault - games[g].wager
    /\ settlements' = [settlements EXCEPT ![g] = @ + 1]

\* process_draw_payout: each player gets the wager back (both are seated here).
ProcessDrawPayout(g) ==
    LET p1 == games[g].player1
        p2 == games[g].player2
        w  == games[g].wager
    IN  /\ 2 * w <= vault
        /\ escrow' = Plus(Plus(escrow, p1, -w), p2, -w)
        /\ tokens' = Plus(Plus(tokens, p1, w), p2, w)
        /\ vault' = vault - 2 * w
        /\ settlements' = [settlements EXCEPT ![g] = @ + 1]

\* update_player_profile_after_game
AtLeastZero(n) == IF n < 0 THEN 0 ELSE n

Rated(p, r) == [p EXCEPT !.rating = r, !.highest = IF r > @ THEN r ELSE @]

AfterWin(p)  == [Rated(p, p.rating + 32) EXCEPT !.wins = @ + 1]
AfterLoss(p) == [Rated(p, AtLeastZero(p.rating - 16)) EXCEPT !.losses = @ + 1]
AfterDraw(p) == [Rated(p, p.rating + 8) EXCEPT !.draws = @ + 1]

RecordWin(w, l) == [profiles EXCEPT ![w] = AfterWin(@), ![l] = AfterLoss(@)]
RecordDraw(a, b) == [profiles EXCEPT ![a] = AfterDraw(@), ![b] = AfterDraw(@)]

\* The common tail of claim_win, forfeit, both timeout claims and a dispute
\* resolved for a winner: pay, settle, update both profiles.
SettleFor(g, w) ==
    /\ ProcessPayout(g, w)
    /\ games' = [games EXCEPT ![g] = [@ EXCEPT !.state = "Settled", !.winner = w]]
    /\ profiles' = RecordWin(w, Opponent(g, w))

OneLess(n) == IF n > 0 THEN n - 1 ELSE n

\* percentages <<pct, 100 - pct>> of total; the dust goes to the first winner.
FirstShare(total, pct)  == (total * pct) \div 100
SecondShare(total, pct) == (total * (100 - pct)) \div 100
Dust(total, pct) == total - FirstShare(total, pct) - SecondShare(total, pct)
Split(f, w1, w2, total, pct) ==
    Plus(Plus(f, w1, FirstShare(total, pct) + Dust(total, pct)), w2, SecondShare(total, pct))

-----------------------------------------------------------------------------
Init ==
    /\ games = [g \in GameIds |-> NoGame]
    /\ gameCounter = 0
    /\ escrow = [a \in Accounts |-> 0]
    /\ tokens = StartTokens
    /\ vault = 0
    /\ profiles = [a \in Accounts |-> FreshProfile]
    /\ disputes = [d \in DisputeIds |->
                     [status |-> "Absent", game |-> 1, filer |-> NoOne, paidFee |-> 0, refund |-> 0]]
    /\ disputeCounter = 0
    /\ tourneys = [e \in EscrowIds |->
                     [status |-> "Absent", game |-> 1, player |-> NoOne, total |-> 0, lockedUntil |-> 0]]
    /\ tourneyCount = 0
    /\ activeEscrows = [a \in Accounts |-> 0]
    /\ cfg \in InitialCfgs
    /\ seq = 0
    /\ adminCalls = 0
    /\ settlements = [g \in GameIds |-> 0]

(* Seating and moves.                                                      *)

CreateGame(p, wager) ==
    /\ NotPaused /\ cfg.whitelisted
    /\ wager <= cfg.maxStake /\ 2 * wager <= cfg.maxPrizePool
    /\ wager <= tokens[p]
    /\ gameCounter < MaxGames
    /\ gameCounter' = gameCounter + 1
    /\ games' = [games EXCEPT ![gameCounter + 1] =
                   [NoGame EXCEPT !.state = "Created", !.player1 = p, !.wager = wager,
                                  !.lastMoveAt = seq]]
    /\ tokens' = Plus(tokens, p, -wager)
    /\ vault' = vault + wager
    /\ escrow' = Plus(escrow, p, wager)
    /\ UNCHANGED <<profiles, disputeVars, tourneyVars, adminVars, seq, settlements>>

JoinGame(g, p) ==
    LET wager == games[g].wager
    IN  /\ NotPaused /\ cfg.whitelisted
        /\ SeatFree(g, p)
        /\ wager <= cfg.maxStake /\ 2 * wager <= cfg.maxPrizePool
        /\ wager <= tokens[p]
        /\ games' = [games EXCEPT ![g] = [@ EXCEPT !.state = "InProgress", !.player2 = p,
                                                   !.turn = 1, !.lastMoveAt = seq]]
        /\ tokens' = Plus(tokens, p, -wager)
        /\ vault' = vault + wager
        /\ escrow' = Plus(escrow, p, wager)
        /\ UNCHANGED <<gameCounter, profiles, disputeVars, tourneyVars, adminVars, seq, settlements>>

\* cancel_game refunds the wager and marks the game Completed.
CancelGame(g) ==
    /\ NotPaused
    /\ games[g].state = "Created"
    /\ games[g].wager <= vault
    /\ escrow' = Plus(escrow, games[g].player1, -games[g].wager)
    /\ tokens' = Plus(tokens, games[g].player1, games[g].wager)
    /\ vault' = vault - games[g].wager
    /\ games' = [games EXCEPT ![g].state = "Completed"]
    /\ settlements' = [settlements EXCEPT ![g] = @ + 1]
    /\ UNCHANGED <<gameCounter, profiles, disputeVars, tourneyVars, adminVars, seq>>

\* submit_move is called by the player on the clock; game_status 1 ends the
\* game by checkmate, 2 in a draw, anything else lets it go on.
MoveBase(g) == [games[g] EXCEPT !.turn = 3 - @, !.lastMoveAt = seq]

SubmitMove(g) ==
    /\ InPlay(g)
    /\ games' = [games EXCEPT ![g] = MoveBase(g)]
    /\ UNCHANGED <<gameCounter, tokenVars, profiles, disputeVars, tourneyVars, adminVars,
                   seq, settlements>>

SubmitMate(g) ==
    /\ InPlay(g)
    /\ games' = [games EXCEPT ![g] = [MoveBase(g) EXCEPT !.state = "Completed",
                                                         !.winner = OnTheClock(g)]]
    /\ ProcessPayout(g, OnTheClock(g))
    /\ UNCHANGED <<gameCounter, profiles, disputeVars, tourneyVars, adminVars, seq>>

SubmitDrawingMove(g) ==
    /\ InPlay(g)
    /\ games' = [games EXCEPT ![g] = [MoveBase(g) EXCEPT !.state = "Drawn"]]
    /\ ProcessDrawPayout(g)
    /\ UNCHANGED <<gameCounter, profiles, disputeVars, tourneyVars, adminVars, seq>>

(* Endings.  The backend's signature on a win or a draw is the             *)
(* environment's choice of the moment and of the winner.                   *)

ClaimDraw(g) ==
    /\ InPlay(g)
    /\ games' = [games EXCEPT ![g].state = "Drawn"]
    /\ ProcessDrawPayout(g)
    /\ profiles' = RecordDraw(games[g].player1, games[g].player2)
    /\ UNCHANGED <<gameCounter, disputeVars, tourneyVars, adminVars, seq>>

ClaimWin(g, w) ==
    /\ InPlay(g)
    /\ w \in Players(g)
    /\ SettleFor(g, w)
    /\ UNCHANGED <<gameCounter, disputeVars, tourneyVars, adminVars, seq>>

Forfeit(g, p) ==
    /\ InPlay(g)
    /\ p \in Players(g)
    /\ SettleFor(g, Opponent(g, p))
    /\ UNCHANGED <<gameCounter, disputeVars, tourneyVars, adminVars, seq>>

\* claim_timeout_win: measured in ledger sequences.
ClaimTimeoutWin(g) ==
    /\ InPlay(g)
    /\ cfg.timeout > 0
    /\ LedgersSinceMove(g) >= cfg.timeout
    /\ SettleFor(g, WaitingPlayer(g))
    /\ UNCHANGED <<gameCounter, disputeVars, tourneyVars, adminVars, seq>>

\* claim_timeout_victory: measured in seconds, with a grace buffer.
ClaimTimeoutVictory(g) ==
    /\ InPlay(g)
    /\ cfg.deadline > 0
    /\ SecondsSinceMove(g) >= cfg.deadline + cfg.buffer
    /\ SettleFor(g, WaitingPlayer(g))
    /\ UNCHANGED <<gameCounter, disputeVars, tourneyVars, adminVars, seq>>

\* payout: the recorded winner of a Completed game pulls the pool.
Payout(g) ==
    /\ NotPaused
    /\ games[g].state = "Completed"
    /\ games[g].winner # NoOne
    /\ ProcessPayout(g, games[g].winner)
    /\ games' = [games EXCEPT ![g].state = "Settled"]
    /\ UNCHANGED <<gameCounter, profiles, disputeVars, tourneyVars, adminVars, seq>>

\* payout_tournament: only the internal ledger moves.
PayoutTournament(g, w1, w2, pct) ==
    LET p1    == games[g].player1
        p2    == games[g].player2
        wager == games[g].wager
        minus == IF p2 = NoOne THEN Plus(escrow, p1, -wager)
                 ELSE Plus(Plus(escrow, p1, -wager), p2, -wager)
    IN  /\ NotPaused
        /\ games[g].state = "Completed"
        /\ \A p \in Players(g) : escrow[p] >= wager
        /\ escrow' = Split(minus, w1, w2, PrizePool(g), pct)
        /\ games' = [games EXCEPT ![g].state = "Settled"]
        /\ UNCHANGED <<gameCounter, tokens, vault, profiles, disputeVars, tourneyVars,
                       adminVars, seq, settlements>>

\* payout_tournament_optimized: only tokens move.
PayoutTournamentOptimized(g, w1, w2, pct) ==
    /\ NotPaused
    /\ games[g].state = "Completed"
    /\ PrizePool(g) <= vault
    /\ tokens' = Split(tokens, w1, w2, PrizePool(g), pct)
    /\ vault' = vault - PrizePool(g)
    /\ games' = [games EXCEPT ![g].state = "Settled"]
    /\ settlements' = [settlements EXCEPT ![g] = @ + 1]
    /\ UNCHANGED <<gameCounter, escrow, profiles, disputeVars, tourneyVars, adminVars, seq>>

-----------------------------------------------------------------------------
(* Time-locked tournament escrows.                                         *)

CreateTournamentEscrow(g) ==
    /\ NotPaused
    /\ games[g].state = "Completed"
    /\ activeEscrows[games[g].player1] < MaxActiveEscrows
    /\ cfg.timelock > 0
    /\ tourneyCount < MaxTourneys
    /\ tourneyCount' = tourneyCount + 1
    /\ tourneys' = [tourneys EXCEPT ![tourneyCount + 1] =
                      [status |-> "Locked", game |-> g, player |-> games[g].player1,
                       total |-> PrizePool(g), lockedUntil |-> seq + cfg.timelock]]
    /\ activeEscrows' = Plus(activeEscrows, games[g].player1, 1)
    /\ UNCHANGED <<games, gameCounter, tokenVars, profiles, disputeVars, adminVars, seq, settlements>>

ReleaseTournamentEscrow(e, w1, w2, pct) ==
    LET t == tourneys[e]
    IN  /\ NotPaused
        /\ t.status = "Locked"
        /\ t.lockedUntil <= seq
        /\ t.total <= vault
        /\ tokens' = Split(tokens, w1, w2, t.total, pct)
        /\ vault' = vault - t.total
        /\ tourneys' = [tourneys EXCEPT ![e].status = "Released"]
        /\ activeEscrows' = [activeEscrows EXCEPT ![t.player] = OneLess(@)]
        /\ settlements' = [settlements EXCEPT ![t.game] = @ + 1]
        /\ UNCHANGED <<games, gameCounter, escrow, profiles, disputeVars, tourneyCount, adminVars, seq>>

(* Disputes.                                                               *)

FileDispute(g, filer) ==
    LET fee == cfg.disputeFee
    IN  /\ InPlay(g)
        /\ filer \in Players(g)
        /\ fee <= tokens[filer]
        /\ disputeCounter < MaxDisputes
        /\ disputeCounter' = disputeCounter + 1
        /\ disputes' = [disputes EXCEPT ![disputeCounter + 1] =
                          [status |-> "Pending", game |-> g, filer |-> filer,
                           paidFee |-> fee, refund |-> 0]]
        /\ tokens' = Plus(tokens, filer, -fee)
        /\ vault' = vault + fee
        /\ UNCHANGED <<games, gameCounter, escrow, profiles, tourneyVars, adminVars, seq, settlements>>

\* resolve_dispute for a winner ...
ResolveDisputeForWinner(d, w) ==
    LET g == disputes[d].game
    IN  /\ cfg.arbitrator
        /\ disputes[d].status = "Pending"
        /\ InPlay(g)
        /\ w \in Players(g)
        /\ SettleFor(g, w)
        /\ disputes' = [disputes EXCEPT ![d].status = "Resolved"]
        /\ UNCHANGED <<gameCounter, disputeCounter, tourneyVars, adminVars, seq>>

\* ... or for no one, which draws the game and leaves the profiles alone.
ResolveDisputeAsDraw(d) ==
    LET g == disputes[d].game
    IN  /\ cfg.arbitrator
        /\ disputes[d].status = "Pending"
        /\ InPlay(g)
        /\ games' = [games EXCEPT ![g].state = "Drawn"]
        /\ ProcessDrawPayout(g)
        /\ disputes' = [disputes EXCEPT ![d].status = "Resolved"]
        /\ UNCHANGED <<gameCounter, profiles, disputeCounter, tourneyVars, adminVars, seq>>

\* reject_dispute refunds the fee configured now, whatever the filer paid.
RejectDispute(d) ==
    /\ NotPaused /\ cfg.arbitrator
    /\ disputes[d].status = "Pending"
    /\ cfg.disputeFee <= vault
    /\ disputes' = [disputes EXCEPT ![d] = [@ EXCEPT !.status = "Rejected", !.refund = cfg.disputeFee]]
    /\ tokens' = Plus(tokens, disputes[d].filer, cfg.disputeFee)
    /\ vault' = vault - cfg.disputeFee
    /\ UNCHANGED <<games, gameCounter, escrow, profiles, disputeCounter, tourneyVars, adminVars,
                   seq, settlements>>

-----------------------------------------------------------------------------
(* Administration: calls that the stored admin makes.                      *)

AdminCall(newCfg) ==
    /\ adminCalls < MaxAdminCalls
    /\ adminCalls' = adminCalls + 1
    /\ cfg' = newCfg
    /\ UNCHANGED <<games, gameCounter, tokenVars, profiles, disputeVars, tourneyVars, seq, settlements>>

Pause   == ~cfg.paused /\ AdminCall([cfg EXCEPT !.paused = TRUE])
Unpause == cfg.paused /\ AdminCall([cfg EXCEPT !.paused = FALSE])
AddWhitelistedToken    == AdminCall([cfg EXCEPT !.whitelisted = TRUE])
RemoveWhitelistedToken == AdminCall([cfg EXCEPT !.whitelisted = FALSE])
SetMaxStake(n)         == AdminCall([cfg EXCEPT !.maxStake = n])
SetMaxPrizePool(n)     == AdminCall([cfg EXCEPT !.maxPrizePool = n])
ConfigureFees(bips, t) == AdminCall([cfg EXCEPT !.feeBips = bips, !.treasury = t])
ConfigureDisputeSystem(fee) == AdminCall([cfg EXCEPT !.arbitrator = TRUE, !.disputeFee = fee])
ConfigureTimeout(n)    == n > 0 /\ AdminCall([cfg EXCEPT !.timeout = n])
ConfigureTimeoutDeadline(n, b) ==
    n > 0 /\ AdminCall([cfg EXCEPT !.deadline = n, !.buffer = b])
ConfigureTournamentTimelock(n) ==
    NotPaused /\ n > 0 /\ AdminCall([cfg EXCEPT !.timelock = n])

SetPlayerRating(p, r) ==
    /\ NotPaused
    /\ adminCalls < MaxAdminCalls
    /\ adminCalls' = adminCalls + 1
    /\ profiles' = [profiles EXCEPT ![p] = Rated(@, r)]
    /\ UNCHANGED <<games, gameCounter, tokenVars, disputeVars, tourneyVars, cfg, seq, settlements>>

LedgerCloses ==
    /\ seq < MaxSeq
    /\ seq' = seq + 1
    /\ UNCHANGED <<games, gameCounter, tokenVars, profiles, disputeVars, tourneyVars, adminVars,
                   settlements>>

-----------------------------------------------------------------------------
GameStep(g) ==
    \/ \E p \in Accounts : JoinGame(g, p)
    \/ CancelGame(g)
    \/ SubmitMove(g)
    \/ SubmitMate(g)
    \/ SubmitDrawingMove(g)
    \/ ClaimDraw(g)
    \/ \E w \in Accounts : ClaimWin(g, w)
    \/ \E p \in Accounts : Forfeit(g, p)
    \/ ClaimTimeoutWin(g)
    \/ ClaimTimeoutVictory(g)
    \/ Payout(g)

PrizeStep(g) ==
    \/ \E s \in Splits : PayoutTournament(g, s[1], s[2], s[3])
    \/ \E s \in Splits : PayoutTournamentOptimized(g, s[1], s[2], s[3])
    \/ CreateTournamentEscrow(g)

EscrowStep(e) ==
    \E s \in Splits : ReleaseTournamentEscrow(e, s[1], s[2], s[3])

DisputeStep(d) ==
    \/ \E w \in Accounts : ResolveDisputeForWinner(d, w)
    \/ ResolveDisputeAsDraw(d)
    \/ RejectDispute(d)

AdminStep ==
    \/ Pause
    \/ Unpause
    \/ AddWhitelistedToken
    \/ RemoveWhitelistedToken
    \/ \E n \in StakeLimits : SetMaxStake(n)
    \/ \E n \in PoolLimits : SetMaxPrizePool(n)
    \/ \E b \in FeeChoices, t \in Accounts : ConfigureFees(b, t)
    \/ \E fee \in DisputeFees : ConfigureDisputeSystem(fee)
    \/ \E n \in Durations : ConfigureTimeout(n)
    \/ \E n, b \in Durations : ConfigureTimeoutDeadline(n, b)
    \/ \E n \in Durations : ConfigureTournamentTimelock(n)
    \/ \E p \in Accounts, r \in Ratings : SetPlayerRating(p, r)

Next ==
    \/ \E p \in Accounts, w \in Wagers : CreateGame(p, w)
    \/ \E g \in GameIds : GameStep(g)
    \/ \E g \in GameIds : PrizeStep(g)
    \/ \E e \in EscrowIds : EscrowStep(e)
    \/ \E g \in GameIds, p \in Accounts : FileDispute(g, p)
    \/ \E d \in DisputeIds : DisputeStep(d)
    \/ AdminStep
    \/ LedgerCloses

Spec == Init /\ [][Next]_vars

-----------------------------------------------------------------------------
(* Safety.                                                                 *)

TypeOK ==
    /\ games \in [GameIds -> Game]
    /\ gameCounter \in 0..MaxGames
    /\ escrow \in [Accounts -> Int]
    /\ tokens \in [Accounts -> Int]
    /\ vault \in Int
    /\ profiles \in [Accounts -> Profile]
    /\ disputes \in [DisputeIds -> Dispute]
    /\ disputeCounter \in 0..MaxDisputes
    /\ tourneys \in [EscrowIds -> Tourney]
    /\ tourneyCount \in 0..MaxTourneys
    /\ activeEscrows \in [Accounts -> Int]
    /\ cfg \in Config
    /\ seq \in 0..MaxSeq
    /\ adminCalls \in 0..MaxAdminCalls
    /\ settlements \in [GameIds -> Nat]

Seated(game) ==
    /\ game.player1 \in Accounts
    /\ game.player2 \in Accounts
    /\ game.player1 # game.player2

CoherentGame(game) ==
    /\ game.state # "Absent" <=> game.player1 \in Accounts
    /\ game.state = "Created" => game.player2 = NoOne
    /\ game.state \in {"InProgress", "Drawn"} => Seated(game)
    /\ game.state \in Live \cup {"Absent", "Drawn"} => game.winner = NoOne
    /\ game.state \in {"Completed", "Settled"} =>
          \/ Seated(game) /\ game.winner \in {game.player1, game.player2}
          \/ game.player2 = NoOne /\ game.winner = NoOne

\* Every handler that ends a game, in whatever order they race, leaves a game
\* whose outcome fits the way it ended: nobody wins a game that is still
\* running or drawn, a winner sits at the board, and a game that ended
\* without a result had no second player (cancel_game).
GamesCoherent ==
    \A g \in GameIds :
        /\ games[g].state = "Absent" <=> g > gameCounter
        /\ CoherentGame(games[g])

PaidFor(state, times) ==
    /\ state \in Live \cup {"Absent"} => times = 0
    /\ state = "Drawn" => times = 1
    /\ state \in {"Completed", "Settled"} => times >= 1

\* The stake of a game stays in the contract while the game is live, and has
\* left it once the game is over: a draw pays exactly once, and there is no
\* Completed or Settled game that was never paid.
PaidByState == \A g \in GameIds : PaidFor(games[g].state, settlements[g])

\* A tournament escrow (create_tournament_escrow) belongs to a game that ended
\* with a result or was cancelled, and holds exactly what its players staked,
\* until release_tournament_escrow pays it out.
TourneysCoherent ==
    \A e \in EscrowIds :
        /\ tourneys[e].status = "Absent" <=> e > tourneyCount
        /\ tourneys[e].status # "Absent" =>
              LET game == games[tourneys[e].game]
              IN  /\ game.state \in {"Completed", "Settled"}
                  /\ tourneys[e].player = game.player1
                  /\ tourneys[e].total = IF Seated(game) THEN 2 * game.wager ELSE game.wager

\* A dispute belongs to players of a game that was being played; one that the
\* arbitrator resolved has ended that game, and ended it alone, however many
\* disputes are pending on it and whatever else settled it meanwhile.
DisputesCoherent ==
    \A d \in DisputeIds :
        /\ disputes[d].status = "Absent" <=> d > disputeCounter
        /\ disputes[d].status # "Absent" =>
              /\ Seated(games[disputes[d].game])
              /\ disputes[d].filer \in Players(disputes[d].game)
        /\ disputes[d].status = "Resolved" =>
              /\ games[disputes[d].game].state \in {"Drawn", "Settled"}
              /\ \A c \in DisputeIds \ {d} :
                    disputes[c].status = "Resolved" => disputes[c].game # disputes[d].game

\* The conjunction that every step preserves.
IndInv == TypeOK /\ GamesCoherent /\ PaidByState /\ TourneysCoherent /\ DisputesCoherent

\* What the players of g have put in: one wager each.
Staked(g) == games[g].wager * Cardinality(Players(g))

\* What of it the contract still holds, and the fee that it keeps of a dispute.
AtStake(g) == Staked(g) * (1 - settlements[g])
FeeKept(d) == disputes[d].paidFee - disputes[d].refund

\* Every settlement of a game, by any of the routes, moves exactly its pool out
\* of the contract (fee and dust included), and apart from that the contract
\* holds the fees of disputes.
VaultAccounting ==
    vault = SumFunction([g \in GameIds |-> AtStake(g)])
            + SumFunction([d \in DisputeIds |-> FeeKept(d)])

\* The ESCROW ledger as a whole keeps the stakes of all games but the drawn and
\* the cancelled: a payout moves entries between the players and the treasury,
\* never the total.
Refunded(g) ==
    \/ games[g].state = "Drawn"
    \/ games[g].player2 = NoOne /\ ~(games[g].state \in Live)

Booked(g) == IF Refunded(g) THEN 0 ELSE Staked(g)

LedgerAccounting == SumFunction(escrow) = SumFunction([g \in GameIds |-> Booked(g)])

\* No handler creates or burns tokens: prize splits pay the whole pool, dust
\* included, and the fee comes out of the winner's share.
NoTokenLost == vault + SumFunction(tokens) = SumFunction(StartTokens)

LockedFor(a) == {e \in EscrowIds : tourneys[e].status = "Locked" /\ tourneys[e].player = a}

\* PLAYER_ACTIVE_ESCROWS counts the locked tournament escrows of each
\* organiser, over any order of creations and releases, and never passes the cap.
ActiveEscrowsCounted ==
    \A a \in Accounts :
        /\ activeEscrows[a] = Cardinality(LockedFor(a))
        /\ activeEscrows[a] <= MaxActiveEscrows

WonBy(a)   == {g \in GameIds : games[g].winner = a}
LostBy(a)  == {g \in GameIds : games[g].winner \in Accounts \ {a} /\ a \in Players(g)}
DrawnBy(a) == {g \in GameIds : games[g].state = "Drawn" /\ a \in Players(g)}

\* Each decided game is counted once for its winner and once for its loser, in
\* no more profiles than it had players, and each draw for both: results are
\* never counted twice, however a game reaches its end.
ProfilesBalanced ==
    /\ SumFunction([a \in Accounts |-> profiles[a].wins - profiles[a].losses]) = 0
    /\ \A a \in Accounts :
          /\ profiles[a].wins <= Cardinality(WonBy(a))
          /\ profiles[a].losses <= Cardinality(LostBy(a))
          /\ profiles[a].draws <= Cardinality(DrawnBy(a))
          /\ profiles[a].rating <= profiles[a].highest

\* No race of endings, payouts, escrows and admin calls leaves the books in
\* disagreement: contract, ledger, players' tokens, profiles and escrow counts.
BooksBalance ==
    /\ VaultAccounting
    /\ LedgerAccounting
    /\ NoTokenLost
    /\ ProfilesBalanced
    /\ ActiveEscrowsCounted

\* Once decided, an outcome is final: drawn and settled games never change, the
\* winner of a Completed game is never replaced, and the players and the wager
\* of a game are fixed once both are seated.
OutcomeFinal ==
    [][\A g \in GameIds :
         /\ games[g].state \in {"Drawn", "Settled"} => games'[g] = games[g]
         /\ games[g].state = "Completed" =>
               /\ games'[g].state \in {"Completed", "Settled"}
               /\ games'[g].winner = games[g].winner
         /\ games[g].state \notin {"Absent", "Created"} =>
               /\ games'[g].player1 = games[g].player1
               /\ games'[g].player2 = games[g].player2
               /\ games'[g].wager = games[g].wager]_vars

\* The life cycle alone: the contract implements GameLifecycle, in which a game
\* is decided once and its stake is released exactly when it ends.  That a
\* released stake may leave the contract again is not visible there.
View(game) == [state |-> game.state, player1 |-> game.player1,
               player2 |-> game.player2, winner |-> game.winner]
board    == [g \in GameIds |-> View(games[g])]
released == [g \in GameIds |-> settlements[g] > 0]

Lifecycle == INSTANCE GameLifecycle

ImplementsLifecycle == Lifecycle!Spec

-----------------------------------------------------------------------------
(* What comments of the source say and the code does not do.               *)

\* process_payout's "Deduct both stakes first (clean state, prevents
\* double-spend)": the stake of a game leaves the contract at most once.
PaidAtMostOnce == \A g \in GameIds : settlements[g] <= 1
=============================================================================
