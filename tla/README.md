# KnightVerse in TLA+

KnightVerse is a chess platform that plays for stakes. Soroban (Stellar) contracts
written in Rust hold the stakes; an actix-web backend in Rust keeps games, ratings,
accounts, queues and live sessions in PostgreSQL, Redis and memory; engine workers in
Python and a Next.js frontend stand around them. This directory specifies the parts in
which the order of things matters: who is paid, what a game's outcome is, what a request
was told and whether it stays true, when calls, requests, messages, timeouts and failures
interleave.

Paths below are relative to `src/`, the root of the repository; a bare `api/`, `chess/`,
`service/` and the like is below `backend/modules/`.

## 1. Inventory

### Contracts

A contract call is a transaction: it takes effect as a whole or, on an `Err`, a panic or
a refused token transfer, not at all. What interleaves are whole calls by players, the
admin, the arbitrator and strangers, and the closing of ledgers, which moves the time.

**game_contract** (`contracts/game_contract/src/lib.rs`, the core). State: `GAMES` with
state, seats, wager, turn, winner and time of the last move; `ESCROW`, an internal ledger
beside the tokens the contract holds; `DISPUTES`; `TOURNAMENT_ESCROWS` and
`PLAYER_ACTIVE_ESCROWS`; `PLAYER_PROFILES`; configuration. A game ends in eleven ways
(`submit_move` with mate or a draw, `claim_win`, `claim_draw`, `forfeit`,
`claim_timeout_win`, `claim_timeout_victory`, `cancel_game`, `resolve_dispute` for White,
for Black, or as a draw), and four more calls pay for a game that is over (`payout`,
`payout_tournament`, `payout_tournament_optimized`, `create_tournament_escrow` followed by
`release_tournament_escrow`). Hard: any two of these race; a dispute outlives the game it
is about; the configuration changes between two steps of one game. Correct when: an
outcome is final and fits the way the game ended; the stake leaves when the game ends and
not before; the tokens held are accounted for; counters beside a collection agree with it.
Beside games the contract rotates its signing key, changes fees by several signatures and
pays puzzle rewards. Correct when: nothing takes effect early or twice, and no signature
of one key or threshold counts for another.

**arbiter_escrow** (`contracts/arbiter_escrow/src/lib.rs`). State: escrows with their
stakes, panel of three, tallies and two deadlines; ballots. The admin opens and settles,
players fund and dispute, arbiters vote, anyone may trigger the fallback. Hard: the last
vote, `resolve_dispute` and the fallback race around the deadlines. Correct when: only a
majority of the panel, or the timelock if there is none, closes a dispute; no pot pays for
another; a frozen pot is always freed.

**sponsorship_escrow**, **yield_staking**, **gasless_relayer**,
**emergency_circuit_breaker** (`contracts/*/src/lib.rs`). Stages of a sponsorship and their
refunds; staked positions, the yield of a shared wallet and its harvest; signed requests
that reach the chain late, twice or out of order, held off by nonces, and calls forwarded
with the contract's own authority; balances, match escrows and the supply under a pause
switch. Correct when the money in equals the money out plus the money held, over every
order of calls.

**Small contracts**: `ai_nft`, `referral_splitter`, `title_badge`, `model_attestation`,
`game_registry`. Registers with guarded writes: a result, a title and an attestation are
written once; entry fees, commissions and counts must agree with what was paid and made.

### Backend

Requests are tasks of one process (or of several behind a balancer) that await PostgreSQL
or Redis between their statements, so the statements of different requests interleave.

**Game service** (`service/src/games.rs`, `chess/src/rating.rs`, called from
`api/src/games.rs`). State: rows of table `game` and the ratings of the players.
`create_game`, `join_game`, `make_move`, `abandon_game` and `import_game` read a row, check
it, and write it with a second statement; `complete_game` is a transaction over the game
and both players. Lists of games are read from a replica, page by page. Hard: what was
read is stale when it is written; transactions lock the players in the order of the
colours; a connection may break after a statement took effect. Correct when: seats, turns
and results survive the races; a rating reflects only games that are over; every request
is answered; a walk through a list misses nothing that was there all along.

**Accounts and players** (`api/src/auth.rs`, `security/src`, `api/src/wallet_link.rs`,
`service/src/players.rs`, `service/src/admin_audit.rs`). Refresh tokens are exchanged
within families, and a second use is taken for theft; tickets open sockets; wallets are
linked by a signed challenge; profiles are read from the replica and written to the
primary. Hard: overlapping exchanges, answers that are lost, replica lag, and bans of two
statements.

**Web sockets** (`api/src/ws.rs`). Every connection is a session actor; the connection
tracker starts a grace timer when one stops, and the timer abandons the game unless the
player returns. Whoever has a token may open a session in any game; only the abandonment
asks the row whether he plays in it. Hard: a new session starts before the old one has
stopped; timers overwrite each other; messages are handled in the order of one mailbox, not
of events. **Move protocol** (`move_protocol/src/sequencer.rs`, `api/src/move_order.rs`):
puts numbered packets in order with a bounded window. **Spectators**
(`api/src/redis_broadcast.rs`, `api/src/rate_limiter.rs`, `api/src/moderation.rs`): frames
over Redis into bounded queues, admission, frame budgets, and a chat with a word filter,
mutes and a late audit.

**Matchmaking** (`matchmaking/service.rs`, `routes.rs`). State: Redis queues, an index,
private invites and matches. Some steps are Lua scripts and atomic; what is between them
is not. Hard: two requests that fit each other, cancellations and polls race; a server
stops between two steps. Correct when: nobody is paired twice, and what a client was told
stays true.

**Idempotency keys** (`api/src/idempotency.rs`): a key in Redis with a time to live stands
for a request in progress or its stored answer. Hard: the key expires under a running
request.

**Tournaments** (`tournament/src`, `pairing/src`, `api/src/pairings.rs`,
`api/src/tournaments.rs`): brackets, Swiss and arena pairings, algorithms over one value;
and registration, whose requests store brackets over each other.

**Engines** (`service/src/engine_pool.rs`, `circuit_breaker.rs`, `engine/src`,
`agent-engines/gpu_worker`): an admission pool with a timeout, a circuit breaker, one UCI
process behind its pipes, and a Python pool of workers that grows and shrinks. Hard: calls
overlap and record late; a timeout falls into the middle of a line; workers move in their
list while calls hold indices.

**Documents** (`chess/src/pgn.rs`, `pgn_validator.rs`, `archiving/src/lib.rs`,
`api/src/archive.rs`, `service/src/reporting.rs`): games written as PGN, checked, imported
and archived by tasks whose failures wait in memory; reports of players with limits.

**Clocks, boards, rooms** (`chess/src/time_control.rs`, `move_protocol/src/clock.rs`,
`chess/src/bitboard/board.rs`, `backend/src/socket`): chess clocks of six kinds and the
estimate of a client's clock; a board in three groups of bitboards that must agree; and a
second, stand-alone socket server with rooms, clocks and takebacks.

Not modelled: section 6. `PROJECT.json` lists every part with its status and reason.

### How they interact

The backend signs results (`claim_win`, `claim_draw`) that the game contract verifies; the
contract does not know the moves. So the contract's environment may bring any signed
result at any time, and the specification lets it. The escrow contracts do not call each
other. The web-socket sessions and the HTTP handlers share the game service and through it
the rows: the tracker's `abandon_game` is composed with the row in `ConnectionTracker`, and
a completed game's archive with the replica in `Archiving`. The other parts of the backend
share PostgreSQL and Redis but no key and no row, so that each has a module of its own.

## 2. Modules

| module | what it is |
| --- | --- |
| `GameEscrow` | game_contract: games, stakes, disputes, tournament prizes, profiles |
| `GameLifecycle` | what it promises about a game; refined by `GameEscrow` |
| `GameEscrowProofs` | what is proved of it: types, invariants, refinement; the books |
| `ContractGovernance` | game_contract: signing key, fees by several signatures, rewards, challenges |
| `ArbiterEscrow` | arbiter_escrow |
| `Arbitration` | what it promises the stakers; refined by `ArbiterEscrow` |
| `SponsorshipEscrow`, `YieldStaking`, `GaslessRelayer`, `CircuitBreaker` | the contracts of these names |
| `GameRegistry` | game registry, title badges, attestations, referral splitter, AI NFTs |
| `ContractProofs` | what is proved of all contracts but the games: types, books, rules, ballots, a refinement |
| `Sums` | lemmas about sums over finite sets, for books and points |
| `GameService` | game rows and ratings under concurrent requests |
| `GameListing` | lists of games, page by page from the replica |
| `Accounts` | tokens and their families, tickets, wallet links |
| `PlayerRows` | player rows on primary and replica, preferences, bans |
| `GameServiceProofs` | what is proved of `GameService`, `GameListing`, `Accounts` and `PlayerRows` |
| `ConnectionTracker` | socket sessions, grace timers and the abandonment of a game |
| `MoveStream` | the sequencer and the guard between a player's packets and the lobby |
| `SessionProofs` | what is proved of `ConnectionTracker`, `MoveStream`, `Rooms`, `Clocks` and the mutes of `ChatModeration` |
| `ChatModeration` | word filter, mutes and audit of the spectators' chat |
| `SpectatorFanout` | frames of a game over Redis to its spectators |
| `RateLimits` | requests, frames, spectators, and reports of players |
| `Matchmaking`, `Idempotency` | queues, invites and polls in Redis; a request and its retries |
| `Bracket`, `SwissTournament` | brackets and registration; Swiss rounds, single rounds, arena |
| `EngineCalls` | admission pool, circuit breaker, and one UCI process behind its pipes |
| `WorkerPool` | the Python pool of engine workers |
| `Pgn`, `Archiving` | a game as a document; its way to the archive |
| `Board` | the board in bitboards |
| `CallsProofs` | what is proved of `Idempotency`, `EngineCalls`, `WorkerPool`, `RateLimits`, `SpectatorFanout`, `Archiving` |
| `TournamentProofs` | what is proved of `SwissTournament` and `Bracket` |
| `ServicesProofs` | what is proved of `Matchmaking`, `Board`, the draws of `ChessRules`, and the composite |
| `ChessRules` | Chess960 library and random start; draws that need no claim |
| `Rooms`, `Clocks` | the stand-alone socket server; chess clocks and clock synchronisation |
| `MC...` | values of the constants for TLC, and composites |

Definitions have the names of the code where TLA+ allows it: the action `ClaimTimeoutWin`
is `claim_timeout_win`. Definitions with the prefix `Bad` are slips such as a dropped
guard or a missing reset; none is part of a specification. Each property has been seen to
fail with one of them in the place of the definition that follows it (`PROJECT.json`,
"mutants").

**Composites.** `MCSessions`, `MCServices`, `MCContracts`, `MCGameService` and `MCProgress`
each hold several modules that share no variable. A variable `component` is chosen in the
initial state; the chosen part runs as its module says, and the others stay in one initial
state. This is the union of the parts' state spaces, not their product, and loses nothing
as the parts cannot influence each other. Their properties are the modules' own, or the
conjunction of the conditions of several modules: `CallsSound` is `IdempotencySound`,
`EngineSound`, `UciSound`, `WorkersSound`, `LimitsSound`, `ReportsSound`, `FanoutSound`,
`ArchivingSound`, `RegistrationSound` and `DrawsSound`.

### GameEscrow

One action per call and per outcome of a call (`submit_move` is `SubmitMove`, `SubmitMate`
and `SubmitDrawingMove`; `resolve_dispute` is `ResolveDisputeForWinner`, used for either
player, and `ResolveDisputeAsDraw`). Its guard is the conjunction of the call's checks;
a call that fails changes nothing and is a stuttering step. `require_auth` is the
environment's promise that the caller is who it says. The host refuses re-entry, so the
re-entrancy flag is 0 between calls and no variable.

| variable | code |
| --- | --- |
| `games`, `gameCounter` | `GAMES`, `GAME_COUNTER` |
| `escrow` | `ESCROW`, the internal ledger |
| `tokens`, `vault` | the token contract: balances of the accounts and of the contract |
| `profiles` | `PLAYER_PROFILES` |
| `disputes`, `disputeCounter` | `DISPUTES`, `DISPUTE_COUNTER` |
| `tourneys`, `tourneyCount`, `activeEscrows` | `TOURNAMENT_ESCROWS`, `PLAYER_ACTIVE_ESCROWS` |
| `cfg` | the configuration keys of instance storage |
| `seq` | the ledger sequence; the timestamp is `seq * SecondsPerLedger` |
| `settlements`, `paidFee`, `refund` | history, read by no action |
| `adminCalls` | bound |

Amounts are integers and the shares and fees are computed as in the code, rounding
included, because the properties are about tokens lost and found. The moves themselves,
hashes, evidence, metadata and events are left out.

### The other contracts

Calls are actions in the same way. `ArbiterEscrow` has every state-changing call but
`initialize`; `panel` is a set, as the code only asks whether the three arbiters differ and
whether an address is among them. In `ContractGovernance` a signature verifies under the
key that made it and under no other, and signers are configured as lists in which one may
occur twice (`SignerLists`). In `SponsorshipEscrow` roles are left out: they guard calls
and hold no tokens. In `YieldStaking` what a pool owes the contract is a variable, which
the environment lets grow and shrink; all positions share one wallet and one token, that of
the first stake. In `GaslessRelayer` all that a player has ever signed may arrive at any
time, again and again, from any relayer. A forwarded call runs as the contract, so that it
may take tokens out of it at once or let somebody spend them later (`TokensLeave`,
`SpenderTakes`; `lent` is an allowance given, `spent` what was taken).

### GameService

A request occupies a slot (`task[r]`), and its `pc` is the statement it executes next.
`Read` is the first statement with the checks that follow it, and `Refuse` is their failure;
`UpdateMove`, `UpdateJoin`, `UpdateAbandon` and `UpdateResult` are the UPDATEs. The rest of
`complete_game_on` and `update_ratings_in_transaction` is one action per statement:
`ReadWhite`, `ReadBlack`, `WriteWhite`, `WriteBlack`, `Commit`. `DatabaseError` is the
failure of any statement, and `answer = "error"` on an update that took effect is a
connection that breaks before the answer arrives.

PostgreSQL is modelled from how the code uses it, at its default isolation level READ
COMMITTED: reads see what is committed; an UPDATE waits for the transaction that holds its
row (`gameLock`, `playerLock`) and then applies to the row as it is by then; a transaction's
writes appear when it commits; the database breaks deadlocks. An UPDATE writes only the
columns the code sets, so `join_game` keeps the moves that are there.

A rating is represented by the games it reflects (`elo[p][g]` is how often game `g` is
counted in it), which tells a lost update from a double one; the Elo formula is left out. A
move is represented by the player who made it.

`GameListing`, `Accounts` and `PlayerRows` are written in the same style: a request is a
record with its next statement, every statement is a step and may fail, and where the code
reads from the replica there is a second copy of the rows that follows the first.

### Sessions

`ConnectionTracker` has one mailbox, as the actor has, and one game of two `Participants`
among all `Players` who may open a session for it; the others are visitors, whom only
`AbandonReads` refuses. Sessions open and close (`SessionStarts`, `SessionStops`), messages
are handled in order (`TakeMessage`), timers run out, and the abandonment is a read and a
write against the row. The process may restart. `MoveStream` takes packets in any order,
twice and late, from a sequence of numbers; a deadline changes nothing but which gaps are
due, so any open gap may be due with any packet. `ChatModeration` has the filter as a
function of a message and the ledger of offences with its window and sweep. `Rooms` has one
action per call of `socket/game.rs`, each under the lock of the server state.

### Services

`Matchmaking` gives every HTTP task one action per Redis command; a Lua script is one
command. A match has the name of the request that found it. `RateLimits` and
`SpectatorFanout` have the failures of Redis at each command: a request passes uncounted
(`PassesUncounted`), a count is not changed (`CountFails`), a frame is not published
(`PublishFails`). In `Archiving` requests that overlap complete one game and each starts a
task. `Idempotency`, `RateLimits`, `SpectatorFanout`, `EngineCalls`, `WorkerPool` and
`Archiving` likewise: everything between two awaits is one step, and a task may fail or be
dropped at each of them. In the second part of `EngineCalls` two pipes connect the owner
and the engine, and a read that is given up in the middle of a line has lost the part it
read. `Bracket`, `SwissTournament`, `Pgn` and the filter of `ChatModeration` are
algorithms: operators translated from the code, run over all small inputs, and compared
with a condition that is written independently of them. In `Pgn` the moves of a game are
its plies, and what shakmaty says of a position is given with the game. `Board` is the
code's sets of bits as sets of squares. `ChessRules` draws a start from all choices of the
code, compares it with the library as its loops number it, and plays moves to positions
that the tracker counts, which by the rules come back only as long as nothing was captured
and no pawn moved.

## 3. What the runs check

| run | distinct states | question |
| --- | --- | --- |
| `lifecycle` | 544 971 | Do outcomes, stakes, books, prizes, escrow counts and profiles stay consistent under every ending, timeout, prize payment and one admin call, and does the contract implement `GameLifecycle`? |
| `disputes` | 482 394 | Two disputes over two games against every other ending, filed and resolved before or after a change of the fee. |
| `arbitration` | 145 984 | Does the panel alone close a dispute, is every pot paid once, does the contract implement `Arbitration`? |
| `contracts` | 492 793 | Do the books of the other contracts balance, and does every signature, nonce, title and key count once? |
| `game_service` | 678 615 | Do seats, turns, results and ratings survive two concurrent requests of any kinds over two games; tokens, wallets and player rows theirs; and a walk through a list the changes made under it? |
| `sessions` | 489 794 | Do only absent players lose their game, and those who leave do, whichever visitors come; are moves neither lost, repeated nor relayed out of turn; do rooms, clocks and mutes keep their promises? |
| `services` | 553 935 | Are requests paired once and answered truly, effects made once per key, brackets and rounds fair, pools and limits kept, documents faithful, starts legal, boards consistent? |
| `progress` | 45 274 | Is a frozen match always freed, and every request answered, deadlocks included? |
| `paid_at_most_once`, `nobody_ousted`, `released_moves_broadcast`, `losers_find_a_seat` | | Statements of comments in the code that the code does not keep: section 5. |

### Properties

`GameEscrow`. `GamesCoherent`: no race of handlers leaves a winner who did not play, a
running game with an outcome or a finished one without. `PaidByState`: the stake stays
while a game is live; a draw pays once; nothing ends unpaid. `TourneysCoherent`: a
time-locked prize belongs to a game that is over and is what its players staked.
`DisputesCoherent`: a resolved dispute ended its game, and no two resolved disputes share
one. `VaultAccounting` relates the tokens held to the wagers, to how often each was paid
and to the dispute fees; `BooksBalance` does so for the internal ledger, for all tokens
together, dust included, for the counters of locked prizes and for the profiles.
`ImplementsLifecycle`: refinement, with `settlements[g] > 0` as `released`; that no step
takes an outcome back is part of it.

`ArbiterEscrow`. `FundedByBoth`, `VotesCounted` (tallies against ballots),
`OutcomeJustified` (two agreeing arbiters, or the timelock when no two agree), `Solvent`
(the vault is exactly the open pots, and no token appears or vanishes), `BallotsSealed` (an
action property), `DisputeEnds` (liveness) and `ImplementsArbitration`, where a dispute
becomes overdue by the passing of time.

The other contracts. `SponsorshipSound`: every token deposited is paid, refundable or held.
`YieldSound`: however many tournaments stake and harvest into the one wallet, before the
first settlement it holds the treasury's yield and nothing else, a position alone in its
pool has its principal there, and every credit is covered until a second tournament is
settled. `RelayerSound`: a signed request takes effect at most once, and the contract holds
the pots of its matches less what forwarded calls took, so all of them without such a call.
`BreakerSound`: the supply is the balances less what was rescued (a match escrow leaves
both while it lasts, `emergency_circuit_breaker/src/lib.rs:288`), and a pending handover is
the present admin's, with the whole delay. `GovernanceSound`: no key comes into force
before its timelock, a vote changes the fee when as many as the threshold says approved
this very change while they were signers, rewards are paid once, challenges are used up.
`RegistersSound`: counts and fees of the registers agree with what was entered, commissions
with what was paid out, and NFTs with their owners; the total supply of NFTs is the mints
less the burns, and at least as many as there are.

`GameService`. `MovesInTurn`: whatever stale lists are written back, moves alternate
between the seats. `JoinHonoured`: whoever was told that he joined has the seat.
`RatingsJustified`: a rating reflects no game but those its player has a seat in and that
are over. `OverStaysOver`: no request that read a game before it ended reopens it.
`EveryRequestAnswered`: liveness, deadlocks and failures included. `AccountsSound`: a
family condemned by a reuse keeps no live token but one that was on its way, overlapping
exchanges bound the live tokens of a family, a ticket opens one socket, a wallet is linked
to one player who could sign for it, names are unique whatever the replica says, an
update is lost only to one it overlapped, and a walk by cursor gives every game that was
there all along once.

Sessions. `OnlyTheAbsentLose`: unless he ever had two sessions at once, a player who is
given up has none that the tracker was told of, whichever timers run out. `LeaversLose`
(liveness): a participant who is away comes back, or the game gets a result, unless the
database fails, the server restarts, or the one abandonment of the game went to somebody
who does not play in it. `GraceIsTimed`: as long as somebody is waited for, the timer whose
handle is held runs, or its end is in the mailbox. `NoticesTrue`: what a connected player
was told last about the opponent is true. `MovesAccounted` and `OutInOrder`: every move
that arrived is released, buffered or dropped as a duplicate, and what leaves is in order.
`TablesSound`: in a room turns follow the moves and nobody uses more time than clock,
increments and buffer give; a chess clock of any kind but byo-yomi gives what its preset
grants; the error of the clock estimate is at most half its round trip; mutes are earned by
offences within one window (`MuteEarned`) and served in full, and whoever offends enough
within a window after a quiet one is muted (`RestedAreMuted`). `MessagesFiltered`: the
filter hides exactly the listed words, and hiding one makes no other.

Services. `MatchmakingSound`: nobody is paired twice, cancelled requests are in no match,
whoever waits was told so, and a poll answers by what was there. `WaitersPassedEachOther`:
two that fit wait side by side only if neither could see the other. `TournamentsSound`: in
a single elimination or a round robin nobody is lost, meets himself or goes on without
having won; byes and pairs cover a round, points come from games and byes, remembered pairs
do not meet again where rematches are to be avoided (`NoRematches`), and a round has more
byes than an odd field needs only if it stopped at its limit or at a head who has met all
the others (`OneByeAtMost`, `StoppedEarly`). `CallsSound`: one effect per idempotency key
unless it expired under a request, permits are returned, a breaker opens for enough
failures, an engine's answer belongs to the question, loads are respected, limits by all
that Redis counted (whatever passes uncounted), frames reach a spectator in order of his
queue, the count of spectators is wrong by the failed changes and nothing else, a failed
archival task waits exactly once, however many tasks its game has, an archived document is
the beginning of its game and the same on every network, a stored bracket misses players
only by a race, and a draw comes with the move it is due and no sooner. `DocumentsSound`:
every random start is one of the 960 of the library; the validator accepts exactly the
documents a definition calls canonical, what is exported can be read back, a damaged
document is not accepted for another game; and in a double elimination of four, a field
that loses nobody, winners and losers go where they belong (section 5 for the others).
`BoardConsistent`: squares, colours and roles describe one placement, pieces are lost or
made only by the operations that say so, and the blockers of a king are the pinned pieces.

### Bounds

*Lifecycle*: two games of the same two players, so that a payment of one can be taken from
the stake of the other; a pool of 10 and a fee of 12.5 %, so that everything rounds; prizes
in thirds, which leave dust; two tournament escrows against a cap of one; time up to 2
ledgers with timeouts of one ledger and of two, so that a claim is made before, on and
after its deadline; one administrative call, of every kind, at any moment. *Disputes*: two
of them, on one game or on two, a fee that is changed from 2 to 1, and contracts that start
paused. `MaxGames`, `MaxDisputes`, `MaxTourneys`, `MaxSeq` and `MaxAdminCalls` bound these
counters.

*Arbitration*: two matches, panels of three, of two and with the players on them, every
pair of players, stakes 0 and 1, two admins; window 1 and timelock 2 within time 3 (2 and 3
within 4 for liveness), so that votes come before and after either deadline. `MaxTime`
bounds the time; a dispute is only opened if its timelock ends within it, since otherwise
the bound itself would freeze the match.

*Contracts*: two tournaments that share two tokens, of which the second has one sponsor and
no deadline (`SecondCupSmall`), deposits that do not divide by their thirds; three
positions in three pools, of which two hold the same token, so that two tournaments share
the wallet, with one unit of yield or a loss (that several share a pool is left to the
proof); all requests two players can sign, forwarded calls included, with nonces up to 2
(`MaxNonce`) in batches of two; two holders and one escrow; two admin keys, lists of up to
three of three signers (`MaxListed`), one twice or thrice among them, and thresholds up to
three; wagers on both sides of a rounding step.

*Game service*: two players, two games, two slots that are used again and again, at most
two moves a game (`MaxMoves`). Two slots make any two requests overlap; a slot that is free
again lets a third request see what two have left. Accounts: two devices, three tokens in a
family, two tickets, two members and two wallets with three challenges. Players: two with
two names, three writes (`MaxPlayerWrites`). Lists: three rows, two time stamps, pages of
none and one, and one write between pages (`MaxRowWrites`) anywhere in a walk.

*Sessions*: two sessions of one player, one of the other and one of a visitor, two messages
in the mailbox (`MaxMail`) and one restart; four packets against a buffer of two, over two
sessions; four moves in a room and time up to three (`LastTick`); every kind of preset with
one period; two pongs; messages of up to six of five characters (`MaxDraft`), of which two
spell one letter, and a list with a word that begins another.

*Services*: three requests in two queues with ratings that fit, just fit and do not, and
one mishap: a failure, a cancellation, a poll or an hour (`MaxMishaps`), which meets every
interleaving of the requests. Three attempts under one key; three registrations, of three
players or of one twice. Single elimination of two to six, double of four, round robins of
three and four; Swiss fields of three to five over three rounds; single rounds of three and
four. One spectator with a queue of one, four frames, and a count that is wrong by at most
one (`MaxDrift`). Three engine calls at two slots, thresholds of two; two searches and two
calls of one process. Three workers, two at a time. Boards of six squares on a file, a rank
and a diagonal, with up to four pieces (`MaxPieces`). Games of up to two plies from two
starts, and one blemish in a document. One game completed by two overlapping requests,
three new moves, three tries: a second game shares nothing with the first but the queue, in
which a task is a task.

`CHECK_DEADLOCK` is off in the runs because each bound stops a part of the system, and each
part of a composite, in the end; that nobody waits for ever is checked as liveness where it
matters (`progress`, `LeaversLose`), and as an invariant for the semaphore and the workers.

Symmetry is used for the two players, the arbiters, the games and slots of the game
service, and the requests of matchmaking, in runs without liveness only.

### Fairness

*Arbiter escrow*: `WF` of `Tick`, as ledgers close all the time; `WF` of `ResolveDispute`
and of `ExecuteFallback` for each match. The fallback needs no permission and a resolution
only that of a participant, and both have an interest in the frozen pot. No fairness is
assumed of votes, funding or the admin: that the match ends without them is the point.

*Game service*: `WF` of each request's reads and commits, since tokio runs every task that
is ready; `SF` of its UPDATEs, since PostgreSQL queues the waiters of a row, so that one for
which the row is free time after time gets it; `WF` of `DatabaseError` in a deadlock only,
which PostgreSQL detects and breaks. Nothing else is assumed to fail.

*Sessions*: `WF` of the tracker taking a message, since an actix actor handles its mailbox
as long as it lives; of each grace timer, since tokio fires every timer; and of an
abandonment's statements, which are answered or fail. Nothing is assumed of the players.

## 4. What is proved

TLAPS checks the theorems below for every value of the constants that the named assumptions
of the modules (`ConstantsAssumption`, `InitialCfgsAssumption`, `ArbiterAssumption`,
`SponsorshipAssumption`, `YieldAssumption`, `RelayerAssumption`, `BreakerAssumption`,
`GovernanceAssumption`, `RegistryAssumption`, `ReferralAssumption`, `NftAssumption`,
`ServiceAssumption`, `AccountsAssumption`, `WalletAssumption`, `PlayerRowsAssumption`,
`ListingAssumption`, `TrackerAssumption`, `StreamAssumption`, `RoomsAssumption`,
`ClocksAssumption`, `ClockSyncAssumption`, `MatchmakingAssumption`, `EngineAssumption`,
`UciAssumption`, `WorkerPoolAssumption`, `LimitsAssumption`, `ReportsAssumption`,
`FanoutAssumption`, `ArchivingAssumption`, `ChatAssumption`, `SwissAssumption`,
`PairingAssumption`, `FieldsAssumption`, `NoBracketAssumption`, `RulesAssumption`,
`SquaresAssumption`, `PiecesAssumption`, `MaxPiecesAssumption`) allow: any number of
accounts, games, disputes, matches, sponsors, positions, devices, requests, sessions,
moves, queues, calls, workers, spectators, chatters, entrants and squares, any wagers,
shares, fees up to 100 %, ratings, deadlines and delays. Brackets alone are bounded, to
fields of 2 to 16. The mark of a bracket that is not stored is no set of players
(`NoBracketAssumption`). The sets over which books are added up or whose members are
counted are finite, a pool starts with a worker (`pool.py:79`), a served cooldown earns at
least a burst (30 s at 10 frames a second, for 20: `rate_limiter.rs:301`), and bounds are
any natural numbers. TLC evaluates the assumptions in the runs.

**GameEscrow.** `IndInv` is `TypeOK`, `GamesCoherent`, `PaidByState`, `TourneysCoherent` and
`DisputesCoherent` together. The later parts are not inductive without the earlier ones: a
game is opened under a number that nobody has used and paid for because of
`GamesCoherent`; the amount of a tournament escrow stays what both players staked because
`GamesCoherent` ties the second seat to the way the game ended; a dispute ends its game
alone because what it ended is over for every other dispute. `GameEscrowProofs` proves
types, then one lemma for each action and conjunct it can disturb; all that handlers do to a
game is one of six ways to evolve, and `OutcomesFinal` and `Refinement` follow from these:
every call maps to a step of `GameLifecycle` or to a stutter.

The books come last. `VaultKept` gives every game what it has at stake and
every dispute what it paid less what it got back, both functions of its record alone: a
handler that touches one game changes the vault by the change of that game's part, so the
sum stays right. `BooksKept` does the same for the internal ledger and for all tokens
together, dust included. Profiles are counted, not summed: the games a player won, lost or
drew are sets that only grow as outcomes are final, and one more game is one more element. A
game concerns two players and two entries, hence `SumChangesTwice`. Numbers that are not in
use have empty records (`Blank`), without which opening a game could lose a stake.

**Sums.** The books are sums over accounts, games, matches and the like, written with the
library's `SumFunctionOnSet`, which is a recursive function chosen by its equation. `Sums`
proves that the equation has a solution and, on finite sets, one only; so that a sum may be
taken apart at any element, does not change when no summand does, and changes by what one
or two summands change. The induction over finite sets comes from the well-foundedness of
the numbers, with the statement to prove given as a set, since an operator cannot be.

**ArbiterEscrow** (`ContractProofs`). `IndInv` has the types of the escrows and ballots
(`Domains`) and of the rest (`MoneyOK`), and relates each escrow to its stakes and its
ballots (`AllSound`). That tallies are at most 3 is a consequence of `VotesCounted`, so the
types cannot be proved without it. `TalliesExact` is an argument on cardinalities: a ballot
adds one element to the supporters of its choice. `DisputesEndByBallot` turns the tally of
2 into two arbiters who agree, and back. `PotsCovered` adds up the open pots: every call
moves into or out of the vault what it moves into or out of one pot, and the accounts
mirror it. The refinement maps `Tick` to `Expire` for those disputes whose timelock ends.

**The other contracts** (`ContractProofs`). `BreakerBooks`: the invariant is inductive as
it stands; a claim or a deposit moves between two summands of the supply. `RelayerBooks`:
`RelayerInv` adds to the books that whatever was executed has a number below its signer's
nonce (`ExecutedInTurn`), and that an escrow's state, players and pot agree
(`EscrowsCoherent`); what forwarded calls took is counted beside the pots, and nothing is
taken before the first of them; the requests of a batch by one signer are numbered upwards
from his nonce, so that none occurs in it twice and as many are new as the batch is long.
`GovernanceKeepsRules`: four parts that share no variable; the lock of a pending key lies
its delay behind the proposal (`LockIsDelay`), a proposed fee may be charged
(`ProposalIsFee`), the approvals on record are those that signers gave to this very change
(`ApprovalsAreConsent`), whoever the signers are by now, the rewards paid are those whose
nonces are used. `SponsorsAreCovered`: the plan of a tournament under way adds up to 10 000
points and has a next stage (`StagesFit`); what was paid is at most the share of the points
reached (`PaidInProportion`), which is what makes the next rounded share (`ShareFits`)
payable. `CreditsAreBacked`: until the first settlement the wallet is the treasury's yield
and no winner has a credit (`Unsettled`), to which a harvest adds as much on either side,
and what a position staked is in its pool unless that lost or is shared (`Whole`); the
first settlement credits what it takes from wallet and pool, in parts that add up to no
more than the prize (`PartsFit`), also when one winner holds several of them
(`SumByGroups`), and nothing after it takes more out of the wallet than a credit.
`RegistersKeepBooks`: fees collected are the fee times those registered; the earnings of a
referrer are the sum of what those bound to him yielded less what he drew; the three maps
of NFTs have one domain, to which a mint adds one number at most and from which a burn
takes one. Its hypothesis is the conjunction of three specifications without a common
variable.

**GameService.** What a request has read must still be good when it writes, although no
statement checks it again. `TaskSound` states what a request relies on at each `pc`, and
the central lemma, `TaskStable`, that it is stable under `RowStep`, all that any request
ever does to a row: White's seat never changes, a taken black seat is kept, a game of two
players that is over stays over. Each action has a lemma that it preserves `IndInv` and is
a `RowStep` of every row; `GamesStayOver` is then immediate. Locks are not needed for
safety and occur in `IndInv` with their types only: they matter for liveness.

**Accounts, players and lists** (`GameServiceProofs`). `TokensKept` counts: the tokens of a
family that can still be used, and the requests that are about to issue one, are at most
one more than the races over its tokens times the other devices (`FewUnused`); the first
request to mark a token lets go of it, so that fewer than all devices can race for it
(`UsedLetGo`). What a request found good and issues after the revocation is late by its
record (`RevokedOrLate`). `WalletsKept` and `PlayersKept` say what a request that waits
carries with it: a link was signed by a key of its player (`AnswersSigned`), preferences
written back contain all that is saved as long as no two updates overlap (`SavesAll`), and
who read a player before his deletion is on record. `ListingKept`: a list orders its rows
in one way (`OrderedList`, by counting the rows that are newer than each), and this order
never changes as the times of rows do not; what a walk by cursor was given is a piece of
it, and what it still wants comes after (`CursorOK`); an undisturbed walk by pages has the
beginning of the list (`PageOK`). `AccountsStaySound` is about the composite: each part
sees its own steps and stutters on those of the others.

**Sessions** (`SessionProofs`). `TrackerInv` says how mailbox, timers and notices fit
together: a timer belongs to the player it is held for, a player who is waited for has a
timer that runs or whose end is in the mailbox (`GraceIsTimed`), notices are true also for
those who have left (`TidingsTrue`). For `OnlyAbsentPlayersLose` it has the order of the
mailbox: as long as a player never had two sessions at once, the start of his open session
is reported after the end of every earlier one (`ReportsInOrder`), so that the tracker
waits for him only until it hears of it (`AwaitedAreUnreported`). For `MovesStayAccounted`
and `ReleasedInOrder` every move has its place, before, in or beyond the buffer, what was
relayed lies below the number the sequencer waits for (`RelayedInTurn`), and what a packet
releases is the piece of numbers up to the first gap. `TablesStaySound` is about the
composite of rooms, clocks and clock comparison. In a room, time used and time left of a
colour are counted together (`TimeAddsUp`), and a fallen flag keeps moves out for good,
because a takeback takes a whole turn back and leaves turn and time as they are
(`FallenStays`). What settling a move does to the time left is one lemma for all four time
controls (`Settling`). The error of a sample is bounded by the two delays because the
number of a ping gives one sample (`PingsKept`, `SamplesKept`). `MutesStaySound` counts the
points of a chatter over windows of the log of offences: the ledger keeps those since its
own window began, and every window that follows a quiet one and holds a mute's worth has
led to a mute (`Booked`). Such a window cannot straddle the beginning of the ledger's,
which an offence opened: nothing of it lies before that beginning (`Spaced`). A sweep drops
an entry only when all of its window is over, so the same statements stay true of an entry
that is begun anew.

**Matchmaking, Board and draws** (`ServicesProofs`). `PairsAndAnswers` rests on how far a
request has come (`StagesKept`): who was entered in a queue never looks for an opponent
again, and who found one is never entered; `Movement` says what a step can do to a request,
and every answer of a poll follows from it. `OnlyPassersWait` holds already of those who
have looked and do not wait yet (`LookersPassed`). `BoardStaysConsistent` is inductive as
it stands: each operation first discards its squares from all three groups and then adds
one piece to one colour, one role and the occupied squares. That the blockers of a king are
the pinned pieces (`PinsAreBlockers`) follows from it in any state: a square on the ray of
a slider is reached when nothing stands between, and with one piece between that piece is
the blocker. `DrawsStaySound`: the table of the tracker counts how often each position came
up (`CountsKept`), although no progress clears it, and the clock is the number of the last
moves without progress (`ClockKept`); the verdict is that of the last move (`VerdictKept`).

**Calls** (`CallsProofs`, and `ServicesProofs` for the composite). Each part has an
invariant of its own and a theorem over its own specification; `CallsStaySound` says that
they hold together where the parts are composed. `RetriesRunOnce`: who holds the key is
alone, and how far he came says whether the work was done (`KeyHeld`), as long as the key
neither expired nor was given up. `SlotsAndBreakerHold`: the slots count who holds them,
and whoever waits finds none free (`SlotsKept`); the counters of the breaker are those of
the run of outcomes under way (`StreakCounted`). `AnswersFitTheirSearch`: nothing of an old
search is in either pipe when the next one begins (`Quiet`), and what there is of the
current one, its go, the search or its answer, is in one place and never in two (`Ordered`,
`Thinking`, `Found`, `Torn`); this is where the arguments for a fitting answer and for the
end of a wait meet. `WorkersNeverOverloaded`: loads are counted whatever happens to the
list (`LoadsCounted`), but that every waiter will be woken needs the remembered index of
each call to name its worker (`IndicesHold`), which a removal breaks for good.
`LimitsKept`: those who pass counted are at most as many as the key has counted, and a
request it counts beyond the limit is refused; what a socket's budget was given is earned
time (`BudgetIsEarned`), and the total of a node is the sum of its games however they are
evicted (`KeptAddsUp`). `ReportsCountInTheirWindows`: the lists that are kept contain every
report of any window that a new one falls in (`FiledKept`). `FramesComeInOrder`: Redis
carries a frame once, so a frame has one place; a queue is the end of what was carried and
what was taken lies before it, in order (`InTurn`), and a full queue was filled by a frame
that came since its owner last took one (`QueueKept`); the count of spectators is what
joined less what left, but for the changes still to run and those that failed, each of
which is remembered by its sign. `ArchivingStaysSound`: a task that failed waits in one
place, the queue of failed jobs or a batch (`WaitsOnce`), whichever other tasks its game
has, and its job says how often it was tried (`TriesKept`); a task was given no more moves
than the replica had (`RepliesBehind`), so that what is uploaded is made up or the document
of the first moves (`DocumentsTrue`), on the networks that a task has passed
(`UploadsKept`).

**Tournaments** (`TournamentProofs`, and `ServicesProofs` for the composite). The turns of
a pairing are a recursive function on `0..n`, whose values the prover reaches one turn at a
time, so that induction runs over turns. `SwissStaysSound`: whatever the order of the
standings, an attempt pairs each player with one he may meet (`Matched`), and whoever has
played remembers his opponent (`GamesRemembered`); points and floats are sums over pairs
that share nobody (`PairsAddUp`), which is where `Sums` comes in. `PairingStaysSound`:
everybody is in one place, left, floated or in a pair (`InOnePlace`), with whom each head
has passed over (`Passed`); after as many turns as there are players none is left
(`NoTurnLeft`), because each takes somebody out; and a round that leaves more out than an
odd field must has stopped early. `BracketsStaySound`: a single elimination is a tree, in
which both seats of a match are the winners of the two below it (`TreeOK`), whatever the
order of results and whether or not a match was decided early; so nobody sits twice in a
round (`OncePerRound`, by going down the tree), and a player's matches are the rounds up to
one he has not won (`TopRound`), which he has open or has lost (`HisLast`). In a round
robin every pair has its match, and the winner is one of those who lead (`RobinInv`).
`RegistrationStaysSound`: whoever has inserted himself is in every list made later
(`ListsMissOnlyRaces`), so that he is drawn or lost a race (`DrawnOrRaced`).

**Only model-checked.** Liveness under fairness is out of the prover's reach: `DisputeEnds`,
`EveryRequestAnswered`, `LeaversLose`. Of the invariants:

* `MessagesFiltered` and the part `PgnSound` of `DocumentsSound` compare a fold over a text
  with a condition on the whole of it; that is induction over data, with the folded operator
  as a parameter. TLC goes through all messages and documents within the bounds.
* `StartsSound`, of `DocumentsSound`, has no parameter: TLC goes through all 960 starts.
* Of `BracketSound`, in `DocumentsSound`, the double elimination is checked for four
  players. It is no theorem: in other fields players are lost (`losers_find_a_seat`), and
  an exact account of who is would restate the code.

## 5. Where the code differs from what it says

Reported by runs:

* **`paid_at_most_once`.** A mate sent to `submit_move` pays the pool and leaves the game
  `Completed`, a state that `payout`, the tournament payouts and `create_tournament_escrow`
  take as still to be paid. The second payment comes from the stakes of other games.
  `cancel_game` leaves its game `Completed` as well. `PaidByState` states the bound that
  does hold.
* **`nobody_ousted`.** A session that stops reports its player away, not itself: when he has
  already reconnected, a grace period runs against a connected player and abandons the game.
* **`released_moves_broadcast`.** Of the moves that a packet releases from the reorder
  buffer only the packet itself is relayed.
* **`losers_find_a_seat`.** A player who drops into the losers' bracket is looked a seat for
  in two matches only, and vanishes when both are full.

Met while modelling, not reported by a run of their own:

*Contracts.* A rejected dispute's fee is refunded at the rate of that moment
(`game_contract/src/lib.rs:3001`). Games ended by `submit_move`, and disputes resolved as a
draw, leave the profiles alone (:973). A proposal that its proposer's approval suffices for
is not executed immediately, as :3271 says, but waits for another approval, and with one
signer for ever. Approvals stay when the signers are replaced, so that a change may pass by
those who are signers no more, although :3218 asks for approvals from `signers`; the
threshold is compared with the length of a list in which one may occur twice (:3256), so
that it may be out of reach; and `configure_fees` bypasses the signers. `FeesApproved`
states what does hold. The delay of a new admin key is added to a ledger that is absolute
already (:1898), so that a key waits longer than the 24 hours of :1876, by the age of the
ledger; `KeysWait` is the bound from below. In `yield_staking` all positions share one
wallet and those of a pool its balance: a harvest takes other principal in its pool for
yield, and after a settlement also what the winners have not claimed, for which it then
withdraws principal (`yield_staking/src/lib.rs:373`); a second settlement pays its winners
with what those of the first have not claimed. `CreditsBacked` states what holds. The first
stake fixes the token for good. A call that `gasless_relayer` forwards may name any
contract and runs with the relayer's own authority, so that it can be a transfer of, or an
approval over, the staked tokens (`gasless_relayer/src/lib.rs:558`), and what a signature
covers leaves out target, function and arguments (:795): `PotsFunded` says how far the pots
fall short by that. Burning an AI NFT lowers the counter that names the next, so that a
number is used again although `ai_nft/src/lib.rs:315` says it is not, and the mint may
replace a living NFT. The referral splitter pays a credit out in any token. `record_game`
does not check that the winner played. Emergency rescues are not in the total supply.

*Games over HTTP.* Two completions of one game that overlap can both be counted, and two
games of one player completed at once can lose a rating change (`chess/src/rating.rs:217`).
`make_move_on` writes the whole list it read plus one move, so the slower of two requests
erases what was recorded since (`service/src/games.rs:320`). `abandon_game_on` overwrites a
completion that came in between (:420). In lists, "in progress" also covers games that
wait and "completed" those that are shown as in progress; a player and a status together
mean either of them; a limit of 0 ends at once; page numbers repeat and skip when games are
added; a cursor that cannot be decoded starts again.

*Accounts.* Two overlapping exchanges of one refresh token both succeed, and one in flight
leaves a live token in a revoked family (`security/src/token_service.rs:125`). A lost
answer's retry counts as theft. A blacklist that cannot be asked counts as empty for the
middleware and for refresh, but not for tickets. Of two updates of preferences one is lost;
a deleted player is found until the replica knows; an update with a taken name answers 200
and leaves the name; a ban and its audit row are two transactions
(`service/src/admin_audit.rs:170`).

*Sessions.* A visitor's session that stops starts a grace period like a player's; when it
runs out the game's tracking ends (`ws.rs:495`), `abandon_game_on` refuses the visitor
(`service/src/games.rs:402`), and a player who leaves later does not lose; nor does one
whose abandonment met a database error, as it is not tried again (`ws.rs:519`).
`LeaversLose` leaves both out. A full state may be sent after newer moves (`ws.rs:427`); a
new session's guard starts from 1, so that a reconnected player's moves are all held back
(:1033); nothing calls the guard's `tick` (`move_order.rs:80`). Mutes count points in
windows fixed by the first offence, not in a sliding one as `moderation.rs:21` says, so
that offences on either side of a window's end do not add up and three within ten minutes
can pass (:408); `RestedAreMuted` is what holds, after a quiet window. A flag of the audit
extends a mute. In the stand-alone server any seated player moves for either side, a seat
refilled after a departure yields two Blacks, a takeback replays moves of an earlier game
and puts a game whose flag fell in progress again, and a player whose connection ended
keeps his seat and cannot join again. A `PlayerClock` stopped twice is charged twice,
byo-yomi periods are never used up (`time_control.rs:322`), whatever :166, :221 and :262
say, so that `ClocksSound` leaves byo-yomi out, and the increment after a move lifts a
fallen flag's clock.

*Queues and limits.* Two requests that fit wait side by side
(`matchmaking/service.rs:142`), and the expansion of the range, which would repair it, has
no caller. A poll never looks at the staked queues, and answers "not found" for a request
that was matched between its two lookups. No route makes a private invite. A lost EXPIRE
leaves a count for ever (`rate_limiter.rs:146`), and a request whose count Redis does not
answer passes uncounted (:116). A change of the spectator count that fails is never made up
for, so that the count stays wrong (`redis_broadcast.rs:283`). A released idempotency key
read after a refused SET runs the request without the key (`idempotency.rs:452`). Frames
are published by tasks of their own and may overtake each other (`redis_broadcast.rs:256`).

*Tournaments.* Double elimination loses players in fields of 2, 3, 5, 6, 7, 8 and 12. A
result on a match with one player is accepted (`bracket.rs:536`). A bye's point stays when
the pairing fails, and byes repeat (`pairer.rs:74`, :312). A built round can have several
byes, also in an even field, when it reaches its limit of pairs or its best player left has
met all the others, although two of those might still meet; `pairing/src/swiss.rs:31`
promises at most one and only for an odd field, and the comment at :152 takes every pair
left for a rematch (:140). A registration stores an older bracket over a newer one
(`tournaments.rs:236`).

*Engines.* Every HTTP request makes its own breaker, which so never sees two calls
(`api/src/ai.rs:64`). A timeout in the middle of a line loses its first part, and if that
was `bestmove`, `go` reads for ever (`process.rs:138`). `remove_worker` holds the lock
while it waits, indices kept by calls are stale after a removal, and an analysis is counted
twice in the load (`pool.py:196`, :265, :398).

*Chess rules.* The tracker of draws never counts the position a game starts from, and has
no caller, nor has the random start, whose FEN names the rooks' files, so that the endpoint
that verifies Chess960 positions knows none of them (`chess/src/start_position.rs:66`).

*Documents.* Two completions of one game that overlap start two archive tasks, whose
documents may differ (`api/src/games.rs:647`). An export has no Termination tag and so
never passes the validator; Chess960 games are exported from the standard start; an
imported game whose moves give check cannot be imported again. An archived document carries
"white_wins", which is no PGN result, and the moves that the replica had; a retry uploads a
document made up from the id (`archiving/src/lib.rs:591`). On the board any piece may
promote to any other.

## 6. Plan

What would come next: a staked queue in the instance of `Matchmaking`; two spectators of one
game in `SpectatorFanout`; the word filter as a machine that reads one character a step, for
which `MessagesFiltered` could be proved by induction over its steps.

Not modelled, and why:

* FEN validation and the detection of cheats (`chess/src`, `service/src/anti_cheat.rs`):
  functions of a position or a list of moves without state. What a move does is given to the
  models.
* Puzzles, NFT and transaction endpoints: stateless; they check or build a value.
* Passwords, claims of a JWT, cookies, the spelling of messages, cursors and tags.
* Maia workers, batches and training of the Python engines.
* `initialize` of the contracts, time-to-live of ledger entries, events.
* Server set-up, migrations, metrics and the frontend, whose socket hook is the environment
  of `ConnectionTracker`.

## 7. Running

    tlc -workers 2 -config GameEscrowLifecycle.cfg MCGameEscrow.tla
    tlapm GameEscrowProofs.tla

The longest run takes about four minutes. Of the proof modules `ServicesProofs` and
`ContractProofs` take nine minutes, `CallsProofs` seven, `TournamentProofs` six,
`GameServiceProofs` five, `GameEscrowProofs` four, the others one to three.
