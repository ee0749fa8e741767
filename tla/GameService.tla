----------------------------- MODULE GameService -----------------------------
(***************************************************************************)
(* The backend's game rows and ratings                                     *)
(* (src/backend/modules/service/src/games.rs, chess/src/rating.rs, called  *)
(* from api/src/games.rs).  Many HTTP requests run at once; each is a task *)
(* that awaits PostgreSQL between its statements, so the statements of     *)
(* different requests interleave.  The database runs at its default        *)
(* isolation level, READ COMMITTED: a read sees what is committed, an      *)
(* UPDATE waits for the transaction that holds its row and then applies to *)
(* the row as it is by then.                                               *)
(*                                                                         *)
(* A rating is represented by the results it reflects: elo[p][g] says how  *)
(* many times game g has been counted in it.  A move is represented by the *)
(* player who made it.                                                     *)
(***************************************************************************)
EXTENDS Integers, Sequences, FiniteSets

CONSTANTS
    Players,
    Nobody,      \* NIL_UUID
    Games,
    Requests,    \* slots for requests in flight; a slot is used again and again
    None,        \* no request: the holder of a free lock
    Outcomes,    \* the results that are rated: WhiteWins, BlackWins and Draw
    Ops,         \* what the clients ask for
    MaxMoves     \* bound of the model: moves of one game

ASSUME ServiceAssumption ==
    /\ Nobody \notin Players
    /\ None \notin Requests
    /\ Outcomes \cap {"Absent", "None", "Ongoing", "Abandoned"} = {}
    /\ Ops \subseteq {"make_move", "join_game", "abandon_game", "complete_game"}
    /\ MaxMoves \in Nat

Over == Outcomes \cup {"Abandoned"}

\* A row of table game; "Absent" before it is inserted, "None" for a NULL result.
Row == [white : Players \cup {Nobody}, black : Players \cup {Nobody},
        result : {"Absent", "None", "Ongoing"} \cup Over,
        moves : Seq(Players \cup {Nobody})]

NoRow == [white |-> Nobody, black |-> Nobody, result |-> "Absent", moves |-> <<>>]

Unrated == [g \in Games |-> 0]

\* A request: what it asks, the statement it executes next, what it has read
\* and will write back, and its answer.
Task == [op : Ops \cup {"none"}, game : Games \cup {None}, player : Players \cup {Nobody},
         result : Over \cup {"None"},
         pc : {"done", "update", "white", "black", "write_white", "write_black", "commit"},
         moves : Seq(Players \cup {Nobody}),
         white : [Games -> Nat], black : [Games -> Nat],
         answer : {"none", "ok", "error"}]

NoTask == [op |-> "none", game |-> None, player |-> Nobody, result |-> "None",
           pc |-> "done", moves |-> <<>>, white |-> Unrated, black |-> Unrated,
           answer |-> "none"]

VARIABLES
    rows,         \* the committed rows of table game
    elo,          \* the committed elo_rating of the players
    task,
    gameLock,     \* which request's open transaction has updated a game's row
    playerLock    \* the same for the players' rows

vars == <<rows, elo, task, gameLock, playerLock>>

Init ==
    /\ rows = [g \in Games |-> NoRow]
    /\ elo = [p \in Players |-> Unrated]
    /\ task = [r \in Requests |-> NoTask]
    /\ gameLock = [g \in Games |-> None]
    /\ playerLock = [p \in Players |-> None]

-----------------------------------------------------------------------------
\* Inserting a game is one statement.

CreateGame(g, p) ==
    /\ rows[g] = NoRow
    /\ rows' = [rows EXCEPT ![g] = [NoRow EXCEPT !.white = p, !.result = "None"]]
    /\ UNCHANGED <<elo, task, gameLock, playerLock>>

\* An imported game has no players of this platform, and no result if its PGN
\* says it is still being played.
ImportGame(g, result, plies) ==
    /\ rows[g] = NoRow
    /\ rows' = [rows EXCEPT ![g] = [NoRow EXCEPT !.result = result,
                                        !.moves = [i \in 1..plies |-> Nobody]]]
    /\ UNCHANGED <<elo, task, gameLock, playerLock>>

-----------------------------------------------------------------------------
\* The other requests first read the row, and answer with an error if what they
\* read forbids what they ask.

Exists(row) == row.result # "Absent"
Open(row)   == row.result \in {"None", "Ongoing"}
Seated(row) == row.white # Nobody /\ row.black # Nobody
Takes(row, p) == p \in {row.white, row.black}

InTurn(row, p) == (p = row.white) <=> (Len(row.moves) % 2 = 0)

\* Slips that the mutation runs introduce: without the check of the turn, and
\* without that of joining one's own game.
BadMayMove(row, p) == row.black # Nobody /\ Open(row) /\ Takes(row, p)
BadMayJoin(row, p) == Open(row)

MayMove(row, p)     == row.black # Nobody /\ Open(row) /\ Takes(row, p) /\ InTurn(row, p)
MayJoin(row, p)     == Open(row) /\ row.white # p
MayAbandon(row, p)  == Takes(row, p) /\ Open(row)
\* complete_game has looked up the players and their ratings on the replica; a
\* seat that is taken there is taken for good.
MayComplete(row, p) == Takes(row, p) /\ Seated(row) /\ Open(row)

May(op, row, p) ==
    /\ Exists(row)
    /\ CASE op = "make_move"     -> MayMove(row, p)
         [] op = "join_game"     -> MayJoin(row, p)
         [] op = "abandon_game"  -> MayAbandon(row, p)
         [] op = "complete_game" -> MayComplete(row, p)

Asked(op, g, p, result) ==
    [NoTask EXCEPT !.op = op, !.game = g, !.player = p, !.result = result, !.pc = "update",
                   !.moves = IF op = "make_move" THEN rows[g].moves ELSE <<>>]

Failed == [NoTask EXCEPT !.answer = "error"]

Answered(t, answer) ==
    IF answer = "error" THEN Failed
    ELSE [NoTask EXCEPT !.op = t.op, !.game = t.game, !.player = t.player, !.answer = answer]

\* A slot that is done takes a new request, which reads its game's row.
Read(r, op, g, p, result) ==
    /\ task[r].pc = "done"
    /\ op = "complete_game" <=> result # "None"
    /\ May(op, rows[g], p)
    /\ op = "make_move" => Len(rows[g].moves) < MaxMoves
    /\ task' = [task EXCEPT ![r] = Asked(op, g, p, result)]
    /\ UNCHANGED <<rows, elo, gameLock, playerLock>>

\* What the request read forbids what it asks; complete_game reads a replica
\* first, which may lag behind and not have the players yet.
Refuse(r, op, g, p) ==
    /\ task[r].pc = "done"
    /\ op = "complete_game" \/ ~May(op, rows[g], p)
    /\ task' = [task EXCEPT ![r] = Failed]
    /\ UNCHANGED <<rows, elo, gameLock, playerLock>>

-----------------------------------------------------------------------------
\* The UPDATE that follows.  Its connection may break once it has taken effect,
\* so that the client is told of an error.

Updates(r, op) ==
    /\ task[r].pc = "update"
    /\ task[r].op = op
    /\ gameLock[task[r].game] = None

\* Writes the list that was read, with the move; nothing is checked again.
UpdateMove(r, answer) ==
    LET t == task[r] IN
    /\ Updates(r, "make_move")
    /\ rows' = [rows EXCEPT ![t.game].moves = Append(t.moves, t.player)]
    /\ task' = [task EXCEPT ![r] = Answered(t, answer)]
    /\ UNCHANGED <<elo, gameLock, playerLock>>

\* Slips: a filter by the result instead of the seat, and one by the id alone.
BadSeatFree(row)     == Open(row)
BadSeatFreeById(row) == Exists(row)

\* The filter of the UPDATE; the result is not checked again.
SeatFree(row) == row.black = Nobody

UpdateJoin(r, answer) ==
    LET t == task[r] IN
    /\ Updates(r, "join_game")
    /\ SeatFree(rows[t.game])
    /\ rows' = [rows EXCEPT ![t.game].black = t.player, ![t.game].result = "Ongoing"]
    /\ task' = [task EXCEPT ![r] = Answered(t, answer)]
    /\ UNCHANGED <<elo, gameLock, playerLock>>

\* No row was affected: the game has two players by now.
JoinTooLate(r) ==
    /\ Updates(r, "join_game")
    /\ ~SeatFree(rows[task[r].game])
    /\ task' = [task EXCEPT ![r] = Failed]
    /\ UNCHANGED <<rows, elo, gameLock, playerLock>>

\* Nothing is checked again.
UpdateAbandon(r, answer) ==
    LET t == task[r] IN
    /\ Updates(r, "abandon_game")
    /\ rows' = [rows EXCEPT ![t.game].result = "Abandoned"]
    /\ task' = [task EXCEPT ![r] = Answered(t, answer)]
    /\ UNCHANGED <<elo, gameLock, playerLock>>

-----------------------------------------------------------------------------
\* complete_game is a transaction: what it writes stays invisible, and the rows
\* it has written stay locked, until it commits.

White(r) == rows[task[r].game].white
Black(r) == rows[task[r].game].black

\* Sets the result; whether the game is still open is not checked again.
UpdateResult(r) ==
    /\ Updates(r, "complete_game")
    /\ gameLock' = [gameLock EXCEPT ![task[r].game] = r]
    /\ task' = [task EXCEPT ![r].pc = "white"]
    /\ UNCHANGED <<rows, elo, playerLock>>

Rateable(r) == task[r].result \in Outcomes /\ Seated(rows[task[r].game])

ReadWhite(r) ==
    /\ task[r].pc = "white"
    /\ Rateable(r)
    /\ task' = [task EXCEPT ![r].white = elo[White(r)], ![r].pc = "black"]
    /\ UNCHANGED <<rows, elo, gameLock, playerLock>>

ReadBlack(r) ==
    /\ task[r].pc = "black"
    /\ task' = [task EXCEPT ![r].black = elo[Black(r)], ![r].pc = "write_white"]
    /\ UNCHANGED <<rows, elo, gameLock, playerLock>>

WriteWhite(r) ==
    /\ task[r].pc = "write_white"
    /\ playerLock[White(r)] = None
    /\ playerLock' = [playerLock EXCEPT ![White(r)] = r]
    /\ task' = [task EXCEPT ![r].pc = "write_black"]
    /\ UNCHANGED <<rows, elo, gameLock>>

WriteBlack(r) ==
    /\ task[r].pc = "write_black"
    /\ playerLock[Black(r)] = None
    /\ playerLock' = [playerLock EXCEPT ![Black(r)] = r]
    /\ task' = [task EXCEPT ![r].pc = "commit"]
    /\ UNCHANGED <<rows, elo, gameLock>>

\* The end of a transaction frees the rows it has locked.
Freed(locks, r) == [x \in DOMAIN locks |-> IF locks[x] = r THEN None ELSE locks[x]]

Release(r) ==
    /\ gameLock' = Freed(gameLock, r)
    /\ playerLock' = Freed(playerLock, r)

Counting(rating, g) == [rating EXCEPT ![g] = @ + 1]

Commit(r, answer) ==
    LET t == task[r] IN
    /\ t.pc = "commit"
    /\ rows' = [rows EXCEPT ![t.game].result = t.result]
    /\ elo' = [elo EXCEPT ![White(r)] = Counting(t.white, t.game),
                          ![Black(r)] = Counting(t.black, t.game)]
    /\ Release(r)
    /\ task' = [task EXCEPT ![r] = Answered(t, answer)]

\* A slip: the error is answered and the transaction stays open.
BadRollback(r) ==
    /\ task' = [task EXCEPT ![r] = Failed]
    /\ UNCHANGED <<rows, elo, gameLock, playerLock>>

Rollback(r) ==
    /\ Release(r)
    /\ task' = [task EXCEPT ![r] = Failed]
    /\ UNCHANGED <<rows, elo>>

\* An abandoned game is not rated: the whole transaction is rolled back.
RefuseRating(r) ==
    /\ task[r].pc = "white"
    /\ ~Rateable(r)
    /\ Rollback(r)

\* Any statement may fail, be it that its connection breaks, that the server
\* stops or that the database picks the request to break a deadlock.
DatabaseError(r) ==
    /\ task[r].pc # "done"
    /\ Rollback(r)

-----------------------------------------------------------------------------
\* A request waits for the one that holds the row it is about to update.
Waits(r, s) ==
    \/ task[r].pc = "update" /\ gameLock[task[r].game] = s
    \/ task[r].pc = "write_white" /\ playerLock[White(r)] = s
    \/ task[r].pc = "write_black" /\ playerLock[Black(r)] = s

Deadlocked(r) ==
    \E S \in SUBSET Requests :
        /\ r \in S
        /\ \A s \in S : (\E q \in S : Waits(s, q)) /\ (\E q \in S : Waits(q, s))

Next ==
    \/ \E g \in Games, p \in Players : CreateGame(g, p)
    \/ \E g \in Games, result \in Outcomes \cup {"None"}, plies \in 0..MaxMoves :
           ImportGame(g, result, plies)
    \/ \E r \in Requests :
        \/ \E op \in Ops, g \in Games, p \in Players :
            \/ \E result \in Over \cup {"None"} : Read(r, op, g, p, result)
            \/ Refuse(r, op, g, p)
        \/ \E answer \in {"ok", "error"} :
            \/ UpdateMove(r, answer)
            \/ UpdateJoin(r, answer)
            \/ UpdateAbandon(r, answer)
            \/ Commit(r, answer)
        \/ JoinTooLate(r)
        \/ UpdateResult(r)
        \/ ReadWhite(r)
        \/ ReadBlack(r)
        \/ WriteWhite(r)
        \/ WriteBlack(r)
        \/ RefuseRating(r)
        \/ DatabaseError(r)

\* Every statement is executed in the end.  Requests that wait for a row queue
\* up, so that one for which the row is free again and again gets it (SF); and
\* the database breaks every deadlock.
Update(r) ==
    \/ \E answer \in {"ok", "error"} :
           UpdateMove(r, answer) \/ UpdateJoin(r, answer) \/ UpdateAbandon(r, answer)
    \/ JoinTooLate(r)
    \/ UpdateResult(r)
    \/ WriteWhite(r)
    \/ WriteBlack(r)

Proceed(r) ==
    \/ ReadWhite(r)
    \/ RefuseRating(r)
    \/ ReadBlack(r)
    \/ \E answer \in {"ok", "error"} : Commit(r, answer)

Fairness ==
    \A r \in Requests :
        /\ SF_vars(Update(r))
        /\ WF_vars(Proceed(r))
        /\ WF_vars(Deadlocked(r) /\ DatabaseError(r))

Spec == Init /\ [][Next]_vars
FairSpec == Spec /\ Fairness

-----------------------------------------------------------------------------
(* Properties. *)

TypeOK ==
    /\ rows \in [Games -> Row]
    /\ \A g \in Games : Seated(rows[g]) => rows[g].white # rows[g].black
    /\ elo \in [Players -> [Games -> Nat]]
    /\ task \in [Requests -> Task]
    /\ gameLock \in [Games -> Requests \cup {None}]
    /\ playerLock \in [Players -> Requests \cup {None}]

\* Whose turn it is after n moves.
Mover(row, n) == IF n % 2 = 0 THEN row.white ELSE row.black

Played(row, moves) ==
    \A i \in 1..Len(moves) :
        \/ moves[i] # Nobody /\ moves[i] = Mover(row, i - 1)
        \/ moves[i] = Nobody /\ row.white = Nobody

\* Moves alternate between the seats, whichever stale lists were written back:
\* the odd ones are White's and the even ones Black's, apart from those that were
\* imported (make_move_on).
MovesInTurn == \A g \in Games : Played(rows[g], rows[g].moves)

\* Whoever was told that he joined a game has Black's seat, for good: the filter
\* of the UPDATE lets one of several joiners through (join_game_on).
JoinHonoured ==
    \A r \in Requests :
        (task[r].op = "join_game" /\ task[r].answer = "ok") =>
            rows[task[r].game].black = task[r].player

Justifies(p, row) == Takes(row, p) /\ Seated(row) /\ row.result \in Over

Reflects(rating, p, rws) == \A g \in Games : rating[g] > 0 => Justifies(p, rws[g])

\* A rating reflects no game but those its player has a seat in and that are
\* over: the result and the ratings are committed together, and no late join or
\* abandonment reopens the game (complete_game_on, update_ratings_in_transaction).
RatingsJustified == \A p \in Players : Reflects(elo[p], p, rows)

\* A game with two players that is over is never in play again, whatever was read
\* of it before (complete_game_on, abandon_game_on, join_game_on).
StaysOver(g) == (Seated(rows[g]) /\ rows[g].result \in Over) => rows'[g].result \in Over
OverStaysOver == [][\A g \in Games : StaysOver(g)]_vars

\* What a request knows when it comes to its next statement.  None of it is
\* undone by the requests that run in between.
TaskSound(t, rws) ==
    /\ t.pc # "done" =>
          /\ t.op \in {"make_move", "join_game", "abandon_game", "complete_game"}
          /\ t.game \in Games /\ t.player \in Players
          /\ Exists(rws[t.game])
    /\ t.pc # "done" /\ t.op = "make_move" =>
          /\ rws[t.game].black # Nobody
          /\ Played(rws[t.game], t.moves)
          /\ t.player = Mover(rws[t.game], Len(t.moves))
    /\ t.pc # "done" /\ t.op = "join_game" => rws[t.game].white # t.player
    /\ t.pc # "done" /\ t.op = "complete_game" => Seated(rws[t.game]) /\ t.result \in Over
    /\ t.pc \notin {"done", "update"} => t.op = "complete_game"
    /\ t.pc \in {"black", "write_white", "write_black", "commit"} =>
          t.result \in Outcomes /\ Reflects(t.white, rws[t.game].white, rws)
    /\ t.pc \in {"write_white", "write_black", "commit"} =>
          Reflects(t.black, rws[t.game].black, rws)
    /\ t.op = "join_game" /\ t.answer = "ok" =>
          t.game \in Games /\ t.player \in Players /\ rws[t.game].black = t.player

\* The conjunction that every step preserves.
IndInv ==
    /\ TypeOK
    /\ \A g \in Games : rows[g].result = "Absent" => rows[g] = NoRow
    /\ MovesInTurn
    /\ RatingsJustified
    /\ \A r \in Requests : TaskSound(task[r], rows)

\* Every request is answered: no chain of transactions that wait for each other's
\* rows lasts, and no error path keeps a row locked.
EveryRequestAnswered == \A r \in Requests : task[r].pc # "done" ~> task[r].pc = "done"
=============================================================================
