-------------------------- MODULE GameServiceProofs --------------------------
(***************************************************************************)
(* Proofs about the database of the backend, for every number of players,  *)
(* games, requests, devices and wallets and for games of any length: of    *)
(* GameService, of Accounts, PlayerRows and GameListing, and of their      *)
(* composite, of whose behaviours each part sees its own steps.            *)
(***************************************************************************)
EXTENDS MCGameService, FiniteSetTheorems, TLAPS

(***************************************************************************)
(* Games.  What a request has read stays true until it writes because of   *)
(* what no request ever does to a row (RowStep); so the properties hold    *)
(* without the checks being repeated.                                      *)
(***************************************************************************)
\* What any step may do to a row: White is settled when it is inserted, Black
\* when the seat is taken, and a game of two players that is over stays over.
RowStep(old, new) ==
    /\ Exists(old) => Exists(new) /\ new.white = old.white
    /\ old.black # Nobody => new.black = old.black
    /\ Seated(old) /\ old.result \in Over => new.result \in Over

RowsStep(rws1, rws2) == \A g \in Games : RowStep(rws1[g], rws2[g])

\* The parts of IndInv.
RowsOK(rws) ==
    /\ rws \in [Games -> Row]
    /\ \A g \in Games : Seated(rws[g]) => rws[g].white # rws[g].black
    /\ \A g \in Games : rws[g].result = "Absent" => rws[g] = NoRow
    /\ \A g \in Games : Played(rws[g], rws[g].moves)

RatingsOK(ratings, rws) ==
    /\ ratings \in [Players -> [Games -> Nat]]
    /\ \A p \in Players : Reflects(ratings[p], p, rws)

TasksOK(tasks, rws) ==
    /\ tasks \in [Requests -> Task]
    /\ \A r \in Requests : TaskSound(tasks[r], rws)

LocksOK(gameLocks, playerLocks) ==
    /\ gameLocks \in [Games -> Requests \cup {None}]
    /\ playerLocks \in [Players -> Requests \cup {None}]

LEMMA OverExists ==
    ASSUME NEW row, row.result \in Over
    PROVE  Exists(row)
BY ServiceAssumption DEF Exists, Over

LEMMA JustifiesStable ==
    ASSUME NEW p \in Players, NEW old, NEW new, RowStep(old, new), Justifies(p, old)
    PROVE  Justifies(p, new)
BY OverExists DEF RowStep, Justifies, Takes, Seated

LEMMA ReflectsStable ==
    ASSUME NEW p \in Players, NEW rating, NEW rws1, NEW rws2, RowsStep(rws1, rws2),
           Reflects(rating, p, rws1)
    PROVE  Reflects(rating, p, rws2)
BY JustifiesStable DEF RowsStep, Reflects

LEMMA PlayedStable ==
    ASSUME NEW old, NEW new, NEW moves, RowStep(old, new), Exists(old),
           old.black # Nobody, Played(old, moves)
    PROVE  Played(new, moves)
BY DEF RowStep, Played, Mover

\* What a request knows stays true whatever the others do.
LEMMA TaskStable ==
    ASSUME NEW t \in Task, NEW rws1 \in [Games -> Row], NEW rws2 \in [Games -> Row],
           RowsStep(rws1, rws2), TaskSound(t, rws1)
    PROVE  TaskSound(t, rws2)
<1>0. t.game \in Games => RowStep(rws1[t.game], rws2[t.game])
  BY DEF RowsStep
<1>1. t.pc # "done" =>
          /\ t.op \in {"make_move", "join_game", "abandon_game", "complete_game"}
          /\ t.game \in Games /\ t.player \in Players
          /\ Exists(rws1[t.game]) /\ Exists(rws2[t.game])
          /\ rws2[t.game].white = rws1[t.game].white
  BY <1>0 DEF TaskSound, RowStep
<1>2. t.pc # "done" /\ t.op = "make_move" =>
          /\ rws2[t.game].black # Nobody
          /\ Played(rws2[t.game], t.moves)
          /\ t.player = Mover(rws2[t.game], Len(t.moves))
  <2> SUFFICES ASSUME t.pc # "done", t.op = "make_move"
               PROVE  /\ rws2[t.game].black # Nobody
                      /\ Played(rws2[t.game], t.moves)
                      /\ t.player = Mover(rws2[t.game], Len(t.moves))
    OBVIOUS
  <2>1. /\ rws1[t.game].black # Nobody /\ Played(rws1[t.game], t.moves)
        /\ t.player = Mover(rws1[t.game], Len(t.moves))
    BY DEF TaskSound
  <2>2. rws2[t.game].black = rws1[t.game].black
    BY <1>0, <1>1, <2>1 DEF RowStep
  <2>3. Played(rws2[t.game], t.moves)
    BY <1>0, <1>1, <2>1, PlayedStable
  <2>4. QED
    BY <1>1, <2>1, <2>2, <2>3 DEF Mover
<1>3. t.pc # "done" /\ t.op = "join_game" => rws2[t.game].white # t.player
  BY <1>1 DEF TaskSound
<1>4. t.pc # "done" /\ t.op = "complete_game" =>
          /\ Seated(rws2[t.game]) /\ t.result \in Over
          /\ rws2[t.game].black = rws1[t.game].black
          /\ rws1[t.game].white \in Players /\ rws1[t.game].black \in Players
  <2>1. t.game \in Games => rws1[t.game] \in Row
    OBVIOUS
  <2>2. QED
    BY <1>0, <1>1, <2>1 DEF TaskSound, RowStep, Seated, Row
<1>5. t.pc \notin {"done", "update"} => t.op = "complete_game"
  BY DEF TaskSound
<1>6. t.pc \in {"black", "write_white", "write_black", "commit"} =>
          t.result \in Outcomes /\ Reflects(t.white, rws2[t.game].white, rws2)
  BY <1>1, <1>4, <1>5, ReflectsStable DEF TaskSound
<1>7. t.pc \in {"write_white", "write_black", "commit"} =>
          Reflects(t.black, rws2[t.game].black, rws2)
  BY <1>1, <1>4, <1>5, ReflectsStable DEF TaskSound
<1>8. t.op = "join_game" /\ t.answer = "ok" =>
          t.game \in Games /\ t.player \in Players /\ rws2[t.game].black = t.player
  <2>1. t.player \in Players => t.player # Nobody
    BY ServiceAssumption
  <2>2. QED
    BY <1>0, <2>1 DEF TaskSound, RowStep
<1>9. QED
  BY <1>1, <1>2, <1>3, <1>4, <1>5, <1>6, <1>7, <1>8 DEF TaskSound

LEMMA RowStepRefl ==
    ASSUME NEW rws
    PROVE  RowsStep(rws, rws)
BY DEF RowsStep, RowStep

LEMMA Parts ==
    IndInv <=> RowsOK(rows) /\ RatingsOK(elo, rows) /\ TasksOK(task, rows)
                 /\ LocksOK(gameLock, playerLock)
BY DEF IndInv, TypeOK, MovesInTurn, RatingsJustified, RowsOK, RatingsOK, TasksOK, LocksOK

LEMMA PartsPrimed ==
    ASSUME RowsOK(rows'), RatingsOK(elo', rows'), TasksOK(task', rows'),
           LocksOK(gameLock', playerLock')
    PROVE  IndInv'
BY DEF IndInv, TypeOK, MovesInTurn, RatingsJustified, RowsOK, RatingsOK, TasksOK, LocksOK

-----------------------------------------------------------------------------
(* One row, one request and one rating at a time. *)

LEMMA OneRow ==
    ASSUME NEW rws1, NEW rws2, RowsOK(rws1), NEW g \in Games, NEW row \in Row,
           rws2 = [rws1 EXCEPT ![g] = row], RowStep(rws1[g], row),
           Seated(row) => row.white # row.black,
           row.result = "Absent" => row = NoRow,
           Played(row, row.moves)
    PROVE  RowsOK(rws2) /\ RowsStep(rws1, rws2)
<1>1. rws2 \in [Games -> Row]
  BY DEF RowsOK
<1>2. rws2[g] = row /\ \A h \in Games \ {g} : rws2[h] = rws1[h]
  BY DEF RowsOK
<1>3. RowsStep(rws1, rws2)
  BY <1>2, RowStepRefl DEF RowsStep
<1>4. QED
  BY <1>1, <1>2, <1>3 DEF RowsOK

LEMMA RatingsKept ==
    ASSUME NEW ratings, NEW rws1, NEW rws2, RatingsOK(ratings, rws1), RowsStep(rws1, rws2)
    PROVE  RatingsOK(ratings, rws2)
BY ReflectsStable DEF RatingsOK

LEMMA OneTask ==
    ASSUME NEW tasks1, NEW tasks2, NEW rws1, NEW rws2,
           TasksOK(tasks1, rws1), RowsOK(rws1), RowsOK(rws2), RowsStep(rws1, rws2),
           NEW r \in Requests, NEW t \in Task, TaskSound(t, rws2),
           tasks2 = [tasks1 EXCEPT ![r] = t]
    PROVE  TasksOK(tasks2, rws2)
<1>1. tasks2 \in [Requests -> Task]
  BY DEF TasksOK
<1>2. tasks2[r] = t /\ \A q \in Requests \ {r} : tasks2[q] = tasks1[q]
  BY DEF TasksOK
<1>3. ASSUME NEW q \in Requests
      PROVE  TaskSound(tasks2[q], rws2)
  <2>1. tasks1[q] \in Task /\ TaskSound(tasks1[q], rws1)
    BY DEF TasksOK
  <2>2. TaskSound(tasks1[q], rws2)
    BY <2>1, TaskStable DEF RowsOK
  <2>3. QED
    BY <1>2, <2>2
<1>4. QED
  BY <1>1, <1>3 DEF TasksOK

LEMMA TasksKept ==
    ASSUME NEW tasks, NEW rws1, NEW rws2, TasksOK(tasks, rws1), RowsOK(rws1), RowsOK(rws2),
           RowsStep(rws1, rws2)
    PROVE  TasksOK(tasks, rws2)
<1>1. ASSUME NEW q \in Requests
      PROVE  TaskSound(tasks[q], rws2)
  <2>1. tasks[q] \in Task /\ TaskSound(tasks[q], rws1)
    BY DEF TasksOK
  <2>2. QED
    BY <2>1, TaskStable DEF RowsOK
<1>2. QED
  BY <1>1 DEF TasksOK

LEMMA FreedLocks ==
    ASSUME NEW r \in Requests, LocksOK(gameLock, playerLock), Release(r)
    PROVE  LocksOK(gameLock', playerLock')
BY DEF LocksOK, Release, Freed

LEMMA NoTaskType == NoTask \in Task
BY DEF NoTask, Task, Unrated

LEMMA NoRowType == NoRow \in Row
BY DEF NoRow, Row

LEMMA FailedSound ==
    ASSUME NEW rws
    PROVE  Failed \in Task /\ TaskSound(Failed, rws)
<1>1. Failed \in Task
  BY NoTaskType DEF Failed, Task
<1>2. Failed.op = "none" /\ Failed.pc = "done"
  BY DEF Failed, NoTask
<1>3. TaskSound(Failed, rws)
  BY <1>2 DEF TaskSound
<1>4. QED
  BY <1>1, <1>3

\* An answer is sound if whoever is told that he joined has the seat.
LEMMA AnsweredSound ==
    ASSUME NEW t \in Task, NEW told \in {"ok", "error"}, NEW rws,
           t.op = "join_game" => t.game \in Games /\ t.player \in Players
                                   /\ rws[t.game].black = t.player
    PROVE  Answered(t, told) \in Task /\ TaskSound(Answered(t, told), rws)
<1>1. CASE told = "error"
  BY <1>1, FailedSound DEF Answered
<1>2. CASE told = "ok"
  <2> DEFINE u == Answered(t, told)
  <2>1. u = [NoTask EXCEPT !.op = t.op, !.game = t.game, !.player = t.player, !.answer = told]
    BY <1>2 DEF Answered
  <2>2. u \in Task
    <3>1. t.op \in Ops \cup {"none"} /\ t.game \in Games \cup {None} /\ t.player \in Players \cup {Nobody}
      BY DEF Task
    <3>2. QED
      BY ZenonT(40), <2>1, <3>1, NoTaskType DEF Task
  <2>3. u.op = t.op /\ u.game = t.game /\ u.player = t.player /\ u.pc = "done"
    BY <2>1 DEF NoTask
  <2> HIDE DEF u
  <2>4. TaskSound(u, rws)
    BY <2>3 DEF TaskSound
  <2>5. QED
    BY <2>2, <2>4 DEF u
<1>3. QED
  BY <1>1, <1>2

-----------------------------------------------------------------------------
(* One lemma for each action. *)

\* A step that changes nothing but what request r is about.
LEMMA OnlyTask ==
    ASSUME IndInv, NEW r \in Requests, NEW t \in Task, TaskSound(t, rows),
           task' = [task EXCEPT ![r] = t], UNCHANGED <<rows, elo>>,
           LocksOK(gameLock', playerLock')
    PROVE  IndInv' /\ RowsStep(rows, rows')
<1>1. RowsStep(rows, rows)
  BY RowStepRefl
<1>2. TasksOK(task', rows)
  BY <1>1, Parts, OneTask
<1>3. QED
  BY <1>1, <1>2, Parts, PartsPrimed

\* A step that inserts a row.
LEMMA OnlyRow ==
    ASSUME IndInv, NEW g \in Games, NEW row \in Row, rows[g] = NoRow,
           rows' = [rows EXCEPT ![g] = row],
           Exists(row), ~Seated(row), Played(row, row.moves),
           UNCHANGED <<elo, task, gameLock, playerLock>>
    PROVE  IndInv' /\ RowsStep(rows, rows')
<1>1. RowStep(rows[g], row)
  BY DEF RowStep, NoRow, Exists, Seated
<1>2. RowsOK(rows') /\ RowsStep(rows, rows')
  BY <1>1, Parts, OneRow DEF Exists
<1>3. RatingsOK(elo', rows') /\ TasksOK(task', rows')
  BY <1>2, Parts, RatingsKept, TasksKept
<1>4. QED
  BY <1>2, <1>3, Parts, PartsPrimed

\* A statement of request r that updates its row at once and is answered.
LEMMA RowAndTask ==
    ASSUME IndInv, NEW r \in Requests, NEW g \in Games, NEW row \in Row,
           NEW told \in {"ok", "error"}, task[r].game = g,
           rows' = [rows EXCEPT ![g] = row],
           Exists(row), RowStep(rows[g], row), Seated(row) => row.white # row.black,
           Played(row, row.moves),
           task[r].op = "join_game" => task[r].player \in Players /\ row.black = task[r].player,
           task' = [task EXCEPT ![r] = Answered(task[r], told)],
           UNCHANGED <<elo, gameLock, playerLock>>
    PROVE  IndInv' /\ RowsStep(rows, rows')
<1>1. RowsOK(rows') /\ RowsStep(rows, rows') /\ rows'[g] = row
  BY Parts, OneRow DEF Exists, RowsOK
<1>2. task[r] \in Task
  BY Parts DEF TasksOK
<1>3. Answered(task[r], told) \in Task /\ TaskSound(Answered(task[r], told), rows')
  BY <1>1, <1>2, AnsweredSound
<1>4. RatingsOK(elo', rows') /\ TasksOK(task', rows')
  BY <1>1, <1>3, Parts, RatingsKept, OneTask
<1>5. QED
  BY <1>1, <1>4, Parts, PartsPrimed

LEMMA CreateGameStep ==
    ASSUME IndInv, NEW g \in Games, NEW p \in Players, CreateGame(g, p)
    PROVE  IndInv' /\ RowsStep(rows, rows')
<1> DEFINE row == [NoRow EXCEPT !.white = p, !.result = "None"]
<1>1. row \in Row
  BY NoRowType DEF Row
<1>2. Exists(row) /\ ~Seated(row) /\ row.moves = <<>>
  BY DEF NoRow, Exists, Seated
<1>3. rows[g] = NoRow /\ rows' = [rows EXCEPT ![g] = row]
      /\ UNCHANGED <<elo, task, gameLock, playerLock>>
  BY DEF CreateGame
<1> HIDE DEF row
<1>4. Played(row, row.moves)
  BY <1>2 DEF Played
<1>5. QED
  BY <1>1, <1>2, <1>3, <1>4, OnlyRow

LEMMA ImportGameStep ==
    ASSUME IndInv, NEW g \in Games, NEW result \in Outcomes \cup {"None"}, NEW plies \in 0..MaxMoves,
           ImportGame(g, result, plies)
    PROVE  IndInv' /\ RowsStep(rows, rows')
<1> DEFINE moves == [i \in 1..plies |-> Nobody]
           row == [NoRow EXCEPT !.result = result, !.moves = moves]
<1>0. plies \in Nat
  BY ServiceAssumption
<1>1. moves \in Seq(Players \cup {Nobody}) /\ Len(moves) = plies
  BY <1>0
<1>2. rows[g] = NoRow /\ rows' = [rows EXCEPT ![g] = row]
      /\ UNCHANGED <<elo, task, gameLock, playerLock>>
  BY DEF ImportGame
<1>3. \A i \in 1..plies : moves[i] = Nobody
  OBVIOUS
<1> HIDE DEF moves
<1>4. row \in Row
  <2>1. result \in {"Absent", "None", "Ongoing"} \cup Over
    BY DEF Over
  <2>2. row = [NoRow EXCEPT !.result = result, !.moves = moves]
    OBVIOUS
  <2> HIDE DEF row
  <2>3. QED
    BY <1>1, <2>1, <2>2, NoRowType DEF Row
<1>5. row.white = Nobody /\ row.result = result /\ row.moves = moves
  BY DEF NoRow
<1> HIDE DEF row
<1>6. Exists(row) /\ ~Seated(row)
  BY <1>5, ServiceAssumption DEF Exists, Seated
<1>7. Played(row, row.moves)
  BY <1>1, <1>3, <1>5 DEF Played
<1>8. QED
  BY <1>2, <1>4, <1>6, <1>7, OnlyRow

\* What a request has read, when it has read it.
LEMMA ReadStep ==
    ASSUME IndInv, NEW r \in Requests, NEW op \in Ops, NEW g \in Games, NEW p \in Players,
           NEW result \in Over \cup {"None"}, Read(r, op, g, p, result)
    PROVE  IndInv' /\ RowsStep(rows, rows')
<1> DEFINE t == Asked(op, g, p, result)
<1>1. rows[g] \in Row /\ Played(rows[g], rows[g].moves)
  BY Parts DEF RowsOK
<1>2. op \in {"make_move", "join_game", "abandon_game", "complete_game"}
  BY ServiceAssumption
<1>3. t \in Task
  <2> DEFINE moves == IF op = "make_move" THEN rows[g].moves ELSE <<>>
  <2>1. moves \in Seq(Players \cup {Nobody})
    BY <1>1 DEF Row
  <2>2. t = [NoTask EXCEPT !.op = op, !.game = g, !.player = p, !.result = result,
                           !.pc = "update", !.moves = moves]
    BY DEF Asked
  <2> HIDE DEF moves, t
  <2>3. QED
    BY <2>1, <2>2, NoTaskType DEF Task
<1>4. /\ t.op = op /\ t.game = g /\ t.player = p /\ t.result = result /\ t.pc = "update"
      /\ t.answer = "none"
      /\ op = "make_move" => t.moves = rows[g].moves
  BY DEF Asked, NoTask
<1>5. /\ task' = [task EXCEPT ![r] = t] /\ UNCHANGED <<rows, elo, gameLock, playerLock>>
      /\ May(op, rows[g], p) /\ (op = "complete_game" <=> result # "None")
  BY DEF Read
<1> HIDE DEF t
<1>6. Exists(rows[g])
  BY <1>5 DEF May
<1>7. ASSUME op = "make_move"
      PROVE  rows[g].black # Nobody /\ p = Mover(rows[g], Len(rows[g].moves))
  <2>1. MayMove(rows[g], p)
    BY <1>5, <1>7 DEF May
  <2>2. QED
    BY <2>1 DEF MayMove, Takes, InTurn, Mover
<1>8. op = "join_game" => rows[g].white # p
  BY <1>5 DEF May, MayJoin
<1>9. op = "complete_game" => Seated(rows[g]) /\ result \in Over
  BY <1>5 DEF May, MayComplete
<1>10. TaskSound(t, rows)
  BY <1>1, <1>2, <1>4, <1>6, <1>7, <1>8, <1>9 DEF TaskSound
<1>11. QED
  BY <1>3, <1>5, <1>10, Parts, OnlyTask

LEMMA RefuseStep ==
    ASSUME IndInv, NEW r \in Requests, NEW op \in Ops, NEW g \in Games, NEW p \in Players,
           Refuse(r, op, g, p)
    PROVE  IndInv' /\ RowsStep(rows, rows')
BY FailedSound, Parts, OnlyTask DEF Refuse

LEMMA UpdateFacts ==
    ASSUME IndInv, NEW r \in Requests, NEW op, Updates(r, op),
           op \in {"make_move", "join_game", "abandon_game", "complete_game"}
    PROVE  /\ task[r] \in Task /\ TaskSound(task[r], rows)
           /\ task[r].pc = "update" /\ task[r].op = op
           /\ task[r].game \in Games /\ task[r].player \in Players
           /\ rows[task[r].game] \in Row /\ Exists(rows[task[r].game])
           /\ Played(rows[task[r].game], rows[task[r].game].moves)
           /\ Seated(rows[task[r].game]) => rows[task[r].game].white # rows[task[r].game].black
<1>1. task[r] \in Task /\ TaskSound(task[r], rows) /\ task[r].pc = "update" /\ task[r].op = op
  BY Parts DEF TasksOK, Updates
<1>2. task[r].game \in Games /\ task[r].player \in Players /\ Exists(rows[task[r].game])
  BY <1>1 DEF TaskSound
<1>3. QED
  BY <1>1, <1>2, Parts DEF RowsOK

\* The stale list with the new move on top is in turn as well.
LEMMA UpdateMoveStep ==
    ASSUME IndInv, NEW r \in Requests, NEW told \in {"ok", "error"}, UpdateMove(r, told)
    PROVE  IndInv' /\ RowsStep(rows, rows')
<1> DEFINE t == task[r]
           g == t.game
           old == rows[g]
           moves == Append(t.moves, t.player)
           row == [old EXCEPT !.moves = moves]
<1>1. /\ t \in Task /\ TaskSound(t, rows) /\ t.pc = "update" /\ t.op = "make_move"
      /\ g \in Games /\ t.player \in Players /\ old \in Row /\ Exists(old)
      /\ Seated(old) => old.white # old.black
  BY UpdateFacts DEF UpdateMove
<1>2. rows \in [Games -> Row]
  BY Parts DEF RowsOK
<1>3. /\ rows' = [rows EXCEPT ![g] = row]
      /\ task' = [task EXCEPT ![r] = Answered(t, told)]
      /\ UNCHANGED <<elo, gameLock, playerLock>>
  BY <1>1, <1>2 DEF UpdateMove
<1>4. Played(old, t.moves) /\ t.player = Mover(old, Len(t.moves)) /\ t.moves \in Seq(Players \cup {Nobody})
  BY <1>1 DEF TaskSound, Task
<1>5. /\ moves \in Seq(Players \cup {Nobody}) /\ Len(moves) = Len(t.moves) + 1
      /\ moves[Len(moves)] = t.player /\ Len(t.moves) \in Nat
      /\ \A i \in 1..Len(t.moves) : moves[i] = t.moves[i]
  BY <1>1, <1>4
<1> HIDE DEF moves
<1>6. row \in Row
  BY <1>1, <1>5 DEF Row
<1>7. row.white = old.white /\ row.black = old.black /\ row.result = old.result /\ row.moves = moves
  BY <1>1 DEF Row
<1> HIDE DEF row, t, g, old
<1>8. Played(row, row.moves)
  <2>1. ASSUME NEW i \in 1..Len(moves)
        PROVE  \/ moves[i] # Nobody /\ moves[i] = Mover(row, i - 1)
               \/ moves[i] = Nobody /\ row.white = Nobody
    <3>1. CASE i \in 1..Len(t.moves)
      BY <1>4, <1>5, <1>7, <3>1 DEF Played, Mover
    <3>2. CASE i = Len(moves)
      <4>1. moves[i] = t.player /\ i - 1 = Len(t.moves)
        BY <1>5, <3>2
      <4>2. t.player # Nobody
        BY <1>1, ServiceAssumption
      <4>3. QED
        BY <1>4, <1>7, <4>1, <4>2 DEF Mover
    <3>3. QED
      BY <1>5, <3>1, <3>2
  <2>2. QED
    BY <1>7, <2>1 DEF Played
<1>9. RowStep(old, row) /\ Exists(row) /\ (Seated(row) => row.white # row.black)
  BY <1>1, <1>7 DEF RowStep, Exists, Seated
<1>10. QED
  BY <1>1, <1>3, <1>6, <1>8, <1>9, RowAndTask DEF t, g, old

LEMMA UpdateJoinStep ==
    ASSUME IndInv, NEW r \in Requests, NEW told \in {"ok", "error"}, UpdateJoin(r, told)
    PROVE  IndInv' /\ RowsStep(rows, rows')
<1> DEFINE t == task[r]
           g == t.game
           old == rows[g]
           row == [old EXCEPT !.black = t.player, !.result = "Ongoing"]
<1>1. /\ t \in Task /\ TaskSound(t, rows) /\ t.pc = "update" /\ t.op = "join_game"
      /\ g \in Games /\ t.player \in Players /\ old \in Row /\ Exists(old)
      /\ Played(old, old.moves)
  BY UpdateFacts DEF UpdateJoin
<1>2. rows \in [Games -> Row]
  BY Parts DEF RowsOK
<1>3. /\ rows' = [rows EXCEPT ![g] = row]
      /\ task' = [task EXCEPT ![r] = Answered(t, told)]
      /\ UNCHANGED <<elo, gameLock, playerLock>>
  BY <1>1, <1>2 DEF UpdateJoin
<1>4. old.black = Nobody /\ old.white # t.player
  BY <1>1 DEF TaskSound, UpdateJoin, SeatFree
<1>5. row \in Row
  BY <1>1 DEF Row
<1>6. row.white = old.white /\ row.black = t.player /\ row.result = "Ongoing" /\ row.moves = old.moves
  BY <1>1 DEF Row
<1> HIDE DEF row, t, g, old
<1>7. RowStep(old, row) /\ Exists(row) /\ row.white # row.black
  BY <1>1, <1>4, <1>6 DEF RowStep, Exists, Seated
\* No move is Black's yet, so that none is claimed for the new player.
<1>8. Played(row, row.moves)
  BY <1>1, <1>4, <1>6 DEF Played, Mover
<1>9. QED
  BY <1>1, <1>3, <1>5, <1>6, <1>7, <1>8, RowAndTask DEF t, g, old

LEMMA JoinTooLateStep ==
    ASSUME IndInv, NEW r \in Requests, JoinTooLate(r)
    PROVE  IndInv' /\ RowsStep(rows, rows')
BY FailedSound, Parts, OnlyTask DEF JoinTooLate

LEMMA UpdateAbandonStep ==
    ASSUME IndInv, NEW r \in Requests, NEW told \in {"ok", "error"}, UpdateAbandon(r, told)
    PROVE  IndInv' /\ RowsStep(rows, rows')
<1> DEFINE t == task[r]
           g == t.game
           old == rows[g]
           row == [old EXCEPT !.result = "Abandoned"]
<1>1. /\ t \in Task /\ t.op = "abandon_game"
      /\ g \in Games /\ old \in Row /\ Exists(old)
      /\ Played(old, old.moves)
      /\ Seated(old) => old.white # old.black
  BY UpdateFacts DEF UpdateAbandon
<1>2. rows \in [Games -> Row]
  BY Parts DEF RowsOK
<1>3. /\ rows' = [rows EXCEPT ![g] = row]
      /\ task' = [task EXCEPT ![r] = Answered(t, told)]
      /\ UNCHANGED <<elo, gameLock, playerLock>>
  BY <1>1, <1>2 DEF UpdateAbandon
<1>4. row \in Row
  BY <1>1 DEF Row, Over
<1>5. row.white = old.white /\ row.black = old.black /\ row.result = "Abandoned" /\ row.moves = old.moves
  BY <1>1 DEF Row
<1> HIDE DEF row, t, g, old
<1>6. RowStep(old, row) /\ Exists(row) /\ (Seated(row) => row.white # row.black)
  BY <1>1, <1>5 DEF RowStep, Exists, Seated, Over
<1>7. Played(row, row.moves)
  BY <1>1, <1>5 DEF Played, Mover
<1>8. QED
  BY <1>1, <1>3, <1>4, <1>6, <1>7, RowAndTask DEF t, g, old

-----------------------------------------------------------------------------
(* The transaction of complete_game. *)

\* What is known between its statements.
LEMMA SettlingFacts ==
    ASSUME IndInv, NEW r \in Requests,
           task[r].pc \in {"white", "black", "write_white", "write_black", "commit"}
    PROVE  /\ task[r] \in Task /\ TaskSound(task[r], rows) /\ task[r].op = "complete_game"
           /\ task[r].game \in Games /\ task[r].player \in Players
           /\ rows[task[r].game] \in Row /\ Exists(rows[task[r].game])
           /\ Played(rows[task[r].game], rows[task[r].game].moves)
           /\ Seated(rows[task[r].game]) /\ task[r].result \in Over
           /\ White(r) \in Players /\ Black(r) \in Players /\ White(r) # Black(r)
           /\ White(r) = rows[task[r].game].white /\ Black(r) = rows[task[r].game].black
<1>1. task[r] \in Task /\ TaskSound(task[r], rows)
  BY Parts DEF TasksOK
<1>2. task[r].op = "complete_game"
  BY <1>1 DEF TaskSound
<1>3. /\ task[r].game \in Games /\ task[r].player \in Players /\ Exists(rows[task[r].game])
      /\ Seated(rows[task[r].game]) /\ task[r].result \in Over
  BY <1>1, <1>2 DEF TaskSound
<1>4. /\ rows[task[r].game] \in Row /\ Played(rows[task[r].game], rows[task[r].game].moves)
      /\ rows[task[r].game].white # rows[task[r].game].black
  BY <1>3, Parts DEF RowsOK
<1>5. QED
  BY <1>1, <1>2, <1>3, <1>4 DEF White, Black, Row, Seated

LEMMA UpdateResultStep ==
    ASSUME IndInv, NEW r \in Requests, UpdateResult(r)
    PROVE  IndInv' /\ RowsStep(rows, rows')
<1> DEFINE t == [task[r] EXCEPT !.pc = "white"]
<1>1. task[r] \in Task /\ TaskSound(task[r], rows) /\ task[r].pc = "update" /\ task[r].op = "complete_game"
  BY UpdateFacts DEF UpdateResult
<1>2. t \in Task
  BY <1>1 DEF Task
<1>3. /\ t.op = task[r].op /\ t.game = task[r].game /\ t.player = task[r].player
      /\ t.result = task[r].result /\ t.pc = "white" /\ t.moves = task[r].moves
  BY <1>1 DEF Task
<1>4. task' = [task EXCEPT ![r] = t] /\ UNCHANGED <<rows, elo, playerLock>>
      /\ gameLock' = [gameLock EXCEPT ![task[r].game] = r]
  BY Parts DEF UpdateResult, TasksOK
<1> HIDE DEF t
<1>5. TaskSound(t, rows)
  BY <1>1, <1>3 DEF TaskSound
<1>6. LocksOK(gameLock', playerLock')
  BY <1>4, Parts DEF LocksOK
<1>7. QED
  BY <1>2, <1>4, <1>5, <1>6, OnlyTask

LEMMA RatingRead ==
    ASSUME IndInv, NEW p \in Players
    PROVE  elo[p] \in [Games -> Nat] /\ Reflects(elo[p], p, rows)
BY Parts DEF RatingsOK

LEMMA ReadWhiteStep ==
    ASSUME IndInv, NEW r \in Requests, ReadWhite(r)
    PROVE  IndInv' /\ RowsStep(rows, rows')
<1> DEFINE t == [task[r] EXCEPT !.white = elo[White(r)], !.pc = "black"]
<1>1. task[r].pc = "white" /\ task[r].result \in Outcomes
  BY DEF ReadWhite, Rateable
<1>2. /\ task[r] \in Task /\ TaskSound(task[r], rows) /\ task[r].op = "complete_game"
      /\ White(r) \in Players /\ White(r) = rows[task[r].game].white
  BY <1>1, SettlingFacts
<1>3. elo[White(r)] \in [Games -> Nat] /\ Reflects(elo[White(r)], White(r), rows)
  BY <1>2, RatingRead
<1>4. t \in Task
  BY <1>2, <1>3 DEF Task
<1>5. /\ t.op = task[r].op /\ t.game = task[r].game /\ t.player = task[r].player
      /\ t.result = task[r].result /\ t.pc = "black" /\ t.moves = task[r].moves
      /\ t.white = elo[White(r)]
  BY <1>2 DEF Task
<1>6. task' = [task EXCEPT ![r] = t] /\ UNCHANGED <<rows, elo, gameLock, playerLock>>
  BY Parts DEF ReadWhite, TasksOK
<1> HIDE DEF t
<1>7. TaskSound(t, rows)
  BY <1>1, <1>2, <1>3, <1>5 DEF TaskSound
<1>8. QED
  BY <1>4, <1>6, <1>7, Parts, OnlyTask

LEMMA ReadBlackStep ==
    ASSUME IndInv, NEW r \in Requests, ReadBlack(r)
    PROVE  IndInv' /\ RowsStep(rows, rows')
<1> DEFINE t == [task[r] EXCEPT !.black = elo[Black(r)], !.pc = "write_white"]
<1>1. task[r].pc = "black"
  BY DEF ReadBlack
<1>2. /\ task[r] \in Task /\ TaskSound(task[r], rows) /\ task[r].op = "complete_game"
      /\ Black(r) \in Players /\ Black(r) = rows[task[r].game].black
  BY <1>1, SettlingFacts
<1>3. elo[Black(r)] \in [Games -> Nat] /\ Reflects(elo[Black(r)], Black(r), rows)
  BY <1>2, RatingRead
<1>4. t \in Task
  BY <1>2, <1>3 DEF Task
<1>5. /\ t.op = task[r].op /\ t.game = task[r].game /\ t.player = task[r].player
      /\ t.result = task[r].result /\ t.pc = "write_white" /\ t.moves = task[r].moves
      /\ t.white = task[r].white /\ t.black = elo[Black(r)]
  BY <1>2 DEF Task
<1>6. task' = [task EXCEPT ![r] = t] /\ UNCHANGED <<rows, elo, gameLock, playerLock>>
  BY Parts DEF ReadBlack, TasksOK
<1> HIDE DEF t
<1>7. TaskSound(t, rows)
  BY <1>1, <1>2, <1>3, <1>5 DEF TaskSound
<1>8. QED
  BY <1>4, <1>6, <1>7, Parts, OnlyTask

\* The statements that only take a lock.
LEMMA WriteStep ==
    ASSUME IndInv, NEW r \in Requests, WriteWhite(r) \/ WriteBlack(r)
    PROVE  IndInv' /\ RowsStep(rows, rows')
<1> DEFINE pc == IF WriteWhite(r) THEN "write_black" ELSE "commit"
           t == [task[r] EXCEPT !.pc = pc]
<1>1. task[r].pc \in {"write_white", "write_black"}
  BY DEF WriteWhite, WriteBlack
<1>2. /\ task[r] \in Task /\ TaskSound(task[r], rows) /\ task[r].op = "complete_game"
      /\ White(r) \in Players /\ Black(r) \in Players
  BY <1>1, SettlingFacts
<1>3. /\ task' = [task EXCEPT ![r] = t] /\ UNCHANGED <<rows, elo, gameLock>>
      /\ \E p \in Players : playerLock' = [playerLock EXCEPT ![p] = r]
  <2>1. CASE WriteWhite(r)
    BY <1>2, <2>1, Parts DEF WriteWhite, TasksOK
  <2>2. CASE ~WriteWhite(r)
    BY <1>2, <2>2, Parts DEF WriteBlack, TasksOK
  <2>3. QED
    BY <2>1, <2>2
<1>4. pc \in {"write_black", "commit"}
  OBVIOUS
<1> HIDE DEF pc
<1>5. t \in Task
  BY <1>2, <1>4 DEF Task
<1>6. /\ t.op = task[r].op /\ t.game = task[r].game /\ t.player = task[r].player
      /\ t.result = task[r].result /\ t.pc = pc /\ t.moves = task[r].moves
      /\ t.white = task[r].white /\ t.black = task[r].black
  BY <1>2 DEF Task
<1> HIDE DEF t
<1>7. TaskSound(t, rows)
  <2>1. /\ task[r].result \in Outcomes
        /\ Reflects(task[r].white, rows[task[r].game].white, rows)
    BY <1>1, <1>2 DEF TaskSound
  <2>2. Reflects(task[r].black, rows[task[r].game].black, rows)
    BY <1>1, <1>2 DEF TaskSound
  <2>3. QED
    BY <1>1, <1>2, <1>4, <1>6, <2>1, <2>2 DEF TaskSound
<1>8. LocksOK(gameLock', playerLock')
  BY <1>3, Parts DEF LocksOK
<1>9. QED
  BY <1>3, <1>5, <1>7, <1>8, OnlyTask

\* The game becomes over by the very step that counts it in the two ratings.
LEMMA CommitStep ==
    ASSUME IndInv, NEW r \in Requests, NEW told \in {"ok", "error"}, Commit(r, told)
    PROVE  IndInv' /\ RowsStep(rows, rows')
<1> DEFINE t == task[r]
           g == t.game
           old == rows[g]
           row == [old EXCEPT !.result = t.result]
           w == White(r)
           v == Black(r)
<1>1. /\ t.pc = "commit" /\ Release(r)
      /\ rows' = [rows EXCEPT ![g].result = t.result]
      /\ elo' = [elo EXCEPT ![w] = Counting(t.white, g), ![v] = Counting(t.black, g)]
      /\ task' = [task EXCEPT ![r] = Answered(t, told)]
  BY DEF Commit
<1>2. /\ t \in Task /\ TaskSound(t, rows) /\ t.op = "complete_game"
      /\ g \in Games /\ old \in Row /\ Exists(old) /\ Played(old, old.moves)
      /\ Seated(old) /\ t.result \in Over
      /\ w \in Players /\ v \in Players /\ w # v /\ w = old.white /\ v = old.black
  BY <1>1, SettlingFacts
<1>3. Reflects(t.white, w, rows) /\ Reflects(t.black, v, rows)
  BY <1>1, <1>2 DEF TaskSound
<1>4. t.white \in [Games -> Nat] /\ t.black \in [Games -> Nat]
  BY <1>2 DEF Task
<1>5. rows \in [Games -> Row] /\ elo \in [Players -> [Games -> Nat]]
  BY Parts DEF RowsOK, RatingsOK
<1>6. rows' = [rows EXCEPT ![g] = row]
  BY <1>1, <1>2, <1>5
<1>7. row \in Row
  BY <1>2 DEF Row
<1>8. row.white = w /\ row.black = v /\ row.result \in Over /\ row.moves = old.moves
  BY <1>2 DEF Row
<1> HIDE DEF row, t, g, old, w, v
<1>9. RowStep(old, row) /\ Exists(row) /\ row.white # row.black /\ Seated(row)
  BY <1>2, <1>8, OverExists DEF RowStep, Seated
<1>10. Played(row, row.moves)
  BY <1>2, <1>8 DEF Played, Mover
<1>11. row.result # "Absent"
  BY <1>9 DEF Exists
<1>12. RowsOK(rows') /\ RowsStep(rows, rows') /\ rows'[g] = row
  BY <1>2, <1>5, <1>6, <1>7, <1>9, <1>10, <1>11, Parts, OneRow DEF old
<1>13. ASSUME NEW p \in {w, v}, NEW rating \in [Games -> Nat], Reflects(rating, p, rows)
       PROVE  Counting(rating, g) \in [Games -> Nat] /\ Reflects(Counting(rating, g), p, rows')
  <2>1. /\ Counting(rating, g) \in [Games -> Nat]
        /\ \A h \in Games \ {g} : Counting(rating, g)[h] = rating[h]
    BY <1>2 DEF Counting
  <2>2. Reflects(rating, p, rows')
    BY <1>2, <1>12, <1>13, ReflectsStable
  <2>3. Justifies(p, rows'[g])
    BY <1>8, <1>9, <1>12 DEF Justifies, Takes
  <2>4. QED
    BY <2>1, <2>2, <2>3 DEF Reflects
<1>14. RatingsOK(elo', rows')
  <2>1. /\ elo' \in [Players -> [Games -> Nat]]
        /\ elo'[w] = Counting(t.white, g) /\ elo'[v] = Counting(t.black, g)
        /\ \A p \in Players \ {w, v} : elo'[p] = elo[p]
    BY <1>1, <1>2, <1>3, <1>4, <1>5, <1>13
  <2>2. RatingsOK(elo, rows')
    BY <1>12, Parts, RatingsKept
  <2>3. QED
    BY <1>2, <1>3, <1>4, <1>13, <2>1, <2>2 DEF RatingsOK
<1>15. Answered(t, told) \in Task /\ TaskSound(Answered(t, told), rows')
  BY <1>2, AnsweredSound
<1>16. TasksOK(task', rows')
  BY <1>1, <1>12, <1>15, Parts, OneTask
<1>17. QED
  BY <1>1, <1>12, <1>14, <1>16, Parts, PartsPrimed, FreedLocks

LEMMA RollbackStep ==
    ASSUME IndInv, NEW r \in Requests, Rollback(r)
    PROVE  IndInv' /\ RowsStep(rows, rows')
BY FailedSound, Parts, OnlyTask, FreedLocks DEF Rollback

-----------------------------------------------------------------------------

LEMMA InitHolds == Init => IndInv
<1> SUFFICES ASSUME Init PROVE IndInv
  OBVIOUS
<1>1. \A g \in Games : rows[g] = NoRow
  BY DEF Init
<1>2. RowsOK(rows)
  <2>1. rows \in [Games -> Row]
    BY NoRowType DEF Init
  <2>2. NoRow.white = Nobody /\ NoRow.moves = <<>>
    BY DEF NoRow
  <2>3. ~Seated(NoRow) /\ Played(NoRow, NoRow.moves)
    BY <2>2 DEF Seated, Played
  <2>4. QED
    BY <1>1, <2>1, <2>3 DEF RowsOK
<1>3. RatingsOK(elo, rows)
  BY DEF Init, RatingsOK, Reflects, Unrated
<1>4. TasksOK(task, rows)
  <2>1. NoTask.op = "none" /\ NoTask.pc = "done"
    BY DEF NoTask
  <2>2. TaskSound(NoTask, rows)
    BY <2>1 DEF TaskSound
  <2>3. QED
    BY <2>2, NoTaskType DEF Init, TasksOK
<1>5. LocksOK(gameLock, playerLock)
  BY DEF Init, LocksOK
<1>6. QED
  BY <1>2, <1>3, <1>4, <1>5, Parts

LEMMA StepHolds == IndInv /\ [Next]_vars => IndInv' /\ RowsStep(rows, rows')
<1> SUFFICES ASSUME IndInv, [Next]_vars
             PROVE  IndInv' /\ RowsStep(rows, rows')
  OBVIOUS
<1>1. CASE UNCHANGED vars
  <2>1. RowsStep(rows, rows')
    BY <1>1, RowStepRefl DEF vars
  <2>2. QED
    BY <1>1, <2>1, Parts, PartsPrimed DEF vars
<1>2. CASE Next
  BY <1>2, CreateGameStep, ImportGameStep, ReadStep, RefuseStep, UpdateMoveStep, UpdateJoinStep,
     UpdateAbandonStep, CommitStep, JoinTooLateStep, UpdateResultStep, ReadWhiteStep,
     ReadBlackStep, WriteStep, RollbackStep DEF Next, RefuseRating, DatabaseError
<1>3. QED
  BY <1>1, <1>2

\* The inductive invariant holds throughout: the code's rows, ratings and what its
\* requests rely on (games.rs).
THEOREM Inductive == Spec => []IndInv
<1>1. IndInv /\ [Next]_vars => IndInv'
  BY StepHolds
<1>2. QED
  BY InitHolds, <1>1, PTL DEF Spec

\* Type correctness, with the two seats of a game taken by different players
\* (join_game_on).
THEOREM TypeCorrect == Spec => []TypeOK
<1>1. IndInv => TypeOK
  BY DEF IndInv
<1>2. QED
  BY Inductive, <1>1, PTL

\* No interleaving of make_move's read and write breaks the alternation of the
\* moves (make_move_on).
THEOREM MovesAlternate == Spec => []MovesInTurn
<1>1. IndInv => MovesInTurn
  BY DEF IndInv
<1>2. QED
  BY Inductive, <1>1, PTL

\* Of any number of players who join one game at once, the one that was told so
\* has the seat (join_game_on).
THEOREM JoinersHaveTheirSeat == Spec => []JoinHonoured
<1>1. IndInv => JoinHonoured
  BY DEF IndInv, JoinHonoured, TaskSound
<1>2. QED
  BY Inductive, <1>1, PTL

\* Ratings reflect only games that are over and were their player's
\* (complete_game_on, update_ratings_in_transaction).
THEOREM RatingsAreJustified == Spec => []RatingsJustified
<1>1. IndInv => RatingsJustified
  BY DEF IndInv
<1>2. QED
  BY Inductive, <1>1, PTL

\* Nothing that was read before a game ended reopens it (complete_game_on,
\* abandon_game_on, join_game_on).
THEOREM GamesStayOver == Spec => OverStaysOver
<1>1. IndInv /\ [Next]_vars => [\A g \in Games : StaysOver(g)]_vars
  BY StepHolds DEF RowsStep, RowStep, StaysOver
<1>2. QED
  BY Inductive, <1>1, PTL DEF Spec, OverStaysOver

-----------------------------------------------------------------------------
(***************************************************************************)
(* Tokens and their families.  A family has one token that can be used,    *)
(* and one more for each refresh that found the token good before another  *)
(* marked it: what is counted are these, and who is about to issue one.    *)
(***************************************************************************)
Token == [family : Nat, used : BOOLEAN, revoked : BOOLEAN, late : BOOLEAN]
Steps == {"none", "welcome", "find", "mark", "issue", "reuse", "revoke"}

\* A request that deals with a token deals with one there is, and none has found its
\* family revoked: a token that is left in such a family was late.
TokensTyped ==
    /\ tokens \in Seq(Token)
    /\ call \in [Devices -> [step : Steps, token : Nat, seen : BOOLEAN]]
    /\ condemned \subseteq Families
    /\ raced \subseteq DOMAIN tokens /\ \A t \in raced : tokens[t].used
    /\ \A c \in Devices :
        /\ call[c].step \in {"find", "mark", "issue", "reuse"} =>
               call[c].token \in DOMAIN tokens
        /\ ~call[c].seen

\* Families are numbered as they come.
FamiliesCounted == IsFiniteSet(Families) /\ Families = 1..Cardinality(Families)

RevokedOrLate ==
    \A t \in DOMAIN tokens : tokens[t].family \in condemned /\ ~tokens[t].revoked =>
        tokens[t].late

\* The slot that marked a token first does not hold it any more, and none can take it up.
UsedLetGo ==
    \A t \in DOMAIN tokens : tokens[t].used =>
        \E c \in Devices : ~(call[c].step = "mark" /\ call[c].token = t)

Unused(f) == {t \in DOMAIN tokens : tokens[t].family = f /\ ~tokens[t].used}

RacedIn(f) == {t \in raced : tokens[t].family = f}

\* Who will issue a token of f, or will mark one that has been raced for and issue another.
Issuing(f) ==
    {c \in Devices :
        /\ call[c].step = "issue" \/ (call[c].step = "mark" /\ call[c].token \in raced)
        /\ tokens[call[c].token].family = f}

\* The first who marks a token takes it from the unused ones and issues its successor;
\* each of the others who found it unused, and they are fewer than the slots, adds one.
FewUnused ==
    \A f \in Families :
        Cardinality(Unused(f)) + Cardinality(Issuing(f))
            <= 1 + Cardinality(RacedIn(f)) * (Cardinality(Devices) - 1)

TicketsOnce ==
    /\ sockets \in Seq(Nat) /\ tickets \subseteq DOMAIN sockets
    /\ \A k \in DOMAIN sockets : sockets[k] <= 1 /\ (k \in tickets => sockets[k] = 0)

TokensInv ==
    /\ TokensTyped /\ FamiliesCounted /\ RevokedOrLate /\ UsedLetGo /\ FewUnused
    /\ TicketsOnce

-----------------------------------------------------------------------------
LEMMA SeqOfFunction ==
    ASSUME NEW S, NEW n \in Nat, NEW f \in [1..n -> S]
    PROVE  f \in Seq(S)
OBVIOUS

\* The sets that are counted are finite.
LEMMA CountedAreFinite ==
    ASSUME TokensTyped
    PROVE  /\ IsFiniteSet(DOMAIN tokens) /\ IsFiniteSet(raced)
           /\ Cardinality(Devices) \in Nat
           /\ \A f : /\ IsFiniteSet(Unused(f)) /\ Cardinality(Unused(f)) \in Nat
                     /\ IsFiniteSet(Issuing(f)) /\ Cardinality(Issuing(f)) \in Nat
                     /\ IsFiniteSet(RacedIn(f)) /\ Cardinality(RacedIn(f)) \in Nat
<1>1. DOMAIN tokens = 1..Len(tokens) /\ Len(tokens) \in Nat
  BY DEF TokensTyped
<1>2. IsFiniteSet(DOMAIN tokens)
  BY <1>1, FS_Interval
<1>3. IsFiniteSet(raced)
  BY <1>2, FS_Subset DEF TokensTyped
<1>4. ASSUME NEW f
      PROVE  /\ IsFiniteSet(Unused(f)) /\ Cardinality(Unused(f)) \in Nat
             /\ IsFiniteSet(Issuing(f)) /\ Cardinality(Issuing(f)) \in Nat
             /\ IsFiniteSet(RacedIn(f)) /\ Cardinality(RacedIn(f)) \in Nat
  <2>1. /\ Unused(f) \subseteq DOMAIN tokens
        /\ RacedIn(f) \subseteq raced
        /\ Issuing(f) \subseteq Devices
    BY DEF Unused, RacedIn, Issuing
  <2> QED
    BY <2>1, <1>2, <1>3, AccountsAssumption, FS_Subset, FS_CardinalityType
<1> QED
  BY <1>2, <1>3, <1>4, AccountsAssumption, FS_CardinalityType

\* The invariant answers the properties: live tokens are among the unused ones.
LEMMA TokensInvAnswers == TokensInv => TokensSound
<1> SUFFICES ASSUME TokensInv
             PROVE  TokensSound
  OBVIOUS
<1> DEFINE n == Cardinality(Devices) - 1
<1>1. ASSUME NEW f \in Families
      PROVE  Cardinality({t \in DOMAIN tokens : tokens[t].family = f /\ ~tokens[t].used
                                                /\ ~tokens[t].revoked})
                <= 1 + Cardinality({t \in raced : tokens[t].family = f}) * n
  <2> DEFINE live == {t \in DOMAIN tokens : tokens[t].family = f /\ ~tokens[t].used
                                            /\ ~tokens[t].revoked}
  <2>1. live \subseteq Unused(f)
    BY DEF Unused
  <2>2. /\ IsFiniteSet(Unused(f)) /\ Cardinality(Unused(f)) \in Nat
        /\ Cardinality(Issuing(f)) \in Nat
        /\ Cardinality(RacedIn(f)) \in Nat /\ Cardinality(Devices) \in Nat
    BY CountedAreFinite DEF TokensInv
  <2>3. Cardinality(live) <= Cardinality(Unused(f)) /\ Cardinality(live) \in Nat
    BY <2>1, <2>2, FS_Subset, FS_CardinalityType
  <2>4. Cardinality(Unused(f)) + Cardinality(Issuing(f)) <= 1 + Cardinality(RacedIn(f)) * n
    BY <1>1 DEF TokensInv, FewUnused
  <2> DEFINE product == Cardinality(RacedIn(f)) * n
  <2>5. product \in Int
    BY <2>2
  <2>6. RacedIn(f) = {t \in raced : tokens[t].family = f}
    BY DEF RacedIn
  <2> HIDE DEF product, live
  <2>7. Cardinality(live) <= 1 + product
    BY <2>2, <2>3, <2>4, <2>5 DEF product
  <2> QED
    BY <2>6, <2>7 DEF product, live
<1> HIDE DEF n
<1>2. n = Cardinality(Devices) - 1
  BY DEF n
<1> QED
  BY <1>1, <1>2 DEF TokensInv, TokensSound, TicketsOnce, RevokedOrLate

LEMMA TokensStart == AccountsInit => TokensInv
<1> SUFFICES ASSUME AccountsInit
             PROVE  TokensInv
  OBVIOUS
<1>1. DOMAIN tokens = {} /\ Families = {}
  BY DEF AccountsInit, Families
<1>2. TokensTyped
  BY <1>1 DEF AccountsInit, TokensTyped, Waiting, Steps, Token
<1>3. FamiliesCounted
  BY <1>1, FS_EmptySet DEF FamiliesCounted
<1> QED
  BY <1>1, <1>2, <1>3 DEF TokensInv, RevokedOrLate, UsedLetGo, FewUnused, TicketsOnce,
     AccountsInit

-----------------------------------------------------------------------------
\* A request that lets go of its token, or has none, disturbs nothing.
Quiet(c) ==
    \E x \in
                [step : Steps \ {"mark", "issue"}, token : Nat, seen : {FALSE}] :
        /\ x.step \in {"find", "reuse"} => x.token \in DOMAIN tokens
        /\ call' = [call EXCEPT ![c] = x]

LEMMA QuietKeeps ==
    ASSUME TokensInv, UNCHANGED <<tokens, condemned, raced, ticketVars>>,
           NEW c \in Devices, Quiet(c)
    PROVE  TokensInv'
<1>1. PICK x \in
                [step : Steps \ {"mark", "issue"}, token : Nat, seen : {FALSE}] :
        /\ x.step \in {"find", "reuse"} => x.token \in DOMAIN tokens
        /\ call' = [call EXCEPT ![c] = x]
  BY DEF Quiet
<1>2. Families' = Families
  BY DEF Families
<1>3. TokensTyped'
  <2>1. call' \in [Devices -> [step : Steps, token : Nat, seen : BOOLEAN]]
    BY <1>1 DEF TokensInv, TokensTyped
  <2>2. ASSUME NEW d \in Devices
        PROVE  /\ call'[d].step \in {"find", "mark", "issue", "reuse"} =>
                      call'[d].token \in DOMAIN tokens
               /\ ~call'[d].seen
    BY <1>1 DEF TokensInv, TokensTyped
  <2> QED
    BY <1>2, <2>1, <2>2 DEF TokensInv, TokensTyped
<1>4. FamiliesCounted' /\ RevokedOrLate' /\ TicketsOnce'
  BY <1>2 DEF TokensInv, FamiliesCounted, RevokedOrLate, TicketsOnce, ticketVars
<1>5. UsedLetGo'
  BY <1>1 DEF TokensInv, TokensTyped, UsedLetGo
<1>6. ASSUME NEW f \in Families
      PROVE  Cardinality(Unused(f)') + Cardinality(Issuing(f)')
                <= 1 + Cardinality(RacedIn(f)') * (Cardinality(Devices) - 1)
  <2>1. Unused(f)' = Unused(f) /\ RacedIn(f)' = RacedIn(f)
    BY DEF Unused, RacedIn
  <2>2. Issuing(f)' \subseteq Issuing(f)
    BY <1>1 DEF TokensInv, TokensTyped, Issuing
  <2>3. /\ Cardinality(Unused(f)) \in Nat /\ IsFiniteSet(Issuing(f))
        /\ Cardinality(RacedIn(f)) \in Nat /\ Cardinality(Devices) \in Nat
    BY CountedAreFinite DEF TokensInv
  <2>4. /\ Cardinality(Issuing(f)') <= Cardinality(Issuing(f))
        /\ Cardinality(Issuing(f)') \in Nat /\ Cardinality(Issuing(f)) \in Nat
    BY <2>2, <2>3, FS_Subset, FS_CardinalityType
  <2> DEFINE product == Cardinality(RacedIn(f)) * (Cardinality(Devices) - 1)
  <2>5. product \in Int
    BY <2>3
  <2>6. Cardinality(Unused(f)) + Cardinality(Issuing(f)) <= 1 + product
    BY DEF TokensInv, FewUnused
  <2> HIDE DEF product
  <2>7. Cardinality(Unused(f)) + Cardinality(Issuing(f)') <= 1 + product
    BY <2>3, <2>4, <2>5, <2>6
  <2> QED
    BY <2>1, <2>7 DEF product
<1>7. FewUnused'
  BY <1>2, <1>6 DEF FewUnused
<1> QED
  BY <1>3, <1>4, <1>5, <1>7 DEF TokensInv

\* Who finds a token unused finds one that is in no race, and not revoked.
LEMMA FoundKeeps ==
    ASSUME TokensInv, NEW c \in Devices, FindToken(c)
    PROVE  TokensInv'
<1> DEFINE t == call[c].token
<1>1. t \in DOMAIN tokens /\ call[c] \in [step : Steps, token : Nat, seen : BOOLEAN]
          /\ ~call[c].seen
  BY DEF TokensInv, TokensTyped, FindToken, At
<1>2. CASE Step(c, "reuse") \/ Ends(c)
  <2>1. Quiet(c)
    <3>1. CASE Step(c, "reuse")
      <4>1. [call[c] EXCEPT !.step = "reuse"] \in
                [step : Steps \ {"mark", "issue"}, token : Nat, seen : {FALSE}]
        BY <1>1 DEF Steps
      <4>2. call' = [call EXCEPT ![c] = [call[c] EXCEPT !.step = "reuse"]]
        BY <3>1 DEF Step
      <4> QED
        BY <4>1, <4>2, <1>1 DEF Quiet
    <3>2. CASE Ends(c)
      BY <3>2 DEF Quiet, Ends, Waiting, Steps
    <3> QED
      BY <1>2, <3>1, <3>2
  <2> QED
    BY <2>1, QuietKeeps DEF FindToken, tokenVars
<1>3. CASE /\ Good(t)
           /\ call' = [call EXCEPT ![c].step = "mark",
                                    ![c].seen = tokens[t].family \in condemned
                                        /\ ~tokens[t].late]
  <2>1. ~(tokens[t].family \in condemned /\ ~tokens[t].late)
    BY <1>1, <1>3 DEF Good, TokensInv, RevokedOrLate
  <2> DEFINE late == tokens[t].family \in condemned /\ ~tokens[t].late
             x == [[call[c] EXCEPT !.step = "mark"] EXCEPT !.seen = late]
  <2>2. /\ call' \in [Devices -> [step : Steps, token : Nat, seen : BOOLEAN]]
        /\ call'[c].step = "mark" /\ call'[c].token = t /\ ~call'[c].seen
        /\ \A d \in Devices \ {c} : call'[d] = call[d]
    <3>1. late \in BOOLEAN /\ ~late
      BY <2>1
    <3>2. call' = [call EXCEPT ![c].step = "mark", ![c].seen = late]
      BY <1>3
    <3> HIDE DEF late
    <3>3. call' = [call EXCEPT ![c] = x]
      BY <3>2 DEF TokensInv, TokensTyped
    <3>4. /\ x \in [step : Steps, token : Nat, seen : BOOLEAN]
          /\ x.step = "mark" /\ x.token = t /\ x.seen = late
      BY <1>1, <3>1 DEF Steps
    <3> HIDE DEF x
    <3> QED
      BY <3>1, <3>3, <3>4 DEF TokensInv, TokensTyped
  <2>3. UNCHANGED <<tokens, condemned, raced, tickets, sockets>>
    BY DEF FindToken, tokenVars, ticketVars
  <2>4. Families' = Families
    BY <2>3 DEF Families
  <2>5. ~tokens[t].used /\ t \notin raced
    BY <1>3 DEF Good, TokensInv, TokensTyped
  <2>6. TokensTyped'
    BY <1>1, <2>2, <2>3, <2>4 DEF TokensInv, TokensTyped, Steps
  <2>7. FamiliesCounted' /\ RevokedOrLate' /\ TicketsOnce'
    BY <2>3, <2>4 DEF TokensInv, FamiliesCounted, RevokedOrLate, TicketsOnce
  <2>8. UsedLetGo'
    BY <2>2, <2>3, <2>5, <1>1 DEF TokensInv, TokensTyped, UsedLetGo
  <2>9. ASSUME NEW f \in Families
        PROVE  Unused(f)' = Unused(f) /\ RacedIn(f)' = RacedIn(f)
                   /\ Issuing(f)' = Issuing(f)
    <3>1. Unused(f)' = Unused(f) /\ RacedIn(f)' = RacedIn(f)
      BY <2>3 DEF Unused, RacedIn
    <3>2. call[c].step = "find"
      BY DEF FindToken, At
    <3>3. Issuing(f)' = Issuing(f)
      BY <2>2, <2>3, <2>5, <3>2 DEF Issuing, TokensInv, TokensTyped
    <3> QED
      BY <3>1, <3>3
  <2>10. FewUnused'
    BY <2>4, <2>9 DEF TokensInv, FewUnused
  <2> QED
    BY <2>6, <2>7, <2>8, <2>10 DEF TokensInv
<1> QED
  BY <1>2, <1>3 DEF FindToken

\* Revoking takes no token from the unused ones.
LEMMA RevokedKeeps ==
    ASSUME TokensInv, NEW families \in SUBSET Families, RevokeAll(families),
           NEW c \in Devices, Ends(c), UNCHANGED <<raced, tickets, sockets>>
    PROVE  TokensInv'
<1> DEFINE gone(t) == tokens[t].revoked \/ tokens[t].family \in families
<1>1. /\ tokens' = [t \in DOMAIN tokens |-> [tokens[t] EXCEPT !.revoked = gone(t)]]
      /\ condemned' = condemned \cup families
  BY DEF RevokeAll
<1>2. tokens \in [1..Len(tokens) -> Token] /\ DOMAIN tokens = 1..Len(tokens)
          /\ Len(tokens) \in Nat
  BY DEF TokensInv, TokensTyped
<1>3. \A t \in DOMAIN tokens : tokens[t] \in Token
  BY <1>2
<1>4. \A t \in DOMAIN tokens : gone(t) \in BOOLEAN
  BY <1>3 DEF Token
<1> HIDE DEF gone
<1>5. ASSUME NEW t \in DOMAIN tokens
       PROVE  /\ tokens'[t] \in Token
              /\ tokens'[t].family = tokens[t].family /\ tokens'[t].used = tokens[t].used
              /\ tokens'[t].late = tokens[t].late
              /\ tokens'[t].revoked = gone(t)
  BY <1>1, <1>3, <1>4 DEF Token
<1>6. DOMAIN tokens' = DOMAIN tokens /\ tokens' \in Seq(Token)
  <2>1. DOMAIN tokens' = 1..Len(tokens)
    BY <1>1, <1>2
  <2>2. tokens' \in [1..Len(tokens) -> Token]
    BY <1>1, <1>2, <1>5, <2>1
  <2> QED
    BY <1>2, <2>1, <2>2, SeqOfFunction
<1>7. ASSUME NEW t \in DOMAIN tokens
      PROVE  /\ tokens'[t].family = tokens[t].family /\ tokens'[t].used = tokens[t].used
             /\ tokens'[t].late = tokens[t].late
             /\ tokens'[t].revoked <=> tokens[t].revoked \/ tokens[t].family \in families
  BY <1>5 DEF gone
<1>8. Families' = Families
  BY <1>6, <1>7 DEF Families
<1>9. call' = [call EXCEPT ![c] = Waiting]
  BY DEF Ends
<1>10. TokensTyped'
  <2>1. condemned' \subseteq Families
    BY DEF RevokeAll, TokensInv, TokensTyped
  <2>2. \A t \in raced : t \in DOMAIN tokens' /\ tokens'[t].used
    BY <1>6, <1>7 DEF TokensInv, TokensTyped
  <2> HIDE DEF RevokeAll
  <2>3. call' \in [Devices -> [step : Steps, token : Nat, seen : BOOLEAN]]
    BY <1>9 DEF TokensInv, TokensTyped, Waiting, Steps
  <2>4. \A d \in Devices :
           /\ call'[d].step \in {"find", "mark", "issue", "reuse"} =>
                  call'[d].token \in DOMAIN tokens
           /\ ~call'[d].seen
    BY <1>9 DEF TokensInv, TokensTyped, Waiting
  <2> QED
    BY <1>6, <1>8, <2>1, <2>2, <2>3, <2>4 DEF TokensTyped
<1>11. FamiliesCounted' /\ TicketsOnce'
  BY <1>8 DEF TokensInv, FamiliesCounted, TicketsOnce
<1>12. RevokedOrLate'
  <2> SUFFICES ASSUME NEW t \in DOMAIN tokens, tokens[t].family \in condemned',
                      ~tokens'[t].revoked
               PROVE  tokens'[t].late
    BY <1>6, <1>7 DEF RevokedOrLate
  <2>1. tokens[t].family \in condemned /\ ~tokens[t].revoked
    BY <1>7, <1>1
  <2> QED
    BY <2>1, <1>7 DEF TokensInv, RevokedOrLate
<1>13. UsedLetGo'
  BY <1>6, <1>7, <1>9 DEF TokensInv, TokensTyped, UsedLetGo, Waiting
<1>14. ASSUME NEW f \in Families
      PROVE  Cardinality(Unused(f)') + Cardinality(Issuing(f)')
                <= 1 + Cardinality(RacedIn(f)') * (Cardinality(Devices) - 1)
  <2>1. Unused(f)' = Unused(f) /\ RacedIn(f)' = RacedIn(f)
    BY <1>6, <1>7 DEF Unused, RacedIn, TokensInv, TokensTyped
  <2>2. Issuing(f)' \subseteq Issuing(f)
    BY <1>6, <1>7, <1>9 DEF TokensInv, TokensTyped, Issuing, Waiting
  <2>3. /\ Cardinality(Unused(f)) \in Nat /\ IsFiniteSet(Issuing(f))
        /\ Cardinality(RacedIn(f)) \in Nat /\ Cardinality(Devices) \in Nat
    BY CountedAreFinite DEF TokensInv
  <2>4. /\ Cardinality(Issuing(f)') <= Cardinality(Issuing(f))
        /\ Cardinality(Issuing(f)') \in Nat /\ Cardinality(Issuing(f)) \in Nat
    BY <2>2, <2>3, FS_Subset, FS_CardinalityType
  <2> DEFINE product == Cardinality(RacedIn(f)) * (Cardinality(Devices) - 1)
  <2>5. product \in Int
    BY <2>3
  <2>6. Cardinality(Unused(f)) + Cardinality(Issuing(f)) <= 1 + product
    BY DEF TokensInv, FewUnused
  <2> HIDE DEF product
  <2>7. Cardinality(Unused(f)) + Cardinality(Issuing(f)') <= 1 + product
    BY <2>3, <2>4, <2>5, <2>6
  <2> QED
    BY <2>1, <2>7 DEF product
<1>15. FewUnused'
  BY <1>8, <1>14 DEF FewUnused
<1> QED
  BY <1>10, <1>11, <1>12, <1>13, <1>15 DEF TokensInv

-----------------------------------------------------------------------------
\* A token that is issued belongs to a family of its own, or takes the place of a request
\* that was to issue it.
LEMMA IssuedKeeps ==
    ASSUME TokensInv, NEW new \in Token, ~new.used, ~new.revoked,
           tokens' = Append(tokens, new),
           UNCHANGED <<condemned, raced, tickets, sockets>>,
           NEW c \in Devices,
           \/ /\ new.family = NewFamily
              /\ call' = [call EXCEPT ![c] = Waiting] \/ call' = call
           \/ /\ call[c].step = "issue"
              /\ new.family = tokens[call[c].token].family
              /\ new.family \in condemned => new.late
              /\ call' = [call EXCEPT ![c] = Waiting]
    PROVE  TokensInv'
<1> DEFINE k == Len(tokens) + 1
           g == new.family
<1>1. /\ tokens \in Seq(Token) /\ Len(tokens) \in Nat /\ DOMAIN tokens = 1..Len(tokens)
      /\ tokens' \in Seq(Token) /\ DOMAIN tokens' = DOMAIN tokens \cup {k}
      /\ tokens'[k] = new /\ k \notin DOMAIN tokens
      /\ \A t \in DOMAIN tokens : tokens'[t] = tokens[t]
  BY DEF TokensInv, TokensTyped
<1>2. Families' = Families \cup {g}
  <2>1. \A t \in DOMAIN tokens' : tokens'[t].family \in Families \cup {g}
    BY <1>1 DEF Families
  <2>2. \A t \in DOMAIN tokens : tokens[t].family \in Families'
    BY <1>1 DEF Families
  <2>3. g \in Families'
    BY <1>1 DEF Families
  <2> QED
    BY <2>1, <2>2, <2>3 DEF Families
<1>3. \/ g = Cardinality(Families) + 1
      \/ g \in Families
  BY <1>1 DEF NewFamily, Families, TokensInv, TokensTyped
<1>4. IsFiniteSet(Families) /\ Cardinality(Families) \in Nat
          /\ Families = 1..Cardinality(Families)
  BY FS_CardinalityType DEF TokensInv, FamiliesCounted
<1>5. FamiliesCounted'
  <2>1. CASE g \in Families
    <3>1. Families' = Families
      BY <1>2, <2>1
    <3> QED
      BY <3>1 DEF TokensInv, FamiliesCounted
  <2>2. CASE g = Cardinality(Families) + 1
    <3>1. g \notin Families /\ Families \cup {g} = 1..(Cardinality(Families) + 1)
      BY <1>4, <2>2
    <3>2. IsFiniteSet(Families \cup {g})
              /\ Cardinality(Families \cup {g}) = Cardinality(Families) + 1
      BY <1>4, <3>1, FS_AddElement
    <3> QED
      BY <1>2, <3>1, <3>2 DEF FamiliesCounted
  <2> QED
    BY <1>3, <2>1, <2>2
<1>6. /\ \A d \in Devices : call'[d] = call[d] \/ call'[d] = Waiting
      /\ call' \in [Devices -> [step : Steps, token : Nat, seen : BOOLEAN]]
  <2>1. /\ call \in [Devices -> [step : Steps, token : Nat, seen : BOOLEAN]]
        /\ Waiting \in [step : Steps, token : Nat, seen : BOOLEAN]
    BY DEF TokensInv, TokensTyped, Waiting, Steps
  <2>2. call' = call \/ call' = [call EXCEPT ![c] = Waiting]
    OBVIOUS
  <2> QED
    BY <2>1, <2>2
<1>7. TokensTyped'
  <2>1. condemned' \subseteq Families'
    BY <1>2 DEF TokensInv, TokensTyped
  <2>2. \A t \in raced' : t \in DOMAIN tokens' /\ tokens'[t].used
    BY <1>1 DEF TokensInv, TokensTyped
  <2>3. \A d \in Devices :
           /\ call'[d].step \in {"find", "mark", "issue", "reuse"} =>
                  call'[d].token \in DOMAIN tokens'
           /\ ~call'[d].seen
    BY <1>1, <1>6 DEF TokensInv, TokensTyped, Waiting
  <2> QED
    BY <1>1, <1>6, <2>1, <2>2, <2>3 DEF TokensTyped
<1>8. RevokedOrLate'
  <2>1. ~new.late => g \notin condemned
    <3>1. CASE g = Cardinality(Families) + 1
      BY <3>1, <1>4 DEF TokensInv, TokensTyped
    <3>2. CASE g # Cardinality(Families) + 1
      BY <3>2 DEF NewFamily
    <3> QED
      BY <3>1, <3>2
  <2> QED
    BY <1>1, <2>1 DEF TokensInv, RevokedOrLate
<1>9. UsedLetGo'
  BY <1>1, <1>6 DEF TokensInv, UsedLetGo, Waiting
<1>10. TicketsOnce'
  BY DEF TokensInv, TicketsOnce
<1>11. ASSUME NEW f
       PROVE  /\ RacedIn(f)' = RacedIn(f)
              /\ f # g => Unused(f)' = Unused(f)
              /\ Unused(g)' = Unused(g) \cup {k}
              /\ Issuing(f)' \subseteq Issuing(f)
  <2>1. RacedIn(f)' = RacedIn(f)
    BY <1>1 DEF RacedIn, TokensInv, TokensTyped
  <2>2. f # g => Unused(f)' = Unused(f)
    BY <1>1 DEF Unused
  <2>3. Unused(g)' = Unused(g) \cup {k}
    BY <1>1 DEF Unused
  <2>4. Issuing(f)' \subseteq Issuing(f)
    BY <1>1, <1>6 DEF Issuing, Waiting, TokensInv, TokensTyped
  <2> QED
    BY <2>1, <2>2, <2>3, <2>4
<1>12. \A f : /\ IsFiniteSet(Unused(f)) /\ Cardinality(Unused(f)) \in Nat
              /\ IsFiniteSet(Issuing(f)) /\ Cardinality(Issuing(f)) \in Nat
              /\ Cardinality(RacedIn(f)) \in Nat /\ Cardinality(Devices) \in Nat
  BY CountedAreFinite DEF TokensInv
<1>13. \A f : Cardinality(Issuing(f)') \in Nat
           /\ Cardinality(Issuing(f)') <= Cardinality(Issuing(f))
  BY <1>11, <1>12, FS_Subset, FS_CardinalityType
<1>14. Cardinality(Unused(g)') = Cardinality(Unused(g)) + 1
  <2>1. k \notin Unused(g)
    BY <1>1 DEF Unused
  <2> QED
    BY <1>11, <1>12, <2>1, FS_AddElement
<1>15. ASSUME NEW f \in Families'
       PROVE  Cardinality(Unused(f)') + Cardinality(Issuing(f)')
                <= 1 + Cardinality(RacedIn(f)') * (Cardinality(Devices) - 1)
  <2> DEFINE product == Cardinality(RacedIn(f)) * (Cardinality(Devices) - 1)
  <2>1. product \in Int
    BY <1>12
  <2>2. f \in Families => Cardinality(Unused(f)) + Cardinality(Issuing(f)) <= 1 + product
    BY DEF TokensInv, FewUnused
  <2>3. Cardinality(Unused(f)') + Cardinality(Issuing(f)') <= 1 + product
    <3>1. CASE f # g
      <4>1. f \in Families /\ Unused(f)' = Unused(f)
        BY <1>2, <1>11, <3>1
      <4> HIDE DEF product
      <4> QED
        BY <2>1, <2>2, <4>1, <1>12, <1>13
    <3>2. CASE f = g /\ g = Cardinality(Families) + 1
      <4>1. f \notin Families
        BY <1>4, <3>2
      <4>2. Unused(f) = {}
        BY <4>1 DEF Unused, Families
      <4>3. RacedIn(f) = {}
        BY <4>1 DEF RacedIn, Families, TokensInv, TokensTyped
      <4>4. Issuing(f) = {}
        BY <4>1 DEF Issuing, Families, TokensInv, TokensTyped
      <4>5. Issuing(f)' = {}
        BY <4>4, <1>11
      <4>6. Cardinality({}) = 0
        BY FS_EmptySet
      <4>7. product = 0
        BY <4>3, <4>6, <1>12
      <4>8. Cardinality(Unused(f)') = 1
        <5>1. f = g
          BY <3>2
        <5>2. Unused(g) = {}
          BY <4>2, <5>1
        <5>3. Cardinality(Unused(g)') = 1
          BY <1>14, <4>6, <5>2
        <5> QED
          BY <5>1, <5>3
      <4> HIDE DEF product
      <4> QED
        BY <4>5, <4>6, <4>7, <4>8
    <3>3. CASE f = g /\ g # Cardinality(Families) + 1
      <4>1. /\ call[c].step = "issue" /\ f = tokens[call[c].token].family
            /\ call' = [call EXCEPT ![c] = Waiting]
        BY <3>3 DEF NewFamily
      <4>2. c \in Issuing(f) /\ c \notin Issuing(f)'
        BY <4>1 DEF Issuing, Waiting, TokensInv, TokensTyped
      <4>3. Issuing(f)' \subseteq Issuing(f) \ {c}
        BY <4>2, <1>11
      <4>4. /\ IsFiniteSet(Issuing(f) \ {c})
            /\ Cardinality(Issuing(f) \ {c}) = Cardinality(Issuing(f)) - 1
        BY <4>2, <1>12, FS_RemoveElement
      <4>5. Cardinality(Issuing(f)') <= Cardinality(Issuing(f)) - 1
        BY <4>3, <4>4, FS_Subset
      <4>6. f \in Families
        BY <1>3, <3>3
      <4>7. Cardinality(Unused(f)') = Cardinality(Unused(f)) + 1
        BY <1>14, <3>3
      <4> HIDE DEF product
      <4> QED
        BY <2>1, <2>2, <4>5, <4>6, <4>7, <1>12, <1>13
    <3> QED
      BY <3>1, <3>2, <3>3
  <2> QED
    BY <2>3, <1>11
<1>16. FewUnused'
  BY <1>15 DEF FewUnused
<1> QED
  BY <1>5, <1>7, <1>8, <1>9, <1>10, <1>16 DEF TokensInv

-----------------------------------------------------------------------------
\* The first who marks a token lets go of it; the others, who are fewer than the slots,
\* are counted with the race when the second marks it.
LEMMA MarkedKeeps ==
    ASSUME TokensInv, NEW c \in Devices, MarkUsed(c)
    PROVE  TokensInv'
<1> DEFINE t == call[c].token
           g == tokens[t].family
<1>1. /\ t \in DOMAIN tokens /\ call[c].step = "mark"
      /\ tokens \in Seq(Token)
             /\ call \in [Devices -> [step : Steps, token : Nat, seen : BOOLEAN]]
      /\ ~call[c].seen
  BY DEF TokensInv, TokensTyped, MarkUsed, At
<1>2. /\ tokens' = [tokens EXCEPT ![t].used = TRUE]
      /\ raced' = IF tokens[t].used THEN raced \cup {t} ELSE raced
      /\ call' = [call EXCEPT ![c].step = "issue"]
      /\ UNCHANGED <<condemned, tickets, sockets>>
  BY DEF MarkUsed, Step, ticketVars
<1>3. /\ tokens' \in Seq(Token) /\ DOMAIN tokens' = DOMAIN tokens
      /\ tokens'[t].used
      /\ \A u \in DOMAIN tokens :
            /\ tokens'[u].family = tokens[u].family
            /\ tokens'[u].revoked = tokens[u].revoked /\ tokens'[u].late = tokens[u].late
            /\ u # t => tokens'[u].used = tokens[u].used
  <2>1. /\ tokens \in [1..Len(tokens) -> Token] /\ DOMAIN tokens = 1..Len(tokens)
        /\ Len(tokens) \in Nat
    BY <1>1
  <2>2. tokens[t] \in Token
    BY <1>1, <2>1
  <2>3. /\ [tokens[t] EXCEPT !.used = TRUE] \in Token
        /\ [tokens[t] EXCEPT !.used = TRUE].used
        /\ [tokens[t] EXCEPT !.used = TRUE].family = tokens[t].family
        /\ [tokens[t] EXCEPT !.used = TRUE].revoked = tokens[t].revoked
        /\ [tokens[t] EXCEPT !.used = TRUE].late = tokens[t].late
    BY <2>2 DEF Token
  <2> DEFINE x == [tokens[t] EXCEPT !.used = TRUE]
  <2>4. tokens' = [tokens EXCEPT ![t] = x]
    BY <1>2
  <2> HIDE DEF x
  <2>5. tokens' \in [1..Len(tokens) -> Token]
    BY <2>1, <2>3, <2>4 DEF x
  <2>6. tokens' \in Seq(Token)
    BY <2>1, <2>5, SeqOfFunction
  <2>7. tokens'[t] = x /\ \A u \in DOMAIN tokens : u # t => tokens'[u] = tokens[u]
    BY <1>1, <2>4
  <2> QED
    BY <2>1, <2>3, <2>5, <2>6, <2>7 DEF x
<1>4. /\ call' \in [Devices -> [step : Steps, token : Nat, seen : BOOLEAN]]
      /\ call'[c].step = "issue"
      /\ \A d \in Devices : /\ call'[d].token = call[d].token /\ call'[d].seen = call[d].seen
                            /\ d # c => call'[d].step = call[d].step
  BY <1>1, <1>2 DEF Steps
<1>5. Families' = Families
  BY <1>3 DEF Families
<1>6. TokensTyped'
  <2>1. \A u \in raced' : u \in DOMAIN tokens' /\ tokens'[u].used
    BY <1>1, <1>2, <1>3 DEF TokensInv, TokensTyped
  <2>2. \A d \in Devices :
           /\ call'[d].step \in {"find", "mark", "issue", "reuse"} =>
                  call'[d].token \in DOMAIN tokens'
           /\ ~call'[d].seen
    BY <1>1, <1>3, <1>4 DEF TokensInv, TokensTyped
  <2>3. condemned' \subseteq Families'
    BY <1>2, <1>5 DEF TokensInv, TokensTyped
  <2> QED
    BY <1>3, <1>4, <2>1, <2>2, <2>3 DEF TokensTyped
<1>7. FamiliesCounted' /\ TicketsOnce'
  BY <1>2, <1>5 DEF TokensInv, FamiliesCounted, TicketsOnce
<1>8. RevokedOrLate'
  BY <1>2, <1>3 DEF TokensInv, RevokedOrLate
<1>9. UsedLetGo'
  <2> SUFFICES ASSUME NEW u \in DOMAIN tokens, tokens'[u].used
               PROVE  \E d \in Devices : ~(call'[d].step = "mark" /\ call'[d].token = u)
    BY <1>3 DEF UsedLetGo
  <2>1. CASE u = t
    BY <1>4
  <2>2. CASE u # t
    <3>1. PICK d \in Devices : ~(call[d].step = "mark" /\ call[d].token = u)
      BY <1>3, <2>2 DEF TokensInv, UsedLetGo
    <3> QED
      BY <1>1, <1>4, <2>2, <3>1
  <2> QED
    BY <2>1, <2>2
<1>10. \A f : /\ IsFiniteSet(Unused(f)) /\ Cardinality(Unused(f)) \in Nat
              /\ IsFiniteSet(Issuing(f)) /\ Cardinality(Issuing(f)) \in Nat
              /\ IsFiniteSet(RacedIn(f)) /\ Cardinality(RacedIn(f)) \in Nat
  BY CountedAreFinite DEF TokensInv
<1>11. IsFiniteSet(Devices) /\ Cardinality(Devices) \in Nat
  BY AccountsAssumption, FS_CardinalityType
<1>12. ASSUME NEW f \in Families
       PROVE  Cardinality(Unused(f)') + Cardinality(Issuing(f)')
                <= 1 + Cardinality(RacedIn(f)') * (Cardinality(Devices) - 1)
  <2> DEFINE n == Cardinality(Devices) - 1
  <2>1. Cardinality(Unused(f)) + Cardinality(Issuing(f)) <= 1 + Cardinality(RacedIn(f)) * n
    BY DEF TokensInv, FewUnused
  <2>2. CASE f # g
    <3>1. Unused(f)' = Unused(f)
      BY <1>1, <1>3, <2>2 DEF Unused
    <3>2. RacedIn(f)' = RacedIn(f)
      BY <1>1, <1>2, <1>3, <2>2 DEF RacedIn, TokensInv, TokensTyped
    <3>3. Issuing(f)' = Issuing(f)
      BY <1>1, <1>2, <1>3, <1>4, <2>2 DEF Issuing, TokensInv, TokensTyped
    <3> QED
      BY <2>1, <3>1, <3>2, <3>3
  <2>3. CASE f = g /\ ~tokens[t].used
    <3>1. Unused(f)' = Unused(f) \ {t} /\ t \in Unused(f)
      BY <1>1, <1>3, <2>3 DEF Unused
    <3>2. RacedIn(f)' = RacedIn(f)
      BY <1>1, <1>2, <1>3, <2>3 DEF RacedIn, TokensInv, TokensTyped
    <3>3. Issuing(f)' = Issuing(f) \cup {c}
      BY <1>1, <1>2, <1>3, <1>4, <2>3 DEF Issuing, TokensInv, TokensTyped
    <3>4. Cardinality(Unused(f)') = Cardinality(Unused(f)) - 1
      BY ZenonT(40), <1>10, <3>1, FS_RemoveElement
    <3>5. /\ Cardinality(Issuing(f)') <= Cardinality(Issuing(f)) + 1
          /\ Cardinality(Issuing(f)') \in Nat
      <4>1. CASE c \in Issuing(f)
        <5>1. Issuing(f)' = Issuing(f)
          BY <3>3, <4>1
        <5> QED
          BY <5>1, <1>10
      <4>2. CASE c \notin Issuing(f)
        <5>1. Cardinality(Issuing(f) \cup {c}) = Cardinality(Issuing(f)) + 1
          BY <4>2, <1>10, FS_AddElement
        <5> QED
          BY <3>3, <5>1, <1>10
      <4> QED
        BY <4>1, <4>2
    <3> DEFINE product == Cardinality(RacedIn(f)) * n
    <3>6. product \in Int
      BY <1>10, <1>11
    <3> HIDE DEF product
    <3>7. Cardinality(Unused(f)') + Cardinality(Issuing(f)') <= 1 + product
      BY <2>1, <3>4, <3>5, <3>6, <1>10 DEF product
    <3> QED
      BY <3>2, <3>7 DEF product
  <2>4. CASE f = g /\ tokens[t].used /\ t \in raced
    <3>1. raced' = raced
      BY <1>2, <2>4
    <3>2. Unused(f)' = Unused(f)
      BY <1>1, <1>3, <2>4 DEF Unused
    <3>3. RacedIn(f)' = RacedIn(f)
      BY <1>3, <3>1 DEF RacedIn, TokensInv, TokensTyped
    <3>4. Issuing(f)' = Issuing(f)
      <4>1. ASSUME NEW d \in Devices
            PROVE  d \in Issuing(f)' <=> d \in Issuing(f)
        <5>1. CASE d = c
          <6>1. c \in Issuing(f)
            BY <1>1, <2>4 DEF Issuing
          <6>2. tokens'[call'[c].token].family = f
            BY <1>1, <1>3, <1>4, <2>4
          <6> QED
            BY <1>4, <5>1, <6>1, <6>2 DEF Issuing
        <5>2. CASE d # c
          <6>1. /\ call'[d].step = call[d].step /\ call'[d].token = call[d].token
            BY <1>4, <5>2
          <6>2. call[d].step \in {"mark", "issue"} =>
                    tokens'[call[d].token].family = tokens[call[d].token].family
            BY <1>3 DEF TokensInv, TokensTyped
          <6> QED
            BY <3>1, <6>1, <6>2 DEF Issuing
        <5> QED
          BY <5>1, <5>2
      <4>2. Issuing(f)' \subseteq Devices /\ Issuing(f) \subseteq Devices
        BY DEF Issuing
      <4> QED
        BY <4>1, <4>2
    <3> QED
      BY <2>1, <3>2, <3>3, <3>4
  <2>5. CASE f = g /\ tokens[t].used /\ t \notin raced
    <3> DEFINE holders == {d \in Devices : call[d].step = "mark" /\ call[d].token = t}
    <3>1. PICK other \in Devices : other \notin holders
      BY <1>1, <2>5 DEF TokensInv, UsedLetGo
    <3>2. Unused(f)' = Unused(f)
      BY <1>1, <1>3, <2>5 DEF Unused
    <3>3. RacedIn(f)' = RacedIn(f) \cup {t} /\ t \notin RacedIn(f)
      BY <1>1, <1>2, <1>3, <2>5 DEF RacedIn, TokensInv, TokensTyped
    <3>4. Issuing(f)' = Issuing(f) \cup holders
      BY <1>1, <1>2, <1>3, <1>4, <2>5 DEF Issuing, TokensInv, TokensTyped
    <3>5. holders \subseteq Devices \ {other}
      BY <3>1
    <3> HIDE DEF holders
    <3>6. /\ IsFiniteSet(Devices \ {other}) /\ Cardinality(Devices \ {other}) = n
      BY <1>11, FS_RemoveElement
    <3>7. IsFiniteSet(holders) /\ Cardinality(holders) <= n /\ Cardinality(holders) \in Nat
      BY <3>5, <3>6, FS_Subset, FS_CardinalityType
    <3>8. /\ Cardinality(Issuing(f)') <= Cardinality(Issuing(f)) + n
          /\ Cardinality(Issuing(f)') \in Nat
      <4>1. /\ IsFiniteSet(Issuing(f) \cup holders)
            /\ Cardinality(Issuing(f) \cup holders)
                 = Cardinality(Issuing(f)) + Cardinality(holders)
                    - Cardinality(Issuing(f) \cap holders)
        BY <1>10, <3>7, FS_Union
      <4>2. Cardinality(Issuing(f) \cap holders) \in Nat
        BY <1>10, FS_Intersection, FS_CardinalityType
      <4>3. Cardinality(Issuing(f) \cup holders) \in Nat
        BY <4>1, FS_CardinalityType
      <4>4. Cardinality(Issuing(f) \cup holders) <= Cardinality(Issuing(f)) + n
        BY <4>1, <4>2, <4>3, <1>10, <1>11, <3>7
      <4> QED
        BY <4>3, <4>4, <3>4
    <3>9. Cardinality(RacedIn(f)') = Cardinality(RacedIn(f)) + 1
      BY <1>10, <3>3, FS_AddElement
    <3>10. n \in Int
      BY <1>11
    <3> HIDE DEF n
    <3>11. (Cardinality(RacedIn(f)) + 1) * n = Cardinality(RacedIn(f)) * n + n
      BY <1>10, <3>10
    <3> DEFINE product == Cardinality(RacedIn(f)) * n
    <3>12. product \in Int
      BY <1>10, <3>10
    <3>13. Cardinality(Unused(f)) + Cardinality(Issuing(f)) <= 1 + product
      BY <2>1
    <3>14. Cardinality(RacedIn(f)') * n = product + n
      BY <3>9, <3>11
    <3> HIDE DEF product
    <3>15. Cardinality(Unused(f)) + Cardinality(Issuing(f)') <= 1 + (product + n)
      BY <1>10, <3>8, <3>10, <3>12, <3>13
    <3>16. Cardinality(Unused(f)') + Cardinality(Issuing(f)') <=
               1 + Cardinality(RacedIn(f)') * n
      BY <3>2, <3>14, <3>15
    <3> QED
      BY <3>16 DEF n
  <2> QED
    BY <2>2, <2>3, <2>4, <2>5
<1>13. FewUnused'
  BY <1>5, <1>12 DEF FewUnused
<1> QED
  BY <1>6, <1>7, <1>8, <1>9, <1>13 DEF TokensInv

-----------------------------------------------------------------------------
LEMMA SameTokens ==
    ASSUME TokensInv, UNCHANGED <<tokens, call, condemned, raced>>
    PROVE  TokensTyped' /\ FamiliesCounted' /\ RevokedOrLate' /\ UsedLetGo' /\ FewUnused'
<1>1. Families' = Families
  BY DEF Families
<1>2. TokensTyped' /\ FamiliesCounted' /\ RevokedOrLate' /\ UsedLetGo'
  BY <1>1 DEF TokensInv, TokensTyped, FamiliesCounted, RevokedOrLate, UsedLetGo
<1>3. ASSUME NEW f
      PROVE  Unused(f)' = Unused(f) /\ Issuing(f)' = Issuing(f) /\ RacedIn(f)' = RacedIn(f)
  BY DEF Unused, Issuing, RacedIn
<1>4. FewUnused'
  BY <1>1, <1>3 DEF TokensInv, FewUnused
<1> QED
  BY <1>2, <1>4

LEMMA NothingKeeps ==
    ASSUME TokensInv, UNCHANGED <<tokens, call, condemned, raced, tickets, sockets>>
    PROVE  TokensInv'
BY SameTokens DEF TokensInv, TicketsOnce

LEMMA TicketsKeep ==
    ASSUME TokensInv, TicketsNext
    PROVE  TokensInv'
<1>1. UNCHANGED <<tokens, call, condemned, raced>>
  BY DEF TicketsNext, IssueWsTicket, Upgrade, TicketExpires, tokenVars
<1>2. TokensTyped' /\ FamiliesCounted' /\ RevokedOrLate' /\ UsedLetGo' /\ FewUnused'
  BY <1>1, SameTokens
<1>3. TicketsOnce'
  <2>1. CASE IssueWsTicket
    BY <2>1 DEF IssueWsTicket, TokensInv, TicketsOnce
  <2>2. ASSUME NEW k \in tickets, Upgrade(k)
        PROVE  TicketsOnce'
    BY <2>2 DEF Upgrade, TokensInv, TicketsOnce
  <2>3. ASSUME NEW k \in tickets, TicketExpires(k)
        PROVE  TicketsOnce'
    BY <2>3 DEF TicketExpires, TokensInv, TicketsOnce
  <2> QED
    BY <2>1, <2>2, <2>3 DEF TicketsNext
<1> QED
  BY <1>2, <1>3 DEF TokensInv

\* Signing in opens a family; signing out and failures let go of a token.
LEMMA SigningKeeps ==
    ASSUME TokensInv, NEW c \in Devices, SignsInAndOut(c) \/ CallFails(c)
    PROVE  TokensInv'
<1> DEFINE new == [family |-> NewFamily, used |-> FALSE, revoked |-> FALSE, late |-> FALSE]
<1>1. call[c] \in [step : Steps, token : Nat, seen : BOOLEAN] /\ ~call[c].seen
  BY DEF TokensInv, TokensTyped
<1>2. new \in Token
  BY FS_CardinalityType DEF TokensInv, FamiliesCounted, NewFamily, Token
<1>3. CASE RegisterInserts(c)
  <2>1. Quiet(c)
    <3>1. [call[c] EXCEPT !.step = "welcome"]
            \in
                [step : Steps \ {"mark", "issue"}, token : Nat, seen : {FALSE}]
      BY <1>1 DEF Steps
    <3> QED
      BY <1>3, <3>1 DEF RegisterInserts, Step, Quiet
  <2> QED
    BY <1>3, <2>1, QuietKeeps DEF RegisterInserts
<1>4. CASE Logout(c)
  <2>1. Quiet(c)
    <3>1. [call[c] EXCEPT !.step = "revoke"]
            \in
                [step : Steps \ {"mark", "issue"}, token : Nat, seen : {FALSE}]
      BY <1>1 DEF Steps
    <3> QED
      BY <1>4, <3>1 DEF Logout, Step, Quiet
  <2> QED
    BY <1>4, <2>1, QuietKeeps DEF Logout
<1>5. CASE CallFails(c)
  <2>1. Quiet(c)
    BY <1>5 DEF CallFails, Ends, Quiet, Waiting, Steps
  <2> QED
    BY <1>5, <2>1, QuietKeeps DEF CallFails, tokenVars
<1>6. CASE RegisterIssues(c)
  <2>1. /\ tokens' = Append(tokens, new) /\ call' = [call EXCEPT ![c] = Waiting]
        /\ UNCHANGED <<condemned, raced, tickets, sockets>>
    BY <1>6 DEF RegisterIssues, GenerateTokens, Ends, ticketVars
  <2> HIDE DEF new
  <2>2. new.family = NewFamily /\ ~new.used /\ ~new.revoked
    BY DEF new
  <2> QED
    BY <1>2, <2>1, <2>2, IssuedKeeps
<1>7. CASE Login(c)
  <2>1. /\ tokens' = Append(tokens, new) /\ call' = call
        /\ UNCHANGED <<condemned, raced, tickets, sockets>>
    BY <1>7 DEF Login, GenerateTokens, ticketVars
  <2> HIDE DEF new
  <2>2. new.family = NewFamily /\ ~new.used /\ ~new.revoked
    BY DEF new
  <2> QED
    BY <1>2, <2>1, <2>2, IssuedKeeps
<1> QED
  BY <1>3, <1>4, <1>5, <1>6, <1>7 DEF SignsInAndOut

LEMMA RefreshKeeps ==
    ASSUME TokensInv, NEW c \in Devices, NEW t \in DOMAIN tokens, Refresh(c, t)
    PROVE  TokensInv'
<1>1. t \in Nat
  BY DEF TokensInv, TokensTyped
<1>2. Quiet(c)
  BY <1>1 DEF Refresh, Quiet, Steps
<1> QED
  BY <1>2, QuietKeeps DEF Refresh, tokenVars

LEMMA IssueSuccessorKeeps ==
    ASSUME TokensInv, NEW c \in Devices, IssueSuccessor(c)
    PROVE  TokensInv'
<1> DEFINE family == tokens[call[c].token].family
           late == family \in condemned /\ ~call[c].seen
           new == [family |-> family, used |-> FALSE, revoked |-> FALSE, late |-> late]
<1>1. /\ call[c].step = "issue" /\ call[c].token \in DOMAIN tokens /\ ~call[c].seen
      /\ tokens[call[c].token] \in Token
  BY DEF IssueSuccessor, At, TokensInv, TokensTyped
<1>2. new \in Token /\ (family \in condemned => late)
  BY <1>1 DEF Token
<1>3. /\ tokens' = Append(tokens, new) /\ call' = [call EXCEPT ![c] = Waiting]
      /\ UNCHANGED <<condemned, raced, tickets, sockets>>
  BY DEF IssueSuccessor, GenerateTokens, Ends, ticketVars
<1> HIDE DEF late
<1>4. new.family = family /\ ~new.used /\ ~new.revoked /\ new.late = late
  OBVIOUS
<1> HIDE DEF new
<1> QED
  BY <1>1, <1>2, <1>3, <1>4, IssuedKeeps

LEMMA InvalidateKeeps ==
    ASSUME TokensInv, NEW c \in Devices,
           InvalidateTokenFamily(c) \/ RevokePlayerTokens(c)
    PROVE  TokensInv'
<1>1. CASE InvalidateTokenFamily(c)
  <2>1. {tokens[call[c].token].family} \in SUBSET Families
    BY <1>1 DEF InvalidateTokenFamily, At, TokensInv, TokensTyped, Families
  <2> QED
    BY <1>1, <2>1, RevokedKeeps DEF InvalidateTokenFamily, ticketVars
<1>2. CASE RevokePlayerTokens(c)
  <2>1. Families \in SUBSET Families
    OBVIOUS
  <2> QED
    BY <1>2, <2>1, RevokedKeeps DEF RevokePlayerTokens, ticketVars
<1> QED
  BY <1>1, <1>2

LEMMA TokensStep == TokensInv /\ [AccountsNext]_accountVars => TokensInv'
<1> SUFFICES ASSUME TokensInv, [AccountsNext]_accountVars
             PROVE  TokensInv'
  OBVIOUS
<1>1. CASE UNCHANGED accountVars
  BY <1>1, NothingKeeps DEF accountVars
<1>2. CASE TicketsNext
  BY <1>2, TicketsKeep
<1>3. CASE TokensNext
  <2>1. CASE AccessExpires
    BY <2>1, NothingKeeps DEF AccessExpires, ticketVars
  <2>2. ASSUME NEW c \in Devices, SignsInAndOut(c) \/ CallFails(c)
        PROVE  TokensInv'
    BY <2>2, SigningKeeps
  <2>3. ASSUME NEW c \in Devices, NEW t \in DOMAIN tokens, Refresh(c, t)
        PROVE  TokensInv'
    BY <2>3, RefreshKeeps
  <2>4. ASSUME NEW c \in Devices, InvalidateTokenFamily(c) \/ RevokePlayerTokens(c)
        PROVE  TokensInv'
    BY <2>4, InvalidateKeeps
  <2>5. ASSUME NEW c \in Devices, FindToken(c)
        PROVE  TokensInv'
    BY <2>5, FoundKeeps
  <2>6. ASSUME NEW c \in Devices, MarkUsed(c)
        PROVE  TokensInv'
    BY <2>6, MarkedKeeps
  <2>7. ASSUME NEW c \in Devices, IssueSuccessor(c)
        PROVE  TokensInv'
    BY <2>7, IssueSuccessorKeeps
  <2> QED
    BY <1>3, <2>1, <2>2, <2>3, <2>4, <2>5, <2>6, <2>7 DEF TokensNext
<1> QED
  BY <1>1, <1>2, <1>3 DEF AccountsNext

\* Whatever refreshes, logouts and reuses overlap, a revoked family keeps only tokens whose
\* refresh found it good before; a family has one live token unless two refreshes overlapped.
THEOREM TokensKept == AccountsSpec => []TokensSound
<1>1. AccountsSpec => []TokensInv
  BY TokensStart, TokensStep, PTL DEF AccountsSpec
<1> QED
  BY <1>1, TokensInvAnswers, PTL

(***************************************************************************)
(* Linked wallets.  What waits to be written was signed with a key of its  *)
(* player; that links stay apart is the business of the last check.        *)
(***************************************************************************)
\* The player a free slot names may be none, if there are no members.
Answerers == Members \cup {CHOOSE p \in Members : TRUE}

WalletsTyped ==
    /\ challenge \in [Members -> [number : Nat, wallet : Wallets \cup {NoWallet}]]
    /\ issued \in 0..MaxChallenges
    /\ link \in [Members -> Wallets \cup {NoWallet}]
    /\ answer \in [Answers -> [step : {"none", "look", "write"}, player : Answerers,
                               wallet : Wallets \cup {NoWallet}]]
    /\ answered \in [1..MaxChallenges -> Nat]

\* A challenge that waits has a number of its own, which nobody has answered.
ChallengesWait ==
    /\ \A n \in 1..MaxChallenges : answered[n] <= 1 /\ (n > issued => answered[n] = 0)
    /\ \A p \in Members : challenge[p] # NoChallenge =>
        /\ challenge[p].number \in 1..issued /\ answered[challenge[p].number] = 0
        /\ \A q \in Members \ {p} : challenge[q].number # challenge[p].number

\* What is to be written was signed with a key of its player.
AnswersSigned ==
    \A i \in Answers : answer[i].step # "none" =>
        answer[i].player \in Members /\ answer[i].wallet \in KeysOf[answer[i].player]

LinksApart ==
    /\ \A p \in Members : link[p] = NoWallet \/ link[p] \in KeysOf[p]
    /\ \A p, q \in Members : p # q => link[p] = NoWallet \/ link[p] # link[q]

WalletsInv == WalletsTyped /\ ChallengesWait /\ AnswersSigned /\ LinksApart

-----------------------------------------------------------------------------
LEMMA WalletsStart == WalletInit => WalletsInv
<1> SUFFICES ASSUME WalletInit
             PROVE  WalletsInv
  OBVIOUS
<1>1. WalletsTyped
  BY WalletAssumption DEF WalletInit, WalletsTyped, NoChallenge, NoAnswer, Answerers
<1> QED
  BY <1>1 DEF WalletInit, WalletsInv, ChallengesWait, AnswersSigned, LinksApart, NoAnswer

\* A slot that ends, or asks on, keeps what was signed.
LEMMA ChallengeKeeps ==
    ASSUME WalletsInv, NEW p \in Members, NEW w \in Wallets, WalletChallenge(p, w)
    PROVE  WalletsInv'
<1>1. /\ issued' = issued + 1 /\ issued' \in 1..MaxChallenges
      /\ challenge' = [challenge EXCEPT ![p] = [number |-> issued', wallet |-> w]]
      /\ UNCHANGED <<link, answer, answered>>
  BY WalletAssumption DEF WalletChallenge, WalletsInv, WalletsTyped
<1>2. WalletsTyped'
  BY <1>1 DEF WalletsInv, WalletsTyped
<1>3. ChallengesWait'
  <2>1. \A n \in 1..MaxChallenges : answered'[n] <= 1 /\ (n > issued' => answered'[n] = 0)
    BY <1>1 DEF WalletsInv, WalletsTyped, ChallengesWait
  <2>2. \A q \in Members : challenge[q].number \in 0..issued
    BY DEF WalletsInv, WalletsTyped, ChallengesWait, NoChallenge
  <2>3. ASSUME NEW q \in Members, challenge'[q] # NoChallenge
        PROVE  /\ challenge'[q].number \in 1..issued' /\ answered'[challenge'[q].number] = 0
               /\ \A r \in Members \ {q} : challenge'[r].number # challenge'[q].number
    <3>1. /\ challenge'[p].number = issued'
          /\ \A r \in Members \ {p} : challenge'[r] = challenge[r]
      BY <1>1 DEF WalletsInv, WalletsTyped
    <3>2. CASE q = p
      <4>1. answered'[issued'] = 0
        BY <1>1 DEF WalletsInv, WalletsTyped, ChallengesWait
      <4> QED
        BY <1>1, <2>2, <3>1, <3>2, <4>1 DEF WalletsInv, WalletsTyped
    <3>3. CASE q # p
      BY <1>1, <2>2, <2>3, <3>1, <3>3 DEF WalletsInv, WalletsTyped, ChallengesWait
    <3> QED
      BY <3>2, <3>3
  <2> QED
    BY <2>1, <2>3 DEF ChallengesWait
<1> QED
  BY <1>1, <1>2, <1>3 DEF WalletsInv, AnswersSigned, LinksApart

LEMMA TakenKeeps ==
    ASSUME WalletsInv, NEW p \in Members, Taken(p), UNCHANGED issued,
           challenge[p] # NoChallenge, UNCHANGED answered \/ Counted(p)
    PROVE  /\ challenge' \in [Members -> [number : Nat, wallet : Wallets \cup {NoWallet}]]
           /\ answered' \in [1..MaxChallenges -> Nat]
           /\ ChallengesWait'
<1>1. challenge' = [challenge EXCEPT ![p] = NoChallenge]
  BY DEF Taken
<1> DEFINE k == challenge[p].number
<1>2. /\ k \in 1..issued /\ k \in 1..MaxChallenges /\ answered[k] = 0
      /\ \A q \in Members \ {p} : challenge[q].number # k
  BY WalletAssumption DEF WalletsInv, WalletsTyped, ChallengesWait
<1>3. answered' = answered \/ answered' = [answered EXCEPT ![k] = @ + 1]
  BY DEF Counted
<1> HIDE DEF k
<1>4. /\ answered' \in [1..MaxChallenges -> Nat]
      /\ answered'[k] <= 1
      /\ \A n \in 1..MaxChallenges : n # k => answered'[n] = answered[n]
  <2>1. answered \in [1..MaxChallenges -> Nat]
    BY DEF WalletsInv, WalletsTyped
  <2>2. CASE answered' = answered
    BY <1>2, <2>1, <2>2
  <2>3. CASE answered' = [answered EXCEPT ![k] = @ + 1]
    BY <1>2, <2>1, <2>3
  <2> QED
    BY <1>3, <2>2, <2>3
<1>5. challenge' \in [Members -> [number : Nat, wallet : Wallets \cup {NoWallet}]]
  BY <1>1 DEF WalletsInv, WalletsTyped, NoChallenge
<1>6. /\ challenge'[p] = NoChallenge
      /\ \A q \in Members \ {p} : challenge'[q] = challenge[q]
  BY <1>1 DEF WalletsInv, WalletsTyped
<1>7. \A n \in 1..MaxChallenges : answered'[n] <= 1 /\ (n > issued' => answered'[n] = 0)
  BY <1>2, <1>4 DEF WalletsInv, WalletsTyped, ChallengesWait
<1>8. ASSUME NEW q \in Members, challenge'[q] # NoChallenge
      PROVE  /\ challenge'[q].number \in 1..issued' /\ answered'[challenge'[q].number] = 0
             /\ \A r \in Members \ {q} : challenge'[r].number # challenge'[q].number
  <2>1. q # p /\ challenge[q] # NoChallenge
    BY <1>6, <1>8
  <2>2. /\ challenge[q].number \in 1..issued /\ answered[challenge[q].number] = 0
        /\ \A r \in Members \ {q} : challenge[r].number # challenge[q].number
    BY <2>1 DEF WalletsInv, ChallengesWait
  <2>3. challenge[q].number \in 1..MaxChallenges /\ challenge[q].number # k
    BY <1>2, <2>1, <2>2, WalletAssumption DEF WalletsInv, WalletsTyped, k
  <2>4. NoChallenge.number = 0
    BY DEF NoChallenge
  <2> QED
    BY <1>4, <1>6, <2>1, <2>2, <2>3, <2>4
<1> QED
  BY <1>4, <1>5, <1>7, <1>8 DEF ChallengesWait

LEMMA TakeKeeps ==
    ASSUME WalletsInv, NEW i \in Answers, NEW p \in Members, NEW w \in Wallets,
           NEW signer \in Wallets, TakeChallenge(i, p, w, signer)
    PROVE  WalletsInv'
<1>1. /\ challenge' \in [Members -> [number : Nat, wallet : Wallets \cup {NoWallet}]]
      /\ answered' \in [1..MaxChallenges -> Nat]
      /\ ChallengesWait'
  BY TakenKeeps DEF TakeChallenge
<1>2. UNCHANGED <<issued, link>>
  BY DEF TakeChallenge
<1> DEFINE x == [step |-> "look", player |-> p, wallet |-> w]
<1>3. \/ answer' = answer
      \/ answer' = [answer EXCEPT ![i] = x] /\ w \in KeysOf[p]
  BY DEF TakeChallenge, VerifyWalletSignature
<1>4. x \in [step : {"none", "look", "write"}, player : Answerers,
             wallet : Wallets \cup {NoWallet}]
  BY DEF Answerers
<1>5. x.player = p /\ x.wallet = w
  OBVIOUS
<1> HIDE DEF x
<1>6. WalletsTyped'
  <2>1. answer' \in [Answers -> [step : {"none", "look", "write"}, player : Answerers,
                                wallet : Wallets \cup {NoWallet}]]
    <3>1. CASE answer' = answer
      BY <3>1 DEF WalletsInv, WalletsTyped
    <3>2. CASE answer' = [answer EXCEPT ![i] = x]
      BY <3>2, <1>4 DEF WalletsInv, WalletsTyped
    <3> QED
      BY <1>3, <3>1, <3>2
  <2> QED
    BY <1>1, <1>2, <2>1 DEF WalletsInv, WalletsTyped
<1>7. AnswersSigned'
  BY <1>3, <1>4, <1>5 DEF WalletsInv, WalletsTyped, AnswersSigned
<1> QED
  BY <1>1, <1>2, <1>6, <1>7 DEF WalletsInv, LinksApart

LEMMA EndedKeeps ==
    ASSUME WalletsInv, NEW i \in Answers, Ended(i)
    PROVE  /\ answer' \in [Answers -> [step : {"none", "look", "write"}, player : Answerers,
                                       wallet : Wallets \cup {NoWallet}]]
           /\ AnswersSigned'
<1>1. answer' = [answer EXCEPT ![i] = NoAnswer(answer[i].player)]
  BY DEF Ended
<1>2. /\ answer[i].player \in Answerers
      /\ NoAnswer(answer[i].player) \in [step : {"none", "look", "write"}, player : Answerers,
                                         wallet : Wallets \cup {NoWallet}]
      /\ NoAnswer(answer[i].player).step = "none"
  BY DEF WalletsInv, WalletsTyped, NoAnswer
<1> QED
  BY <1>1, <1>2 DEF WalletsInv, WalletsTyped, AnswersSigned

LEMMA AnswerKeeps ==
    ASSUME WalletsInv, NEW i \in Answers, LookForOwner(i) \/ WriteLink(i) \/ AnswerFails(i)
    PROVE  WalletsInv'
<1>1. UNCHANGED <<challenge, issued, answered>>
  BY DEF LookForOwner, WriteLink, AnswerFails
<1>2. ChallengesWait'
  BY <1>1 DEF WalletsInv, ChallengesWait
<1>3. CASE Ended(i) /\ UNCHANGED link
  BY <1>1, <1>2, <1>3, EndedKeeps DEF WalletsInv, WalletsTyped, LinksApart
<1>4. CASE answer' = [answer EXCEPT ![i].step = "write"] /\ answer[i].step = "look"
           /\ UNCHANGED link
  <2>1. /\ answer' \in [Answers -> [step : {"none", "look", "write"}, player : Answerers,
                                    wallet : Wallets \cup {NoWallet}]]
        /\ \A j \in Answers : answer'[j].player = answer[j].player
               /\ answer'[j].wallet = answer[j].wallet
        /\ \A j \in Answers \ {i} : answer'[j].step = answer[j].step
    BY <1>4 DEF WalletsInv, WalletsTyped
  <2>2. AnswersSigned'
    BY <1>4, <2>1 DEF WalletsInv, AnswersSigned
  <2> QED
    BY <1>1, <1>2, <1>4, <2>1, <2>2 DEF WalletsInv, WalletsTyped, LinksApart
<1>5. CASE WriteLink(i)
  <2> DEFINE p == answer[i].player
             w == answer[i].wallet
  <2>1. p \in Members /\ w \in KeysOf[p] /\ w \in Wallets
    BY <1>5, WalletAssumption DEF WriteLink, WalletsInv, WalletsTyped, AnswersSigned
  <2>2. /\ Ended(i)
        /\ link' = link \/ (link' = [link EXCEPT ![p] = w]
               /\ \A q \in Members \ {p} : link[q] # w)
    BY <1>5 DEF WriteLink, IndexAllows
  <2> HIDE DEF p, w
  <2>3. link' \in [Members -> Wallets \cup {NoWallet}]
    BY <2>1, <2>2 DEF WalletsInv, WalletsTyped
  <2>4. LinksApart'
    <3>1. link \in [Members -> Wallets \cup {NoWallet}]
      BY DEF WalletsInv, WalletsTyped
    <3>2. CASE link' = link
      BY <3>2 DEF WalletsInv, LinksApart
    <3>3. CASE link' = [link EXCEPT ![p] = w] /\ \A q \in Members \ {p} : link[q] # w
      <4>1. link'[p] = w /\ \A q \in Members \ {p} : link'[q] = link[q]
        BY <2>1, <3>1, <3>3
      <4> QED
        BY <2>1, <3>3, <4>1 DEF WalletsInv, LinksApart
    <3> QED
      BY <2>2, <3>2, <3>3
  <2> QED
    BY <1>1, <1>2, <2>2, <2>3, <2>4, EndedKeeps DEF WalletsInv, WalletsTyped
<1> QED
  BY <1>3, <1>4, <1>5 DEF LookForOwner, AnswerFails

LEMMA UnlinkKeeps ==
    ASSUME WalletsInv, NEW p \in Members, WalletUnlink(p) \/ ChallengeExpires(p)
    PROVE  WalletsInv'
<1>1. CASE WalletUnlink(p)
  BY <1>1 DEF WalletUnlink, WalletsInv, WalletsTyped, ChallengesWait, AnswersSigned,
     LinksApart
<1>2. CASE ChallengeExpires(p)
  <2>1. UNCHANGED <<issued, link, answer, answered>>
    BY <1>2 DEF ChallengeExpires
  <2>2. /\ challenge' \in [Members -> [number : Nat, wallet : Wallets \cup {NoWallet}]]
        /\ ChallengesWait'
    BY <1>2, TakenKeeps DEF ChallengeExpires
  <2> QED
    BY <2>1, <2>2 DEF WalletsInv, WalletsTyped, AnswersSigned, LinksApart
<1> QED
  BY <1>1, <1>2

LEMMA WalletsStep == WalletsInv /\ [WalletNext]_walletVars => WalletsInv'
<1> SUFFICES ASSUME WalletsInv, [WalletNext]_walletVars
             PROVE  WalletsInv'
  OBVIOUS
<1>1. CASE UNCHANGED walletVars
  BY <1>1 DEF walletVars, WalletsInv, WalletsTyped, ChallengesWait, AnswersSigned,
     LinksApart
<1>2. CASE WalletNext
  BY <1>2, ChallengeKeeps, TakeKeeps, AnswerKeeps, UnlinkKeeps DEF WalletNext
<1> QED
  BY <1>1, <1>2

\* Whatever answers to challenges overlap, a linked wallet is its player's own, no two
\* players have the same, and a challenge is answered once: WalletsSound.
THEOREM WalletsKept == WalletSpec => []WalletsSound
<1>1. WalletSpec => []WalletsInv
  BY WalletsStart, WalletsStep, PTL DEF WalletSpec
<1>2. WalletsInv => WalletsSound
  BY DEF WalletsInv, ChallengesWait, LinksApart, WalletsSound
<1> QED
  BY <1>1, <1>2, PTL

(***************************************************************************)
(* Players.  What an update of preferences writes contains all that is     *)
(* saved as long as it is the only one; rows are never taken away.         *)
(***************************************************************************)
PlayerRow == [name : Usernames \cup {NoName}, enabled : BOOLEAN, settings : SUBSET Settings]

VisitRecord ==
    [step : {"none", "insert", "look", "update", "delete", "ban", "record", "save"},
     player : Owners \cup {NoName}, name : Usernames \cup {NoName},
     settings : SUBSET Settings]

PlayersTyped ==
    /\ {primary, replica} \subseteq [Owners -> PlayerRow]
    /\ visit \in [Visits -> VisitRecord]
    /\ overlapped \subseteq Owners
    /\ wanted \in [Owners -> SUBSET Settings]
    /\ left \subseteq [player : Owners, savers : SUBSET Visits]
    /\ unaudited \in Nat

\* A request concerns a player; unless it is to make him he has a row, and rows are never
\* taken away: not those the replica shows, nor those of deleted players.
RowsKept ==
    /\ \A p \in Owners :
        /\ primary[p].enabled => primary[p].name # NoName
        /\ replica[p].enabled => replica[p].name # NoName
        /\ replica[p].name # NoName => primary[p].name # NoName
        /\ primary[p].name = NoName => wanted[p] = {}
    /\ \A v \in Visits :
        /\ visit[v].step # "none" => visit[v].player \in Owners
        /\ visit[v].step = "insert" => visit[v].name # NoName
        /\ visit[v].step \notin {"none", "insert"} => primary[visit[v].player].name # NoName
    /\ \A d \in left : primary[d.player].name # NoName

\* The one request that saves preferences of a player saves all there are.
SavesAll ==
    \A p \in Owners \ overlapped :
        /\ wanted[p] \subseteq primary[p].settings
        /\ \A v \in Saving(p) :
            primary[p].settings \subseteq visit[v].settings /\ \A u \in Saving(p) : u = v

PlayersInv == PlayersTyped /\ RowsKept /\ SavesAll /\ PlayersSound

-----------------------------------------------------------------------------
LEMMA PlayersStart == PlayersInit => PlayersInv
<1> SUFFICES ASSUME PlayersInit
             PROVE  PlayersInv
  OBVIOUS
<1>1. PlayersTyped /\ RowsKept /\ SavesAll
  BY DEF PlayersInit, PlayersTyped, PlayerRow, VisitRecord, NoPlayer, NoVisit, RowsKept,
     SavesAll, Saving
<1>2. {v \in Visits : visit[v].step = "record"} = {}
  BY DEF PlayersInit, NoVisit
<1>3. PlayersSound
  <2>1. Cardinality({v \in Visits : visit[v].step = "record"}) = 0
    BY <1>2, FS_EmptySet
  <2>2. \A p \in Owners : primary[p].name = NoName /\ wanted[p] = {}
    BY DEF PlayersInit, NoPlayer
  <2>3. left = {} /\ unaudited = 0
    BY DEF PlayersInit
  <2> QED
    BY <2>1, <2>2, <2>3 DEF PlayersSound
<1> QED
  BY <1>1, <1>3 DEF PlayersInv

Recording == {v \in Visits : visit[v].step = "record"}

LEMMA RecordingFinite ==
    ASSUME NEW S \in SUBSET Visits
    PROVE  IsFiniteSet(S) /\ Cardinality(S) \in Nat
BY PlayerRowsAssumption, FS_Subset, FS_CardinalityType

\* What a request that has read, or that ends, leaves true.
LEMMA VisitKeeps ==
    ASSUME PlayersInv, NEW v \in Visits, NEW x \in VisitRecord,
           visit' = [visit EXCEPT ![v] = x],
           x.step # "none" => x.player \in Owners,
           x.step = "insert" => x.name # NoName,
           x.step \notin {"none", "insert"} => primary[x.player].name # NoName,
           x.step \notin {"save", "record"},
           UNCHANGED <<primary, replica, overlapped, wanted, left, unaudited>>
    PROVE  PlayersInv'
<1>1. /\ visit' \in [Visits -> VisitRecord] /\ visit'[v] = x
      /\ \A u \in Visits \ {v} : visit'[u] = visit[u]
  BY DEF PlayersInv, PlayersTyped
<1>2. PlayersTyped' /\ RowsKept'
  BY <1>1 DEF PlayersInv, PlayersTyped, RowsKept
<1>3. \A p \in Owners : Saving(p)' \subseteq Saving(p)
          /\ \A u \in Saving(p)' : visit'[u] = visit[u]
  BY <1>1 DEF Saving
<1>4. SavesAll'
  BY <1>3 DEF PlayersInv, SavesAll
<1>5. Recording' \subseteq Recording /\ Recording \in SUBSET Visits
  BY <1>1 DEF Recording
<1>6. /\ Cardinality(Recording') <= Cardinality(Recording)
      /\ Cardinality(Recording) \in Nat /\ Cardinality(Recording') \in Nat
  BY <1>5, RecordingFinite, FS_Subset, FS_CardinalityType
<1>7. unaudited' >= Cardinality(Recording')
  BY <1>6 DEF PlayersInv, PlayersTyped, PlayersSound, Recording
<1>8. PlayersSound'
  BY <1>3, <1>7 DEF PlayersInv, PlayersTyped, PlayersSound, Recording
<1> QED
  BY <1>2, <1>4, <1>8 DEF PlayersInv

LEMMA ReadingKeeps ==
    ASSUME PlayersInv, NEW v \in Visits, NEW p \in Owners,
           \/ \E name \in Usernames : AddPlayer(v, p, name) \/ UpdatePlayer(v, p, name)
           \/ DeletePlayer(v, p)
    PROVE  PlayersInv'
<1>1. ASSUME NEW name \in Usernames, AddPlayer(v, p, name)
      PROVE  PlayersInv'
  <2> DEFINE x == [step |-> "insert", player |-> p, name |-> name, settings |-> {}]
  <2>1. visit' = [visit EXCEPT ![v] = x]
    BY <1>1 DEF AddPlayer, Goes
  <2>2. x \in VisitRecord /\ x.step = "insert" /\ x.player = p /\ x.name # NoName
    BY PlayerRowsAssumption DEF VisitRecord
  <2> HIDE DEF x
  <2> QED
    BY <1>1, <2>1, <2>2, VisitKeeps DEF AddPlayer
<1>2. ASSUME NEW name \in Usernames, UpdatePlayer(v, p, name)
      PROVE  PlayersInv'
  <2> DEFINE x == [step |-> "look", player |-> p, name |-> name, settings |-> {}]
  <2>1. visit' = [visit EXCEPT ![v] = x]
    BY <1>2 DEF UpdatePlayer, Goes
  <2>2. x \in VisitRecord /\ x.step = "look" /\ x.player = p
    BY DEF VisitRecord
  <2>3. primary[p].name # NoName
    BY <1>2 DEF UpdatePlayer, Found, PlayersInv, RowsKept
  <2> HIDE DEF x
  <2> QED
    BY <1>2, <2>1, <2>2, <2>3, VisitKeeps DEF UpdatePlayer
<1>3. ASSUME DeletePlayer(v, p)
      PROVE  PlayersInv'
  <2>1. PICK step \in {"delete", "ban"} : Goes(v, step, p, NoName, {})
    BY <1>3 DEF DeletePlayer
  <2> DEFINE x == [step |-> step, player |-> p, name |-> NoName, settings |-> {}]
  <2>2. visit' = [visit EXCEPT ![v] = x]
    BY <2>1 DEF Goes
  <2>3. x \in VisitRecord /\ x.step \in {"delete", "ban"} /\ x.player = p
    BY DEF VisitRecord
  <2>4. primary[p].name # NoName
    BY <1>3 DEF DeletePlayer, Found, PlayersInv, RowsKept
  <2> HIDE DEF x
  <2> QED
    BY <1>3, <2>2, <2>3, <2>4, VisitKeeps DEF DeletePlayer
<1> QED
  BY <1>1, <1>2, <1>3

LEMMA LookingKeeps ==
    ASSUME PlayersInv, NEW v \in Visits, LookUpName(v) \/ VisitFails(v)
    PROVE  PlayersInv'
<1>1. CASE LookUpName(v)
  <2> DEFINE p == visit[v].player
             name == IF UsernameTaken(replica, p, visit[v].name) THEN NoName
                     ELSE visit[v].name
             x == [step |-> "update", player |-> p, name |-> name, settings |-> {}]
  <2>1. visit' = [visit EXCEPT ![v] = x]
    BY <1>1 DEF LookUpName, Goes
  <2>2. p \in Owners /\ name \in Usernames \cup {NoName} /\ primary[p].name # NoName
    BY <1>1 DEF LookUpName, PlayersInv, PlayersTyped, VisitRecord, RowsKept
  <2> HIDE DEF name
  <2>3. x \in VisitRecord /\ x.step = "update" /\ x.player = p
    BY <2>2 DEF VisitRecord
  <2> HIDE DEF x
  <2> QED
    BY <1>1, <2>1, <2>2, <2>3, VisitKeeps DEF LookUpName
<1>2. CASE VisitFails(v)
  <2>1. NoVisit \in VisitRecord /\ NoVisit.step = "none"
    BY DEF NoVisit, VisitRecord
  <2> QED
    BY <1>2, <2>1, VisitKeeps DEF VisitFails, EndsVisit
<1> QED
  BY <1>1, <1>2

LEMMA ReadPreferencesKeeps ==
    ASSUME PlayersInv, NEW v \in Visits, NEW p \in Owners, NEW key \in Settings,
           ReadPreferences(v, p, key)
    PROVE  PlayersInv'
<1> DEFINE all == SettingsRead(p) \cup {key}
           x == [step |-> "save", player |-> p, name |-> NoName, settings |-> all]
<1>1. /\ visit' = [visit EXCEPT ![v] = x] /\ visit[v].step = "none"
      /\ primary[p].enabled
      /\ overlapped' = IF Saving(p) # {} THEN overlapped \cup {p} ELSE overlapped
      /\ UNCHANGED <<primary, replica, wanted, left, unaudited>>
  BY DEF ReadPreferences, Goes, Free, Found
<1>2. all \subseteq Settings /\ primary[p].settings \subseteq all
  BY DEF SettingsRead, PlayersInv, PlayersTyped, PlayerRow
<1> HIDE DEF all
<1>3. x \in VisitRecord /\ x.step = "save" /\ x.player = p /\ x.settings = all
  BY <1>2 DEF VisitRecord
<1> HIDE DEF x
<1>4. /\ visit' \in [Visits -> VisitRecord] /\ visit'[v] = x
      /\ \A u \in Visits \ {v} : visit'[u] = visit[u]
  BY <1>1, <1>3 DEF PlayersInv, PlayersTyped
<1>5. primary[p].name # NoName /\ \A d \in left : d.player # p
  BY <1>1 DEF PlayersInv, RowsKept, PlayersSound
<1>6. PlayersTyped' /\ RowsKept'
  <2>1. overlapped' \subseteq Owners
    BY <1>1 DEF PlayersInv, PlayersTyped
  <2>2. PlayersTyped'
    BY <1>1, <1>4, <2>1 DEF PlayersInv, PlayersTyped
  <2>3. RowsKept'
    BY <1>1, <1>3, <1>4, <1>5 DEF PlayersInv, PlayersTyped, RowsKept
  <2> QED
    BY <2>2, <2>3
<1>7. /\ Saving(p)' = Saving(p) \cup {v}
      /\ \A q \in Owners \ {p} : Saving(q)' = Saving(q)
      /\ \A q \in Owners : v \notin Saving(q) /\ \A u \in Saving(q) : visit'[u] = visit[u]
  BY <1>1, <1>3, <1>4 DEF Saving
<1>8. SavesAll'
  <2> SUFFICES ASSUME NEW q \in Owners, q \notin overlapped'
               PROVE  /\ wanted[q] \subseteq primary[q].settings
                      /\ \A w \in Saving(q)' : /\ primary[q].settings \subseteq visit'[w].settings
                                               /\ \A u \in Saving(q)' : u = w
    BY <1>1 DEF SavesAll
  <2>1. q \notin overlapped
    BY <1>1
  <2>2. CASE q = p
    <3>1. Saving(p) = {}
      BY <1>1, <2>2
    <3>2. Saving(p)' = {v}
      BY <1>7, <3>1
    <3> QED
      BY <1>2, <1>3, <1>4, <2>1, <2>2, <3>2 DEF PlayersInv, SavesAll
  <2>3. CASE q # p
    BY <1>7, <2>1, <2>3 DEF PlayersInv, SavesAll
  <2> QED
    BY <2>2, <2>3
<1>9. Recording' = Recording
  BY <1>1, <1>3, <1>4 DEF Recording
<1>10. PlayersSound'
  <2>1. unaudited' >= Cardinality(Recording')
    BY <1>1, <1>9 DEF PlayersInv, PlayersSound, Recording
  <2>2. \A d \in left : Saving(d.player)' = Saving(d.player)
    BY <1>5, <1>7 DEF PlayersInv, PlayersTyped
  <2>3. \A q \in Owners : q \in overlapped' \/ wanted[q] \subseteq primary[q].settings
    BY <1>1 DEF PlayersInv, PlayersSound
  <2> QED
    BY <1>1, <2>1, <2>2, <2>3 DEF PlayersInv, PlayersSound, Recording
<1> QED
  BY <1>6, <1>8, <1>10 DEF PlayersInv

-----------------------------------------------------------------------------
\* What a request that writes a row and ends has to see to.
LEMMA WrittenKeeps ==
    ASSUME PlayersInv, NEW v \in Visits, EndsVisit(v),
           NEW p \in Owners, NEW row \in PlayerRow, primary' = [primary EXCEPT ![p] = row],
           NEW all \in SUBSET Settings, wanted' = [wanted EXCEPT ![p] = all],
           UNCHANGED <<replica, overlapped, left, unaudited>>,
           row.name # NoName,
           \A q \in Owners \ {p} : primary[q].name # row.name,
           row.enabled => \A d \in left : d.player # p,
           p \notin overlapped => /\ all \subseteq row.settings
                                 /\ \A u \in Saving(p) \ {v} : row.settings \subseteq visit[u].settings
    PROVE  PlayersInv'
<1>1. /\ visit' \in [Visits -> VisitRecord] /\ visit'[v] = NoVisit
      /\ \A u \in Visits \ {v} : visit'[u] = visit[u]
  BY DEF EndsVisit, NoVisit, VisitRecord, PlayersInv, PlayersTyped
<1>2. /\ primary' \in [Owners -> PlayerRow] /\ primary'[p] = row
      /\ \A q \in Owners \ {p} : primary'[q] = primary[q]
      /\ wanted' \in [Owners -> SUBSET Settings] /\ wanted'[p] = all
      /\ \A q \in Owners \ {p} : wanted'[q] = wanted[q]
  BY DEF PlayersInv, PlayersTyped
<1>3. PlayersTyped'
  BY <1>1, <1>2 DEF PlayersInv, PlayersTyped
<1>4. RowsKept'
  <2>1. \A q \in Owners :
          /\ primary'[q].enabled => primary'[q].name # NoName
          /\ replica'[q].name # NoName => primary'[q].name # NoName
          /\ replica'[q].enabled => replica'[q].name # NoName
          /\ primary'[q].name = NoName => wanted'[q] = {}
    BY <1>2 DEF PlayersInv, RowsKept
  <2>2. \A u \in Visits :
          /\ visit'[u].step # "none" => visit'[u].player \in Owners
          /\ visit'[u].step = "insert" => visit'[u].name # NoName
          /\ visit'[u].step \notin {"none", "insert"} =>
                 primary'[visit'[u].player].name # NoName
    BY <1>1, <1>2 DEF PlayersInv, RowsKept, NoVisit
  <2>3. \A d \in left : primary'[d.player].name # NoName
    BY <1>2 DEF PlayersInv, PlayersTyped, RowsKept
  <2> QED
    BY <2>1, <2>2, <2>3 DEF RowsKept
<1>5. \A q \in Owners : /\ Saving(q)' = Saving(q) \ {v}
                        /\ \A u \in Saving(q)' : visit'[u] = visit[u]
  BY <1>1 DEF Saving, NoVisit
<1>6. SavesAll'
  <2> SUFFICES ASSUME NEW q \in Owners, q \notin overlapped
               PROVE  /\ wanted'[q] \subseteq primary'[q].settings
                      /\ \A w \in Saving(q)' : /\ primary'[q].settings \subseteq visit'[w].settings
                                               /\ \A u \in Saving(q)' : u = w
    BY DEF SavesAll
  <2>1. \A w, u \in Saving(q)' : u = w
    BY <1>5 DEF PlayersInv, SavesAll
  <2>2. CASE q = p
    BY <1>2, <1>5, <2>1, <2>2
  <2>3. CASE q # p
    BY <1>2, <1>5, <2>1, <2>3 DEF PlayersInv, SavesAll
  <2> QED
    BY <2>2, <2>3
<1>7. Recording' \subseteq Recording /\ Recording \in SUBSET Visits
  BY <1>1 DEF Recording, NoVisit
<1>8. /\ Cardinality(Recording') <= Cardinality(Recording)
      /\ Cardinality(Recording) \in Nat /\ Cardinality(Recording') \in Nat
  BY <1>7, RecordingFinite, FS_Subset, FS_CardinalityType
<1>9. PlayersSound'
  <2>1. unaudited' >= Cardinality(Recording')
    BY <1>8 DEF PlayersInv, PlayersTyped, PlayersSound, Recording
  <2>2. \A q, r \in Owners : q # r =>
            primary'[q].name = NoName \/ primary'[q].name # primary'[r].name
    BY <1>2 DEF PlayersInv, PlayersSound
  <2>3. \A d \in left : ~primary'[d.player].enabled
    BY <1>2 DEF PlayersInv, PlayersTyped, PlayersSound
  <2>4. \A d \in left : Saving(d.player)' \subseteq UNION {e.savers : e \in left}
    BY <1>5 DEF PlayersInv, PlayersTyped, PlayersSound
  <2>5. \A q \in Owners : q \in overlapped \/ wanted'[q] \subseteq primary'[q].settings
    BY <1>6 DEF SavesAll
  <2> QED
    BY <2>1, <2>2, <2>3, <2>4, <2>5 DEF PlayersSound, Recording
<1> QED
  BY <1>3, <1>4, <1>6, <1>9 DEF PlayersInv

LEMMA EndKeeps ==
    ASSUME PlayersInv, NEW v \in Visits, EndsVisit(v),
           UNCHANGED <<primary, replica, overlapped, wanted, left, unaudited>>
    PROVE  PlayersInv'
<1>1. NoVisit \in VisitRecord /\ NoVisit.step = "none"
  BY DEF NoVisit, VisitRecord
<1> QED
  BY <1>1, VisitKeeps DEF EndsVisit

LEMMA InsertKeeps ==
    ASSUME PlayersInv, NEW v \in Visits, InsertPlayer(v)
    PROVE  PlayersInv'
<1> DEFINE p == visit[v].player
           row == [name |-> visit[v].name, enabled |-> TRUE, settings |-> {}]
           all == {}
<1>1. /\ EndsVisit(v) /\ UNCHANGED <<replica, overlapped, wanted, left, unaudited>>
      /\ p \in Owners /\ visit[v].name \in Usernames \cup {NoName} /\ visit[v].name # NoName
  BY DEF InsertPlayer, PlayersInv, PlayersTyped, VisitRecord, RowsKept
<1>2. CASE primary' = primary
  BY <1>1, <1>2, EndKeeps
<1>3. CASE /\ primary[p].name = NoName /\ ~UsernameTaken(primary, p, visit[v].name)
           /\ Writes(p, row)
  <2>1. primary' = [primary EXCEPT ![p] = row]
    BY <1>3 DEF Writes
  <2>2. row \in PlayerRow /\ row.name = visit[v].name /\ row.settings = {}
    BY <1>1 DEF PlayerRow
  <2>3. \A q \in Owners \ {p} : primary[q].name # visit[v].name
    BY <1>3 DEF UsernameTaken
  <2>4. /\ wanted[p] = {} /\ \A d \in left : d.player # p
        /\ wanted' = [wanted EXCEPT ![p] = {}]
    BY <1>1, <1>3 DEF PlayersInv, PlayersTyped, RowsKept
  <2>5. /\ EndsVisit(v) /\ p \in Owners /\ row \in PlayerRow /\ all \in SUBSET Settings
        /\ primary' = [primary EXCEPT ![p] = row] /\ wanted' = [wanted EXCEPT ![p] = all]
        /\ UNCHANGED <<replica, overlapped, left, unaudited>>
        /\ row.name # NoName /\ \A q \in Owners \ {p} : primary[q].name # row.name
        /\ row.enabled => \A d \in left : d.player # p
        /\ p \notin overlapped => /\ all \subseteq row.settings
                                 /\ \A u \in Saving(p) \ {v} : row.settings \subseteq visit[u].settings
    BY <1>1, <2>1, <2>2, <2>3, <2>4
  <2> HIDE DEF p, row, all
  <2> QED
    BY ZenonT(40), <2>5, WrittenKeeps
<1> QED
  BY <1>2, <1>3 DEF InsertPlayer

LEMMA ProfileKeeps ==
    ASSUME PlayersInv, NEW v \in Visits, WriteProfile(v)
    PROVE  PlayersInv'
<1> DEFINE p == visit[v].player
           row == [primary[p] EXCEPT !.name = visit[v].name]
           all == wanted[p]
<1>1. /\ EndsVisit(v) /\ UNCHANGED <<replica, overlapped, wanted, left, unaudited>>
      /\ p \in Owners /\ visit[v].name \in Usernames \cup {NoName}
             /\ primary[p].name # NoName
      /\ primary[p] \in PlayerRow
  BY DEF WriteProfile, PlayersInv, PlayersTyped, VisitRecord, RowsKept
<1>2. CASE primary' = primary
  BY <1>1, <1>2, EndKeeps
<1>3. CASE /\ visit[v].name # NoName /\ ~UsernameTaken(primary, p, visit[v].name)
           /\ Writes(p, row)
  <2>1. primary' = [primary EXCEPT ![p] = row]
    BY <1>3 DEF Writes
  <2>2. /\ row \in PlayerRow /\ row.name = visit[v].name
        /\ row.settings = primary[p].settings /\ row.enabled = primary[p].enabled
    BY <1>1 DEF PlayerRow
  <2>3. \A q \in Owners \ {p} : primary[q].name # visit[v].name
    BY <1>3 DEF UsernameTaken
  <2>4. /\ wanted[p] \subseteq Settings
        /\ wanted' = [wanted EXCEPT ![p] = wanted[p]]
        /\ primary[p].enabled => \A d \in left : d.player # p
        /\ p \notin overlapped => /\ wanted[p] \subseteq primary[p].settings
                                 /\ \A u \in Saving(p) : primary[p].settings \subseteq visit[u].settings
    BY <1>1 DEF PlayersInv, PlayersTyped, PlayersSound, SavesAll
  <2>5. /\ EndsVisit(v) /\ p \in Owners /\ row \in PlayerRow /\ all \in SUBSET Settings
        /\ primary' = [primary EXCEPT ![p] = row] /\ wanted' = [wanted EXCEPT ![p] = all]
        /\ UNCHANGED <<replica, overlapped, left, unaudited>>
        /\ row.name # NoName /\ \A q \in Owners \ {p} : primary[q].name # row.name
        /\ row.enabled => \A d \in left : d.player # p
        /\ p \notin overlapped => /\ all \subseteq row.settings
                                 /\ \A u \in Saving(p) \ {v} : row.settings \subseteq visit[u].settings
    BY <1>1, <1>3, <2>1, <2>2, <2>3, <2>4
  <2> HIDE DEF p, row, all
  <2> QED
    BY ZenonT(40), <2>5, WrittenKeeps
<1> QED
  BY <1>2, <1>3 DEF WriteProfile

LEMMA PreferencesKeep ==
    ASSUME PlayersInv, NEW v \in Visits, WritePreferences(v)
    PROVE  PlayersInv'
<1> DEFINE p == visit[v].player
           row == [primary[p] EXCEPT !.settings = visit[v].settings]
           all == wanted[p] \cup visit[v].settings
<1>1. /\ EndsVisit(v) /\ UNCHANGED <<replica, overlapped, left, unaudited>>
      /\ p \in Owners /\ visit[v].settings \subseteq Settings /\ primary[p].name # NoName
      /\ primary[p] \in PlayerRow /\ v \in Saving(p)
  BY DEF WritePreferences, PlayersInv, PlayersTyped, VisitRecord, RowsKept, Saving
<1>2. /\ primary' = [primary EXCEPT ![p] = row]
      /\ wanted' = [wanted EXCEPT ![p] = all]
  BY DEF WritePreferences, Writes
<1>3. /\ row \in PlayerRow /\ row.name = primary[p].name
      /\ row.settings = visit[v].settings /\ row.enabled = primary[p].enabled
  BY <1>1 DEF PlayerRow
<1>4. /\ all \subseteq Settings
      /\ primary[p].enabled => \A d \in left : d.player # p
      /\ \A q \in Owners \ {p} : primary[q].name # primary[p].name
      /\ p \notin overlapped => /\ all \subseteq visit[v].settings
                               /\ \A u \in Saving(p) : u = v
  BY <1>1 DEF PlayersInv, PlayersTyped, PlayersSound, SavesAll
<1>5. /\ EndsVisit(v) /\ p \in Owners /\ row \in PlayerRow /\ all \in SUBSET Settings
      /\ primary' = [primary EXCEPT ![p] = row] /\ wanted' = [wanted EXCEPT ![p] = all]
      /\ UNCHANGED <<replica, overlapped, left, unaudited>>
      /\ row.name # NoName /\ \A q \in Owners \ {p} : primary[q].name # row.name
      /\ row.enabled => \A d \in left : d.player # p
      /\ p \notin overlapped => /\ all \subseteq row.settings
                               /\ \A u \in Saving(p) \ {v} : row.settings \subseteq visit[u].settings
  BY <1>1, <1>2, <1>3, <1>4
<1> HIDE DEF p, row, all
<1> QED
  BY ZenonT(40), <1>5, WrittenKeeps

\* A deleted player's requests are those that had read him.
LEMMA DeletionKeeps ==
    ASSUME PlayersInv, NEW v \in Visits, WriteDeletion(v)
    PROVE  PlayersInv'
<1> DEFINE p == visit[v].player
           row == [primary[p] EXCEPT !.enabled = FALSE]
           leaver == [player |-> p, savers |-> Saving(p)]
           record == [step |-> "record", player |-> p, name |-> NoName, settings |-> {}]
<1>1. /\ p \in Owners /\ primary[p].name # NoName /\ primary[p] \in PlayerRow
      /\ visit[v].step \in {"delete", "ban"}
      /\ UNCHANGED <<replica, overlapped, wanted>>
  BY DEF WriteDeletion, PlayersInv, PlayersTyped, VisitRecord, RowsKept
<1>2. /\ primary' = [primary EXCEPT ![p] = row]
      /\ left' = left \cup {leaver}
      /\ \/ visit' = [visit EXCEPT ![v] = NoVisit] /\ unaudited' = unaudited
         \/ visit' = [visit EXCEPT ![v] = record] /\ unaudited' = unaudited + 1
  BY DEF WriteDeletion, Writes, EndsVisit, Goes
<1>3. /\ row \in PlayerRow /\ row.name = primary[p].name
      /\ row.settings = primary[p].settings /\ ~row.enabled
  BY <1>1 DEF PlayerRow
<1>4. /\ leaver \in [player : Owners, savers : SUBSET Visits]
      /\ leaver.player = p /\ leaver.savers = Saving(p)
  BY <1>1 DEF Saving
<1>5. /\ NoVisit \in VisitRecord /\ record \in VisitRecord
      /\ NoVisit.step = "none" /\ record.step = "record" /\ record.player = p
  BY <1>1 DEF NoVisit, VisitRecord
<1> HIDE DEF p, row, leaver, record
<1>6. /\ visit' \in [Visits -> VisitRecord] /\ visit'[v] \in {NoVisit, record}
      /\ \A u \in Visits \ {v} : visit'[u] = visit[u]
  <2>1. CASE visit' = [visit EXCEPT ![v] = NoVisit]
    BY <1>5, <2>1 DEF PlayersInv, PlayersTyped
  <2>2. CASE visit' = [visit EXCEPT ![v] = record]
    BY <1>5, <2>2 DEF PlayersInv, PlayersTyped
  <2> QED
    BY <1>2, <2>1, <2>2
<1>7. /\ primary' \in [Owners -> PlayerRow] /\ primary'[p] = row
      /\ \A q \in Owners \ {p} : primary'[q] = primary[q]
  BY <1>1, <1>2, <1>3 DEF PlayersInv, PlayersTyped
<1>8. PlayersTyped'
  BY <1>1, <1>2, <1>4, <1>6, <1>7 DEF PlayersInv, PlayersTyped
<1>9. \A q \in Owners : /\ primary'[q].name = primary[q].name
                        /\ primary'[q].settings = primary[q].settings
  BY <1>3, <1>7
<1>10. /\ ~primary'[p].enabled
       /\ \A q \in Owners : ~primary[q].enabled => ~primary'[q].enabled
  BY <1>3, <1>7
<1>11. \A q \in Owners : /\ Saving(q)' = Saving(q)
                         /\ \A u \in Saving(q) : visit'[u] = visit[u]
  <2>2. visit'[v].step # "save" /\ visit[v].step # "save"
    BY <1>1, <1>5, <1>6
  <2>3. ASSUME NEW q \in Owners
        PROVE  Saving(q)' = Saving(q) /\ \A u \in Saving(q) : visit'[u] = visit[u]
    BY <1>6, <2>2 DEF Saving
  <2> QED
    BY <2>3
<1>12. RowsKept'
  <2>1. \A q \in Owners :
          /\ primary'[q].enabled => primary'[q].name # NoName
          /\ replica'[q].name # NoName => primary'[q].name # NoName
          /\ replica'[q].enabled => replica'[q].name # NoName
          /\ primary'[q].name = NoName => wanted'[q] = {}
    BY <1>1, <1>9, <1>10 DEF PlayersInv, RowsKept
  <2>2. ASSUME NEW u \in Visits
        PROVE  /\ visit'[u].step # "none" => visit'[u].player \in Owners
               /\ visit'[u].step = "insert" => visit'[u].name # NoName
               /\ visit'[u].step \notin {"none", "insert"} =>
                      primary'[visit'[u].player].name # NoName
    <3>1. CASE u = v
      BY <1>1, <1>5, <1>6, <1>9, <3>1
    <3>2. CASE u # v
      BY <1>6, <1>9, <3>2 DEF PlayersInv, RowsKept
    <3> QED
      BY <3>1, <3>2
  <2>3. \A d \in left' : primary'[d.player].name # NoName
    BY <1>1, <1>2, <1>4, <1>9 DEF PlayersInv, PlayersTyped, RowsKept
  <2> QED
    BY <2>1, <2>2, <2>3 DEF RowsKept
<1>13. SavesAll'
  BY <1>1, <1>9, <1>11 DEF PlayersInv, SavesAll
<1>14. unaudited' >= Cardinality(Recording')
  <2>1. IsFiniteSet(Recording) /\ Cardinality(Recording) \in Nat
    BY RecordingFinite DEF Recording
  <2>2. v \notin Recording /\ unaudited >= Cardinality(Recording) /\ unaudited \in Nat
    BY <1>1 DEF Recording, PlayersInv, PlayersTyped, PlayersSound
  <2>3. CASE visit' = [visit EXCEPT ![v] = NoVisit] /\ unaudited' = unaudited
    <3>1. visit'[v] = NoVisit
      BY <2>3 DEF PlayersInv, PlayersTyped
    <3>2. Recording' = Recording
      BY <1>1, <1>5, <1>6, <3>1 DEF Recording
    <3> QED
      BY <2>2, <2>3, <3>2
  <2>4. CASE visit' = [visit EXCEPT ![v] = record] /\ unaudited' = unaudited + 1
    <3>1. visit'[v] = record
      BY <2>4 DEF PlayersInv, PlayersTyped
    <3>2. Recording' = Recording \cup {v}
      BY <1>5, <1>6, <3>1 DEF Recording
    <3>3. Cardinality(Recording \cup {v}) = Cardinality(Recording) + 1
      BY <2>1, <2>2, FS_AddElement
    <3> QED
      BY <2>1, <2>2, <2>4, <3>2, <3>3
  <2> QED
    BY <1>2, <2>3, <2>4
<1>15. PlayersSound'
  <2>1. \A q, r \in Owners : q # r =>
            primary'[q].name = NoName \/ primary'[q].name # primary'[r].name
    BY <1>9 DEF PlayersInv, PlayersSound
  <2>2. \A d \in left' : ~primary'[d.player].enabled
    BY <1>2, <1>4, <1>10 DEF PlayersInv, PlayersTyped, PlayersSound
  <2>3. \A d \in left' : Saving(d.player)' \subseteq UNION {e.savers : e \in left'}
    <3> SUFFICES ASSUME NEW d \in left', NEW u \in Saving(d.player)'
                 PROVE  \E e \in left' : u \in e.savers
      OBVIOUS
    <3>1. CASE d = leaver
      BY <1>1, <1>2, <1>4, <1>11, <3>1
    <3>2. CASE d # leaver
      <4>1. d \in left /\ d.player \in Owners
        BY <1>2, <3>2 DEF PlayersInv, PlayersTyped
      <4>2. u \in UNION {e.savers : e \in left}
        BY <1>11, <4>1 DEF PlayersInv, PlayersSound
      <4> QED
        BY <1>2, <4>2
    <3> QED
      BY <3>1, <3>2
  <2>4. \A q \in Owners : q \in overlapped' \/ wanted'[q] \subseteq primary'[q].settings
    BY <1>13 DEF SavesAll
  <2> QED
    BY <1>14, <2>1, <2>2, <2>3, <2>4 DEF PlayersSound, Recording
<1> QED
  BY <1>8, <1>12, <1>13, <1>15 DEF PlayersInv

LEMMA RecordKeeps ==
    ASSUME PlayersInv, NEW v \in Visits, RecordAdminAction(v)
    PROVE  PlayersInv'
<1>1. /\ visit' = [visit EXCEPT ![v] = NoVisit] /\ visit[v].step = "record"
      /\ unaudited' = unaudited - 1
      /\ UNCHANGED <<primary, replica, overlapped, wanted, left>>
  BY DEF RecordAdminAction, EndsVisit
<1>2. /\ visit' \in [Visits -> VisitRecord] /\ visit'[v] = NoVisit
      /\ \A u \in Visits \ {v} : visit'[u] = visit[u]
      /\ NoVisit.step = "none"
  BY <1>1 DEF PlayersInv, PlayersTyped, NoVisit, VisitRecord
<1>3. /\ IsFiniteSet(Recording) /\ v \in Recording /\ Recording' = Recording \ {v}
  BY <1>1, <1>2, RecordingFinite DEF Recording
<1>4. /\ Cardinality(Recording') = Cardinality(Recording) - 1
      /\ Cardinality(Recording') \in Nat /\ Cardinality(Recording) \in Nat
  BY <1>3, FS_RemoveElement, FS_CardinalityType
<1>5. unaudited' \in Nat /\ unaudited' >= Cardinality(Recording')
  <2>1. unaudited \in Nat /\ unaudited >= Cardinality(Recording)
    BY DEF PlayersInv, PlayersTyped, PlayersSound, Recording
  <2>2. unaudited - 1 \in Nat /\ unaudited - 1 >= Cardinality(Recording) - 1
    BY <1>4, <2>1
  <2> QED
    BY <1>1, <1>4, <2>2
<1>6. \A q \in Owners : Saving(q)' = Saving(q) /\ \A u \in Saving(q) : visit'[u] = visit[u]
  BY <1>1, <1>2 DEF Saving
<1>7. PlayersTyped'
  BY <1>1, <1>2, <1>5 DEF PlayersInv, PlayersTyped
<1>8. RowsKept'
  BY <1>1, <1>2 DEF PlayersInv, RowsKept
<1>9. SavesAll'
  BY <1>1, <1>6 DEF PlayersInv, SavesAll
<1>10. PlayersSound'
  <2>1. /\ \A q, r \in Owners : q # r =>
               primary'[q].name = NoName \/ primary'[q].name # primary'[r].name
        /\ \A d \in left' : ~primary'[d.player].enabled
        /\ \A q \in Owners : q \in overlapped' \/ wanted'[q] \subseteq primary'[q].settings
    BY <1>1 DEF PlayersInv, PlayersSound
  <2>2. \A d \in left' : Saving(d.player)' \subseteq UNION {e.savers : e \in left'}
    <3> SUFFICES ASSUME NEW d \in left
                 PROVE  Saving(d.player)' \subseteq UNION {e.savers : e \in left}
      BY <1>1
    <3>1. d.player \in Owners
      BY DEF PlayersInv, PlayersTyped
    <3> QED
      BY <1>6, <3>1 DEF PlayersInv, PlayersSound
  <2> QED
    BY <1>5, <2>1, <2>2 DEF PlayersSound, Recording
<1> QED
  BY <1>7, <1>8, <1>9, <1>10 DEF PlayersInv

LEMMA PlayersStep == PlayersInv /\ [PlayersNext]_playerVars => PlayersInv'
<1> SUFFICES ASSUME PlayersInv, [PlayersNext]_playerVars
             PROVE  PlayersInv'
  OBVIOUS
<1>1. CASE UNCHANGED playerVars
  BY <1>1 DEF playerVars, PlayersInv, PlayersTyped, RowsKept, SavesAll, Saving, PlayersSound
<1>2. CASE CatchesUp
  <2>1. UNCHANGED <<primary, visit, writes, overlapped, wanted, left, unaudited>>
            /\ replica' = primary
    BY <1>2 DEF CatchesUp
  <2>2. \A p \in Owners : Saving(p)' = Saving(p)
    BY <2>1 DEF Saving
  <2>3. PlayersTyped' /\ RowsKept'
    BY <2>1 DEF PlayersInv, PlayersTyped, RowsKept
  <2>4. SavesAll'
    BY <2>1, <2>2 DEF PlayersInv, SavesAll
  <2>5. PlayersSound'
    <3>1. \A d \in left' : Saving(d.player)' \subseteq UNION {e.savers : e \in left'}
      BY <2>1, <2>2 DEF PlayersInv, PlayersTyped, PlayersSound
    <3>2. unaudited' >= Cardinality({v \in Visits : visit'[v].step = "record"})
      BY <2>1 DEF PlayersInv, PlayersSound
    <3> QED
      BY <2>1, <3>1, <3>2 DEF PlayersInv, PlayersSound
  <2> QED
    BY <2>3, <2>4, <2>5 DEF PlayersInv
<1>3. ASSUME NEW v \in Visits, NEW p \in Owners, NEW key \in Settings, ReadPreferences(v,
             p, key)
      PROVE  PlayersInv'
  BY <1>3, ReadPreferencesKeeps
<1>4. ASSUME NEW v \in Visits,
             \E p \in Owners : \/ \E name \in Usernames :
                                      AddPlayer(v, p, name) \/ UpdatePlayer(v, p, name)
                              \/ DeletePlayer(v, p)
      PROVE  PlayersInv'
  BY <1>4, ReadingKeeps
<1>5. ASSUME NEW v \in Visits,
             \/ InsertPlayer(v) \/ LookUpName(v) \/ WriteProfile(v) \/ WriteDeletion(v)
             \/ RecordAdminAction(v) \/ WritePreferences(v) \/ VisitFails(v)
      PROVE  PlayersInv'
  BY <1>5, InsertKeeps, LookingKeeps, ProfileKeeps, DeletionKeeps, RecordKeeps,
     PreferencesKeep
<1> QED
  BY <1>1, <1>2, <1>3, <1>4, <1>5 DEF PlayersNext

\* However far the replica is behind, names stay apart, deleted players stay deleted, and
\* preferences are lost only by updates that overlapped: PlayersSound.
THEOREM PlayersKept == PlayersSpec => []PlayersSound
<1>1. PlayersInv => PlayersSound
  BY DEF PlayersInv
<1> QED
  BY <1>1, PlayersStart, PlayersStep, PTL DEF PlayersSpec

(***************************************************************************)
(* Lists of games.  Rows have one order, and it never changes; a walk by   *)
(* cursor has been given a piece of it, and a walk by pages that nothing   *)
(* disturbs the beginning of the list.                                     *)
(***************************************************************************)
ListRow ==
    {Absent} \cup [stamp : Stamps, mine : BOOLEAN, result : {"null", "ongoing", "over"}]

Table == [Rows -> ListRow]

WalkRecord ==
    [step : {"none", "count", "select", "done"}, by : {"cursor", "page"},
     filter : [mine : BOOLEAN, status : Statuses], limit : Nat, total : Nat,
     seen : Seq(Rows)]

-----------------------------------------------------------------------------
\* What an ordered list of rows is.

LEMMA NewerOrders ==
    ASSUME NEW table \in Table
    PROVE  /\ \A r \in Rows : ~Newer(table, r, r)
           /\ \A r, q \in Rows : r # q => Newer(table, r, q) \/ Newer(table, q, r)
           /\ \A r, q \in Rows : ~(Newer(table, r, q) /\ Newer(table, q, r))
           /\ \A r, q, t \in Rows : Newer(table, r, q) /\ Newer(table, q, t) =>
                  Newer(table, r, t)
<1>1. Rows \subseteq Nat /\ \A r \in Rows : table[r].stamp \in Nat
  <2>1. ASSUME NEW r \in Rows  PROVE table[r].stamp \in Nat
    <3>1. table[r] \in ListRow
      BY DEF Table
    <3>2. CASE table[r] = Absent
      BY <3>2 DEF Absent
    <3>3. CASE table[r] # Absent
      BY <3>1, <3>3, ListingAssumption DEF ListRow
    <3> QED
      BY <3>2, <3>3
  <2> QED
    BY <2>1, ListingAssumption
<1> QED
  BY <1>1 DEF Newer

\* The place of a row is the number of those that are newer.
LEMMA Enumeration ==
    ASSUME NEW table \in Table, NEW picked \in SUBSET Rows
    PROVE  \E s \in [1 .. Cardinality(picked) -> picked] :
             \A i, j \in DOMAIN s : i < j => Newer(table, s[i], s[j])
<1> DEFINE n == Cardinality(picked)
           Above(r) == {q \in picked : Newer(table, q, r)}
           place == [r \in picked |-> Cardinality(Above(r)) + 1]
<1>1. IsFiniteSet(picked) /\ n \in Nat
  BY ListingAssumption, FS_Subset, FS_CardinalityType
<1>2. ASSUME NEW r \in picked
      PROVE  IsFiniteSet(Above(r)) /\ Cardinality(Above(r)) \in 0 .. n - 1
  <2>1. Above(r) \in SUBSET picked /\ r \notin Above(r)
    BY NewerOrders
  <2> HIDE DEF Above
  <2>2. /\ IsFiniteSet(Above(r)) /\ Cardinality(Above(r)) \in Nat
        /\ Cardinality(Above(r)) <= n /\ Cardinality(Above(r)) # n
    BY <1>1, <2>1, FS_Subset, FS_CardinalityType
  <2> QED
    BY <1>1, <2>2
<1>3. ASSUME NEW r \in picked, NEW q \in picked, Newer(table, r, q)
      PROVE  place[r] < place[q]
  <2>1. Above(r) \in SUBSET Above(q) /\ r \in Above(q) /\ r \notin Above(r)
    BY <1>3, NewerOrders
  <2> HIDE DEF Above
  <2>2. IsFiniteSet(Above(q)) /\ Cardinality(Above(q)) \in Nat
            /\ Cardinality(Above(r)) \in Nat
    <3>1. IsFiniteSet(Above(q)) /\ IsFiniteSet(Above(r))
      BY <1>2
    <3> QED
      BY <3>1, FS_CardinalityType
  <2>3. Cardinality(Above(r)) <= Cardinality(Above(q))
            /\ Cardinality(Above(r)) # Cardinality(Above(q))
    BY <2>1, <2>2, FS_Subset
  <2>4. Cardinality(Above(r)) < Cardinality(Above(q))
    BY <2>2, <2>3
  <2> QED
    BY <2>2, <2>4
<1>4. place \in [picked -> 1 .. n]
  <2> HIDE DEF Above
  <2>1. ASSUME NEW r \in picked  PROVE Cardinality(Above(r)) + 1 \in 1 .. n
    BY <1>1, <1>2
  <2> QED
    BY <2>1
<1> HIDE DEF place
<1>5. place \in Injection(picked, 1 .. n)
  <2>1. ASSUME NEW r \in picked, NEW q \in picked, r # q  PROVE place[r] # place[q]
    <3>1. place[r] \in Int /\ place[q] \in Int
      BY <1>4
    <3> QED
      BY <1>3, <2>1, <3>1, NewerOrders
  <2> QED
    BY <1>4, <2>1 DEF Injection, IsInjective
<1>6. place \in Surjection(picked, 1 .. n)
  <2>1. IsFiniteSet(1 .. n) /\ Cardinality(1 .. n) = n
    BY <1>1, FS_Interval
  <2> QED
    BY <1>1, <1>5, <2>1, FS_Injection
<1>7. \A i \in 1 .. n : \E r \in picked : place[r] = i
  BY <1>6 DEF Surjection
<1> DEFINE s == [i \in 1 .. n |-> CHOOSE r \in picked : place[r] = i]
<1>8. s \in [1 .. n -> picked] /\ \A i \in 1 .. n : place[s[i]] = i
  BY <1>7
<1> HIDE DEF s
<1>9. ASSUME NEW i \in DOMAIN s, NEW j \in DOMAIN s, i < j
      PROVE  Newer(table, s[i], s[j])
  <2>1. i \in 1 .. n /\ j \in 1 .. n /\ s[i] \in picked /\ s[j] \in picked /\ s[i] # s[j]
    BY <1>8, <1>9
  <2>2. ~Newer(table, s[j], s[i])
    <3>1. place[s[i]] = i /\ place[s[j]] = j
      BY <1>8, <2>1
    <3> QED
      BY <1>3, <1>9, <2>1, <3>1
  <2> QED
    BY <2>1, <2>2, NewerOrders
<1> QED
  BY <1>8, <1>9

LEMMA OrderedList ==
    ASSUME NEW table \in Table, NEW picked \in SUBSET Rows
    PROVE  LET s == Ordered(table, picked) IN
           /\ s \in Seq(picked) /\ Len(s) = Cardinality(picked)
                  /\ Cardinality(picked) \in Nat
           /\ \A i, j \in 1 .. Len(s) : i < j => Newer(table, s[i], s[j])
           /\ \A r \in picked : \E i \in 1 .. Len(s) : s[i] = r
<1> DEFINE n == Cardinality(picked)
           s == Ordered(table, picked)
<1>1. IsFiniteSet(picked) /\ n \in Nat
  BY ListingAssumption, FS_Subset, FS_CardinalityType
<1>2. s \in [1 .. n -> picked] /\ \A i, j \in DOMAIN s : i < j => Newer(table, s[i], s[j])
  BY Enumeration DEF Ordered
<1> HIDE DEF s
<1>3. s \in Seq(picked) /\ Len(s) = n /\ DOMAIN s = 1 .. n
  BY <1>1, <1>2
<1>4. s \in Injection(1 .. n, picked)
  <2>1. ASSUME NEW i \in 1 .. n, NEW j \in 1 .. n, i # j  PROVE s[i] # s[j]
    <3>1. s[i] \in Rows /\ s[j] \in Rows /\ (i < j \/ j < i)
      BY <1>2, <2>1
    <3> QED
      BY <1>2, <1>3, <3>1, NewerOrders
  <2> QED
    BY <1>2, <2>1 DEF Injection, IsInjective
<1>5. s \in Surjection(1 .. n, picked)
  <2>1. IsFiniteSet(1 .. n) /\ Cardinality(1 .. n) = n
    BY <1>1, FS_Interval
  <2> QED
    BY <1>1, <1>4, <2>1, FS_Injection
<1>6. \A r \in picked : \E i \in 1 .. n : s[i] = r
  BY <1>5 DEF Surjection
<1> QED
  BY <1>1, <1>2, <1>3, <1>6 DEF s

-----------------------------------------------------------------------------
\* What a walk knows.

TablesOK ==
    /\ listed \in Table /\ copied \in Table
    /\ \A r \in Rows : copied[r] # Absent =>
        listed[r] # Absent /\ listed[r].stamp = copied[r].stamp

Given(r) == \E i \in 1 .. Len(walk.seen) : walk.seen[i] = r

WalkOK ==
    /\ walk \in WalkRecord /\ disturbed \in BOOLEAN /\ throughout \subseteq Rows
    /\ walk.step = "none" => walk.seen = <<>> /\ throughout = {}
    /\ \A r \in throughout : r \in Fitting(copied, walk.filter)
    /\ \A i \in 1 .. Len(walk.seen) : copied[walk.seen[i]] # Absent
    /\ ~disturbed /\ walk.step # "none" => throughout = Fitting(copied, walk.filter)
    /\ ~disturbed /\ walk.step \in {"select", "done"} =>
        walk.total = Cardinality(Fitting(copied, walk.filter))

\* What a walk by cursor was given is ordered, and what it still wants comes after it.
CursorOK ==
    walk.by = "cursor" =>
        /\ \A i, j \in 1 .. Len(walk.seen) :
            i < j => Newer(copied, walk.seen[i], walk.seen[j])
        /\ walk.step # "done" => \A r \in throughout :
            Given(r) \/ walk.seen = <<>> \/ Newer(copied, Last(walk.seen), r)
        /\ walk.step = "done" /\ walk.limit > 0 => \A r \in throughout : Given(r)
        /\ ~disturbed => \A r \in Rows : Given(r) => r \in throughout

\* A walk by pages that nothing disturbs is given the list from its beginning.
PageOK ==
    walk.by = "page" /\ ~disturbed =>
        LET all == Ordered(copied, Fitting(copied, walk.filter)) IN
        /\ Len(walk.seen) <= Len(all)
        /\ \A i \in 1 .. Len(walk.seen) : walk.seen[i] = all[i]
        /\ walk.step = "done" /\ walk.limit > 0 => Len(walk.seen) = Len(all)

ListingInv == TablesOK /\ WalkOK /\ CursorOK /\ PageOK

LEMMA FittingRows == \A table, filter : Fitting(table, filter) \in SUBSET Rows
BY DEF Fitting

LEMMA AbsentListed == Absent \in ListRow
BY DEF ListRow

LEMMA ListingStart == ListingInit => ListingInv
<1> SUFFICES ASSUME ListingInit  PROVE ListingInv
  OBVIOUS
<1>1. listed \in Table
  <2>1. PICK earlier \in SUBSET Rows, at \in [Rows -> Stamps] :
          listed = [r \in Rows |-> IF r \in earlier
                                  THEN [stamp |-> at[r], mine |-> TRUE, result |-> "null"]
                                  ELSE Absent]
    BY DEF ListingInit
  <2>2. \A r \in Rows : [stamp |-> at[r], mine |-> TRUE, result |-> "null"] \in ListRow
    BY DEF ListRow
  <2> QED
    BY <2>1, <2>2, AbsentListed DEF Table
<1>2. TablesOK
  BY <1>1 DEF TablesOK, ListingInit
<1>3. NoWalk \in WalkRecord /\ NoWalk.step = "none" /\ NoWalk.by = "cursor"
          /\ NoWalk.seen = <<>>
  <2>1. <<>> \in Seq(Rows)
    OBVIOUS
  <2> QED
    BY <2>1 DEF NoWalk, WalkRecord, Statuses
<1>4. walk = NoWalk /\ throughout = {} /\ disturbed = FALSE
  BY DEF ListingInit
<1>5. WalkOK
  <2>1. walk \in WalkRecord /\ disturbed \in BOOLEAN /\ throughout \subseteq Rows
    BY <1>3, <1>4
  <2>2. \A i \in 1 .. Len(walk.seen) : copied[walk.seen[i]] # Absent
    BY <1>3, <1>4
  <2>3. \A r \in throughout : r \in Fitting(copied, walk.filter)
    BY <1>4
  <2> QED
    BY <1>3, <1>4, <2>1, <2>2, <2>3 DEF WalkOK
<1>6. CursorOK
  BY <1>3, <1>4 DEF CursorOK, Given
<1>7. PageOK
  BY <1>3, <1>4 DEF PageOK
<1> QED
  BY <1>2, <1>5, <1>6, <1>7 DEF ListingInv

LEMMA RowKeeps ==
    ASSUME ListingInv, NEW r \in Rows, NEW row \in ListRow, row # Absent,
           listed[r] # Absent => row.stamp = listed[r].stamp,
           listed' = [listed EXCEPT ![r] = row],
           UNCHANGED <<copied, walk, throughout, disturbed>>
    PROVE  ListingInv'
<1>1. listed' \in Table
  BY DEF ListingInv, TablesOK, Table
<1>2. TablesOK'
  BY <1>1 DEF ListingInv, TablesOK, Table
<1> QED
  BY <1>2 DEF ListingInv, WalkOK, CursorOK, PageOK, Given

LEMMA ChangesKeep ==
    ASSUME ListingInv, NEW r \in Rows, RowCreated(r) \/ RowJoined(r) \/ RowFinished(r)
    PROVE  ListingInv'
<1>1. listed[r] \in ListRow
  BY DEF ListingInv, TablesOK, Table
<1>2. CASE RowCreated(r)
  <2>1. PICK stamp \in Stamps, mine \in BOOLEAN, result \in {"null", "over"} :
          RowChanges(r, [stamp |-> stamp, mine |-> mine, result |-> result])
    BY <1>2 DEF RowCreated
  <2> DEFINE row == [stamp |-> stamp, mine |-> mine, result |-> result]
  <2>2. row \in ListRow /\ row # Absent /\ listed[r] = Absent
    BY <1>2 DEF ListRow, Absent, RowCreated
  <2>3. /\ listed' = [listed EXCEPT ![r] = row]
        /\ UNCHANGED <<copied, walk, throughout, disturbed>>
    BY <2>1 DEF RowChanges
  <2> HIDE DEF row
  <2> QED
    BY <2>2, <2>3, RowKeeps
<1>3. CASE RowJoined(r) \/ RowFinished(r)
  <2>1. PICK result \in {"ongoing", "over"} :
          RowChanges(r, [listed[r] EXCEPT !.result = result])
    BY <1>3 DEF RowJoined, RowFinished
  <2> DEFINE row == [listed[r] EXCEPT !.result = result]
  <2>2. listed[r] # Absent
    BY <1>3 DEF RowJoined, RowFinished, Absent
  <2>3. row \in ListRow /\ row.result = result /\ row.stamp = listed[r].stamp
    BY <1>1, <2>2 DEF ListRow
  <2>4. row # Absent
    BY <2>3 DEF Absent
  <2>5. /\ listed' = [listed EXCEPT ![r] = row]
        /\ UNCHANGED <<copied, walk, throughout, disturbed>>
    BY <2>1 DEF RowChanges
  <2> HIDE DEF row
  <2> QED
    BY <2>2, <2>3, <2>4, <2>5, RowKeeps
<1> QED
  BY <1>2, <1>3

LEMMA ReplicatedKeeps ==
    ASSUME ListingInv, RowsReplicated
    PROVE  ListingInv'
<1>1. /\ copied' = listed /\ listed' = listed /\ walk' = walk /\ disturbed' = TRUE
      /\ throughout' = throughout \cap Fitting(listed, walk.filter)
  BY DEF RowsReplicated
<1>2. TablesOK'
  BY <1>1 DEF ListingInv, TablesOK
<1>3. WalkOK'
  <2>1. \A i \in 1 .. Len(walk.seen) : walk.seen[i] \in Rows
    BY DEF ListingInv, WalkOK, WalkRecord
  <2>2. \A i \in 1 .. Len(walk.seen) : listed[walk.seen[i]] # Absent
    BY <2>1 DEF ListingInv, WalkOK, TablesOK
  <2>3. \A r \in throughout' : r \in Fitting(copied', walk'.filter)
    BY <1>1
  <2> QED
    BY <1>1, <2>2, <2>3 DEF ListingInv, WalkOK
<1>4. ASSUME NEW r \in Rows, NEW q \in Rows, copied[r] # Absent, copied[q] # Absent,
             Newer(copied, r, q)
      PROVE  Newer(copied', r, q)
  <2>1. listed[r].stamp = copied[r].stamp /\ listed[q].stamp = copied[q].stamp
    BY <1>4 DEF ListingInv, TablesOK
  <2> QED
    BY <1>1, <1>4, <2>1 DEF Newer
<1>5. /\ \A i \in 1 .. Len(walk.seen) : walk.seen[i] \in Rows
             /\ copied[walk.seen[i]] # Absent
      /\ \A r \in throughout : r \in Rows /\ copied[r] # Absent
      /\ walk.seen # <<>> => Last(walk.seen) \in Rows /\ copied[Last(walk.seen)] # Absent
  <2>1. walk.seen \in Seq(Rows)
    BY DEF ListingInv, WalkOK, WalkRecord
  <2>2. walk.seen # <<>> => Len(walk.seen) \in 1 .. Len(walk.seen)
    BY <2>1
  <2> QED
    BY <2>1, <2>2 DEF ListingInv, WalkOK, Last, Fitting, Fits
<1>6. \A r : Given(r)' <=> Given(r)
  BY <1>1 DEF Given
<1>7. CursorOK'
  <2> SUFFICES ASSUME walk.by = "cursor"
               PROVE  CursorOK'
    BY <1>1 DEF CursorOK
  <2>1. \A i, j \in 1 .. Len(walk.seen) : i < j =>
            Newer(copied', walk.seen[i], walk.seen[j])
    BY <1>4, <1>5 DEF ListingInv, CursorOK
  <2>2. walk.step # "done" => \A r \in throughout :
          Given(r) \/ walk.seen = <<>> \/ Newer(copied', Last(walk.seen), r)
    BY <1>4, <1>5 DEF ListingInv, CursorOK
  <2>3. walk.step = "done" /\ walk.limit > 0 => \A r \in throughout : Given(r)
    BY DEF ListingInv, CursorOK
  <2> QED
    BY <1>1, <1>6, <2>1, <2>2, <2>3 DEF CursorOK
<1>8. PageOK'
  BY <1>1 DEF PageOK
<1> QED
  BY <1>2, <1>3, <1>7, <1>8 DEF ListingInv

LEMMA StartKeeps ==
    ASSUME ListingInv, StartWalk
    PROVE  ListingInv'
<1>1. PICK filter \in Filters, limit \in Limits, by \in {"cursor", "page"} :
        /\ walk' = [NoWalk EXCEPT !.step = "count", !.filter = filter, !.limit = limit,
                              !.by = by]
        /\ throughout' = Fitting(copied, filter)
  BY DEF StartWalk
<1>2. /\ walk' \in WalkRecord /\ walk'.step = "count" /\ walk'.filter = filter
      /\ walk'.by = by /\ walk'.seen = <<>>
  <2>1. filter \in [mine : BOOLEAN, status : Statuses] /\ limit \in Nat
            /\ <<>> \in Seq(Rows)
    BY ListingAssumption
  <2>2. walk' = [step |-> "count", by |-> by, filter |-> filter, limit |-> limit,
                 total |-> 0, seen |-> <<>>]
    BY <1>1 DEF NoWalk
  <2> QED
    BY <2>1, <2>2 DEF WalkRecord
<1>3. /\ disturbed' = FALSE /\ UNCHANGED <<listed, copied>>
  BY DEF StartWalk
<1>4. TablesOK'
  BY <1>3 DEF ListingInv, TablesOK
<1>5. WalkOK'
  <2>1. throughout' \in SUBSET Rows /\ throughout' = Fitting(copied', walk'.filter)
    BY <1>1, <1>2, <1>3, FittingRows
  <2>2. \A i \in 1 .. Len(walk'.seen) : copied'[walk'.seen[i]] # Absent
    BY <1>2
  <2>3. \A r \in throughout' : r \in Fitting(copied', walk'.filter)
    BY <2>1
  <2>4. walk'.step = "count" /\ disturbed' \in BOOLEAN /\ throughout' \subseteq Rows
    BY <1>2, <1>3, <2>1
  <2> QED
    BY <1>2, <2>1, <2>2, <2>3, <2>4 DEF WalkOK
<1>6. CursorOK'
  BY <1>2 DEF CursorOK, Given
<1>7. PageOK'
  <2>1. copied \in Table
    BY DEF ListingInv, TablesOK
  <2>2. Len(Ordered(copied, Fitting(copied, filter))) \in Nat
    BY <2>1, FittingRows, OrderedList
  <2> QED
    BY <1>2, <1>3, <2>2 DEF PageOK
<1> QED
  BY <1>4, <1>5, <1>6, <1>7 DEF ListingInv

LEMMA CountKeeps ==
    ASSUME ListingInv, CountRows
    PROVE  ListingInv'
<1>1. /\ walk.step = "count"
      /\ walk' = [walk EXCEPT !.step = "select",
                              !.total = Cardinality(Fitting(copied, walk.filter))]
      /\ UNCHANGED <<listed, copied, throughout, disturbed>>
  BY DEF CountRows
<1>2. Cardinality(Fitting(copied, walk.filter)) \in Nat
  BY ListingAssumption, FittingRows, FS_Subset, FS_CardinalityType
<1>3. walk \in WalkRecord
  BY DEF ListingInv, WalkOK
<1>4. /\ walk' \in WalkRecord /\ walk'.step = "select" /\ walk'.by = walk.by
      /\ walk'.filter = walk.filter /\ walk'.limit = walk.limit /\ walk'.seen = walk.seen
      /\ walk'.total = Cardinality(Fitting(copied, walk.filter))
  BY <1>1, <1>2, <1>3 DEF WalkRecord
<1>5. TablesOK'
  BY <1>1 DEF ListingInv, TablesOK
<1>6. WalkOK'
  BY <1>1, <1>4 DEF ListingInv, WalkOK
<1>7. CursorOK'
  BY <1>1, <1>4 DEF ListingInv, CursorOK, Given
<1>8. PageOK'
  BY <1>1, <1>4 DEF ListingInv, PageOK
<1> QED
  BY <1>5, <1>6, <1>7, <1>8 DEF ListingInv

-----------------------------------------------------------------------------
\* A page: at most as many rows as it may hold, from the first that was found.
LEMMA PageOf ==
    ASSUME NEW found \in Seq(Rows), NEW limit \in Nat, NEW page,
           page = IF Len(found) > limit THEN SubSeq(found, 1, limit) ELSE found
    PROVE  /\ page \in Seq(Rows) /\ Len(page) <= Len(found)
           /\ \A k \in 1 .. Len(page) : page[k] = found[k]
           /\ Len(found) > limit => Len(page) = limit
           /\ Len(found) <= limit => page = found
<1>1. CASE Len(found) > limit
  <2>1. page = SubSeq(found, 1, limit)
    BY <1>1
  <2>2. page \in Seq(Rows) /\ Len(page) = limit /\ \A k \in 1 .. limit : page[k] = found[k]
    BY <1>1, <2>1
  <2> QED
    BY <1>1, <2>2
<1>2. CASE ~(Len(found) > limit)
  BY <1>2
<1> QED
  BY <1>1, <1>2

\* What a client has after a page.
LEMMA Appended ==
    ASSUME NEW seen \in Seq(Rows), NEW page \in Seq(Rows), NEW more, more = seen \o page
    PROVE  /\ more \in Seq(Rows) /\ Len(more) = Len(seen) + Len(page)
           /\ \A i \in 1 .. Len(seen) : more[i] = seen[i]
           /\ \A i \in 1 .. Len(page) : more[Len(seen) + i] = page[i]
           /\ \A i \in 1 .. Len(more) : i \in 1 .. Len(seen) \/ i - Len(seen) \in 1 .. Len(page)
           /\ \A i \in 1 .. Len(more) : i \notin 1 .. Len(seen) =>
                  more[i] = page[i - Len(seen)]
OBVIOUS

\* A page number skips what the pages before it held.
Skipped == IF walk.by = "page" THEN Len(walk.seen) ELSE 0

\* What a step that selects a page leaves.
LEMMA SelectFacts ==
    ASSUME ListingInv, SelectPage, NEW list, list = Ordered(copied, Wanted(copied))
    PROVE  \E found, page \in Seq(Rows) :
             /\ found = SubSeq(list, Skipped + 1, Len(list))
             /\ page = IF Len(found) > walk.limit THEN SubSeq(found, 1, walk.limit) ELSE found
             /\ walk' \in WalkRecord
             /\ walk'.seen = walk.seen \o page
             /\ walk'.step \in {"count", "done"}
             /\ walk'.step = "done" /\ walk.limit > 0 => Len(found) <= walk.limit
             /\ walk'.step = "count" => page # <<>>
             /\ walk'.by = walk.by /\ walk'.filter = walk.filter /\ walk'.limit = walk.limit
             /\ walk'.total = walk.total
<1> DEFINE found == SubSeq(list, Skipped + 1, Len(list))
           page == IF Len(found) > walk.limit THEN SubSeq(found, 1, walk.limit) ELSE found
           step == IF HasMore(found) /\ page # <<>> THEN "count" ELSE "done"
<1>1. walk' = [walk EXCEPT !.seen = @ \o page, !.step = step]
  BY DEF SelectPage, Skipped
<1>2. walk \in WalkRecord /\ copied \in Table
  BY DEF ListingInv, WalkOK, TablesOK
<1>3. walk.seen \in Seq(Rows) /\ walk.limit \in Nat /\ Skipped \in Nat
  BY <1>2 DEF WalkRecord, Skipped
<1>4. list \in Seq(Rows)
  <2>1. Wanted(copied) \in SUBSET Rows
    BY DEF Wanted, Fitting
  <2>2. list \in Seq(Wanted(copied))
    BY <1>2, <2>1, OrderedList
  <2> QED
    BY <2>1, <2>2
<1>5. found \in Seq(Rows)
  BY <1>3, <1>4
<1> HIDE DEF found
<1>6. page \in Seq(Rows) /\ (Len(found) > walk.limit => Len(page) = walk.limit)
  BY <1>3, <1>5, PageOf
<1>7. step \in {"count", "done"} /\ (step = "count" => page # <<>>)
  OBVIOUS
<1>8. step = "done" /\ walk.limit > 0 => Len(found) <= walk.limit
  <2> SUFFICES ASSUME step = "done", walk.limit > 0, Len(found) > walk.limit  PROVE FALSE
    BY <1>3, <1>5
  <2>1. page = <<>>
    BY DEF HasMore
  <2>2. Len(page) = walk.limit
    BY <1>6
  <2> QED
    BY <1>3, <2>1, <2>2
<1> HIDE DEF page, step
<1>9. walk.seen \o page \in Seq(Rows)
  BY <1>3, <1>6
<1>10. /\ walk' \in WalkRecord /\ walk'.seen = walk.seen \o page /\ walk'.step = step
       /\ walk'.by = walk.by /\ walk'.filter = walk.filter /\ walk'.limit = walk.limit
       /\ walk'.total = walk.total
  BY <1>1, <1>2, <1>7, <1>9 DEF WalkRecord
<1>11. /\ found = SubSeq(list, Skipped + 1, Len(list))
       /\ page = IF Len(found) > walk.limit THEN SubSeq(found, 1, walk.limit) ELSE found
  BY DEF found, page
<1> QED
  BY <1>5, <1>6, <1>7, <1>8, <1>10, <1>11

LEMMA RestOf ==
    ASSUME NEW list \in Seq(Rows), NEW skipped \in Nat, NEW found,
           found = SubSeq(list, skipped + 1, Len(list))
    PROVE  /\ \A k \in 1 .. Len(found) : skipped + k \in 1 .. Len(list)
                  /\ found[k] = list[skipped + k]
           /\ skipped <= Len(list) => Len(found) = Len(list) - skipped
<1>1. CASE skipped + 1 <= Len(list)
  <2>1. /\ Len(found) = Len(list) - skipped
        /\ \A k \in 1 .. Len(found) : found[k] = list[skipped + k]
    BY <1>1
  <2> QED
    BY <2>1
<1>2. CASE skipped + 1 > Len(list)
  <2>1. Len(found) = 0
    BY <1>2
  <2> QED
    BY <1>2, <2>1
<1> QED
  BY <1>1, <1>2

LEMMA SelectKeeps ==
    ASSUME ListingInv, SelectPage
    PROVE  ListingInv'
<1> DEFINE F == Fitting(copied, walk.filter)
           W == Wanted(copied)
           list == Ordered(copied, W)
           seen == walk.seen
           more == walk'.seen
<1>1. PICK found \in Seq(Rows), page \in Seq(Rows) :
             /\ found = SubSeq(list, Skipped + 1, Len(list))
             /\ page = IF Len(found) > walk.limit THEN SubSeq(found, 1, walk.limit) ELSE found
             /\ walk' \in WalkRecord
             /\ more = seen \o page
             /\ walk'.step \in {"count", "done"}
             /\ walk'.step = "done" /\ walk.limit > 0 => Len(found) <= walk.limit
             /\ walk'.step = "count" => page # <<>>
             /\ walk'.by = walk.by /\ walk'.filter = walk.filter /\ walk'.limit = walk.limit
             /\ walk'.total = walk.total
  BY SelectFacts
<1>2. walk.step = "select" /\ UNCHANGED <<listed, copied, throughout, disturbed>>
  BY DEF SelectPage
<1>3. /\ copied \in Table /\ seen \in Seq(Rows) /\ walk.limit \in Nat /\ Skipped \in Nat
      /\ walk.by \in {"cursor", "page"}
  BY DEF ListingInv, TablesOK, WalkOK, WalkRecord, Skipped
<1>4. W \in SUBSET Rows /\ W \subseteq F /\ F \in SUBSET Rows
  BY DEF Wanted, Fitting
<1>5. /\ list \in Seq(W)
      /\ \A i, j \in 1 .. Len(list) : i < j => Newer(copied, list[i], list[j])
      /\ \A r \in W : \E i \in 1 .. Len(list) : list[i] = r
  BY <1>3, <1>4, OrderedList
<1>6. /\ \A r \in W : walk.by = "cursor" /\ seen # <<>> => Newer(copied, Last(seen), r)
      /\ \A r \in F : (walk.by = "cursor" /\ seen # <<>> =>
             Newer(copied, Last(seen), r)) => r \in W
      /\ walk.by = "page" => W = F
      /\ \A r \in F : copied[r] # Absent
  BY DEF Wanted, AfterCursor, Fitting, Fits
<1> HIDE DEF F, W, list
<1>7. /\ \A k \in 1 .. Len(found) : Skipped + k \in 1 .. Len(list)
             /\ found[k] = list[Skipped + k]
      /\ Skipped <= Len(list) => Len(found) = Len(list) - Skipped
  <2>1. found = SubSeq(list, Skipped + 1, Len(list)) /\ list \in Seq(Rows)
    BY <1>1, <1>4, <1>5
  <2> QED
    BY SMTT(30), <1>3, <2>1, RestOf
<1>8. /\ Len(page) <= Len(found)
      /\ \A k \in 1 .. Len(page) : page[k] = found[k]
      /\ Len(found) > walk.limit => Len(page) = walk.limit
      /\ Len(found) <= walk.limit => page = found
  <2>1. page = IF Len(found) > walk.limit THEN SubSeq(found, 1, walk.limit) ELSE found
    BY <1>1
  <2> QED
    BY <1>3, <2>1, PageOf
<1> HIDE DEF more
<1>9. /\ more \in Seq(Rows) /\ Len(more) = Len(seen) + Len(page)
      /\ \A i \in 1 .. Len(seen) : more[i] = seen[i]
      /\ \A i \in 1 .. Len(page) : more[Len(seen) + i] = page[i]
      /\ \A i \in 1 .. Len(more) : i \in 1 .. Len(seen) \/ i - Len(seen) \in 1 .. Len(page)
      /\ \A i \in 1 .. Len(more) : i \notin 1 .. Len(seen) => more[i] = page[i - Len(seen)]
  <2>1. more = seen \o page
    BY <1>1
  <2> HIDE DEF seen
  <2> QED
    BY <1>3, <2>1, Appended
<1>10. Len(seen) \in Nat /\ Len(page) \in Nat
  BY <1>3
<1>11. \A k \in 1 .. Len(page) : /\ page[k] \in W /\ page[k] \in F
                                /\ Skipped + k \in 1 .. Len(list)
                                /\ page[k] = list[Skipped + k]
  <2> SUFFICES ASSUME NEW k \in 1 .. Len(page)
               PROVE  /\ page[k] \in W /\ page[k] \in F
                      /\ Skipped + k \in 1 .. Len(list) /\ page[k] = list[Skipped + k]
    OBVIOUS
  <2>1. k \in 1 .. Len(found)
    BY <1>1, <1>8
  <2>2. Skipped + k \in 1 .. Len(list) /\ page[k] = list[Skipped + k]
    BY <1>7, <1>8, <2>1
  <2> QED
    BY <1>4, <1>5, <2>2
<1>12. TablesOK'
  BY <1>2 DEF ListingInv, TablesOK
<1>13. WalkOK'
  <2>1. \A i \in 1 .. Len(more) : copied[more[i]] # Absent
    <3> SUFFICES ASSUME NEW i \in 1 .. Len(more)  PROVE copied[more[i]] # Absent
      OBVIOUS
    <3>1. CASE i \in 1 .. Len(seen)
      BY <1>9, <3>1 DEF ListingInv, WalkOK
    <3>2. CASE i \notin 1 .. Len(seen)
      BY <1>6, <1>9, <1>11, <3>2
    <3> QED
      BY <3>1, <3>2
  <2>2. /\ disturbed' \in BOOLEAN /\ throughout' \subseteq Rows
        /\ \A r \in throughout' : r \in Fitting(copied', walk'.filter)
        /\ ~disturbed' => throughout' = Fitting(copied', walk'.filter)
        /\ ~disturbed' => walk'.total = Cardinality(Fitting(copied', walk'.filter))
    BY <1>1, <1>2 DEF ListingInv, WalkOK
  <2>3. walk'.step # "none" /\ walk' \in WalkRecord
    BY <1>1
  <2> QED
    BY <1>2, <2>1, <2>2, <2>3 DEF WalkOK, more
<1>14. \A r : Given(r) => Given(r)'
  <2> SUFFICES ASSUME NEW i \in 1 .. Len(seen)  PROVE i \in 1 .. Len(more)
                          /\ more[i] = seen[i]
    BY DEF Given, more
  <2> QED
    BY <1>9, <1>10
<1>15. \A k \in 1 .. Len(page) : Given(page[k])'
  <2> SUFFICES ASSUME NEW k \in 1 .. Len(page)
               PROVE  Len(seen) + k \in 1 .. Len(more) /\ more[Len(seen) + k] = page[k]
    BY DEF Given, more
  <2> QED
    BY <1>9, <1>10
<1>16. CursorOK'
  <2> SUFFICES ASSUME walk.by = "cursor"  PROVE CursorOK'
    BY <1>1 DEF CursorOK
  <2>1. Skipped = 0 /\ Len(found) = Len(list) /\ Len(list) \in Nat
    BY <1>5, <1>7 DEF Skipped
  <2>2. \A i, j \in 1 .. Len(more) : i < j => Newer(copied, more[i], more[j])
    <3> SUFFICES ASSUME NEW i \in 1 .. Len(more), NEW j \in 1 .. Len(more), i < j
                 PROVE  Newer(copied, more[i], more[j])
      OBVIOUS
    <3>1. CASE j \in 1 .. Len(seen)
      <4>1. i \in 1 .. Len(seen)
        BY <1>3, <3>1
      <4> QED
        BY <1>9, <3>1, <4>1 DEF ListingInv, CursorOK
    <3>2. CASE i \notin 1 .. Len(seen)
      <4>1. /\ i - Len(seen) \in 1 .. Len(page) /\ j - Len(seen) \in 1 .. Len(page)
            /\ more[i] = page[i - Len(seen)] /\ more[j] = page[j - Len(seen)]
            /\ i - Len(seen) < j - Len(seen)
        <5>1. j \notin 1 .. Len(seen) /\ i - Len(seen) < j - Len(seen)
          BY <1>10, <3>2
        <5> QED
          BY <1>9, <3>2, <5>1
      <4>2. \A k \in 1 .. Len(page) : k \in 1 .. Len(list) /\ page[k] = list[k]
        BY <1>11, <1>10, <2>1
      <4> QED
        BY ZenonT(40), <1>5, <4>1, <4>2
    <3>3. CASE i \in 1 .. Len(seen) /\ j \notin 1 .. Len(seen)
      <4>1. j - Len(seen) \in 1 .. Len(page) /\ more[j] = page[j - Len(seen)]
                /\ more[i] = seen[i]
        BY <1>9, <3>3
      <4>2. seen # <<>> /\ more[j] \in W /\ Last(seen) = seen[Len(seen)]
                /\ Len(seen) \in 1 .. Len(seen)
        BY SMTT(30), <1>3, <1>11, <3>3, <4>1 DEF Last
      <4>3. Newer(copied, Last(seen), more[j])
        BY <1>6, <4>2
      <4>4. seen[i] = Last(seen) \/ Newer(copied, seen[i], Last(seen))
        BY <3>3, <4>2 DEF ListingInv, CursorOK
      <4>5. seen[i] \in Rows /\ Last(seen) \in Rows /\ more[j] \in Rows
        BY <1>3, <1>4, <3>3, <4>2
      <4> QED
        BY <1>3, <4>1, <4>3, <4>4, <4>5, NewerOrders
    <3> QED
      BY <3>1, <3>2, <3>3
  <2>3. ASSUME NEW r \in throughout, ~Given(r)  PROVE r \in W
    <3>1. r \in F
      BY DEF ListingInv, WalkOK, F
    <3>2. seen = <<>> \/ Newer(copied, Last(seen), r)
      BY <1>2, <2>3 DEF ListingInv, CursorOK
    <3> QED
      BY <1>6, <3>1, <3>2
  <2>4. ASSUME NEW r \in throughout, walk'.step = "count"
        PROVE  Given(r)' \/ Newer(copied, Last(more), r)
    <3>1. CASE Given(r)
      BY <1>14, <3>1
    <3>2. CASE ~Given(r)
      <4>1. PICK i \in 1 .. Len(list) : list[i] = r
        BY <1>5, <2>3, <3>2
      <4>2. Len(page) \in 1 .. Len(page)
        BY <1>1, <2>4
      <4>3. Last(more) = list[Len(page)] /\ Len(page) \in 1 .. Len(list)
        BY <1>3, <1>9, <1>11, <2>1, <4>2 DEF Last
      <4>4. CASE i <= Len(page)
        <5>1. i \in 1 .. Len(page)
          BY <4>2, <4>4
        <5> QED
          BY <1>11, <1>15, <2>1, <4>1, <5>1
      <4>5. CASE i > Len(page)
        BY <1>5, <4>1, <4>3, <4>5
      <4> QED
        BY <4>2, <4>4, <4>5
    <3> QED
      BY <3>1, <3>2
  <2>5. ASSUME NEW r \in throughout, walk'.step = "done", walk.limit > 0
        PROVE  Given(r)'
    <3>1. CASE Given(r)
      BY <1>14, <3>1
    <3>2. CASE ~Given(r)
      <4>1. PICK i \in 1 .. Len(list) : list[i] = r
        BY <1>5, <2>3, <3>2
      <4>2. page = found
        BY <1>1, <1>8, <2>5
      <4> QED
        BY <1>11, <1>15, <2>1, <4>1, <4>2
    <3> QED
      BY <3>1, <3>2
  <2>6. ASSUME ~disturbed, NEW r \in Rows, Given(r)'  PROVE r \in throughout
    <3>1. PICK i \in 1 .. Len(more) : more[i] = r
      BY <2>6 DEF Given, more
    <3>2. CASE i \in 1 .. Len(seen)
      <4>1. Given(r)
        BY <1>9, <3>1, <3>2 DEF Given
      <4> QED
        BY <2>6, <4>1 DEF ListingInv, CursorOK
    <3>3. CASE i \notin 1 .. Len(seen)
      <4>1. r \in F
        BY <1>9, <1>11, <3>1, <3>3
      <4> QED
        BY <1>2, <2>6, <4>1 DEF ListingInv, WalkOK, F
    <3> QED
      BY <3>2, <3>3
  <2> QED
    BY <1>1, <1>2, <2>2, <2>4, <2>5, <2>6 DEF CursorOK, more
<1>17. PageOK'
  <2> SUFFICES ASSUME walk.by = "page", ~disturbed  PROVE PageOK'
    BY <1>1, <1>2 DEF PageOK
  <2>1. W = F /\ list = Ordered(copied, F) /\ Skipped = Len(seen)
    BY <1>6 DEF list, Skipped
  <2>2. Len(seen) <= Len(list) /\ \A i \in 1 .. Len(seen) : seen[i] = list[i]
    BY <2>1 DEF ListingInv, PageOK, F
  <2>3. Len(found) = Len(list) - Len(seen) /\ Len(list) \in Nat /\ Len(seen) \in Nat
    BY <1>3, <1>5, <1>7, <2>1, <2>2
  <2>4. Len(more) <= Len(list)
    BY <1>8, <1>9, <2>3
  <2>5. ASSUME NEW i \in 1 .. Len(more)  PROVE more[i] = list[i]
    <3>1. CASE i \in 1 .. Len(seen)
      BY <1>9, <2>2, <3>1
    <3>2. CASE i \notin 1 .. Len(seen)
      <4>1. i - Len(seen) \in 1 .. Len(page) /\ more[i] = page[i - Len(seen)]
        BY <1>9, <3>2
      <4>2. more[i] = list[Len(seen) + (i - Len(seen))]
        BY <1>11, <2>1, <4>1
      <4>3. Len(seen) + (i - Len(seen)) = i
        BY <2>3
      <4> QED
        BY <4>2, <4>3
    <3> QED
      BY <3>1, <3>2
  <2>6. ASSUME walk'.step = "done", walk.limit > 0  PROVE Len(more) = Len(list)
    <3>1. page = found
      BY <1>1, <1>8, <2>6
    <3> QED
      BY <1>9, <2>3, <3>1
  <2> QED
    BY <1>1, <1>2, <2>1, <2>4, <2>5, <2>6 DEF PageOK, more, F
<1> QED
  BY <1>12, <1>13, <1>16, <1>17 DEF ListingInv

LEMMA ListingStep == ListingInv /\ [ListingNext]_listingVars => ListingInv'
<1> SUFFICES ASSUME ListingInv, [ListingNext]_listingVars  PROVE ListingInv'
  OBVIOUS
<1>1. CASE UNCHANGED listingVars
  BY <1>1 DEF listingVars, ListingInv, TablesOK, WalkOK, CursorOK, PageOK, Given
<1>2. CASE ListingNext
  BY <1>2, ChangesKeep, ReplicatedKeeps, StartKeeps, CountKeeps, SelectKeeps DEF ListingNext
<1> QED
  BY <1>1, <1>2

LEMMA ListingIsSound == ListingInv => ListingSound
<1> SUFFICES ASSUME ListingInv  PROVE ListingSound
  OBVIOUS
<1> DEFINE given == Range(walk.seen)
           F == Fitting(copied, walk.filter)
           all == Ordered(copied, F)
<1>1. /\ walk \in WalkRecord /\ walk.seen \in Seq(Rows) /\ copied \in Table
      /\ walk.by \in {"cursor", "page"} /\ F \in SUBSET Rows
  BY DEF ListingInv, WalkOK, TablesOK, WalkRecord, Fitting
<1>2. given \in SUBSET Rows /\ \A r : r \in given <=> Given(r)
  BY <1>1 DEF Range, Given
<1>3. /\ all \in Seq(F) /\ Len(all) = Cardinality(F)
      /\ \A i, j \in 1 .. Len(all) : i < j => Newer(copied, all[i], all[j])
      /\ \A r \in F : \E i \in 1 .. Len(all) : all[i] = r
  BY <1>1, OrderedList
<1> HIDE DEF all, F
<1>4. ASSUME walk.by = "page", ~disturbed
      PROVE  /\ Len(walk.seen) <= Len(all)
             /\ \A i \in 1 .. Len(walk.seen) : walk.seen[i] = all[i]
             /\ walk.step = "done" /\ walk.limit > 0 => Len(walk.seen) = Len(all)
  BY <1>4 DEF ListingInv, PageOK, all, F
<1>5. ASSUME ~disturbed
      PROVE  walk.step # "none" => throughout = F
  BY <1>5 DEF ListingInv, WalkOK, F
<1>6. ASSUME walk.by = "cursor" \/ ~disturbed
      PROVE  \A i, j \in 1 .. Len(walk.seen) : i < j =>
                 Newer(copied, walk.seen[i], walk.seen[j])
  <2>1. CASE walk.by = "cursor"
    BY <2>1 DEF ListingInv, CursorOK
  <2>2. CASE walk.by = "page" /\ ~disturbed
    BY <1>1, <1>3, <1>4, <2>2
  <2> QED
    BY <1>1, <1>6, <2>1, <2>2
<1>7. ASSUME walk.by = "cursor" \/ ~disturbed
      PROVE  Cardinality(given) = Len(walk.seen)
  <2> DEFINE n == Len(walk.seen)
  <2>1. n \in Nat /\ DOMAIN walk.seen = 1 .. n /\ walk.seen \in [1 .. n -> Rows]
    BY <1>1
  <2>2. \A i, j \in 1 .. n : i # j => walk.seen[i] # walk.seen[j]
    <3> SUFFICES ASSUME NEW i \in 1 .. n, NEW j \in 1 .. n, i < j
                 PROVE  walk.seen[i] # walk.seen[j]
      BY <2>1
    <3>1. Newer(copied, walk.seen[i], walk.seen[j]) /\ walk.seen[i] \in Rows
      BY <1>6, <1>7, <2>1
    <3> QED
      BY <1>1, <3>1, NewerOrders
  <2>3. walk.seen \in Bijection(1 .. n, given)
    BY <2>1, <2>2 DEF Range, Bijection, Injection, IsInjective, Surjection
  <2>4. IsFiniteSet(1 .. n) /\ Cardinality(1 .. n) = n
    BY <2>1, FS_Interval
  <2> QED
    BY <2>3, <2>4, FS_Bijection DEF ExistsBijection
<1>8. ASSUME walk.by = "page", ~disturbed, walk.step = "done", walk.limit > 0
      PROVE  given = F
  <2>1. Len(walk.seen) = Len(all) /\ Len(all) \in Nat
    BY <1>3, <1>4, <1>8
  <2>2. \A r \in F : r \in given
    BY <1>2, <1>3, <1>4, <1>8, <2>1 DEF Given
  <2>3. \A r \in given : r \in F
    BY <1>2, <1>3, <1>4, <1>8, <2>1 DEF Given
  <2> QED
    BY <2>2, <2>3
<1>9. ASSUME walk.by = "cursor" \/ ~disturbed, walk.step = "done", walk.limit > 0
      PROVE  throughout \subseteq given
  <2>1. CASE walk.by = "cursor"
    BY <1>2, <1>9, <2>1 DEF ListingInv, CursorOK
  <2>2. CASE walk.by = "page" /\ ~disturbed
    BY <1>5, <1>8, <1>9, <2>2
  <2> QED
    BY <1>1, <1>9, <2>1, <2>2
<1>10. ASSUME ~disturbed
       PROVE  given \subseteq throughout
  <2>1. CASE walk.by = "cursor"
    BY <1>2, <1>10, <2>1 DEF ListingInv, CursorOK
  <2>2. CASE walk.by = "page"
    <3>1. CASE walk.step = "none"
      BY <1>2, <3>1 DEF ListingInv, WalkOK, Given
    <3>2. CASE walk.step # "none"
      <4> SUFFICES ASSUME NEW r \in given  PROVE r \in F
        BY <1>5, <1>10, <3>2
      <4>1. PICK i \in 1 .. Len(walk.seen) : walk.seen[i] = r
        BY <1>2 DEF Given
      <4>2. i \in 1 .. Len(all) /\ all[i] = r
        BY <1>1, <1>3, <1>4, <1>10, <2>2, <4>1
      <4> QED
        BY <1>3, <4>2
    <3> QED
      BY <3>1, <3>2
  <2> QED
    BY <1>1, <2>1, <2>2
<1>11. ASSUME ~disturbed, walk.step = "done", walk.limit > 0
       PROVE  given = throughout /\ walk.total = Len(walk.seen)
  <2>1. given = throughout
    BY <1>9, <1>10, <1>11
  <2>2. throughout = F /\ walk.total = Cardinality(F)
    BY <1>5, <1>11 DEF ListingInv, WalkOK, F
  <2> QED
    BY <1>7, <1>11, <2>1, <2>2
<1> QED
  BY <1>7, <1>9, <1>10, <1>11 DEF ListingSound

\* A walk by cursor gives no game twice and skips none that fitted all the while; a walk by
\* pages promises as much, and its count, while nothing changes: ListingSound.
THEOREM ListingKept == ListingSpec => []ListingSound
BY ListingStart, ListingStep, ListingIsSound, PTL DEF ListingSpec

(***************************************************************************)
(* The composite.                                                          *)
(***************************************************************************)
\* Each part sees its own steps, and those of the others change nothing of it.
LEMMA PartsStep ==
    ASSUME [DatabaseNext]_allVars
    PROVE  /\ [AccountsNext]_accountVars /\ [WalletNext]_walletVars
           /\ [PlayersNext]_playerVars /\ [ListingNext]_listingVars
<1>1. CASE UNCHANGED allVars
  BY <1>1 DEF allVars
<1>2. CASE Playing
  BY <1>2 DEF Playing
<1>3. CASE SigningIn
  <2>1. AccountsNext
    BY <1>3 DEF SigningIn, AccountsNext, TokensNext
  <2> QED
    BY <1>3, <2>1 DEF SigningIn
<1>4. CASE Linking
  BY <1>4 DEF Linking
<1>5. CASE EditingProfiles
  BY <1>5 DEF EditingProfiles
<1>6. CASE Browsing
  BY <1>6 DEF Browsing
<1> QED
  BY <1>1, <1>2, <1>3, <1>4, <1>5, <1>6 DEF DatabaseNext

\* In the composite a revoked family has no token that was issued in time, links and names
\* stay apart, deleted players stay deleted, and a list of games neither repeats nor skips
\* one, whatever requests overlap and however far the replica is behind.
THEOREM AccountsStaySound == DatabaseSpec => []AccountsSound
<1>1. DatabaseInit => AccountsInit /\ WalletInit /\ PlayersInit /\ ListingInit
  BY DEF DatabaseInit
<1>2. DatabaseSpec => AccountsSpec /\ WalletSpec /\ PlayersSpec /\ ListingSpec
  BY <1>1, PartsStep, PTL DEF DatabaseSpec, AccountsSpec, WalletSpec, PlayersSpec,
     ListingSpec
<1>3. TokensSound /\ WalletsSound /\ PlayersSound /\ ListingSound => AccountsSound
  BY DEF AccountsSound
<1> QED
  BY <1>2, <1>3, TokensKept, WalletsKept, PlayersKept, ListingKept, PTL
=============================================================================
