---------------------------- MODULE GameLifecycle ----------------------------
(***************************************************************************)
(* What the game contract promises the players of a game, without stakes,  *)
(* fees, disputes, tournaments or time: a game is opened, taken up or      *)
(* withdrawn, decided for one of its two players or drawn, and closed; no  *)
(* decision is ever taken back, and the stake is released when the game    *)
(* ends and not before.  GameEscrow implements it.                         *)
(***************************************************************************)
CONSTANTS Accounts, NoOne, GameIds

VARIABLES
    board,     \* for each game: its state, its players and its winner
    released   \* for each game: the stake has left the contract

Record(state, p1, p2, w) == [state |-> state, player1 |-> p1, player2 |-> p2, winner |-> w]

Unopened == Record("Absent", NoOne, NoOne, NoOne)

Init ==
    /\ board = [g \in GameIds |-> Unopened]
    /\ released = [g \in GameIds |-> FALSE]

Open(g, p) ==
    /\ board[g].state = "Absent"
    /\ board' = [board EXCEPT ![g] = Record("Created", p, NoOne, NoOne)]
    /\ UNCHANGED released

Seat(g, p) ==
    /\ board[g].state = "Created"
    /\ p # board[g].player1
    /\ board' = [board EXCEPT ![g] = Record("InProgress", board[g].player1, p, NoOne)]
    /\ UNCHANGED released

\* The stake leaves the contract exactly when a live game ends.
End(g, from, record) ==
    /\ board[g].state = from
    /\ ~released[g]
    /\ board' = [board EXCEPT ![g] = record]
    /\ released' = [released EXCEPT ![g] = TRUE]

Withdraw(g) == End(g, "Created", [board[g] EXCEPT !.state = "Completed"])

Draw(g) == End(g, "InProgress", [board[g] EXCEPT !.state = "Drawn"])

Decide(g, w, over) ==
    /\ w \in {board[g].player1, board[g].player2}
    /\ End(g, "InProgress", Record(over, board[g].player1, board[g].player2, w))

Close(g) ==
    /\ board[g].state = "Completed"
    /\ board' = [board EXCEPT ![g].state = "Settled"]
    /\ UNCHANGED released

GameNext(g) ==
    \/ \E p \in Accounts : Open(g, p)
    \/ \E p \in Accounts : Seat(g, p)
    \/ Withdraw(g)
    \/ Draw(g)
    \/ \E w \in Accounts, over \in {"Completed", "Settled"} : Decide(g, w, over)
    \/ Close(g)

Next == \E g \in GameIds : GameNext(g)

Spec == Init /\ [][Next]_<<board, released>>
=============================================================================
