-------------------------------- MODULE Rooms --------------------------------
(***************************************************************************)
(* A room of the stand-alone socket server (src/backend/src/socket/game.rs,*)
(* models.rs): two seats, a clock for each colour, a list of moves and     *)
(* takebacks.  Every call holds the lock of the server state, so a call is *)
(* one step.  The room does not know the rules of chess: a move only turns *)
(* the board over to the other colour, whoever sends it.  A player talks   *)
(* over one connection at a time (websocket.rs), which hears of the room   *)
(* once a join over it has succeeded.  Names, the board and what is told   *)
(* are left out.  Time counts ticks.                                       *)
(***************************************************************************)
EXTENDS Naturals, Sequences, SequencesExt

CONSTANTS
    Guests,
    InitialTime, Increments, LatencyBuffer,
    Nobody,
    LastTick,       \* bound of the model: how long a behaviour is watched
    MaxRoomMoves    \* bound of the model: moves made in a room

ASSUME RoomsAssumption ==
    /\ InitialTime \in Nat /\ Increments \subseteq Nat /\ LatencyBuffer \in Nat
    /\ LastTick \in Nat /\ MaxRoomMoves \in Nat
    /\ Nobody \notin Guests

VARIABLES
    increment,      \* of the room, chosen when it is created
    seats,          \* players, with their colours
    game,           \* game_state: status and whose turn it is
    moves,          \* how many moves the list holds
    remaining,      \* white_remaining_ms and black_remaining_ms
    since,          \* last_move_at
    takeback,        \* pending_takeback
    listening,      \* whose connection has the room among its room_senders
    tick,
    used, made,     \* history: time and moves charged to a colour
    stale,          \* history: moves of an earlier game that the list still holds
    mixed,          \* history: a takeback replayed moves of two games as one
    fallen,         \* history: a flag fell in this game, and
    revived,        \* history: a move was made after that
    cut             \* history: seated players whose connection has ended since they sat down

roomVars == <<increment, seats, game, moves, remaining, since, takeback, listening, tick,
              cut, used, made, stale, mixed, fallen, revived>>
roomHistory == <<used, made, stale, mixed, fallen, revived>>

Colours == {"White", "Black"}
Zero == [c \in Colours |-> 0]

NoGame == [status |-> "none", turn |-> "White"]
NewGame == [status |-> "InProgress", turn |-> "White"]

\* Whose turn it is when n moves were applied to a new game.
TurnAfter(n) == IF n % 2 = 0 THEN "White" ELSE "Black"

OtherColour(c) == IF c = "White" THEN "Black" ELSE "White"

RoomInit ==
    /\ increment \in Increments
    /\ seats = <<>> /\ game = NoGame /\ moves = 0
    /\ remaining = [c \in Colours |-> InitialTime]
    /\ since = 0 /\ takeback = Nobody /\ tick = 0
    /\ listening = {} /\ cut = {}
    /\ used = Zero /\ made = Zero /\ stale = 0
    /\ mixed = FALSE /\ fallen = FALSE /\ revived = FALSE

Seated(p) == \E i \in DOMAIN seats : seats[i].id = p

\* The first to come is White and the second Black, also when a seat is filled again;
\* with the second a new game starts, and its clock.  The list of moves, the times and a
\* takeback that waits stay as they are.
JoinRoom(p) ==
    /\ Len(seats) < 2 /\ ~Seated(p)
    /\ seats' = Append(seats, [id |-> p, colour |-> IF seats = <<>> THEN "White" ELSE "Black"])
    /\ IF Len(seats) = 1
       THEN game' = NewGame /\ since' = tick /\ stale' = moves /\ fallen' = FALSE
       ELSE UNCHANGED <<game, since, stale, fallen>>
    /\ listening' = listening \cup {p}
    /\ UNCHANGED <<increment, moves, remaining, takeback, tick, cut, used, made, mixed, revived>>

SinceMove == tick - since

Spare(left) == IF SinceMove < left THEN left - SinceMove ELSE 0

\* Whoever sends a move after the time of the colour to move ends the game.
TimesOut(p) ==
    /\ Seated(p) /\ game # NoGame
    /\ SinceMove > remaining[game.turn] + LatencyBuffer
    /\ game' = [game EXCEPT !.status = "Timeout"]
    /\ fallen' = TRUE
    /\ UNCHANGED <<increment, seats, moves, remaining, since, takeback,
                   listening, tick, cut, used, made, stale, mixed, revived>>

\* The clock is charged before it is asked whether the game is still on.
SendMove(p) ==
    LET c == game.turn
    IN
    /\ Seated(p) /\ game # NoGame /\ made["White"] + made["Black"] < MaxRoomMoves
    /\ SinceMove <= remaining[c] + LatencyBuffer
    /\ remaining' = [remaining EXCEPT ![c] = Spare(@) + increment]
    /\ used' = [used EXCEPT ![c] = @ + SinceMove]
    /\ made' = [made EXCEPT ![c] = @ + 1]
    /\ since' = tick
    /\ IF game.status = "InProgress"
       THEN /\ game' = [game EXCEPT !.turn = OtherColour(c)]
            /\ moves' = moves + 1
            /\ revived' = (revived \/ fallen)
       ELSE UNCHANGED <<game, moves, revived>>
    /\ UNCHANGED <<increment, seats, takeback, listening, tick, cut, stale, mixed, fallen>>

\* The last to leave takes the room with him.
LeaveRoom(p) ==
    /\ \E i \in DOMAIN seats : seats[i].id = p /\ seats' = RemoveAt(seats, i)
    /\ IF Len(seats) = 1
       THEN /\ game' = NoGame /\ moves' = 0 /\ since' = tick /\ takeback' = Nobody
            /\ remaining' = [c \in Colours |-> InitialTime]
            /\ used' = Zero /\ made' = Zero /\ stale' = 0
            /\ mixed' = FALSE /\ fallen' = FALSE /\ revived' = FALSE
       ELSE UNCHANGED <<game, moves, remaining, since, takeback, roomHistory>>
    /\ listening' = listening \ {p} /\ cut' = cut \ {p}
    /\ UNCHANGED <<increment, tick>>

(***************************************************************************)
(* Takebacks                                                               *)
(***************************************************************************)
OfferTakeback(p) ==
    /\ Seated(p) /\ moves >= 2 /\ takeback = Nobody
    /\ takeback' = p
    /\ UNCHANGED <<increment, seats, game, moves, remaining, since, listening,
                   tick, cut, roomHistory>>

\* Mutant: only the last half-move is taken back.
BadKept(n) == n - 1

Kept(n) == n - 2

\* The whole list is replayed on a new game; the clocks stay as they are, and so does the
\* time of the last move.
AcceptTakeback(p) ==
    /\ Seated(p) /\ takeback # Nobody /\ takeback # p /\ moves >= 2
    /\ moves' = Kept(moves)
    /\ game' = [NewGame EXCEPT !.turn = TurnAfter(moves')]
    /\ takeback' = Nobody
    /\ stale' = 0
    /\ mixed' = (mixed \/ stale > 0)
    /\ UNCHANGED <<increment, seats, remaining, since, listening, tick, cut, used, made,
                   fallen, revived>>

RejectTakeback(p) ==
    /\ Seated(p) /\ takeback # Nobody
    /\ takeback' = Nobody
    /\ UNCHANGED <<increment, seats, game, moves, remaining, since, listening,
                   tick, cut, roomHistory>>

RoomClockTicks ==
    /\ tick < LastTick
    /\ tick' = tick + 1
    /\ UNCHANGED <<increment, seats, game, moves, remaining, since, takeback, listening,
                   cut, roomHistory>>

(***************************************************************************)
(* Connections                                                             *)
(***************************************************************************)
\* What the messages of a client do; the game log only reads, and what is refused or not
\* understood changes nothing.
HandleClientMessage(p) ==
    \/ JoinRoom(p) \/ SendMove(p) \/ TimesOut(p) \/ LeaveRoom(p)
    \/ OfferTakeback(p) \/ AcceptTakeback(p) \/ RejectTakeback(p)

\* The loop of a connection ends with its subscriptions, and the player keeps his seat: he
\* cannot join again, so he can move over a new connection but does not hear of the room.
ConnectionEnds(p) ==
    /\ p \in listening
    /\ listening' = listening \ {p} /\ cut' = cut \cup {p}
    /\ UNCHANGED <<increment, seats, game, moves, remaining, since, takeback, tick, roomHistory>>

RoomNext ==
    \/ \E p \in Guests : HandleClientMessage(p) \/ ConnectionEnds(p)
    \/ RoomClockTicks

RoomSpec == RoomInit /\ [][RoomNext]_roomVars

(***************************************************************************)
(* Conditions that hold                                                    *)
(***************************************************************************)
\* Takebacks included, the turn is that of the colour that has not made the last move of
\* this game, and nobody uses more time than the clock, the increments and the buffer of
\* every move give him.  A game whose flag fell is not played on, not even when a takeback
\* puts it in progress again, unless the takeback replayed moves of an earlier game.  Who
\* hears of a room has a seat in it, and who has one and does not hear has lost a connection
\* since he sat down.
RoomsSound ==
    /\ game # NoGame => game.turn = TurnAfter(moves - stale)
    /\ \A c \in Colours :
        /\ used[c] <= InitialTime + made[c] * (increment + LatencyBuffer)
        /\ remaining[c] + used[c] >= InitialTime + made[c] * increment
    /\ revived => mixed
    /\ listening \cup cut = {seats[i].id : i \in DOMAIN seats}
    /\ listening \cap cut = {}
=============================================================================
