-------------------------------- MODULE Board --------------------------------
(***************************************************************************)
(* The board of the chess module: three groups of bitboards that must      *)
(* describe one placement (src/backend/modules/chess/src/bitboard/         *)
(* board.rs).  A bitboard is the set of squares whose bits are one, so &,  *)
(* |, ^ and ! are the operations on sets; square s has file s % 8 and rank *)
(* s \div 8.  Boards are values in the code; the variable is the one that  *)
(* a caller keeps, and every operation that answers None leaves it.        *)
(***************************************************************************)
EXTENDS Integers, FiniteSets

CONSTANTS
    Squares,        \* where a caller puts pieces
    Pieces,         \* the pieces he puts there, [color, role]
    MaxPieces       \* bound of the model: how many at a time

ASSUME SquaresAssumption == Squares \subseteq 0..63

Colors == {"white", "black"}
Roles == {"pawn", "knight", "bishop", "rook", "queen", "king"}

ASSUME PiecesAssumption == Pieces \subseteq [color : Colors, role : Roles]
ASSUME MaxPiecesAssumption == MaxPieces \in Nat

VARIABLES occupied, byColor, byRole

board == <<occupied, byColor, byRole>>

EmptyBoard ==
    /\ occupied = {}
    /\ byColor = [c \in Colors |-> {}]
    /\ byRole = [r \in Roles |-> {}]

-----------------------------------------------------------------------------
\* What is asked of a board.

Pair(A, B) == (A \cup B) \ (A \cap B)

\* Exclusive or, so a square that two of the bitboards held would be lost.
Sliders == Pair(Pair(byRole["bishop"], byRole["rook"]), byRole["queen"])

\* find_role and find_color: the first in this order.
RoleAt(s) ==
    IF s \in byRole["pawn"] THEN "pawn"
    ELSE IF s \in byRole["knight"] THEN "knight"
    ELSE IF s \in byRole["bishop"] THEN "bishop"
    ELSE IF s \in byRole["rook"] THEN "rook"
    ELSE IF s \in byRole["queen"] THEN "queen"
    ELSE IF s \in byRole["king"] THEN "king" ELSE "none"

ColorAt(s) ==
    IF s \in byColor["white"] THEN "white"
    ELSE IF s \in byColor["black"] THEN "black" ELSE "none"

IsPiece(s) == RoleAt(s) # "none" /\ ColorAt(s) # "none"

PieceAt(s) == [color |-> ColorAt(s), role |-> RoleAt(s)]

\* piece_map walks through the occupied squares and leaves out the others.
PieceMap == [s \in {x \in occupied : IsPiece(x)} |-> PieceAt(s)]

ByPiece(piece) == byColor[piece.color] \cap byRole[piece.role]

KingOf(color) == byRole["king"] \cap byColor[color]

-----------------------------------------------------------------------------
\* What changes one.

\* Mutant: the piece that stood on a square stays in its own bitboards.
BadDiscarded(group, mask) == group

Discarded(group, mask) == group \ mask

\* update adds the square to one bitboard of a group and copies the others.
Update(group, s, mine) == group \cup (IF mine THEN {s} ELSE {})

\* put_or_replace_details: the piece that stood there goes first.
Place(s, piece, mask) ==
    /\ occupied' = (occupied \ mask) \cup {s}
    /\ byColor' = [c \in Colors |-> Update(Discarded(byColor[c], mask), s, c = piece.color)]
    /\ byRole' = [r \in Roles |-> Update(Discarded(byRole[r], mask), s, r = piece.role)]

Discard(mask) ==
    /\ occupied' = occupied \ mask
    /\ byColor' = [c \in Colors |-> Discarded(byColor[c], mask)]
    /\ byRole' = [r \in Roles |-> Discarded(byRole[r], mask)]

Room == Cardinality(occupied) < MaxPieces

Put(piece, at) == Room /\ at \notin occupied /\ Place(at, piece, {at})

Replace(piece, at) == at \in occupied /\ Place(at, piece, {at})

PutOrReplace(piece, at) == (Room \/ at \in occupied) /\ Place(at, piece, {at})

Take(at) == at \in occupied /\ Discard({at})

\* The blockers of the mover's king are computed and dropped: nothing but an occupied
\* destination stops a move, and captures are not implemented.
MovePiece(orig, dest) ==
    /\ dest \notin occupied
    /\ IsPiece(orig)
    /\ Place(dest, PieceAt(orig), {orig, dest})

\* Any piece becomes any other.
Promote(orig, dest, piece) == orig \in occupied /\ Place(dest, piece, {orig, dest})

BoardNext ==
    \E s \in Squares :
        \/ \E p \in Pieces : Put(p, s) \/ Replace(p, s) \/ PutOrReplace(p, s)
        \/ Take(s)
        \/ \E mask \in {{s, t} : t \in Squares} : Discard(mask)
        \/ \E t \in Squares : MovePiece(s, t) \/ (\E p \in Pieces : Promote(s, t, p))

BoardSpec == EmptyBoard /\ [][BoardNext]_board

-----------------------------------------------------------------------------
\* find_slider_blockers.

File(s) == s % 8
Rank(s) == s \div 8
Away(a, b) == IF a > b THEN a - b ELSE b - a
Opposite(color) == IF color = "white" THEN "black" ELSE "white"

OnDiagonal(k, a) == Away(File(a), File(k)) = Away(Rank(a), Rank(k))
OnLine(k, a) == File(a) = File(k) \/ Rank(a) = Rank(k)

Towards(from, to) == IF to > from THEN 1 ELSE IF to < from THEN -1 ELSE 0

\* The squares the loops add to the ray, from the king up to the attacker.
Ray(k, a) ==
    LET far == IF Away(File(a), File(k)) > Away(Rank(a), Rank(k))
               THEN Away(File(a), File(k)) ELSE Away(Rank(a), Rank(k))
    IN  {8 * (Rank(k) + i * Towards(Rank(k), Rank(a)))
           + File(k) + i * Towards(File(k), File(a)) : i \in 1..(far - 1)}

BlockersAgainst(k, us, attackers) ==
    UNION {LET on == Ray(k, a) \cap (occupied \ {k})
           IN  IF Cardinality(on) = 1 THEN on \cap byColor[us] ELSE {} : a \in attackers}

Blockers(k, us) ==
    LET them == byColor[Opposite(us)]
        diagonal == them \cap (byRole["bishop"] \cup byRole["queen"])
        straight == them \cap (byRole["rook"] \cup byRole["queen"])
    IN  BlockersAgainst(k, us, {a \in diagonal : OnDiagonal(k, a)})
        \cup BlockersAgainst(k, us, {a \in straight : OnLine(k, a)})

(***************************************************************************)
(* Properties                                                              *)
(***************************************************************************)
BoardTypeOK ==
    /\ occupied \subseteq Squares
    /\ byColor \in [Colors -> SUBSET Squares]
    /\ byRole \in [Roles -> SUBSET Squares]

\* The colours share the occupied squares out among themselves, and so do the roles.
ColorsPartition ==
    /\ occupied = byColor["white"] \cup byColor["black"]
    /\ byColor["white"] \cap byColor["black"] = {}

RolesPartition ==
    /\ occupied = UNION {byRole[r] : r \in Roles}
    /\ \A r, q \in Roles : r # q => byRole[r] \cap byRole[q] = {}

\* The three groups describe one placement: they agree on what is occupied.
OnePlacement == ColorsPartition /\ RolesPartition

\* So no question loses a piece: every occupied square has one in the map, each bitboard
\* of a piece holds exactly its squares, and the exclusive or of the sliders is a union.
NothingLost ==
    /\ DOMAIN PieceMap = occupied
    /\ \A p \in [color : Colors, role : Roles] :
         ByPiece(p) = {s \in occupied : PieceMap[s] = p}
    /\ Sliders = {s \in occupied : PieceMap[s].role \in {"bishop", "rook", "queen"}}

\* s lies on the straight way from k to a: it is a part of the way from there.
Between(s, k, a) ==
    \E i, n \in 1..7 : /\ i < n
                       /\ n * (File(s) - File(k)) = i * (File(a) - File(k))
                       /\ n * (Rank(s) - Rank(k)) = i * (Rank(a) - Rank(k))

\* Whether the slider on a could take on k if the square b were empty.
Reaches(a, k, without) ==
    /\ \/ PieceMap[a].role \in {"bishop", "queen"} /\ OnDiagonal(k, a)
       \/ PieceMap[a].role \in {"rook", "queen"} /\ OnLine(k, a)
    /\ \A s \in occupied \ {a, k, without} : ~Between(s, k, a)

\* The blockers of a king are those of his own pieces whose leaving the board would let a
\* slider reach him that does not reach him now.
BlockersArePins ==
    \A us \in Colors : \A k \in KingOf(us) : Cardinality(KingOf(us)) = 1 =>
        Blockers(k, us) =
            {b \in byColor[us] \ {k} :
                \E a \in occupied \cap byColor[Opposite(us)] :
                    Reaches(a, k, b) /\ ~Reaches(a, k, a)}

\* However pieces are put, moved, promoted and taken, the bitboards stay those of a board,
\* and what they say blocks a slider is pinned.
BoardConsistent == BoardTypeOK /\ OnePlacement /\ NothingLost /\ BlockersArePins
=============================================================================
