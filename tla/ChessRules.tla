------------------------------ MODULE ChessRules ------------------------------
(***************************************************************************)
(* Starting positions and draws that need no claim                         *)
(* (src/backend/modules/chess/src): the library of Chess960 starts         *)
(* (chess960/generator.rs, asked by api/src/chess960.rs), the random start *)
(* (start_position.rs) and the tracker of repetitions and of moves without *)
(* progress (mandatory_draw.rs).  A FEN is its back rank and its castling  *)
(* rights; all else in the FEN of a start is the same.                     *)
(***************************************************************************)
EXTENDS Integers, Sequences, FiniteSets, FiniteSetsExt

CONSTANTS
    Diagrams,               \* positions that two moves can lead to
    HalfmoveThreshold,      \* HALFMOVE_CLOCK_THRESHOLD
    RepetitionThreshold,    \* REPETITION_THRESHOLD
    MaxPlies                \* bound of the model: moves of a game

ASSUME RulesAssumption ==
    /\ HalfmoveThreshold \in Nat \ {0} /\ RepetitionThreshold \in Nat \ {0}
    /\ MaxPlies \in Nat

VARIABLES
    drawn,          \* a rank generate_back_rank returned, or NoRank
    counts,         \* PositionTracker.position_counts, of the positions recorded
    halfmoves,      \* PositionTracker.halfmove_clock
    verdict,        \* what update_position_tracker returned last
    course          \* history: [position, progress] of each move

ruleVars == <<drawn, counts, halfmoves, verdict, course>>

Files == 0..7

NoRank == <<>>

Low(pair) == Min(pair)

High(pair) == Max(pair)

-----------------------------------------------------------------------------
\* The library.

FilePairs == kSubset(2, Files)

\* generate_valid_arrangements: the king between the rooks, and the two files that are left
\* over, the bishops', of different colours.
Arrangements ==
    LET bishops(a) == Files \ ({a.king, a.queen} \cup a.rooks \cup a.knights)
        choices == [king : 1..6, queen : Files, rooks : FilePairs, knights : FilePairs]
        placed == {a \in choices :
                      /\ Low(a.rooks) < a.king /\ a.king < High(a.rooks)
                      /\ Cardinality(bishops(a)) = 2 /\ SumSet(bishops(a)) % 2 = 1}
    IN  {[king |-> a.king, queen |-> a.queen, rooks |-> a.rooks, knights |-> a.knights,
          bishops |-> bishops(a)] : a \in placed}

\* The loops are nested in this order, and each runs upwards.
LoopKey(a) ==
    ((((a.king * 8 + a.queen) * 8 + Low(a.rooks)) * 8 + High(a.rooks)) * 8
        + Low(a.knights)) * 8 + High(a.knights)

LoopKeys == {LoopKey(a) : a \in Arrangements}

\* generate_all_positions: numbers from 1 in the order of the loops.
PositionNumber(a) == Cardinality({k \in LoopKeys : k <= LoopKey(a)})

\* create_position.
RankOf(a) ==
    [f \in Files |-> CASE f = a.king -> "K"
                       [] f = a.queen -> "Q"
                       [] f \in a.rooks -> "R"
                       [] f \in a.bishops -> "B"
                       [] f \in a.knights -> "N"
                       [] OTHER -> "?"]

\* White's rights; Black has the same.
LibraryFen(a) == [rank |-> RankOf(a), rights |-> {"K", "Q"}]

\* verify_position.
VerifyPosition(a) ==
    /\ Low(a.rooks) < a.king /\ a.king < High(a.rooks)
    /\ SumSet(a.bishops) % 2 # 0
    /\ Cardinality({a.king, a.queen} \cup a.rooks \cup a.bishops \cup a.knights) = 8

KnownFens == {LibraryFen(a) : a \in Arrangements}

\* total_positions, and no two alike.
LibraryComplete == Cardinality(KnownFens) = 960 /\ Cardinality(LoopKeys) = 960

\* verify_fen.
VerifyFen(fen) == fen \in KnownFens

-----------------------------------------------------------------------------
\* A random start.

FilesOf(rank, piece) == {f \in Files : rank[f] = piece}

\* What is free when the other five stand; the king is the first with one on either side.
KingBetween(free) == {k \in free : \E r, s \in free : r < k /\ k < s}

KingFile(free) == IF KingBetween(free) # {} THEN Min(KingBetween(free)) ELSE Low(free)

\* generate_back_rank, from the files its random choices return.
BackRank(bishops, queen, knights) ==
    LET free == Files \ (bishops \cup {queen} \cup knights) IN
    [f \in Files |-> CASE f \in bishops -> "B"
                       [] f = queen -> "Q"
                       [] f \in knights -> "N"
                       [] f = KingFile(free) -> "K"
                       [] OTHER -> "R"]

\* generate_chess960_fen: the rights name the files of the rooks.
FileLetters == <<"A", "B", "C", "D", "E", "F", "G", "H">>

RandomFen(rank) ==
    [rank |-> rank, rights |-> {FileLetters[f + 1] : f \in FilesOf(rank, "R")}]

DrawStart ==
    /\ drawn = NoRank /\ course = <<>>
    /\ \E light \in {0, 2, 4, 6}, dark \in {1, 3, 5, 7} :
         \E queen \in Files \ {light, dark} :
           \E knights \in kSubset(2, Files \ {light, dark, queen}) :
             drawn' = BackRank({light, dark}, queen, knights)
    /\ UNCHANGED <<counts, halfmoves, verdict, course>>

-----------------------------------------------------------------------------
\* The tracker.

RulesInit ==
    /\ drawn = NoRank
    /\ counts = [p \in {} |-> 0] /\ halfmoves = 0 /\ verdict = "NoDraw" /\ course = <<>>

\* A position that is not in position_counts has not been recorded.
CountOf(table, position) == IF position \in DOMAIN table THEN table[position] ELSE 0

\* record_position.
RecordPosition(position) ==
    [p \in DOMAIN counts \cup {position} |->
        IF p = position THEN CountOf(counts, p) + 1 ELSE counts[p]]

ClockAfter(pawnMove, capture) == IF pawnMove \/ capture THEN 0 ELSE halfmoves + 1

\* check_mandatory_draw_conditions.
MandatoryDraw(table, unmoved, position) ==
    CASE unmoved >= HalfmoveThreshold -> "SeventyFiveMoveRule"
      [] unmoved < HalfmoveThreshold /\ CountOf(table, position) >= RepetitionThreshold ->
            "FivefoldRepetition"
      [] OTHER -> "NoDraw"

Progressed == Cardinality({i \in DOMAIN course : course[i].progress})

\* After progress no earlier position comes back, and in each position one side is to move.
Reached(diagram, progress) ==
    <<Progressed + (IF progress THEN 1 ELSE 0), Len(course) % 2, diagram>>

\* update_position_tracker, after a move; a game that is drawn has no more of them.
PlyPlayed(diagram, pawnMove, capture) ==
    LET position == Reached(diagram, pawnMove \/ capture) IN
    /\ drawn = NoRank /\ verdict = "NoDraw" /\ Len(course) < MaxPlies
    /\ counts' = RecordPosition(position)
    /\ halfmoves' = ClockAfter(pawnMove, capture)
    /\ verdict' = MandatoryDraw(counts', halfmoves', position)
    /\ course' = Append(course, [position |-> position, progress |-> pawnMove \/ capture])
    /\ UNCHANGED drawn

RulesNext ==
    \/ DrawStart
    \/ \E diagram \in Diagrams, pawnMove, capture \in BOOLEAN :
         PlyPlayed(diagram, pawnMove, capture)

RulesSpec == RulesInit /\ [][RulesNext]_ruleVars

(***************************************************************************)
(* Conditions that hold                                                    *)
(***************************************************************************)
\* Every random start is a legal one and stands in the library under one of its 960 numbers,
\* as its own check confirms; the FEN of the library is known to verify_fen, while the
\* random one, which writes the rights in another way, never is.
StartsSound ==
    drawn # NoRank =>
        LET files(p) == FilesOf(drawn, p)
            start == [king |-> Min(files("K")), queen |-> Min(files("Q")),
                      rooks |-> files("R"), knights |-> files("N"), bishops |-> files("B")]
        IN
        /\ \A p \in {"R", "N", "B"} : Cardinality(files(p)) = 2
        /\ {Cardinality(files(p)) : p \in {"K", "Q"}} = {1}
        /\ {f % 2 : f \in files("B")} = {0, 1}
        /\ start \in Arrangements /\ RankOf(start) = drawn /\ VerifyPosition(start)
        /\ PositionNumber(start) \in 1..960
        /\ VerifyFen(LibraryFen(start)) /\ ~VerifyFen(RandomFen(drawn))
        /\ LibraryComplete

\* The last moves of the game, none of which made progress, and the moves that led to a
\* position.
Unmoved == {i \in DOMAIN course : \A j \in i..Len(course) : ~course[j].progress}

Alike(position) == {i \in DOMAIN course : course[i].position = position}

\* A game is drawn by the last of so many moves without progress, or else when its position
\* has come up often enough, although the counts are never cleared; and not before.
DrawsSound ==
    course # <<>> =>
        /\ (verdict = "SeventyFiveMoveRule") = (Cardinality(Unmoved) >= HalfmoveThreshold)
        /\ (verdict = "FivefoldRepetition") =
               (/\ Cardinality(Unmoved) < HalfmoveThreshold
                /\ Cardinality(Alike(course[Len(course)].position)) >= RepetitionThreshold)
=============================================================================
