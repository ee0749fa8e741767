---------------------------------- MODULE Pgn ----------------------------------
(***************************************************************************)
(* Writing, checking and reading a game as PGN                             *)
(* (src/backend/modules/chess/src/pgn.rs, pgn_validator.rs): export_pgn    *)
(* writes the tags and the movetext of a stored game, lint_pgn_export is   *)
(* "the independent gate that checks the serialized document", parse_pgn   *)
(* and validate_game read it back.  Between the two a document may be      *)
(* damaged.  A move is the number of its ply in the game and the suffix it *)
(* is written with: it is legal in the position that ply was played in and *)
(* nowhere else.  What shakmaty computes of a position is given with the   *)
(* game; texts of tags that nothing looks at, the wrapping of lines, NAGs  *)
(* and glyphs are left out.                                                *)
(***************************************************************************)
EXTENDS Naturals, Sequences, FiniteSets, SequencesExt

CONSTANTS
    Roster,         \* SEVEN_TAG_ROSTER
    Starts,         \* records fen, turn, number and aged: the standard start or a FEN's;
                    \* aged: its half-move clock is at 100, and no ply sets it back
    PgnResults, Terminations, Variants,
    LongestGame,    \* bound of the model: plies
    MaxBlemishes    \* bound of the model: how often a document is damaged

ASSUME PgnAssumption ==
    /\ LongestGame \in Nat /\ MaxBlemishes \in Nat
    /\ \A s \in Starts : s.fen \/ s = [fen |-> FALSE, turn |-> "White", number |-> 1, aged |-> FALSE]

VARIABLES
    line,           \* the game: its start, and for every ply what it does to the other side
    headers,        \* ExportHeaders, and whether the analysis is written
    document,       \* tags, the blank line, and the tokens of the movetext
    blemishes

pgnVars == <<line, headers, document, blemishes>>

Suffix(effect) ==
    IF effect = "mate" THEN "#" ELSE IF effect = "check" THEN "+" ELSE ""

\* Games of n plies: only the last can end them.
LinesOf(n) == {e \in [1..n -> {"quiet", "check", "mate", "stale"}] :
                 \A i \in 1..n : e[i] \in {"mate", "stale"} => i = n}

\* Who moves after k plies from s, and at which move number.
TurnAt(s, k) == IF (k % 2 = 0) = (s.turn = "White") THEN "White" ELSE "Black"
NumberAt(s, k) == s.number + ((k + (IF s.turn = "White" THEN 0 ELSE 1)) \div 2)

EffectAt(k) == IF k = 0 THEN "quiet" ELSE line.effects[k]
IsOver(k) == EffectAt(k) \in {"mate", "stale"}

(***************************************************************************)
(* export_pgn                                                              *)
(***************************************************************************)
Tag(name, value) == <<[name |-> name, value |-> value]>>

FormatHeaders(h, s) ==
    [i \in DOMAIN Roster |-> [name |-> Roster[i],
                              value |-> IF Roster[i] = "Result" THEN h.result ELSE "?"]]
    \o (IF h.termination = "none" THEN <<>> ELSE Tag("Termination", h.termination))
    \o (IF h.variant = "none" THEN <<>> ELSE Tag("Variant", h.variant))
    \o (IF s.fen THEN Tag("SetUp", "1") \o Tag("FEN", "fen") ELSE <<>>)

Number(n, dots) == <<[kind |-> "number", number |-> n, dots |-> dots]>>
San(i, suffix) == <<[kind |-> "san", ply |-> i, suffix |-> suffix]>>
Comment(good) == <<[kind |-> "comment", good |-> good]>>
Marker(r) == <<[kind |-> "result", result |-> r]>>

\* Mutant: the parity of a game that Black begins is forgotten.
BadPlyTokens(i, s, e, analysis) ==
    (IF i % 2 = 1 THEN Number(NumberAt(s, i - 1), 1) ELSE <<>>)
    \o San(i, Suffix(e[i]))
    \o (IF analysis THEN Comment(TRUE) ELSE <<>>)

PlyTokens(i, s, e, analysis) ==
    (IF TurnAt(s, i - 1) = "White" THEN Number(NumberAt(s, i - 1), 1)
     ELSE IF i = 1 THEN Number(NumberAt(s, 0), 3) ELSE <<>>)
    \o San(i, Suffix(e[i]))
    \o (IF analysis THEN Comment(TRUE) ELSE <<>>)

FormatMovetext(s, e, r, analysis) ==
    FoldLeft(LAMBDA text, i : text \o PlyTokens(i, s, e, analysis),
             <<>>, [i \in DOMAIN e |-> i]) \o Marker(r)

ExportPgn(l, h) ==
    [tags |-> FormatHeaders(h, l.start), blank |-> TRUE,
     tokens |-> FormatMovetext(l.start, l.effects, h.result, h.analysis)]

(***************************************************************************)
(* lint_pgn_export                                                         *)
(***************************************************************************)
Names(tags) == [i \in DOMAIN tags |-> tags[i].name]

HasTag(d, name) == \E i \in DOMAIN d.tags : d.tags[i].name = name

\* get_tag: the first of that name.
ValueOf(d, name) == d.tags[SelectInSeq(d.tags, LAMBDA t : t.name = name)].value

When(condition, error) == IF condition THEN {error} ELSE {}

IsRoster(name) == \E i \in DOMAIN Roster : Roster[i] = name

\* A tag that comes again is reported and not kept.
Kept1st(tags) ==
    FoldLeft(LAMBDA kept, t : IF \E i \in DOMAIN kept : kept[i].name = t.name
                              THEN kept ELSE Append(kept, t), <<>>, tags)

LintTags(d) ==
    LET names == Names(Kept1st(d.tags))
        complete == \A i \in DOMAIN Roster : HasTag(d, Roster[i])
    IN When(~d.blank, "MissingBlankLine")
       \cup When(names # Names(d.tags), "DuplicateTag")
       \cup When(~complete, "MissingSevenTagRosterTag")
       \cup When(complete /\ (\/ SelectSeq(names, IsRoster) # Roster
                              \/ \E i \in DOMAIN Roster : ~IsRoster(names[i])),
                 "SevenTagRosterOutOfOrder")
       \cup When(HasTag(d, "Result") /\ ValueOf(d, "Result") \notin PgnResults, "InvalidResultValue")

StartErrors(d) ==
    When(HasTag(d, "SetUp") /\ ~HasTag(d, "FEN"), "SetupWithoutFen")
    \cup When(~HasTag(d, "SetUp") /\ HasTag(d, "FEN"), "FenWithoutSetup")
    \cup When(HasTag(d, "SetUp") /\ HasTag(d, "FEN") /\ ValueOf(d, "SetUp") # "1",
              "InvalidSetupValue")

\* parse_start_position, and the standard position where it finds none.
FromFen(d) == HasTag(d, "SetUp") /\ HasTag(d, "FEN") /\ StartErrors(d) = {}
StandardStart == [fen |-> FALSE, turn |-> "White", number |-> 1, aged |-> FALSE]
StartOf(d) == IF FromFen(d) THEN line.start ELSE StandardStart

LintVariant(d) ==
    When(HasTag(d, "Variant") /\ ValueOf(d, "Variant") # "standard" /\ ~FromFen(d),
         "VariantWithoutStartPosition")

NoNumber == [number |-> 0, dots |-> 0]

\* Where the replay stands: plies played, the number that waits for its move, the
\* termination marker, the errors found, and whether the loop was left.
Replay == [played |-> 0, pending |-> NoNumber, marker |-> "none", errors |-> {}, left |-> FALSE]

NumberErrors(s, d) ==
    LET start == StartOf(d)
        white == TurnAt(start, s.played) = "White"
    IN IF s.pending = NoNumber THEN When(white, "MissingMoveNumber")
       ELSE When(s.pending.number # NumberAt(start, s.played), "MoveNumberOutOfSequence")
            \cup When(s.pending.dots # (IF white THEN 1 ELSE 3), "InvalidMoveNumberFormat")

\* San::to_move: the moves of the game belong to the positions of the game.
Legal(token, s, d) == token.ply = s.played + 1 /\ StartOf(d) = line.start

LintMove(s, token, d) ==
    LET numbered == [s EXCEPT !.errors = @ \cup NumberErrors(s, d), !.pending = NoNumber]
    IN
    IF StartOf(d) = line.start /\ IsOver(s.played)
    THEN [numbered EXCEPT !.errors = @ \cup {"MovesAfterGameOver"}, !.left = TRUE]
    ELSE IF ~Legal(token, s, d) THEN [numbered EXCEPT !.errors = @ \cup {"IllegalMove"}]
    ELSE [numbered EXCEPT !.played = @ + 1,
            !.errors = @ \cup When(token.suffix # Suffix(line.effects[token.ply]),
                                   "IncorrectCheckSuffix")]

\* One token; the loop ends with the token after the termination marker.
LintToken(s, token, d) ==
    IF token.kind = "comment" THEN
        [s EXCEPT !.errors = @ \cup When(~token.good, "MalformedEvalAnnotation")]
    ELSE IF s.left THEN s
    ELSE IF s.marker # "none" THEN
        [s EXCEPT !.errors = @ \cup {"TokenAfterTermination"}, !.left = TRUE]
    ELSE IF token.kind = "result" THEN [s EXCEPT !.marker = token.result]
    ELSE IF token.kind = "number" THEN
        [s EXCEPT !.pending = [number |-> token.number, dots |-> token.dots],
                  !.errors = @ \cup When(s.pending # NoNumber, "UnexpectedMoveNumber")]
    ELSE LintMove(s, token, d)

LintMovetext(d) == FoldLeft(LAMBDA s, token : LintToken(s, token, d), Replay, d.tokens)

Winner(turn) == IF turn = "White" THEN "0-1" ELSE "1-0"

LintEnding(d, s) ==
    LET r == ValueOf(d, "Result")
        known == HasTag(d, "Result") /\ r \in PgnResults
        effect == IF StartOf(d) = line.start THEN EffectAt(s.played) ELSE "quiet"
        term == ValueOf(d, "Termination")
        draw == r = "1/2-1/2"
    IN When(s.pending # NoNumber, "MissingMoveAfterNumber")
       \cup When(s.marker = "none", "MissingTerminationMarker")
       \cup When(s.marker # "none" /\ HasTag(d, "Result") /\ r # s.marker, "ResultHeaderMismatch")
       \cup When(known /\ effect = "mate" /\ r # Winner(TurnAt(StartOf(d), s.played)),
                 "ResultPositionMismatch")
       \cup When(known /\ effect = "stale" /\ ~draw, "ResultPositionMismatch")
       \cup (IF ~HasTag(d, "Termination") THEN {"MissingTerminationTag"}
             ELSE When(term = "bogus", "InvalidTerminationValue")
                  \cup When(known /\ term = "resignation" /\ r \notin {"1-0", "0-1"},
                            "TerminationResultMismatch")
                  \cup When(known /\ term \in {"stalemate", "50-move rule"} /\ ~draw,
                            "TerminationResultMismatch")
                  \cup When(known /\ term = "unterminated" /\ r # "*",
                            "TerminationResultMismatch")
                  \cup When(known /\ draw /\ term = "stalemate" /\ effect # "stale",
                            "StalemateClaimButNotStalemate")
                  \cup When(known /\ draw /\ term = "50-move rule" /\ ~StartOf(d).aged,
                            "FiftyMoveRuleNotSatisfied"))

LintPgnExport(d) ==
    LET s == LintMovetext(d)
    IN LintTags(d) \cup StartErrors(d) \cup LintVariant(d) \cup s.errors \cup LintEnding(d, s)

(***************************************************************************)
(* parse_pgn and validate_game                                             *)
(***************************************************************************)
\* Numbers, comments and markers are dropped, whatever they say.
ParseMoves(d) == SelectSeq(d.tokens, LAMBDA t : t.kind = "san")

Readable(d) ==
    /\ HasTag(d, "White") /\ HasTag(d, "Black")
    /\ HasTag(d, "Result") => ValueOf(d, "Result") \in PgnResults

\* Always from the standard position.  San reads a move without its suffix only.
ValidateGame(moves) ==
    \A i \in DOMAIN moves : moves[i].ply = i /\ ~line.start.fen /\ moves[i].suffix = ""

\* POST /v1/games/import: read, replayed, inserted.
ImportAnswer(d) ==
    CASE ~Readable(d) -> 400
      [] Readable(d) /\ ~ValidateGame(ParseMoves(d)) -> 422
      [] OTHER -> 201

\* The row: a result of "*" becomes NULL.
Imported(d) ==
    [effects |-> [i \in DOMAIN ParseMoves(d) |-> line.effects[i]],
     result |-> IF HasTag(d, "Result") /\ ValueOf(d, "Result") # "*"
                THEN ValueOf(d, "Result") ELSE "none"]

\* GET /v1/games/{id}/pgn: no row has a Termination, a Variant or another start.
ExportStored(row, analysis) ==
    ExportPgn([start |-> StandardStart, effects |-> row.effects],
              [result |-> IF row.result = "none" THEN "*" ELSE row.result,
               termination |-> "none", variant |-> "none", analysis |-> analysis])

(***************************************************************************)
(* A document and what may happen to it                                    *)
(***************************************************************************)
PgnInit ==
    /\ line \in {[start |-> s, effects |-> e] :
                    s \in Starts, e \in UNION {LinesOf(n) : n \in 0..LongestGame}}
    /\ headers \in [result : PgnResults, termination : Terminations, variant : Variants,
                    analysis : BOOLEAN]
    /\ document = ExportPgn(line, headers)
    /\ blemishes = 0

Swapped(s, i) == [s EXCEPT ![i] = s[i + 1], ![i + 1] = s[i]]

Altered(token) ==
    IF token.kind = "number" THEN {[token EXCEPT !.number = @ + 1], [token EXCEPT !.dots = 4 - @]}
    ELSE IF token.kind = "san" THEN {[token EXCEPT !.suffix = x] : x \in {"", "+", "#"}}
    ELSE IF token.kind = "comment" THEN {[token EXCEPT !.good = FALSE]}
    ELSE {[token EXCEPT !.result = r] : r \in PgnResults}

Damaged(s) ==
    {RemoveAt(s, i) : i \in DOMAIN s} \cup {InsertAt(s, i, s[i]) : i \in DOMAIN s}
    \cup {Swapped(s, i) : i \in 1..(Len(s) - 1)}

DamageMovetext ==
    /\ blemishes < MaxBlemishes
    /\ \E tokens \in Damaged(document.tokens)
              \cup UNION {{[document.tokens EXCEPT ![i] = t] : t \in Altered(document.tokens[i])} :
                            i \in DOMAIN document.tokens} :
          document' = [document EXCEPT !.tokens = tokens]
    /\ blemishes' = blemishes + 1
    /\ UNCHANGED <<line, headers>>

DamageTags ==
    /\ blemishes < MaxBlemishes
    /\ \/ document' = [document EXCEPT !.blank = FALSE]
       \/ \E tags \in Damaged(document.tags)
                 \cup {[document.tags EXCEPT ![i].value = "bogus"] : i \in DOMAIN document.tags} :
             document' = [document EXCEPT !.tags = tags]
    /\ blemishes' = blemishes + 1
    /\ UNCHANGED <<line, headers>>

PgnNext == DamageMovetext \/ DamageTags

PgnSpec == PgnInit /\ [][PgnNext]_pgnVars

(***************************************************************************)
(* Conditions that hold                                                    *)
(***************************************************************************)
\* The headers of a game after k plies agree with each other and with the position.
HeadersAgree(h, k) ==
    /\ h.termination \notin {"none", "bogus"}
    /\ EffectAt(k) = "mate" => h.result = Winner(TurnAt(line.start, k))
    /\ EffectAt(k) = "stale" => h.result = "1/2-1/2"
    /\ h.termination = "resignation" => h.result \in {"1-0", "0-1"}
    /\ h.termination = "stalemate" => EffectAt(k) = "stale"
    /\ h.termination = "50-move rule" => h.result = "1/2-1/2" /\ line.start.aged
    /\ h.termination = "unterminated" => h.result = "*"
    /\ h.variant \in {"none", "standard"} \/ line.start.fen

\* A movetext without its comments and without the numbers of Black's moves, which may be
\* there or not.
Bare(tokens) == SelectSeq(tokens, LAMBDA t : t.kind # "comment")
WithoutBlacks(tokens) == SelectSeq(tokens, LAMBDA t : t.kind # "number" \/ t.dots = 1)

\* What a document may be: tags in their order, each once, and the beginning of the game
\* with well-formed comments, and before Black's moves the right numbers or none.
Canonical(d) ==
    LET all == Bare(d.tokens)
        moves == ParseMoves(d)
        Value(name) == IF HasTag(d, name) THEN ValueOf(d, name) ELSE "none"
        head == [result |-> Value("Result"), termination |-> Value("Termination"),
                 variant |-> Value("Variant")]
    IN
    /\ d.blank
    /\ Len(d.tags) >= Len(Roster) /\ SubSeq(Names(d.tags), 1, Len(Roster)) = Roster
    /\ IsInjective(Names(d.tags))
    /\ HasTag(d, "FEN") = line.start.fen
    /\ IF line.start.fen THEN Value("SetUp") = "1" ELSE ~HasTag(d, "SetUp")
    /\ head.result \in PgnResults
    /\ Len(moves) <= Len(line.effects)
    /\ HeadersAgree(head, Len(moves))
    /\ WithoutBlacks(all) = WithoutBlacks(FormatMovetext(line.start,
                                SubSeq(line.effects, 1, Len(moves)), head.result, FALSE))
    /\ \A i \in DOMAIN all : all[i].kind = "number" /\ all[i].dots # 1 =>
        /\ i < Len(all) /\ all[i + 1].kind = "san"
        /\ TurnAt(line.start, all[i + 1].ply - 1) = "Black"
        /\ all[i].number = NumberAt(line.start, all[i + 1].ply - 1) /\ all[i].dots = 3
    /\ \A i \in DOMAIN d.tokens : d.tokens[i].kind = "comment" => d.tokens[i].good

Plies(d) == [i \in DOMAIN ParseMoves(d) |-> ParseMoves(d)[i].ply]

\* What an imported game is exported as has the moves of the document and its result, but
\* lacks the tag that the gate asks for; with a check in it, it cannot be imported again.
ImportKeeps ==
    \A analysis \in BOOLEAN :
        LET again == ExportStored(Imported(document), analysis)
        IN  /\ Plies(again) = Plies(document)
            /\ HasTag(document, "Result") => ValueOf(again, "Result") = ValueOf(document, "Result")
            /\ LintPgnExport(again) # {}
            /\ ImportAnswer(again) = 201 <=>
                  \A i \in DOMAIN Plies(document) : Suffix(line.effects[i]) = ""

\* The gate lets through what export_pgn writes of headers that agree with the game, and
\* of damaged documents those that are still a game, and no others.  What was written is
\* read back move by move; it can be imported if it began at the standard position and
\* nobody was in check, and whatever can be imported, damaged or not, keeps its moves.
PgnSound ==
    /\ LintPgnExport(document) = {} <=> Canonical(document)
    /\ blemishes = 0 =>
        /\ LintPgnExport(document) = {} <=> HeadersAgree(headers, Len(line.effects))
        /\ Readable(document)
        /\ ParseMoves(document)
             = [i \in DOMAIN line.effects |->
                    [kind |-> "san", ply |-> i, suffix |-> Suffix(line.effects[i])]]
        /\ ImportAnswer(document) = 201 <=>
            \/ Len(line.effects) = 0
            \/ ~line.start.fen /\ \A i \in DOMAIN line.effects : Suffix(line.effects[i]) = ""
    /\ ImportAnswer(document) = 201 => ImportKeeps
=============================================================================
