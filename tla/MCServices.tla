------------------------------ MODULE MCServices ------------------------------
\* The backend's queues, limits, retries, tournaments, engines, workers, boards, game
\* documents and archive for TLC.  The modules share no variable: a behaviour picks one
\* part and the others stay as they are.
EXTENDS Matchmaking, Idempotency, Bracket, SwissTournament,
        SpectatorFanout, EngineCalls, WorkerPool, RateLimits, Board,
        Pgn, Archiving, ChessRules, TLC

CONSTANTS casual, rated, r1, r2, r3, a1, a2, a3, s1, c1, c2, c3

\* Brackets with and without byes; of double elimination a field that works.
MCFields ==
    {"SingleElimination"} \X (2..6)
        \cup {<<"DoubleElimination", 4>>, <<"RoundRobin", 3>>, <<"RoundRobin", 4>>}

\* Two entrants have the same rating.
MCRatings == <<20, 19, 19, 18, 17>>

\* Three players, or two of whom one sends two requests.
MCCasts == {<<1, 2, 3>>, <<1, 2, 1>>}

MCRoster == <<"White", "Black", "Result">>

\* The standard start, and a position in which Black is to move.
MCStarts ==
    {[fen |-> FALSE, turn |-> "White", number |-> 1, aged |-> FALSE],
     [fen |-> TRUE, turn |-> "Black", number |-> 2, aged |-> TRUE]}

\* A king, who can be checked along a line and a diagonal, and what may stand between.
MCSquares == {0, 1, 2, 9, 18, 27}

MCPieces ==
    {[color |-> "white", role |-> "king"], [color |-> "white", role |-> "pawn"],
     [color |-> "black", role |-> "queen"]}

MCGateways == <<"ipfs", "arweave">>

\* A game so new that the replica may not know it; two overlapping requests complete it.
MCBegun == [g1 |-> 0]
MCGameOf == [t1 |-> "g1", t2 |-> "g1"]

VARIABLE component

documentVars == <<pgnVars, archiveVars, reportVars, board, uciVars, ruleVars>>

vars == <<matchVars, idemVars, regVars, bracketVars, swissVars, pairVars,
          fanoutVars, engineVars, workerVars, limitVars, documentVars, component>>

NoDocument == line = <<>> /\ headers = <<>> /\ document = <<>> /\ blemishes = 0

Init ==
    /\ MatchInit /\ IdemInit /\ RegInit /\ BracketInit /\ SwissInit /\ PairInit
    /\ FanoutInit /\ EngineInit /\ WorkersInit /\ LimitsInit
    /\ ReportsInit /\ ArchiveInit /\ EmptyBoard /\ UciInit /\ RulesInit
    /\ component \in {"matchmaking", "idempotency", "registration", "bracket", "swiss",
                     "pairing", "fanout", "engine", "workers", "requests",
                     "frames", "admission", "reports", "archive", "pgn", "board", "process",
                     "rules"}
    /\ IF component = "pgn" THEN PgnInit ELSE NoDocument
    \* What a behaviour does not use starts in one way only.
    /\ component # "registration" => \A r \in Registrations : Entering(r) = r
    /\ component # "bracket" => bracket = CreateBracket("RoundRobin", 3)
    /\ component # "swiss" => Cardinality(Entrants) = 3
    /\ component # "pairing" => Len(history) = 3
    /\ component # "workers" => Len(workers) = 1

Queueing ==
    /\ component = "matchmaking" /\ MatchNext
    /\ UNCHANGED <<idemVars, regVars, bracketVars, swissVars, pairVars,
                   fanoutVars, engineVars, workerVars, limitVars, documentVars, component>>

Retrying ==
    /\ component = "idempotency" /\ IdemNext
    /\ UNCHANGED <<matchVars, regVars, bracketVars, swissVars, pairVars,
                   fanoutVars, engineVars, workerVars, limitVars, documentVars, component>>

Registering ==
    /\ component = "registration" /\ RegNext
    /\ UNCHANGED <<matchVars, idemVars, bracketVars, swissVars, pairVars,
                   fanoutVars, engineVars, workerVars, limitVars, documentVars, component>>

Eliminating ==
    /\ component = "bracket" /\ BracketNext
    /\ UNCHANGED <<matchVars, idemVars, regVars, swissVars, pairVars,
                   fanoutVars, engineVars, workerVars, limitVars, documentVars, component>>

PlayingSwiss ==
    /\ component = "swiss" /\ SwissNext
    /\ UNCHANGED <<matchVars, idemVars, regVars, bracketVars, pairVars,
                   fanoutVars, engineVars, workerVars, limitVars, documentVars, component>>

Pairing ==
    /\ component = "pairing" /\ PairNext
    /\ UNCHANGED <<matchVars, idemVars, regVars, bracketVars, swissVars,
                   fanoutVars, engineVars, workerVars, limitVars, documentVars, component>>

Watching ==
    /\ component = "fanout" /\ FanoutNext
    /\ UNCHANGED <<matchVars, idemVars, regVars, bracketVars, swissVars,
                   pairVars, engineVars, workerVars, limitVars, documentVars, component>>

Calculating ==
    /\ component = "engine" /\ EngineNext
    /\ UNCHANGED <<matchVars, idemVars, regVars, bracketVars, swissVars,
                   pairVars, fanoutVars, workerVars, limitVars, documentVars, component>>

Analysing ==
    /\ component = "workers" /\ WorkersNext
    /\ UNCHANGED <<matchVars, idemVars, regVars, bracketVars, swissVars,
                   pairVars, fanoutVars, engineVars, limitVars, documentVars, component>>

LimitingRequests ==
    /\ component = "requests" /\ HttpNext
    /\ UNCHANGED <<matchVars, idemVars, regVars, bracketVars, swissVars,
                   pairVars, fanoutVars, engineVars, workerVars, documentVars, component>>

LimitingFrames ==
    /\ component = "frames" /\ FramesNext
    /\ UNCHANGED <<matchVars, idemVars, regVars, bracketVars, swissVars,
                   pairVars, fanoutVars, engineVars, workerVars, documentVars, component>>

Admitting ==
    /\ component = "admission" /\ AdmissionNext
    /\ UNCHANGED <<matchVars, idemVars, regVars, bracketVars, swissVars,
                   pairVars, fanoutVars, engineVars, workerVars, documentVars, component>>

Reporting ==
    /\ component = "reports" /\ ReportsNext
    /\ UNCHANGED <<matchVars, idemVars, regVars, bracketVars, swissVars, pairVars,
                   fanoutVars, engineVars, workerVars, limitVars, pgnVars, archiveVars,
                   board, uciVars, ruleVars, component>>

KeepingGames ==
    /\ component = "archive" /\ ArchiveNext
    /\ UNCHANGED <<matchVars, idemVars, regVars, bracketVars, swissVars, pairVars,
                   fanoutVars, engineVars, workerVars, limitVars, pgnVars, reportVars,
                   board, uciVars, ruleVars, component>>

Linting ==
    /\ component = "pgn" /\ PgnNext
    /\ UNCHANGED <<matchVars, idemVars, regVars, bracketVars, swissVars, pairVars,
                   fanoutVars, engineVars, workerVars, limitVars, archiveVars, reportVars,
                   board, uciVars, ruleVars, component>>

SettingUp ==
    /\ component = "board" /\ BoardNext
    /\ UNCHANGED <<matchVars, idemVars, regVars, bracketVars, swissVars, pairVars,
                   fanoutVars, engineVars, workerVars, limitVars, pgnVars, archiveVars,
                   reportVars, uciVars, ruleVars, component>>

Searching ==
    /\ component = "process" /\ UciNext
    /\ UNCHANGED <<matchVars, idemVars, regVars, bracketVars, swissVars, pairVars,
                   fanoutVars, engineVars, workerVars, limitVars, pgnVars, archiveVars,
                   reportVars, board, ruleVars, component>>

Ruling ==
    /\ component = "rules" /\ RulesNext
    /\ UNCHANGED <<matchVars, idemVars, regVars, bracketVars, swissVars, pairVars,
                   fanoutVars, engineVars, workerVars, limitVars, pgnVars, archiveVars,
                   reportVars, board, uciVars, component>>

Next ==
    \/ Queueing \/ Retrying \/ Registering \/ Eliminating \/ PlayingSwiss \/ Pairing
    \/ Watching \/ Calculating \/ Analysing
    \/ LimitingRequests \/ LimitingFrames \/ Admitting \/ Reporting
    \/ KeepingGames \/ Linting \/ SettingUp \/ Searching \/ Ruling

Spec == Init /\ [][Next]_vars

\* Brackets alone, of eight: the smallest full field in which two winners of the losers'
\* bracket go on to the same match.
MCEight == {<<"DoubleElimination", 8>>}

BracketAlone == Init /\ component = "bracket" /\ [][Eliminating]_vars

\* Retried, engine and limited calls, analyses, reports, frames for spectators, archiving
\* tasks and registrations are each treated once and within their limits, as far as Redis
\* answers: the conditions of Idempotency, EngineCalls, WorkerPool, RateLimits,
\* SpectatorFanout and Archiving, of the registration in Bracket and of the draws in
\* ChessRules, each where its component runs.
CallsSound ==
    /\ component = "idempotency" => IdempotencySound
    /\ component = "engine" => EngineSound
    /\ component = "process" => UciSound
    /\ component = "workers" => WorkersSound
    /\ component \in {"requests", "frames", "admission"} => LimitsSound
    /\ component = "reports" => ReportsSound
    /\ component = "fanout" => FanoutSound
    /\ component = "archive" => ArchivingSound
    /\ component = "registration" => RegistrationSound
    /\ component = "rules" => DrawsSound

\* A game starts as the rules say, what is written down of it is what was played, and a
\* bracket of the fields checked here loses nobody: single eliminations and round robins of
\* every size, but double eliminations of four only (bracket.rs:136 loses a player of many
\* others, eight among them).  The conditions of ChessRules, Pgn and Bracket.
DocumentsSound ==
    /\ component = "rules" => StartsSound
    /\ component = "pgn" => PgnSound
    /\ component = "bracket" => BracketSound

\* Entrants meet and are paired as they should: the conditions of SwissTournament, and of
\* Bracket for single eliminations and round robins.
TournamentsSound ==
    /\ component = "bracket" => OneBracketSound
    /\ component = "swiss" => SwissSound
    /\ component = "pairing" => PairingSound

Symmetry == Permutations(Requests)
=============================================================================
