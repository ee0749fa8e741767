------------------------------- MODULE Archiving -------------------------------
(***************************************************************************)
(* Archiving completed games (src/backend/modules/api/src/archive.rs,      *)
(* api/src/games.rs, archiving/src/lib.rs).  A request that completes a    *)
(* game reads its row back, from the replica, and starts a task that       *)
(* uploads the PGN to one or two networks, one after the other; what fails *)
(* goes to a queue of dead letters in memory, which keeps the id only.     *)
(* Requests that overlap may complete one game each, and each starts a     *)
(* task of its own.  retry_failed_jobs takes the whole queue and tries     *)
(* each letter once more, with a document made up from the id.  An upload  *)
(* whose answer is lost has still happened.                                *)
(***************************************************************************)
EXTENDS Integers, Sequences, SequencesExt

CONSTANTS
    Archivals,      \* requests to complete a game, and the tasks they start
    GameOf,         \* of each, its game
    Begun,          \* of each game, how many moves it has had and the replica knows of
    MaxNewMoves,    \* bound of the model: moves still to be played
    Gateways,       \* networks with a gateway, in the order they are tried
    Retriers,       \* calls of retry_failed_jobs in flight
    MaxTries        \* bound of the model: tries of one job

RowIds == DOMAIN Begun

ASSUME ArchivingAssumption ==
    /\ Gateways \in {<<>>, <<"ipfs">>, <<"arweave">>, <<"ipfs", "arweave">>}
    /\ Begun \in [RowIds -> Nat] /\ GameOf \in [Archivals -> RowIds]
    /\ {MaxNewMoves, MaxTries} \subseteq Nat

VARIABLES
    plies,          \* of a game: the moves in its row, on the primary
    known,          \* on the replica: 0 without a row, else one more than its moves
    stage,          \* of a request: "playing", "completed", the next upload, or the end
    given,          \* the moves its task was given
    deadLetters,    \* DEAD_LETTER_QUEUE: the game's id and retry_count
    batch,          \* of every retry: the jobs it took and has not finished
    uploads,        \* what is on the networks
    tried           \* history: how often a task's upload was tried

rowVars == <<plies, known>>
archiveVars == <<rowVars, stage, given, deadLetters, batch, uploads, tried>>

\* A game without moves may be too new for the replica.
ArchiveInit ==
    /\ plies = Begun
    /\ known = [g \in RowIds |-> IF Begun[g] = 0 THEN 0 ELSE Begun[g] + 1]
    /\ stage = [c \in Archivals |-> "playing"]
    /\ given = [c \in Archivals |-> 0]
    /\ deadLetters = <<>>
    /\ batch = [r \in Retriers |-> <<>>]
    /\ uploads = {}
    /\ tried = [c \in Archivals |-> 0]

-----------------------------------------------------------------------------
\* The document, move by move: every second one has its number in front.
Unnumbered == 0

PgnToString(n) ==
    [i \in 1..n |-> [number |-> IF i % 2 = 1 THEN (i + 1) \div 2 ELSE Unnumbered, move |-> i]]

\* What a task uploads: the PGN, and metadata that count whole rounds.
ToRequest(c) == [text |-> PgnToString(given[c]), rounds |-> given[c] \div 2, genuine |-> TRUE]

\* What a retry makes up.
StubRequest == [text |-> <<>>, rounds |-> 0, genuine |-> FALSE]

Upload(c, network, request) == [game |-> GameOf[c], network |-> network, request |-> request]

\* The letter has the id of the game; whose it is, of its tasks, is only recorded.
Dead(c, n) == [of |-> c, tries |-> n]

-----------------------------------------------------------------------------
\* The game and the two databases.

Finishers(g) == {c \in Archivals : GameOf[c] = g}

PlayMove(g) ==
    /\ \A c \in Finishers(g) : stage[c] = "playing"
    /\ plies[g] < Begun[g] + MaxNewMoves
    /\ plies' = [plies EXCEPT ![g] = @ + 1]
    /\ UNCHANGED <<known, stage, given, deadLetters, batch, uploads, tried>>

\* Bound: nobody asks the replica for a game once its tasks have the moves.
RowArrives(g) ==
    /\ \E c \in Finishers(g) : stage[c] \in {"playing", "completed"}
    /\ known[g] < plies[g] + 1
    /\ known' = [known EXCEPT ![g] = @ + 1]
    /\ UNCHANGED <<plies, stage, given, deadLetters, batch, uploads, tried>>

\* The request found its player in the replica's row, GameService::complete_game found the
\* game open, and its transaction has committed.  Another that overlaps it found it open too.
CompletesGame(c) ==
    /\ stage[c] = "playing" /\ known[GameOf[c]] # 0
    /\ stage' = [stage EXCEPT ![c] = "completed"]
    /\ UNCHANGED <<rowVars, given, deadLetters, batch, uploads, tried>>

\* With a gateway, a task is given the moves the replica knows.
SpawnArchive(c) ==
    /\ Gateways # <<>> /\ known[GameOf[c]] # 0
    /\ given' = [given EXCEPT ![c] = known[GameOf[c]] - 1]
    /\ stage' = [stage EXCEPT ![c] = Gateways[1]]
    /\ tried' = [tried EXCEPT ![c] = 1]

\* Without one nothing is archived, nor when the replica has no row or fails.  The answer
\* to the player does not wait for the task.
ReadsBack(c) ==
    /\ stage[c] = "completed"
    /\ \/ SpawnArchive(c)
       \/ stage' = [stage EXCEPT ![c] = "left"] /\ UNCHANGED <<given, tried>>
    /\ UNCHANGED <<rowVars, deadLetters, batch, uploads>>

-----------------------------------------------------------------------------
\* The task.

Uploading(c, network) == stage[c] = network /\ \E i \in DOMAIN Gateways : Gateways[i] = network

NextStep(c) ==
    IF stage[c] = Last(Gateways) THEN "archived" ELSE Gateways[Len(Gateways)]

Uploads(c, network) ==
    /\ Uploading(c, network)
    /\ uploads' = uploads \cup {Upload(c, network, ToRequest(c))}
    /\ stage' = [stage EXCEPT ![c] = NextStep(c)]
    /\ UNCHANGED <<rowVars, given, deadLetters, batch, tried>>

ArchiveToIpfs(c) == Uploads(c, "ipfs")

ArchiveToArweave(c) == Uploads(c, "arweave")

\* The document is too large, the network refuses it, or its answer does not come in time.
\* What the first network has taken stays there, unrecorded.
ArchiveFails(c, network) ==
    /\ Uploading(c, network)
    /\ \/ UNCHANGED uploads
       \/ uploads' = uploads \cup {Upload(c, network, ToRequest(c))}
    /\ stage' = [stage EXCEPT ![c] = "failed"]
    /\ deadLetters' = Append(deadLetters, Dead(c, 1))
    /\ UNCHANGED <<rowVars, given, batch, tried>>

-----------------------------------------------------------------------------
\* The dead letters.

LeftAfterTake(queue) == <<>>

TakeDeadLetters(r) ==
    /\ batch[r] = <<>> /\ deadLetters # <<>>
    /\ batch' = [batch EXCEPT ![r] = deadLetters]
    /\ deadLetters' = LeftAfterTake(deadLetters)
    /\ UNCHANGED <<rowVars, given, stage, uploads, tried>>

\* One job of a retry; always to IPFS, whichever networks were wanted.
RetryJob(r) ==
    LET letter == Head(batch[r])
        c == letter.of
    IN
    /\ batch[r] # <<>> /\ tried[c] < MaxTries
    /\ batch' = [batch EXCEPT ![r] = Tail(@)]
    /\ tried' = [tried EXCEPT ![c] = @ + 1]
    /\ \/ /\ uploads' = uploads \cup {Upload(c, "ipfs", StubRequest)}
          /\ stage' = [stage EXCEPT ![c] = "stubbed"]
          /\ UNCHANGED deadLetters
       \/ /\ \/ UNCHANGED uploads
             \/ uploads' = uploads \cup {Upload(c, "ipfs", StubRequest)}
          /\ deadLetters' = Append(deadLetters, Dead(c, letter.tries + 1))
          /\ UNCHANGED stage
    /\ UNCHANGED <<rowVars, given>>

\* The caller of retry_failed_jobs goes away: its future is dropped with the jobs.
RetryDropped(r) ==
    /\ batch[r] # <<>>
    /\ stage' = [c \in Archivals |-> IF \E i \in DOMAIN batch[r] : batch[r][i].of = c
                                    THEN "lost" ELSE stage[c]]
    /\ batch' = [batch EXCEPT ![r] = <<>>]
    /\ UNCHANGED <<rowVars, given, deadLetters, uploads, tried>>

\* Tasks, queue and retries are in memory, and so are the requests: a later one finds a
\* completed game closed.
ArchiverRestarts ==
    /\ stage' = [c \in Archivals |->
          CASE stage[c] = "playing" ->
                   IF \E d \in Finishers(GameOf[c]) : stage[d] # "playing" THEN "left"
                   ELSE "playing"
            [] stage[c] \in {"left", "archived", "stubbed", "lost"} -> stage[c]
            [] OTHER -> "lost"]
    /\ deadLetters' = <<>>
    /\ batch' = [r \in Retriers |-> <<>>]
    /\ UNCHANGED <<rowVars, given, uploads, tried>>

ArchiveNext ==
    \/ \E g \in RowIds : PlayMove(g) \/ RowArrives(g)
    \/ \E c \in Archivals :
        \/ CompletesGame(c) \/ ReadsBack(c)
        \/ ArchiveToIpfs(c) \/ ArchiveToArweave(c)
        \/ \E i \in DOMAIN Gateways : ArchiveFails(c, Gateways[i])
    \/ \E r \in Retriers : TakeDeadLetters(r) \/ RetryJob(r) \/ RetryDropped(r)
    \/ ArchiverRestarts

ArchiveSpec == ArchiveInit /\ [][ArchiveNext]_archiveVars

(***************************************************************************)
(* Conditions that hold                                                    *)
(***************************************************************************)
TasksOf(jobs) == {jobs[i].of : i \in DOMAIN jobs}

OnceEach(jobs) == \A i, j \in DOMAIN jobs : jobs[i].of = jobs[j].of => i = j

\* A task that failed waits for its next try exactly once, in the queue or with one retry,
\* and no other task does; a game waits once for each of its tasks that failed.
WaitsOnce ==
    /\ OnceEach(deadLetters)
    /\ \A r \in Retriers :
        /\ OnceEach(batch[r]) /\ TasksOf(batch[r]) \cap TasksOf(deadLetters) = {}
        /\ \A s \in Retriers \ {r} : TasksOf(batch[r]) \cap TasksOf(batch[s]) = {}
    /\ \A c \in Archivals :
        stage[c] = "failed" <=> \/ c \in TasksOf(deadLetters)
                                \/ \E r \in Retriers : c \in TasksOf(batch[r])

\* Read back, the document is the game's first moves, in order and numbered from one, and
\* its metadata count the rounds that are whole.
Genuine(g, request) ==
    LET text == request.text
        number(i) == text[i].number
    IN  /\ request.genuine /\ Len(text) <= plies[g]
        /\ \A i \in DOMAIN text : text[i].move = i
        /\ text # <<>> => number(1) = 1
        /\ \A i \in DOMAIN text : i > 1 => (number(i) = Unnumbered) = (number(i - 1) # Unnumbered)
        /\ \A i \in DOMAIN text : i > 2 /\ number(i) # Unnumbered => number(i) = number(i - 2) + 1
        /\ Len(text) - 2 * request.rounds \in {0, 1}

\* A failed task waits once, and its count says how often it was tried.  A game whose task
\* counts as archived is on every network with the same document, whatever reached the
\* replica between the uploads: the moves up to some ply, which may not be the last, nor that
\* of the document another of its tasks uploads.  One a retry finished is there in name only.
ArchivingSound ==
    /\ WaitsOnce
    /\ \A i \in DOMAIN deadLetters : deadLetters[i].tries = tried[deadLetters[i].of]
    /\ \A u \in uploads : u.request = StubRequest \/ Genuine(u.game, u.request)
    /\ \A c \in Archivals :
        /\ stage[c] = "archived" =>
              \E u \in uploads : \A i \in DOMAIN Gateways :
                  Upload(c, Gateways[i], u.request) \in uploads /\ u.request.genuine
        /\ stage[c] = "stubbed" => Upload(c, "ipfs", StubRequest) \in uploads
=============================================================================
