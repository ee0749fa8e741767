------------------------------ MODULE MCProgress ------------------------------
\* What must happen in the end, for TLC: of the arbiter escrow, whose disputes must be
\* settled, and of the game service, whose requests must be answered.  They share no
\* state: a behaviour picks one of them, under its own fairness, and the other stays
\* as it is.
EXTENDS MCArbiterEscrow

CONSTANTS ann, ben, g1, g2, q1, q2, Players, Nobody, Games, Requests, None, Outcomes,
          Ops, MaxMoves

VARIABLES rows, elo, task, gameLock, playerLock, component

Service == INSTANCE GameService

Settling == {"join_game", "complete_game"}

progressVars == <<vars, rows, elo, task, gameLock, playerLock, component>>

ProgressInit ==
    /\ Init /\ Service!Init
    /\ component \in {"arbitration", "games"}
    /\ component = "games" => admin = boss

ProgressNext ==
    \/ /\ component = "arbitration" /\ Next
       /\ UNCHANGED <<rows, elo, task, gameLock, playerLock, component>>
    \/ /\ component = "games" /\ Service!Next
       /\ UNCHANGED <<vars, component>>

ProgressSpec ==
    /\ ProgressInit /\ [][ProgressNext]_progressVars
    /\ component = "arbitration" => Fairness
    /\ component = "games" => Service!Fairness

\* Every request to the game service is answered (GameService).
EveryRequestAnswered == Service!EveryRequestAnswered
=============================================================================
