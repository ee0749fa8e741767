----------------------------- MODULE EngineCalls -----------------------------
(***************************************************************************)
(* Calls of the chess engine: the admission pool                           *)
(* (src/backend/modules/service/src/engine_pool.rs), a fair semaphore with *)
(* a timeout and a count of its own, and the circuit breaker around the    *)
(* call (circuit_breaker.rs, engine_service.rs).  The breaker decides      *)
(* before a call and records after it; calls of one EngineService that     *)
(* overlap record in any order.                                            *)
(***************************************************************************)
EXTENDS Integers, Sequences, FiniteSets, SequencesExt

CONSTANTS
    Callers,
    Slots,               \* capacity of the pool
    FailureThreshold, SuccessThreshold,
    OpenTimeout          \* in ticks

ASSUME EngineAssumption ==
    /\ Slots \in Nat \ {0} /\ OpenTimeout \in Nat
    /\ FailureThreshold \in Nat \ {0} /\ SuccessThreshold \in Nat \ {0}
    /\ IsFiniteSet(Callers)

VARIABLES
    calls,       \* where each caller stands
    waiters,     \* who waits for a slot, in order
    inFlight,    \* PoolInner.in_flight
    breaker,     \* InnerState; age is the time since opened_at
    streak       \* the last outcome recorded and how often in a row: no code reads it

engineVars == <<calls, waiters, inFlight, breaker, streak>>

Healthy == [state |-> "Closed", failures |-> 0, successes |-> 0, age |-> 0]

EngineInit ==
    /\ calls = [c \in Callers |-> "away"]
    /\ waiters = <<>> /\ inFlight = 0
    /\ breaker = Healthy
    /\ streak = [kind |-> "ok", times |-> 0]

\* Who holds a permit of the semaphore.
Holding == {c \in Callers : calls[c] \in {"granted", "admitted", "running", "leaving"}}

\* EnginePool::acquire: a free slot or a place in the queue.
AcquireSlot(c) ==
    /\ calls[c] = "away"
    /\ \/ /\ Cardinality(Holding) < Slots
          /\ calls' = [calls EXCEPT ![c] = "granted"]
          /\ UNCHANGED waiters
       \/ /\ Cardinality(Holding) = Slots
          /\ calls' = [calls EXCEPT ![c] = "waiting"]
          /\ waiters' = Append(waiters, c)
    /\ UNCHANGED <<inFlight, breaker, streak>>

\* try_acquire fails at once where acquire waits: no change.  The wait ends by its timeout.
WaitTimesOut(c) ==
    /\ calls[c] = "waiting"
    /\ calls' = [calls EXCEPT ![c] = "away"]
    /\ \E i \in DOMAIN waiters : waiters[i] = c /\ waiters' = RemoveAt(waiters, i)
    /\ UNCHANGED <<inFlight, breaker, streak>>

\* admit.
Admit(c) ==
    /\ calls[c] = "granted"
    /\ calls' = [calls EXCEPT ![c] = "admitted"]
    /\ inFlight' = inFlight + 1
    /\ UNCHANGED <<waiters, breaker, streak>>

\* before_call: through when closed or half open, and the first one after the timeout.
LetThrough == breaker.state # "Open" \/ breaker.age >= OpenTimeout

BeforeCall(c) ==
    /\ calls[c] = "admitted"
    /\ calls' = [calls EXCEPT ![c] = IF LetThrough THEN "running" ELSE "leaving"]
    /\ breaker' = IF LetThrough /\ breaker.state = "Open"
                  THEN [breaker EXCEPT !.state = "HalfOpen", !.successes = 0]
                  ELSE breaker
    /\ inFlight' = IF LetThrough THEN inFlight ELSE inFlight - 1
    /\ UNCHANGED <<waiters, streak>>

Tripped == [state |-> "Open", failures |-> 0, successes |-> 0, age |-> 0]

\* on_success.
AfterSuccess(b) ==
    LET proven == b.successes + 1 >= SuccessThreshold
        ok == [b EXCEPT !.failures = 0]
    IN  CASE b.state = "Open" -> ok
          [] b.state = "Closed" -> [ok EXCEPT !.successes = 0]
          [] b.state = "HalfOpen" /\ proven -> [ok EXCEPT !.state = "Closed", !.successes = 0]
          [] OTHER -> [ok EXCEPT !.successes = @ + 1]

\* One failure late.
BadAfterFailure(b) ==
    LET trips == b.state = "HalfOpen" \/ (b.state = "Closed" /\ b.failures >= FailureThreshold)
        failures == IF b.failures < FailureThreshold THEN b.failures + 1 ELSE b.failures
    IN  IF trips THEN [Tripped EXCEPT !.failures = failures]
                 ELSE [b EXCEPT !.failures = failures, !.successes = 0]

\* on_failure.  Failures beyond the threshold change nothing: the model stops counting.
AfterFailure(b) ==
    LET failures == IF b.failures < FailureThreshold THEN b.failures + 1 ELSE b.failures
        trips == b.state = "HalfOpen" \/ (b.state = "Closed" /\ failures >= FailureThreshold)
    IN  IF trips THEN [Tripped EXCEPT !.failures = failures]
                 ELSE [b EXCEPT !.failures = failures, !.successes = 0]

Longest == FailureThreshold + SuccessThreshold

\* The operation answered, failed or took longer than request_timeout; the breaker records
\* it, and the permit's Drop lowers in_flight before the permit itself is dropped.
CallEnds(c, kind) ==
    /\ calls[c] = "running"
    /\ breaker' = IF kind = "ok" THEN AfterSuccess(breaker) ELSE AfterFailure(breaker)
    /\ streak' = IF streak.kind # kind THEN [kind |-> kind, times |-> 1]
                 ELSE [streak EXCEPT !.times = IF @ < Longest THEN @ + 1 ELSE @]
    /\ calls' = [calls EXCEPT ![c] = "leaving"]
    /\ inFlight' = inFlight - 1
    /\ UNCHANGED waiters

\* The permit goes to the first who waits.
ReleasePermit(c) ==
    /\ calls[c] = "leaving"
    /\ \/ /\ waiters = <<>>
          /\ calls' = [calls EXCEPT ![c] = "away"]
          /\ UNCHANGED waiters
       \/ /\ waiters # <<>>
          /\ calls' = [calls EXCEPT ![c] = "away", ![Head(waiters)] = "granted"]
          /\ waiters' = Tail(waiters)
    /\ UNCHANGED <<inFlight, breaker, streak>>

\* CircuitBreaker::reset.
ResetBreaker ==
    /\ breaker' = Healthy
    /\ streak' = [kind |-> "ok", times |-> 0]
    /\ UNCHANGED <<calls, waiters, inFlight>>

TimeTicks ==
    /\ breaker.state = "Open" /\ breaker.age < OpenTimeout
    /\ breaker' = [breaker EXCEPT !.age = @ + 1]
    /\ UNCHANGED <<calls, waiters, inFlight, streak>>

EngineNext ==
    \/ \E c \in Callers :
        AcquireSlot(c) \/ WaitTimesOut(c) \/ Admit(c) \/ BeforeCall(c) \/ ReleasePermit(c)
    \/ \E c \in Callers, kind \in {"ok", "failed"} : CallEnds(c, kind)
    \/ ResetBreaker
    \/ TimeTicks

EngineSpec == EngineInit /\ [][EngineNext]_engineVars

-----------------------------------------------------------------------------

\* Never more calls in flight than slots (engine_pool.rs:246), and nobody waits beside a
\* free one.
PoolBounded ==
    /\ inFlight \in 0..Slots
    /\ inFlight = Cardinality({c \in Callers : calls[c] \in {"admitted", "running"}})
    /\ Cardinality(Holding) <= Slots
    /\ waiters # <<>> => Cardinality(Holding) = Slots

\* A closed breaker has not just seen FailureThreshold failures in a row, however the calls
\* that reported them overlapped; an open or half open one has failed since its last run of
\* SuccessThreshold successes while half open; a half open one is still short of that run.
BreakerJustified ==
    /\ breaker.state = "Closed" => ~(streak.kind = "failed" /\ streak.times >= FailureThreshold)
    /\ breaker.state = "HalfOpen" =>
        breaker.successes < SuccessThreshold
        /\ (streak.kind = "ok" => breaker.successes <= streak.times)
        /\ (streak.kind = "failed" => breaker.successes = 0)

EngineSound == PoolBounded /\ BreakerJustified
-----------------------------------------------------------------------------
(***************************************************************************)
(* One engine process (src/backend/modules/engine/src/process.rs), spoken  *)
(* to over two pipes by the one owner of a ProcessEngine, a call at a      *)
(* time.  A call that takes too long tells the engine to stop and reads on *)
(* until the line it waits for, without a limit.  read_line is given up in *)
(* the middle of a line when the time is over (tokio's read_line loses     *)
(* what it has read then): the rest of the line means nothing.             *)
(***************************************************************************)
CONSTANTS
    MaxSearches,    \* bound of the model: go commands
    MaxUciCalls,    \* bound of the model: other calls
    NoLine

ASSUME UciAssumption ==
    NoLine \notin [kind : {"uciok", "readyok", "info", "bestmove", "torn"}, of : Nat]

VARIABLES
    stdin,          \* commands on their way to the engine
    stdout,         \* lines on their way back
    uci,            \* the engine: idle, searching or dead, and which search
    owner,          \* the call in progress
    asked,          \* go commands sent; calls counts the others
    answered,       \* history: what go has answered
    torn            \* history: the line that a timeout has torn apart

uciVars == <<stdin, stdout, uci, owner, asked, answered, torn>>

Line(kind) == [kind |-> kind, of |-> uci.search]

UciInit ==
    /\ stdin = <<"uci">> /\ stdout = <<>>
    /\ uci = [state |-> "idle", search |-> 0]
    /\ owner = [stage |-> "starting", info |-> NoLine]
    /\ asked = [go |-> 0, calls |-> 0]
    /\ answered = {} /\ torn = NoLine

\* The engine takes its next command; stop means nothing to one that does not search.
EngineReads ==
    LET command == Head(stdin)
    IN
    /\ stdin # <<>> /\ uci.state # "dead"
    /\ stdin' = Tail(stdin)
    /\ CASE command = "go" ->
              uci' = [state |-> "searching", search |-> uci.search + 1] /\ UNCHANGED stdout
         [] command = "stop" /\ uci.state = "searching" ->
              uci' = [uci EXCEPT !.state = "idle"] /\ stdout' = Append(stdout, Line("bestmove"))
         [] command = "uci" -> stdout' = Append(stdout, Line("uciok")) /\ UNCHANGED uci
         [] command = "isready" -> stdout' = Append(stdout, Line("readyok")) /\ UNCHANGED uci
         [] command = "quit" -> uci' = [uci EXCEPT !.state = "dead"] /\ UNCHANGED stdout
         [] OTHER -> UNCHANGED <<uci, stdout>>
    /\ UNCHANGED <<owner, asked, answered, torn>>

EngineSays ==
    /\ uci.state = "searching"
    /\ \/ /\ Line("info") \notin {stdout[i] : i \in DOMAIN stdout}  \* bound
          /\ stdout' = Append(stdout, Line("info"))
          /\ UNCHANGED uci
       \/ /\ stdout' = Append(stdout, Line("bestmove"))
          /\ uci' = [uci EXCEPT !.state = "idle"]
    /\ UNCHANGED <<stdin, owner, asked, answered, torn>>

EngineDies ==
    /\ uci.state # "dead"
    /\ uci' = [uci EXCEPT !.state = "dead"]
    /\ UNCHANGED <<stdin, stdout, owner, asked, answered, torn>>

Sends(command, stage) ==
    /\ stdin' = Append(stdin, command)
    /\ owner' = [stage |-> stage, info |-> NoLine]

\* go; is_ready; stop, and the uci that an orchestrator sends once more for its options.
Go ==
    /\ owner.stage = "idle" /\ asked.go < MaxSearches
    /\ Sends("go", "going")
    /\ asked' = [asked EXCEPT !.go = @ + 1]
    /\ UNCHANGED <<stdout, uci, answered, torn>>

AsksTheEngine ==
    /\ owner.stage = "idle" /\ asked.calls < MaxUciCalls
    /\ Sends("isready", "asking") \/ Sends("stop", "idle") \/ Sends("uci", "idle")
    /\ asked' = [asked EXCEPT !.calls = @ + 1]
    /\ UNCHANGED <<stdout, uci, answered, torn>>

\* The line that ends the wait of a stage.
Awaited == [starting |-> "uciok", going |-> "bestmove", draining |-> "bestmove",
            asking |-> "readyok", waiting |-> "readyok"]

\* A line is read: the one waited for ends the call, an info is kept by a search.
OwnerReads ==
    LET line == Head(stdout)
    IN
    /\ owner.stage \in DOMAIN Awaited /\ stdout # <<>>
    /\ stdout' = Tail(stdout)
    /\ owner' = CASE line.kind = Awaited[owner.stage] -> [stage |-> "idle", info |-> NoLine]
                  [] line.kind = "info" /\ owner.stage = "going" -> [owner EXCEPT !.info = line]
                  [] OTHER -> owner
    /\ answered' = IF owner.stage = "going" /\ line.kind = "bestmove"
                   THEN answered \cup {[go |-> asked.go, move |-> line, info |-> owner.info]}
                   ELSE answered
    /\ UNCHANGED <<stdin, uci, asked, torn>>

AfterTimeout(stage) == IF stage = "asking" THEN "waiting" ELSE "draining"

\* The time of a search or of is_ready is over, perhaps in the middle of a line.
OwnerTimesOut ==
    /\ owner.stage \in {"going", "asking"}
    /\ Sends("stop", AfterTimeout(owner.stage))
    /\ \/ UNCHANGED <<stdout, torn>>
       \/ /\ stdout # <<>>
          /\ stdout' = <<[Head(stdout) EXCEPT !.kind = "torn"]>> \o Tail(stdout)
          /\ torn' = Head(stdout)
    /\ UNCHANGED <<uci, asked, answered>>

\* The pipe is closed and empty, or uciok took five seconds: the call fails.
OwnerFails ==
    /\ \/ owner.stage \in DOMAIN Awaited /\ uci.state = "dead" /\ stdout = <<>>
       \/ owner.stage = "starting"
    /\ owner' = [owner EXCEPT !.stage = "gone"]
    /\ UNCHANGED <<stdin, stdout, uci, asked, answered, torn>>

\* quit, or the future of the call is dropped: Drop kills the process.
OwnerLeaves ==
    /\ owner.stage # "gone"
    /\ owner' = [owner EXCEPT !.stage = "gone"]
    /\ \/ owner.stage = "idle" /\ stdin' = Append(stdin, "quit") /\ UNCHANGED uci
       \/ uci' = [uci EXCEPT !.state = "dead"] /\ UNCHANGED stdin
    /\ UNCHANGED <<stdout, asked, answered, torn>>

UciNext ==
    \/ EngineReads \/ EngineSays \/ EngineDies
    \/ Go \/ AsksTheEngine \/ OwnerReads \/ OwnerTimesOut \/ OwnerFails \/ OwnerLeaves

UciSpec == UciInit /\ [][UciNext]_uciVars

\* A search is answered with its own move and evaluation, never with those of one that
\* was given up.
AnswersFit ==
    \A a \in answered : a.move.of = a.go /\ (a.info # NoLine => a.info.of = a.go)

Coming(kind) == kind \in {stdout[i].kind : i \in DOMAIN stdout}

\* Whoever reads on after a timeout waits for a line that is there or that the engine will
\* still write, unless it is dead or the timeout has torn that very line: then the engine
\* has nothing to say and the wait has no end.
DrainsEnd ==
    owner.stage = "draining" /\ uci.state # "dead" =>
        \/ Coming("bestmove") \/ uci.state = "searching"
        \/ "go" \in {stdin[i] : i \in DOMAIN stdin}
        \/ torn # NoLine /\ torn.kind = "bestmove"

UciSound == AnswersFit /\ DrainsEnd
=============================================================================
