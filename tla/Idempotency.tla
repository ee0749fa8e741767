----------------------------- MODULE Idempotency -----------------------------
(***************************************************************************)
(* The idempotency key of one operation                                    *)
(* (src/backend/modules/api/src/idempotency.rs).  The client sends its     *)
(* request and any number of retries with the same key; every one is a     *)
(* task that awaits Redis and the handler behind the middleware.           *)
(***************************************************************************)
EXTENDS Integers, FiniteSets

CONSTANTS Attempts     \* the request and its retries

VARIABLES
    record,      \* the key in Redis: "none", "pending" or "completed"
    attempt,     \* what every attempt does next, and how it was answered
    effects,     \* how often the handler did its work
    expired,     \* history: the key expired under the client's retries
    released,    \* history: the key was released after a server error
    broken       \* history: Redis failed, or an attempt broke off under way

idemVars == <<record, attempt, effects, expired, released, broken>>

IdemInit ==
    /\ record = "none"
    /\ attempt = [a \in Attempts |-> "new"]
    /\ effects = 0
    /\ expired = FALSE
    /\ released = FALSE
    /\ broken = FALSE

Becomes(a, s) == attempt' = [attempt EXCEPT ![a] = s]

BadAcquire(a) ==
    /\ attempt[a] = "new"
    /\ record # "completed"
    /\ record' = "pending"
    /\ Becomes(a, "running")
    /\ UNCHANGED <<effects, expired, released, broken>>

\* try_lock: SET NX EX creates the pending record.
Acquire(a) ==
    /\ attempt[a] = "new"
    /\ record = "none"
    /\ record' = "pending"
    /\ Becomes(a, "running")
    /\ UNCHANGED <<effects, expired, released, broken>>

KeyExists(a) ==
    /\ attempt[a] = "new"
    /\ record # "none"
    /\ Becomes(a, "get")
    /\ UNCHANGED <<record, effects, expired, released, broken>>

\* What a retry is answered: 409 while the first is in progress, else its response again.
AnswerOf(found) ==
    CASE found = "pending"   -> "conflict"
      [] found = "completed" -> "replayed"
      [] found = "none"      -> "unlocked"

\* The GET after a refused SET is a command of its own: the record may be completed or
\* gone by then, and gone counts as an error of the storage.
GetRecord(a) ==
    /\ attempt[a] = "get"
    /\ Becomes(a, AnswerOf(record))
    /\ UNCHANGED <<record, effects, expired, released, broken>>

\* LockResult::Error: normal execution without the key.
StorageFails(a) ==
    /\ attempt[a] \in {"new", "get"}
    /\ broken' = TRUE
    /\ Becomes(a, "unlocked")
    /\ UNCHANGED <<record, effects, expired, released>>

\* The handler behind the middleware does its work.  Its answer may be a server error
\* or have an unreadable body all the same, and then the key is released.
HandlerWorks(a) ==
    /\ effects' = effects + 1
    /\ \/ attempt[a] = "running" /\ (Becomes(a, "save") \/ Becomes(a, "release"))
       \/ attempt[a] = "unlocked" /\ Becomes(a, "answered")
    /\ UNCHANGED <<record, expired, released, broken>>

\* It fails with a server error and has done nothing.
HandlerFails(a) ==
    /\ attempt[a] \in {"running", "unlocked"}
    /\ Becomes(a, IF attempt[a] = "running" THEN "release" ELSE "failed")
    /\ UNCHANGED <<record, effects, expired, released, broken>>

BadSaveCompleted(a) ==
    /\ attempt[a] = "save"
    /\ record' = "none"
    /\ Becomes(a, "answered")
    /\ UNCHANGED <<effects, expired, released, broken>>

\* save_completed and release_lock write and delete the key whoever holds it now.
SaveCompleted(a) ==
    /\ attempt[a] = "save"
    /\ record' = "completed"
    /\ Becomes(a, "answered")
    /\ UNCHANGED <<effects, expired, released, broken>>

ReleaseLock(a) ==
    /\ attempt[a] = "release"
    /\ record' = "none"
    /\ released' = TRUE
    /\ Becomes(a, "failed")
    /\ UNCHANGED <<effects, expired, broken>>

\* The handler ends with an error value, the client hangs up and actix drops the task,
\* Redis does not take the write, or the server stops: the key stays as it is.
BreaksOff(a) ==
    /\ attempt[a] \in {"running", "save", "release"}
    /\ broken' = TRUE
    /\ Becomes(a, "failed")
    /\ UNCHANGED <<record, effects, expired, released>>

\* The time to live of the record ends, whether its request runs or not.
KeyExpires ==
    /\ record # "none"
    /\ record' = "none"
    /\ expired' = TRUE
    /\ UNCHANGED <<attempt, effects, released, broken>>

IdemNext ==
    \/ \E a \in Attempts :
        \/ Acquire(a) \/ KeyExists(a) \/ GetRecord(a) \/ StorageFails(a)
        \/ HandlerWorks(a) \/ HandlerFails(a) \/ SaveCompleted(a) \/ ReleaseLock(a)
        \/ BreaksOff(a)
    \/ KeyExpires

IdemSpec == IdemInit /\ [][IdemNext]_idemVars

(***************************************************************************)
(* Properties                                                              *)
(***************************************************************************)
\* Every variable keeps its type.
IdemTypeOK ==
    /\ record \in {"none", "pending", "completed"}
    /\ attempt \in [Attempts -> {"new", "get", "running", "unlocked", "save", "release",
                                 "answered", "replayed", "conflict", "failed"}]
    /\ effects \in Nat
    /\ expired \in BOOLEAN
    /\ released \in BOOLEAN
    /\ broken \in BOOLEAN

UnderKey == {a \in Attempts : attempt[a] \in {"running", "save", "release"}}

\* While the key neither expired nor was given up after an error, all the retries of a
\* request make the handler work once, one attempt runs at a time, and what is replayed
\* is the answer of that work.
OncePerKey ==
    ~expired /\ ~broken =>
        /\ Cardinality(UnderKey) <= 1
        /\ ~released => effects <= 1
        /\ \A a \in Attempts : attempt[a] = "replayed" => effects >= 1
        /\ record = "pending" => UnderKey # {}

IdempotencySound == IdemTypeOK /\ OncePerKey
=============================================================================
