------------------------------ MODULE WorkerPool ------------------------------
(***************************************************************************)
(* The pool of engine workers (agent-engines/gpu_worker/pool.py).  submit  *)
(* reserves the least-loaded worker and remembers its index in the list,   *)
(* the worker counts the analysis as load while it runs, and the           *)
(* reservation is given back at that index, under the pool's condition,    *)
(* whose lock a removal holds for as long as it takes.  Everything between *)
(* two awaits is one step.  One autoscaler adds and removes workers; a     *)
(* signal shuts the pool down.  Maia workers, which are never added or     *)
(* removed, are left out.                                                  *)
(***************************************************************************)
EXTENDS Integers, Sequences, FiniteSets, SequencesExt

CONSTANTS
    WorkerIds,      \* every worker there may be, in the order of worker_id
    PoolSizes,      \* how many workers the pool may start with
    MinWorkers, MaxWorkers,
    MaxAnalyses,    \* WorkerConfig.max_concurrent_analyses
    Tasks,          \* the callers of submit
    NoWorker

ASSUME WorkerPoolAssumption ==
    /\ WorkerIds \subseteq Nat /\ NoWorker \notin WorkerIds
    /\ MinWorkers \in Nat /\ MaxWorkers \in Nat /\ MinWorkers <= MaxWorkers
    \* A pool is not made without a worker (pool.py:79, :91).
    /\ \A n \in PoolSizes : n \in MinWorkers..MaxWorkers /\ n >= 1 /\ 1..n \subseteq WorkerIds
    /\ IsFiniteSet(Tasks)
    /\ MaxAnalyses \in Nat \ {0}

VARIABLES
    workers,        \* _workers
    reservations,   \* _reservations, by the same index
    load,           \* each worker's _pending_count
    alive,          \* each worker's _started
    task,           \* where each call of submit stands
    scaler,         \* the addition or removal under way
    phase,          \* "open", "closing" (_shutdown_requested) or "closed"
    removed         \* whether a worker was ever removed: no code reads it

workerVars == <<workers, reservations, load, alive, task, scaler, phase, removed>>

Idle == [at |-> "idle", worker |-> NoWorker, index |-> 0]

Resting == [doing |-> "nothing", worker |-> NoWorker, index |-> 0]

WorkersInit ==
    \E n \in PoolSizes :
        /\ workers = [i \in 1..n |-> i]
        /\ reservations = [i \in 1..n |-> 0]
        /\ load = [w \in WorkerIds |-> 0]
        /\ alive = [w \in WorkerIds |-> w <= n]
        /\ task = [t \in Tasks |-> Idle]
        /\ scaler = Resting
        /\ phase = "open"
        /\ removed = FALSE

\* A removal keeps the condition's lock across its awaits; nobody else does.
LockFree == scaler.doing \notin {"draining", "stopping"}

\* What _acquire_worker holds against the limit: a running analysis counts in both.
Burden(i) == load[workers[i]] + reservations[i]

Candidates == {i \in DOMAIN workers : Burden(i) < MaxAnalyses}

LeastLoaded(i) ==
    /\ i \in Candidates
    /\ \A j \in Candidates :
        Burden(i) < Burden(j) \/ (Burden(i) = Burden(j) /\ workers[i] <= workers[j])

\* The mutant notifies nobody.
BadNotified(tasks) == tasks

\* tasks, after _condition.notify_all().
Notified(tasks) ==
    [t \in Tasks |-> IF tasks[t].at = "waiting" THEN [tasks[t] EXCEPT !.at = "asking"]
                                                ELSE tasks[t]]

\* submit, as far as the lock of the condition.
Submit(t) ==
    /\ task[t].at = "idle" /\ phase = "open"
    /\ task' = [task EXCEPT ![t].at = "asking"]
    /\ UNCHANGED <<workers, reservations, load, alive, scaler, phase, removed>>

\* A worker is reserved and its analyze entered, which refuses at once when the worker
\* has been shut down or has its fill.
Reserve(t, i) ==
    LET w == workers[i]
        enters == alive[w] /\ load[w] < MaxAnalyses
    IN  /\ reservations' = [reservations EXCEPT ![i] = @ + 1]
        /\ load' = IF enters THEN [load EXCEPT ![w] = @ + 1] ELSE load
        /\ task' = [task EXCEPT ![t] = [at |-> IF enters THEN "analysing" ELSE "releasing",
                                        worker |-> w, index |-> i]]

\* _acquire_worker with the lock: refuse, reserve, or wait to be notified.
AcquireWorker(t) ==
    /\ task[t].at = "asking" /\ LockFree
    /\ \/ /\ phase # "open"
          /\ task' = [task EXCEPT ![t] = Idle]
          /\ UNCHANGED <<reservations, load>>
       \/ /\ phase = "open"
          /\ \E i \in DOMAIN workers : LeastLoaded(i) /\ Reserve(t, i)
       \/ /\ phase = "open" /\ Candidates = {}
          /\ task' = [task EXCEPT ![t].at = "waiting"]
          /\ UNCHANGED <<reservations, load>>
    /\ UNCHANGED <<workers, alive, scaler, phase, removed>>

\* The worker answers or fails; its finally lowers the load.
AnalysisEnds(t) ==
    /\ task[t].at = "analysing"
    /\ load' = [load EXCEPT ![task[t].worker] = @ - 1]
    /\ task' = [task EXCEPT ![t].at = "releasing"]
    /\ UNCHANGED <<workers, reservations, alive, scaler, phase, removed>>

\* submit's finally: the reservation at the remembered index.  Past the end of the list
\* it raises, and nobody is notified.
Release(t) ==
    /\ task[t].at = "releasing" /\ LockFree
    /\ LET i == task[t].index
           gone == [task EXCEPT ![t] = Idle]
       IN  \/ /\ i \in DOMAIN reservations
              /\ reservations' = [reservations EXCEPT ![i] = @ - 1]
              /\ task' = Notified(gone)
           \/ /\ i \notin DOMAIN reservations
              /\ task' = gone
              /\ UNCHANGED reservations
    /\ UNCHANGED <<workers, load, alive, scaler, phase, removed>>

\* add_worker: below the maximum a new worker is started.
AddWorker(w) ==
    /\ scaler = Resting /\ Len(workers) < MaxWorkers
    /\ ~alive[w] /\ \A i \in DOMAIN workers : workers[i] # w
    /\ \A t \in Tasks : task[t].worker # w
    /\ scaler' = [doing |-> "starting", worker |-> w, index |-> 0]
    /\ UNCHANGED <<workers, reservations, load, alive, task, phase, removed>>

\* It started, and joins the list; or it did not.
WorkerStarted ==
    /\ scaler.doing = "starting"
    /\ \/ /\ workers' = Append(workers, scaler.worker)
          /\ reservations' = Append(reservations, 0)
          /\ alive' = [alive EXCEPT ![scaler.worker] = TRUE]
          /\ task' = Notified(task)
       \/ UNCHANGED <<workers, reservations, alive, task>>
    /\ scaler' = Resting
    /\ UNCHANGED <<load, phase, removed>>

\* remove_worker above the minimum: a graceful one waits for the reservations to go.
RemoveWorker(i) ==
    /\ scaler = Resting /\ Len(workers) > MinWorkers
    /\ \E doing \in {"stopping"} \cup (IF reservations[i] > 0 THEN {"draining"} ELSE {}) :
        scaler' = [doing |-> doing, worker |-> workers[i], index |-> i]
    /\ UNCHANGED <<workers, reservations, load, alive, task, phase, removed>>

\* They cannot go while the lock is held: the wait ends by its timeout.
DrainTimesOut ==
    /\ scaler.doing = "draining"
    /\ scaler' = [scaler EXCEPT !.doing = "stopping"]
    /\ UNCHANGED <<workers, reservations, load, alive, task, phase, removed>>

\* The worker is shut down and leaves the list; or shutting it down raised.
WorkerStopped ==
    /\ scaler.doing = "stopping"
    /\ \/ /\ workers' = RemoveAt(workers, scaler.index)
          /\ reservations' = RemoveAt(reservations, scaler.index)
          /\ alive' = [alive EXCEPT ![scaler.worker] = FALSE]
          /\ task' = Notified(task)
          /\ removed' = TRUE
       \/ UNCHANGED <<workers, reservations, alive, task, removed>>
    /\ scaler' = Resting
    /\ UNCHANGED <<load, phase>>

\* shutdown_all, from a signal or a caller.
ShutdownBegins ==
    /\ phase = "open"
    /\ phase' = "closing"
    /\ UNCHANGED <<workers, reservations, load, alive, task, scaler, removed>>

\* No reservation is left, or the timeout ran out.
ShutdownEnds ==
    /\ phase = "closing"
    /\ phase' = "closed"
    /\ alive' = [w \in WorkerIds |-> alive[w] /\ w \notin ToSet(workers)]
    /\ UNCHANGED <<workers, reservations, load, task, scaler, removed>>

WorkersNext ==
    \/ \E t \in Tasks : Submit(t) \/ AcquireWorker(t) \/ AnalysisEnds(t) \/ Release(t)
    \/ \E w \in WorkerIds : AddWorker(w)
    \/ WorkerStarted
    \/ \E i \in DOMAIN workers : RemoveWorker(i)
    \/ DrainTimesOut \/ WorkerStopped
    \/ ShutdownBegins \/ ShutdownEnds

WorkersSpec == WorkersInit /\ [][WorkersNext]_workerVars

-----------------------------------------------------------------------------

Using(w) == {t \in Tasks : task[t].at \in {"analysing", "releasing"} /\ task[t].worker = w}

\* Nobody is left waiting (pool.py:388, "Wait until a worker has capacity") where no call
\* is under way whose end would wake him.
WaitersAreWoken ==
    \A t \in Tasks : task[t].at = "waiting" =>
        ~LockFree \/ \E u \in Tasks : task[u].at \in {"analysing", "releasing"}

\* A reservation for every call that uses the worker, and never more than half of what it
\* is configured for at work, an analysis being counted twice.
ReservationsMatch ==
    \A i \in DOMAIN workers :
        /\ reservations[i] = Cardinality(Using(workers[i]))
        /\ 2 * load[workers[i]] <= MaxAnalyses + 1

\* The list stays within its bounds and no worker runs more than its limit, whatever is
\* removed; until something is, the reservations are right and every waiter is woken.
WorkersSound ==
    /\ Len(workers) \in MinWorkers..MaxWorkers /\ Len(reservations) = Len(workers)
    /\ \A w \in WorkerIds :
        /\ load[w] <= MaxAnalyses
        /\ load[w] = Cardinality({t \in Using(w) : task[t].at = "analysing"})
    /\ ~removed => ReservationsMatch /\ WaitersAreWoken
=============================================================================
