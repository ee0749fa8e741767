------------------------------ MODULE CallsProofs ------------------------------
(***************************************************************************)
(* Proofs about the calls of the backend, for any number of attempts,      *)
(* callers, tasks, workers, games, spectators and reporters: Idempotency,  *)
(* EngineCalls (the admission pool, the circuit breaker and the engine     *)
(* behind its pipes), WorkerPool, RateLimits, SpectatorFanout and the      *)
(* tasks that archive a game (Archiving).  ServicesProofs composes them.   *)
(***************************************************************************)
EXTENDS Idempotency, EngineCalls, WorkerPool, RateLimits, SpectatorFanout, Archiving, Sums,
        SequenceTheorems

-----------------------------------------------------------------------------
\* What is done to queues, pipes and lists of those who wait.
\* A sequence with one element fewer.
LEMMA RemovingOne ==
    ASSUME NEW S, NEW s \in Seq(S), NEW i \in 1..Len(s), NEW less, less = RemoveAt(s, i)
    PROVE  /\ less \in Seq(S)
           /\ Len(less) = Len(s) - 1
           /\ \A j \in 1..(Len(s) - 1) : less[j] = IF j < i THEN s[j] ELSE s[j + 1]
<1> DEFINE before == SubSeq(s, 1, i - 1)
           after == SubSeq(s, i + 1, Len(s))
<1>1. less = before \o after
  BY DEF RemoveAt
<1>2. Len(s) \in Nat /\ \A j \in 1..Len(s) : s[j] \in S
  BY LenProperties, ElementOfSeq
<1>3. /\ before \in Seq(S) /\ Len(before) = i - 1
      /\ \A j \in 1..(i - 1) : before[j] = s[j]
  <2>1. /\ 1 \in Int /\ i - 1 \in Int /\ \A j \in 1..(i - 1) : s[j] \in S
        /\ i - 1 - 1 + 1 = i - 1 /\ (IF 1 <= i - 1 THEN i - 1 - 1 + 1 ELSE 0) = i - 1
    BY <1>2
  <2>2. /\ before \in Seq(S) /\ Len(before) = IF 1 <= i - 1 THEN i - 1 - 1 + 1 ELSE 0
        /\ \A j \in 1..(i - 1 - 1 + 1) : before[j] = s[1 + j - 1]
    BY <2>1, SubSeqProperties
  <2> QED
    BY <1>2, <2>1, <2>2
<1>4. /\ after \in Seq(S) /\ Len(after) = Len(s) - i
      /\ \A j \in 1..(Len(s) - i) : after[j] = s[i + j]
  <2>1. i + 1 \in Int /\ Len(s) \in Int /\ \A j \in (i + 1)..Len(s) : s[j] \in S
    BY <1>2
  <2>2. /\ after \in Seq(S)
        /\ Len(after) = IF i + 1 <= Len(s) THEN Len(s) - (i + 1) + 1 ELSE 0
        /\ \A j \in 1..(Len(s) - (i + 1) + 1) : after[j] = s[i + 1 + j - 1]
    BY <2>1, SubSeqProperties
  <2> HIDE DEF after
  <2>3. Len(s) - (i + 1) + 1 = Len(s) - i
    BY <1>2
  <2>4. \A j \in 1..(Len(s) - i) : i + 1 + j - 1 = i + j
    BY <1>2
  <2>5. Len(after) = Len(s) - i
    BY <1>2, <2>2
  <2>6. \A j \in 1..(Len(s) - i) : after[j] = s[i + j]
    BY <2>2, <2>3, <2>4
  <2> QED
    BY <2>2, <2>5, <2>6
<1> HIDE DEF before, after
<1>5. /\ less \in Seq(S) /\ Len(less) = Len(before) + Len(after)
      /\ \A j \in 1..(Len(before) + Len(after)) :
            less[j] = IF j <= Len(before) THEN before[j] ELSE after[j - Len(before)]
  <2>1. /\ before \o after \in Seq(S) /\ Len(before \o after) = Len(before) + Len(after)
        /\ \A j \in 1..(Len(before) + Len(after)) :
            (before \o after)[j] = IF j <= Len(before) THEN before[j] ELSE after[j - Len(before)]
    BY <1>3, <1>4, ConcatProperties
  <2> QED
    BY <1>1, <2>1
<1>6. Len(before) + Len(after) = Len(s) - 1
  BY <1>2, <1>3, <1>4
<1>7. ASSUME NEW j \in 1..(Len(s) - 1)
      PROVE  less[j] = IF j < i THEN s[j] ELSE s[j + 1]
  <2>1. less[j] = IF j <= Len(before) THEN before[j] ELSE after[j - Len(before)]
    BY <1>5, <1>6
  <2>2. CASE j < i
    BY <1>2, <1>3, <2>1, <2>2
  <2>3. CASE j >= i
    <3>1. ~(j <= Len(before)) /\ j - Len(before) \in 1..(Len(s) - i)
          /\ i + (j - Len(before)) = j + 1
      BY <1>2, <1>3, <2>3
    <3>2. less[j] = after[j - Len(before)]
      BY <2>1, <3>1
    <3>3. after[j - Len(before)] = s[i + (j - Len(before))]
      BY <1>4, <3>1
    <3>4. ~(j < i)
      BY <1>2, <2>3
    <3> QED
      BY <3>1, <3>2, <3>3, <3>4
  <2> QED
    BY <1>2, <2>2, <2>3
<1> QED
  BY <1>5, <1>6, <1>7

\* The three things that happen to a pipe.
LEMMA Dropping ==
    ASSUME NEW S, NEW s \in Seq(S), s # <<>>, NEW rest, rest = Tail(s)
    PROVE  /\ Len(s) \in Nat /\ Len(s) >= 1 /\ Head(s) = s[1] /\ Head(s) \in S
           /\ rest \in Seq(S) /\ Len(rest) = Len(s) - 1
           /\ \A i \in 1..Len(rest) : rest[i] = s[i + 1]
<1>1. Len(s) \in Nat /\ Len(s) >= 1
  BY EmptySeq
<1> QED
  BY <1>1, HeadTailProperties

LEMMA Adding ==
    ASSUME NEW S, NEW s \in Seq(S), NEW e \in S, NEW more, more = Append(s, e)
    PROVE  /\ Len(s) \in Nat /\ more \in Seq(S) /\ Len(more) = Len(s) + 1
           /\ more[Len(s) + 1] = e /\ \A i \in 1..Len(s) : more[i] = s[i]
BY AppendProperties, LenProperties

-----------------------------------------------------------------------------
(***************************************************************************)
(* Idempotency. Who holds the key is alone (KeyHeld), as long as the key   *)
(* neither expires nor is broken off; whether the work was done follows    *)
(* from how far its holder came.                                           *)
(***************************************************************************)
\* As long as the key was neither lost nor broken off: who holds it is alone, the record
\* says whether he does, and the work was done by then or is still to do.
KeyHeld ==
    /\ \A a, b \in UnderKey : a = b
    /\ record = "pending" <=> UnderKey # {}
    /\ record = "completed" => effects >= 1
    /\ \A a \in Attempts :
        /\ attempt[a] \in {"save", "replayed"} => effects >= 1
        /\ attempt[a] = "unlocked" => released
        /\ attempt[a] = "get" /\ record = "none" => released
    /\ ~released =>
        /\ effects <= 1
        /\ record = "none" => effects = 0
        /\ \A a \in Attempts : attempt[a] = "running" => effects = 0

IdemInv == IdemTypeOK /\ (~expired /\ ~broken => KeyHeld)

AttemptStages == {"new", "get", "running", "unlocked", "save", "release",
                  "answered", "replayed", "conflict", "failed"}

\* An attempt that changes from one stage to another.
LEMMA AttemptMoves ==
    ASSUME IdemTypeOK, NEW a \in Attempts, NEW s, Becomes(a, s),
           s \in AttemptStages
    PROVE  /\ attempt' \in [Attempts -> AttemptStages]
           /\ attempt'[a] = s
           /\ \A b \in Attempts : b # a => attempt'[b] = attempt[b]
           /\ s \in {"running", "save", "release"} => UnderKey' = UnderKey \cup {a}
           /\ s \notin {"running", "save", "release"} => UnderKey' = UnderKey \ {a}
<1> USE DEF AttemptStages
<1>1. attempt' = [attempt EXCEPT ![a] = s]
  BY DEF Becomes
<1>2. /\ attempt' \in [Attempts -> AttemptStages]
      /\ attempt'[a] = s /\ \A b \in Attempts : b # a => attempt'[b] = attempt[b]
  BY <1>1 DEF IdemTypeOK
<1> QED
  BY <1>2 DEF UnderKey

LEMMA IdemStep == IdemInv /\ [IdemNext]_idemVars => IdemInv'
<1> SUFFICES ASSUME IdemInv, [IdemNext]_idemVars PROVE IdemInv'
  OBVIOUS
<1> USE DEF IdemInv, AttemptStages
<1>0. effects \in Nat
  BY DEF IdemTypeOK
<1>1. ASSUME NEW a \in Attempts, Acquire(a) PROVE IdemInv'
  <2>1. /\ attempt[a] = "new" /\ record = "none" /\ record' = "pending"
        /\ Becomes(a, "running") /\ UNCHANGED <<effects, expired, released, broken>>
    BY <1>1 DEF Acquire
  <2>2. /\ attempt' \in [Attempts -> AttemptStages]
        /\ attempt'[a] = "running" /\ \A b \in Attempts : b # a => attempt'[b] = attempt[b]
        /\ UnderKey' = UnderKey \cup {a}
    BY <2>1, AttemptMoves
  <2>3. IdemTypeOK'
    BY <2>1, <2>2 DEF IdemTypeOK
  <2>4. ASSUME KeyHeld PROVE KeyHeld'
    BY <1>0, <2>1, <2>2, <2>4 DEF KeyHeld
  <2> QED
    BY <2>1, <2>3, <2>4
<1>2. ASSUME NEW a \in Attempts, KeyExists(a) PROVE IdemInv'
  <2>1. /\ attempt[a] = "new" /\ Becomes(a, "get") /\ record # "none"
        /\ UNCHANGED <<record, effects, expired, released, broken>>
    BY <1>2 DEF KeyExists
  <2>2. /\ attempt' \in [Attempts -> AttemptStages]
        /\ attempt'[a] = "get" /\ \A b \in Attempts : b # a => attempt'[b] = attempt[b]
        /\ UnderKey' = UnderKey \ {a}
    BY <2>1, AttemptMoves
  <2>3. a \notin UnderKey
    BY <2>1 DEF UnderKey
  <2>4. IdemTypeOK'
    BY <2>1, <2>2 DEF IdemTypeOK
  <2>5. ASSUME KeyHeld PROVE KeyHeld'
    BY <1>0, <2>1, <2>2, <2>3, <2>5 DEF KeyHeld
  <2> QED
    BY <2>1, <2>4, <2>5
<1>3. ASSUME NEW a \in Attempts, GetRecord(a) PROVE IdemInv'
  <2>1. /\ attempt[a] = "get" /\ Becomes(a, AnswerOf(record))
        /\ UNCHANGED <<record, effects, expired, released, broken>>
    BY <1>3 DEF GetRecord
  <2>2. /\ AnswerOf(record) \in {"conflict", "replayed", "unlocked"}
        /\ AnswerOf(record) = "replayed" => record = "completed"
        /\ AnswerOf(record) = "unlocked" => record = "none"
    BY DEF AnswerOf, IdemTypeOK
  <2>3. /\ attempt' \in [Attempts -> AttemptStages]
        /\ attempt'[a] = AnswerOf(record)
        /\ \A b \in Attempts : b # a => attempt'[b] = attempt[b]
        /\ UnderKey' = UnderKey \ {a}
    BY <2>1, <2>2, AttemptMoves
  <2>4. a \notin UnderKey
    BY <2>1 DEF UnderKey
  <2>5. IdemTypeOK'
    BY <2>1, <2>3 DEF IdemTypeOK
  <2>6. ASSUME KeyHeld PROVE KeyHeld'
    BY <1>0, <2>1, <2>2, <2>3, <2>4, <2>6 DEF KeyHeld
  <2> QED
    BY <2>1, <2>5, <2>6
<1>4. ASSUME NEW a \in Attempts, StorageFails(a) PROVE IdemInv'
  <2>1. broken' = TRUE /\ Becomes(a, "unlocked")
            /\ UNCHANGED <<record, effects, expired, released>>
    BY <1>4 DEF StorageFails
  <2>2. IdemTypeOK'
    BY <2>1, AttemptMoves DEF IdemTypeOK
  <2> QED
    BY <2>1, <2>2
<1>5. ASSUME NEW a \in Attempts, HandlerWorks(a) PROVE IdemInv'
  <2>1. effects' = effects + 1 /\ UNCHANGED <<record, expired, released, broken>>
    BY <1>5 DEF HandlerWorks
  <2>2. CASE attempt[a] = "unlocked" /\ Becomes(a, "answered")
    <3>1. /\ attempt' \in [Attempts -> AttemptStages]
          /\ attempt'[a] = "answered" /\ \A b \in Attempts : b # a =>
                 attempt'[b] = attempt[b]
          /\ UnderKey' = UnderKey \ {a}
      BY <2>2, AttemptMoves
    <3>2. a \notin UnderKey
      BY <2>2 DEF UnderKey
    <3>3. IdemTypeOK'
      BY <1>0, <2>1, <3>1 DEF IdemTypeOK
    <3>4. ASSUME KeyHeld PROVE KeyHeld'
      BY <1>0, <2>1, <2>2, <3>1, <3>2, <3>4 DEF KeyHeld
    <3> QED
      BY <2>1, <3>3, <3>4
  <2>3. CASE attempt[a] = "running" /\ (Becomes(a, "save") \/ Becomes(a, "release"))
    <3>1. /\ attempt' \in [Attempts -> AttemptStages]
          /\ attempt'[a] \in {"save", "release"}
          /\ \A b \in Attempts : b # a => attempt'[b] = attempt[b]
          /\ UnderKey' = UnderKey \cup {a}
      BY <2>3, AttemptMoves
    <3>2. a \in UnderKey
      BY <2>3 DEF UnderKey
    <3>3. IdemTypeOK'
      BY <1>0, <2>1, <3>1 DEF IdemTypeOK
    <3>4. ASSUME KeyHeld PROVE KeyHeld'
      <4>1. \A b \in Attempts : attempt'[b] # "running"
        BY <3>1, <3>2, <3>4 DEF KeyHeld, UnderKey
      <4> QED
        BY <1>0, <2>1, <2>3, <3>1, <3>2, <3>4, <4>1 DEF KeyHeld
    <3> QED
      BY <2>1, <3>3, <3>4
  <2> QED
    BY <1>5, <2>2, <2>3 DEF HandlerWorks
<1>6. ASSUME NEW a \in Attempts, HandlerFails(a) PROVE IdemInv'
  <2>1. UNCHANGED <<record, effects, expired, released, broken>>
    BY <1>6 DEF HandlerFails
  <2>2. CASE attempt[a] = "running" /\ Becomes(a, "release")
    <3>1. /\ attempt' \in [Attempts -> AttemptStages]
          /\ attempt'[a] = "release" /\ \A b \in Attempts : b # a =>
                 attempt'[b] = attempt[b]
          /\ UnderKey' = UnderKey \cup {a}
      BY <2>2, AttemptMoves
    <3>2. a \in UnderKey
      BY <2>2 DEF UnderKey
    <3>3. IdemTypeOK'
      BY <2>1, <3>1 DEF IdemTypeOK
    <3>4. ASSUME KeyHeld PROVE KeyHeld'
      BY <1>0, <2>1, <2>2, <3>1, <3>2, <3>4 DEF KeyHeld
    <3> QED
      BY <2>1, <3>3, <3>4
  <2>3. CASE attempt[a] = "unlocked" /\ Becomes(a, "failed")
    <3>1. /\ attempt' \in [Attempts -> AttemptStages]
          /\ attempt'[a] = "failed" /\ \A b \in Attempts : b # a => attempt'[b] = attempt[b]
          /\ UnderKey' = UnderKey \ {a}
      BY <2>3, AttemptMoves
    <3>2. a \notin UnderKey
      BY <2>3 DEF UnderKey
    <3>3. IdemTypeOK'
      BY <2>1, <3>1 DEF IdemTypeOK
    <3>4. ASSUME KeyHeld PROVE KeyHeld'
      BY <1>0, <2>1, <2>3, <3>1, <3>2, <3>4 DEF KeyHeld
    <3> QED
      BY <2>1, <3>3, <3>4
  <2> QED
    BY <1>6, <2>2, <2>3 DEF HandlerFails
<1>7. ASSUME NEW a \in Attempts, SaveCompleted(a) PROVE IdemInv'
  <2>1. /\ attempt[a] = "save" /\ record' = "completed" /\ Becomes(a, "answered")
        /\ UNCHANGED <<effects, expired, released, broken>>
    BY <1>7 DEF SaveCompleted
  <2>2. /\ attempt' \in [Attempts -> AttemptStages]
        /\ attempt'[a] = "answered" /\ \A b \in Attempts : b # a => attempt'[b] = attempt[b]
        /\ UnderKey' = UnderKey \ {a}
    BY <2>1, AttemptMoves
  <2>3. a \in UnderKey
    BY <2>1 DEF UnderKey
  <2>4. IdemTypeOK'
    BY <2>1, <2>2 DEF IdemTypeOK
  <2>5. ASSUME KeyHeld, ~broken' PROVE KeyHeld'
    BY <1>0, <2>1, <2>2, <2>3, <2>5 DEF KeyHeld
  <2> QED
    BY <2>1, <2>4, <2>5
<1>8. ASSUME NEW a \in Attempts, ReleaseLock(a) PROVE IdemInv'
  <2>1. /\ attempt[a] = "release" /\ record' = "none" /\ released' = TRUE
               /\ Becomes(a, "failed")
        /\ UNCHANGED <<effects, expired, broken>>
    BY <1>8 DEF ReleaseLock
  <2>2. /\ attempt' \in [Attempts -> AttemptStages]
        /\ attempt'[a] = "failed" /\ \A b \in Attempts : b # a => attempt'[b] = attempt[b]
        /\ UnderKey' = UnderKey \ {a}
    BY <2>1, AttemptMoves
  <2>3. a \in UnderKey
    BY <2>1 DEF UnderKey
  <2>4. IdemTypeOK'
    BY <2>1, <2>2 DEF IdemTypeOK
  <2>5. ASSUME KeyHeld, ~broken' PROVE KeyHeld'
    BY <1>0, <2>1, <2>2, <2>3, <2>5 DEF KeyHeld
  <2> QED
    BY <2>1, <2>4, <2>5
<1>9. ASSUME NEW a \in Attempts, BreaksOff(a) PROVE IdemInv'
  <2>1. broken' = TRUE /\ Becomes(a, "failed")
            /\ UNCHANGED <<record, effects, expired, released>>
    BY <1>9 DEF BreaksOff
  <2>2. IdemTypeOK'
    BY <2>1, AttemptMoves DEF IdemTypeOK
  <2> QED
    BY <2>1, <2>2
<1>10. ASSUME KeyExpires PROVE IdemInv'
  BY <1>10 DEF KeyExpires, IdemTypeOK
<1>11. ASSUME UNCHANGED idemVars PROVE IdemInv'
  BY <1>11 DEF idemVars, IdemTypeOK, KeyHeld, UnderKey
<1> QED
  BY <1>1, <1>2, <1>3, <1>4, <1>5, <1>6, <1>7, <1>8, <1>9, <1>10, <1>11 DEF IdemNext

LEMMA IdemStarts == IdemInit => IdemInv
<1> SUFFICES ASSUME IdemInit PROVE IdemInv
  OBVIOUS
<1>1. \A a \in Attempts : attempt[a] = "new"
  BY DEF IdemInit
<1>2. UnderKey = {}
  BY <1>1 DEF UnderKey
<1>3. IdemTypeOK
  BY DEF IdemInit, IdemTypeOK
<1> QED
  BY <1>1, <1>2, <1>3 DEF IdemInit, IdemInv, KeyHeld

\* Whoever is alone is at most one.
LEMMA IdemIsSound == IdemInv => IdempotencySound
<1> SUFFICES ASSUME IdemInv, ~expired, ~broken
             PROVE  /\ Cardinality(UnderKey) <= 1
                    /\ ~released => effects <= 1
                    /\ \A a \in Attempts : attempt[a] = "replayed" => effects >= 1
                    /\ record = "pending" => UnderKey # {}
  BY DEF IdempotencySound, OncePerKey, IdemInv
<1>1. KeyHeld
  BY DEF IdemInv
<1>2. Cardinality(UnderKey) <= 1
  <2>1. CASE UnderKey = {}
    BY <2>1, FS_EmptySet
  <2>2. CASE UnderKey # {}
    <3> PICK a \in UnderKey : TRUE
      BY <2>2
    <3>1. UnderKey = {a}
      BY <1>1 DEF KeyHeld
    <3>2. Cardinality({a}) = 1
      BY FS_Singleton
    <3> QED
      BY <3>1, <3>2
  <2> QED
    BY <2>1, <2>2
<1> QED
  BY <1>1, <1>2 DEF KeyHeld

\* Of all the attempts under one key one works at a time, the handler works once unless the
\* key expired or was given up, and what is replayed is the answer of that work.
THEOREM RetriesRunOnce == IdemSpec => []IdempotencySound
BY IdemStarts, IdemStep, IdemIsSound, PTL DEF IdemSpec

-----------------------------------------------------------------------------
(***************************************************************************)
(* EngineCalls. Every slot is held by a call that counts it, and calls     *)
(* wait only while none is free (SlotsKept): so a slot that is freed goes  *)
(* to whoever waits first. The breaker's counts are those of the run of    *)
(* outcomes under way (StreakCounted): so it opens only for the failures   *)
(* that justify it.                                                        *)
(***************************************************************************)
Stages == {"away", "waiting", "granted", "admitted", "running", "leaving"}

Breakers == [state : {"Closed", "HalfOpen", "Open"}, failures : Nat, successes : Nat,
             age : Nat]

EngineTypeOK ==
    /\ calls \in [Callers -> Stages]
    /\ waiters \in Seq(Callers)
    /\ inFlight \in Nat
    /\ breaker \in Breakers
    /\ streak \in [kind : {"ok", "failed"}, times : Nat]

InFlight == {c \in Callers : calls[c] \in {"admitted", "running"}}

\* Every slot is counted, the queue holds those who wait, each once, and they wait only
\* while no slot is free.
SlotsKept ==
    /\ inFlight = Cardinality(InFlight)
    /\ Cardinality(Holding) <= Slots
    /\ waiters # <<>> => Cardinality(Holding) = Slots
    /\ \A i \in 1..Len(waiters) : calls[waiters[i]] = "waiting"
    /\ \A i, j \in 1..Len(waiters) : waiters[i] = waiters[j] => i = j

\* A closed breaker counts exactly the failures of the run under way, which are fewer than
\* would trip it; a half open one the successes of its run.
StreakCounted ==
    /\ breaker.state = "Closed" =>
        /\ breaker.failures < FailureThreshold
        /\ breaker.failures = IF streak.kind = "failed" THEN streak.times ELSE 0
    /\ breaker.state = "HalfOpen" =>
        /\ breaker.successes < SuccessThreshold
        /\ streak.kind = "ok" => breaker.successes <= streak.times
        /\ streak.kind = "failed" => breaker.successes = 0

EngineInv == EngineTypeOK /\ SlotsKept /\ StreakCounted

\* The sets of those who hold a slot.
LEMMA HoldersFinite ==
    /\ IsFiniteSet(Holding) /\ IsFiniteSet(InFlight)
    /\ Cardinality(Holding) \in Nat /\ Cardinality(InFlight) \in Nat
<1>1. Holding \subseteq Callers /\ InFlight \subseteq Callers
  BY DEF Holding, InFlight
<1> QED
  BY <1>1, EngineAssumption, FS_Subset, FS_CardinalityType

\* A set with one element more or fewer.
LEMMA OneMoreHolds ==
    ASSUME NEW S, IsFiniteSet(S), NEW x
    PROVE  /\ x \notin S => Cardinality(S \cup {x}) = Cardinality(S) + 1
           /\ x \in S => Cardinality(S \ {x}) = Cardinality(S) - 1
BY FS_AddElement, FS_RemoveElement

LEMMA EngineStarts == EngineInit => EngineInv
<1> SUFFICES ASSUME EngineInit PROVE EngineInv
  OBVIOUS
<1>1. waiters \in Seq(Callers) /\ Len(waiters) = 0 /\ waiters = <<>>
  BY EmptySeq DEF EngineInit
<1>2. \A c \in Callers : calls[c] = "away"
  BY DEF EngineInit
<1>3. Holding = {} /\ InFlight = {}
  BY <1>2 DEF Holding, InFlight
<1>4. Cardinality(Holding) = 0 /\ Cardinality(InFlight) = 0
  BY <1>3, FS_EmptySet
<1>5. EngineTypeOK
  <2>1. calls \in [Callers -> Stages]
    BY DEF EngineInit, Stages
  <2>2. breaker \in Breakers
    BY DEF EngineInit, Healthy, Breakers
  <2>3. streak \in [kind : {"ok", "failed"}, times : Nat] /\ inFlight \in Nat
    BY DEF EngineInit
  <2> QED
    BY <1>1, <2>1, <2>2, <2>3 DEF EngineTypeOK, Breakers
<1>6. SlotsKept
  BY <1>1, <1>4, EngineAssumption DEF EngineInit, SlotsKept
<1>7. StreakCounted
  BY EngineAssumption DEF EngineInit, StreakCounted, Healthy
<1> QED
  BY <1>5, <1>6, <1>7 DEF EngineInv

\* The breaker's part of the invariant, for every step that touches it.
LEMMA BreakerLetsThrough ==
    ASSUME EngineTypeOK, StreakCounted, breaker.state = "Open",
           breaker' = [breaker EXCEPT !.state = "HalfOpen", !.successes = 0], streak' = streak
    PROVE  /\ breaker' \in Breakers
           /\ StreakCounted'
<1>1. /\ breaker' \in Breakers
      /\ breaker'.state = "HalfOpen" /\ breaker'.successes = 0
  BY DEF EngineTypeOK, Breakers
<1>2. streak.times \in Nat
  BY DEF EngineTypeOK, Breakers
<1> QED
  BY <1>1, <1>2, EngineAssumption DEF StreakCounted

LEMMA SuccessCounts ==
    ASSUME NEW b \in Breakers
    PROVE  /\ AfterSuccess(b) \in Breakers
           /\ b.state = "Open" => AfterSuccess(b).state = "Open"
           /\ b.state = "Closed" =>
                AfterSuccess(b).state = "Closed" /\ AfterSuccess(b).failures = 0
           /\ b.state = "HalfOpen" =>
                IF b.successes + 1 >= SuccessThreshold
                THEN AfterSuccess(b).state = "Closed" /\ AfterSuccess(b).failures = 0
                ELSE /\ AfterSuccess(b).state = "HalfOpen"
                     /\ AfterSuccess(b).successes = b.successes + 1
<1>b. b \in [state : {"Closed", "HalfOpen", "Open"}, failures : Nat, successes : Nat,
             age : Nat]
  BY DEF Breakers
<1>1. CASE b.state = "Open"
  <2>1. AfterSuccess(b) = [b EXCEPT !.failures = 0]
    BY <1>1 DEF AfterSuccess
  <2>2. ASSUME NEW x, x = [b EXCEPT !.failures = 0]
        PROVE  /\ x \in [state : {"Closed", "HalfOpen", "Open"}, failures : Nat,
                        successes : Nat, age : Nat]
               /\ x.state = "Open"
    BY <1>b, <1>1, <2>2
  <2>3. /\ AfterSuccess(b) \in [state : {"Closed", "HalfOpen", "Open"}, failures : Nat,
                               successes : Nat, age : Nat]
        /\ AfterSuccess(b).state = "Open"
    BY <2>1, <2>2
  <2> QED
    BY <1>1, <2>3 DEF Breakers
<1>2. CASE b.state = "Closed"
  <2>1. AfterSuccess(b) = [b EXCEPT !.failures = 0, !.successes = 0]
    BY <1>2 DEF AfterSuccess
  <2>2. ASSUME NEW x, x = [b EXCEPT !.failures = 0, !.successes = 0]
        PROVE  /\ x \in [state : {"Closed", "HalfOpen", "Open"}, failures : Nat,
                        successes : Nat, age : Nat]
               /\ x.state = "Closed" /\ x.failures = 0
    BY <1>b, <1>2, <2>2
  <2>3. /\ AfterSuccess(b) \in [state : {"Closed", "HalfOpen", "Open"}, failures : Nat,
                               successes : Nat, age : Nat]
        /\ AfterSuccess(b).state = "Closed" /\ AfterSuccess(b).failures = 0
    BY <2>1, <2>2
  <2> QED
    BY <1>2, <2>3 DEF Breakers
<1>3. CASE b.state = "HalfOpen" /\ b.successes + 1 >= SuccessThreshold
  <2>1. AfterSuccess(b) = [b EXCEPT !.failures = 0, !.state = "Closed", !.successes = 0]
    BY <1>3 DEF AfterSuccess
  <2>2. ASSUME NEW x, x = [b EXCEPT !.failures = 0, !.state = "Closed", !.successes = 0]
        PROVE  /\ x \in [state : {"Closed", "HalfOpen", "Open"}, failures : Nat,
                        successes : Nat, age : Nat]
               /\ x.state = "Closed" /\ x.failures = 0
    BY <1>b, <2>2
  <2>3. /\ AfterSuccess(b) \in [state : {"Closed", "HalfOpen", "Open"}, failures : Nat,
                               successes : Nat, age : Nat]
        /\ AfterSuccess(b).state = "Closed" /\ AfterSuccess(b).failures = 0
    BY <2>1, <2>2
  <2> QED
    BY <1>3, <2>3 DEF Breakers
<1>4. CASE b.state = "HalfOpen" /\ ~(b.successes + 1 >= SuccessThreshold)
  <2>n. PICK n \in Nat : n = b.successes + 1
    BY <1>b
  <2>1. AfterSuccess(b) = [b EXCEPT !.failures = 0, !.successes = n]
    BY <1>4, <2>n DEF AfterSuccess
  <2>2. ASSUME NEW x, x = [b EXCEPT !.failures = 0, !.successes = n]
        PROVE  /\ x \in [state : {"Closed", "HalfOpen", "Open"}, failures : Nat,
                        successes : Nat, age : Nat]
               /\ x.state = b.state /\ x.successes = n
    BY <1>b, <2>2
  <2>3. /\ AfterSuccess(b) \in [state : {"Closed", "HalfOpen", "Open"}, failures : Nat,
                               successes : Nat, age : Nat]
        /\ AfterSuccess(b).state = b.state /\ AfterSuccess(b).successes = b.successes + 1
    BY <2>1, <2>2, <2>n
  <2> QED
    BY <1>4, <2>3 DEF Breakers
<1> QED
  BY <1>b, <1>1, <1>2, <1>3, <1>4

LEMMA FailureCounts ==
    ASSUME NEW b \in Breakers, FailureThreshold \in Nat
    PROVE  /\ AfterFailure(b) \in Breakers
           /\ \/ AfterFailure(b).state = "Open"
              \/ /\ AfterFailure(b).state = b.state /\ b.state # "HalfOpen"
                 /\ \/ b.state = "Open"
                    \/ /\ AfterFailure(b).failures < FailureThreshold
                       /\ \/ AfterFailure(b).failures = b.failures + 1
                          \/ b.failures >= FailureThreshold
<1>b. b \in [state : {"Closed", "HalfOpen", "Open"}, failures : Nat, successes : Nat,
             age : Nat]
  BY DEF Breakers
<1> DEFINE failures == IF b.failures < FailureThreshold THEN b.failures + 1
                       ELSE b.failures
           trips == b.state = "HalfOpen"
                       \/ (b.state = "Closed" /\ failures >= FailureThreshold)
<1>1. AfterFailure(b) = IF trips THEN [Tripped EXCEPT !.failures = failures]
                 ELSE [b EXCEPT !.failures = failures, !.successes = 0]
  BY DEF AfterFailure
<1>2. failures \in Nat /\ b.failures \in Nat
  BY <1>b
<1>3. CASE trips
  <2>1. /\ AfterFailure(b) \in [state : {"Closed", "HalfOpen", "Open"}, failures : Nat,
                          successes : Nat, age : Nat]
        /\ AfterFailure(b).state = "Open"
    BY <1>1, <1>2, <1>3 DEF Tripped
  <2> QED
    BY <1>3, <2>1 DEF Breakers
<1>4. CASE ~trips
  <2> HIDE DEF failures
  <2>1. AfterFailure(b) = [b EXCEPT !.failures = failures, !.successes = 0]
    BY <1>1, <1>4
  <2>2. ASSUME NEW x, x = [b EXCEPT !.failures = failures, !.successes = 0]
        PROVE  /\ x \in [state : {"Closed", "HalfOpen", "Open"}, failures : Nat,
                        successes : Nat, age : Nat]
               /\ x.state = b.state /\ x.failures = failures
    BY <1>b, <1>2, <2>2
  <2>3. /\ AfterFailure(b) \in [state : {"Closed", "HalfOpen", "Open"}, failures : Nat,
                               successes : Nat, age : Nat]
        /\ AfterFailure(b).state = b.state /\ AfterFailure(b).failures = failures
    BY <2>1, <2>2
  <2>4. b.state # "HalfOpen" /\ (failures < FailureThreshold \/ b.state = "Open")
    BY <1>b, <1>2, <1>4
  <2>5. failures = b.failures + 1 \/ b.failures >= FailureThreshold
    BY <1>2 DEF failures
  <2> QED
    BY <2>3, <2>4, <2>5 DEF Breakers
<1> QED
  BY <1>3, <1>4

LEMMA BreakerRecords ==
    ASSUME EngineTypeOK, StreakCounted, NEW kind \in {"ok", "failed"},
           breaker' = IF kind = "ok" THEN AfterSuccess(breaker) ELSE AfterFailure(breaker),
           streak' = IF streak.kind # kind THEN [kind |-> kind, times |-> 1]
                     ELSE [streak EXCEPT !.times = IF @ < Longest THEN @ + 1 ELSE @]
    PROVE  /\ breaker' \in Breakers
           /\ streak' \in [kind : {"ok", "failed"}, times : Nat]
           /\ StreakCounted'
<1>1. /\ breaker.state \in {"Closed", "HalfOpen", "Open"} /\ breaker.failures \in Nat
      /\ breaker.successes \in Nat /\ breaker.age \in Nat
      /\ streak.kind \in {"ok", "failed"} /\ streak.times \in Nat
      /\ FailureThreshold \in Nat /\ SuccessThreshold \in Nat
      /\ FailureThreshold >= 1 /\ SuccessThreshold >= 1
      /\ Longest = FailureThreshold + SuccessThreshold
  BY EngineAssumption DEF EngineTypeOK, Breakers, Longest
<1>2. /\ streak' \in [kind : {"ok", "failed"}, times : Nat] /\ streak'.kind = kind
      /\ streak'.times = IF streak.kind # kind THEN 1
                         ELSE IF streak.times < Longest THEN streak.times + 1
                         ELSE streak.times
  BY <1>1 DEF EngineTypeOK
<1>3. /\ breaker' \in Breakers
      /\ kind = "ok" =>
            /\ breaker.state = "Open" => breaker'.state = "Open"
            /\ breaker.state = "Closed" =>
                   breaker'.state = "Closed" /\ breaker'.failures = 0
            /\ breaker.state = "HalfOpen" =>
                  IF breaker.successes + 1 >= SuccessThreshold
                  THEN breaker'.state = "Closed" /\ breaker'.failures = 0
                  ELSE /\ breaker'.state = "HalfOpen"
                       /\ breaker'.successes = breaker.successes + 1
      /\ kind = "failed" =>
            \/ breaker'.state = "Open"
            \/ /\ breaker'.state = breaker.state /\ breaker.state # "HalfOpen"
               /\ \/ breaker.state = "Open"
                  \/ /\ breaker'.failures < FailureThreshold
                     /\ \/ breaker'.failures = breaker.failures + 1
                        \/ breaker.failures >= FailureThreshold
  <2>1. breaker \in Breakers /\ FailureThreshold \in Nat
    BY <1>1 DEF EngineTypeOK
  <2>2. CASE kind = "ok"
    <3>1. breaker' = AfterSuccess(breaker)
      BY <2>2
    <3> QED
      BY <2>1, <2>2, <3>1, SuccessCounts
  <2>3. CASE kind = "failed"
    <3>1. breaker' = AfterFailure(breaker)
      BY <2>3
    <3> QED
      BY <2>1, <2>3, <3>1, FailureCounts
  <2> QED
    BY <2>2, <2>3
<1>4. CASE kind = "ok"
  <2>1. breaker'.state = "Closed" => breaker'.failures = 0
    BY <1>1, <1>3, <1>4
  <2>2. breaker'.state = "HalfOpen" =>
            /\ breaker'.successes < SuccessThreshold
            /\ breaker'.successes <= streak'.times
    BY <1>1, <1>2, <1>3, <1>4 DEF StreakCounted
  <2> QED
    BY <1>1, <1>2, <1>3, <1>4, <2>1, <2>2 DEF StreakCounted
<1>5. CASE kind = "failed"
  <2>1. breaker'.state # "HalfOpen"
    BY <1>1, <1>3, <1>5
  <2>2. breaker'.state = "Closed" =>
            breaker'.failures < FailureThreshold /\ breaker'.failures = streak'.times
    BY <1>1, <1>2, <1>3, <1>5 DEF StreakCounted
  <2> QED
    BY <1>1, <1>2, <1>3, <1>5, <2>1, <2>2 DEF StreakCounted
<1> QED
  BY <1>4, <1>5

\* What the parts are when the breaker does not change.
LEMMA EngineStep == EngineInv /\ [EngineNext]_engineVars => EngineInv'
<1> SUFFICES ASSUME EngineInv, [EngineNext]_engineVars PROVE EngineInv'
  OBVIOUS
<1> USE DEF EngineInv
<1>n. /\ IsFiniteSet(Holding) /\ IsFiniteSet(InFlight)
      /\ Cardinality(Holding) \in Nat /\ Cardinality(InFlight) \in Nat
      /\ Slots \in Nat
  BY HoldersFinite, EngineAssumption
<1>w. /\ waiters \in Seq(Callers) /\ Len(waiters) \in Nat
      /\ \A i \in 1..Len(waiters) : waiters[i] \in Callers
      /\ DOMAIN waiters = 1..Len(waiters)
  BY LenProperties, ElementOfSeq DEF EngineTypeOK, Breakers
<1>1. ASSUME NEW c \in Callers, AcquireSlot(c) PROVE EngineInv'
  <2>1. calls[c] = "away" /\ UNCHANGED <<inFlight, breaker, streak>>
    BY <1>1 DEF AcquireSlot
  <2>2. c \notin Holding
    BY <2>1 DEF Holding
  <2>3. CASE /\ Cardinality(Holding) < Slots
             /\ calls' = [calls EXCEPT ![c] = "granted"]
             /\ UNCHANGED waiters
    <3>1. /\ calls' \in [Callers -> Stages] /\ calls'[c] = "granted"
          /\ \A d \in Callers : d # c => calls'[d] = calls[d]
      BY <2>3 DEF EngineTypeOK, Breakers, Stages
    <3>2. Holding' = Holding \cup {c} /\ InFlight' = InFlight
      BY <2>1, <3>1 DEF Holding, InFlight
    <3>3. Cardinality(Holding') = Cardinality(Holding) + 1
      BY <1>n, <2>2, <3>2, OneMoreHolds
    <3>4. waiters = <<>>
      BY <1>n, <2>3 DEF SlotsKept
    <3>5. \A i \in 1..Len(waiters) : calls'[waiters[i]] = "waiting"
      BY <1>w, <2>1, <3>1 DEF SlotsKept
    <3>6. SlotsKept'
      BY <1>n, <2>1, <2>3, <3>2, <3>3, <3>4, <3>5 DEF SlotsKept
    <3> QED
      BY <2>1, <2>3, <3>1, <3>6 DEF EngineTypeOK, Breakers, StreakCounted
  <2>4. CASE /\ Cardinality(Holding) = Slots
             /\ calls' = [calls EXCEPT ![c] = "waiting"]
             /\ waiters' = Append(waiters, c)
    <3>1. /\ calls' \in [Callers -> Stages] /\ calls'[c] = "waiting"
          /\ \A d \in Callers : d # c => calls'[d] = calls[d]
      BY <2>4 DEF EngineTypeOK, Breakers, Stages
    <3>2. Holding' = Holding /\ InFlight' = InFlight
      BY <2>1, <3>1 DEF Holding, InFlight
    <3>3. /\ waiters' \in Seq(Callers) /\ Len(waiters') = Len(waiters) + 1
          /\ \A i \in 1..Len(waiters) : waiters'[i] = waiters[i]
          /\ waiters'[Len(waiters) + 1] = c
      BY <1>w, <2>4, AppendProperties
    <3>4. \A i \in 1..Len(waiters) : waiters[i] # c
      BY <2>1 DEF SlotsKept
    <3>5. \A i \in 1..Len(waiters') : calls'[waiters'[i]] = "waiting"
      BY <1>w, <3>1, <3>3 DEF SlotsKept
    <3>6. \A i, j \in 1..Len(waiters') : waiters'[i] = waiters'[j] => i = j
      BY <1>w, <3>3, <3>4 DEF SlotsKept
    <3>7. SlotsKept'
      BY <1>n, <2>1, <2>4, <3>2, <3>5, <3>6 DEF SlotsKept
    <3> QED
      BY <2>1, <3>1, <3>3, <3>7 DEF EngineTypeOK, Breakers, StreakCounted
  <2> QED
    BY <1>1, <2>3, <2>4 DEF AcquireSlot
<1>2. ASSUME NEW c \in Callers, WaitTimesOut(c) PROVE EngineInv'
  <2>1. /\ calls[c] = "waiting" /\ calls' = [calls EXCEPT ![c] = "away"]
        /\ UNCHANGED <<inFlight, breaker, streak>>
    BY <1>2 DEF WaitTimesOut
  <2> PICK k \in DOMAIN waiters : waiters[k] = c /\ waiters' = RemoveAt(waiters, k)
    BY <1>2 DEF WaitTimesOut
  <2>2. /\ calls' \in [Callers -> Stages] /\ calls'[c] = "away"
        /\ \A d \in Callers : d # c => calls'[d] = calls[d]
    BY <2>1 DEF EngineTypeOK, Breakers, Stages
  <2>3. Holding' = Holding /\ InFlight' = InFlight
    BY <2>1, <2>2 DEF Holding, InFlight
  <2>4. /\ waiters' \in Seq(Callers) /\ Len(waiters') = Len(waiters) - 1
        /\ \A j \in 1..(Len(waiters) - 1) :
             waiters'[j] = IF j < k THEN waiters[j] ELSE waiters[j + 1]
    <3>k. k \in 1..Len(waiters)
      BY <1>w
    <3>1. \A less : less = RemoveAt(waiters, k) =>
            /\ less \in Seq(Callers) /\ Len(less) = Len(waiters) - 1
            /\ \A j \in 1..(Len(waiters) - 1) :
                 less[j] = IF j < k THEN waiters[j] ELSE waiters[j + 1]
      BY <1>w, <3>k, RemovingOne, ZenonT(30)
    <3> QED
      BY <3>1
  <2>5. \A j \in 1..Len(waiters') : \E i \in 1..Len(waiters) :
            i # k /\ waiters'[j] = waiters[i] /\ i = IF j < k THEN j ELSE j + 1
    BY <1>w, <2>4
  <2>6. \A i \in 1..Len(waiters') : calls'[waiters'[i]] = "waiting"
    BY <1>w, <2>2, <2>5 DEF SlotsKept
  <2>7. \A i, j \in 1..Len(waiters') : waiters'[i] = waiters'[j] => i = j
    BY <1>w, <2>5 DEF SlotsKept
  <2>8. waiters # <<>>
    BY <1>w
  <2>9. SlotsKept'
    BY <1>n, <2>1, <2>3, <2>6, <2>7, <2>8 DEF SlotsKept
  <2> QED
    BY <2>1, <2>2, <2>4, <2>9 DEF EngineTypeOK, Breakers, StreakCounted
<1>3. ASSUME NEW c \in Callers, Admit(c) PROVE EngineInv'
  <2>1. /\ calls[c] = "granted" /\ calls' = [calls EXCEPT ![c] = "admitted"]
        /\ inFlight' = inFlight + 1 /\ UNCHANGED <<waiters, breaker, streak>>
    BY <1>3 DEF Admit
  <2>2. /\ calls' \in [Callers -> Stages] /\ calls'[c] = "admitted"
        /\ \A d \in Callers : d # c => calls'[d] = calls[d]
    BY <2>1 DEF EngineTypeOK, Breakers, Stages
  <2>3. Holding' = Holding /\ InFlight' = InFlight \cup {c} /\ c \notin InFlight
    BY <2>1, <2>2 DEF Holding, InFlight
  <2>4. Cardinality(InFlight') = Cardinality(InFlight) + 1
    BY <1>n, <2>3, OneMoreHolds
  <2>5. \A i \in 1..Len(waiters) : calls'[waiters[i]] = "waiting"
    BY <1>w, <2>1, <2>2 DEF SlotsKept
  <2>6. SlotsKept'
    BY <1>n, <2>1, <2>3, <2>4, <2>5 DEF SlotsKept
  <2> QED
    BY <2>1, <2>2, <2>6 DEF EngineTypeOK, Breakers, StreakCounted
<1>4. ASSUME NEW c \in Callers, BeforeCall(c) PROVE EngineInv'
  <2>1. calls[c] = "admitted" /\ UNCHANGED <<waiters, streak>>
    BY <1>4 DEF BeforeCall
  <2>2. c \in InFlight /\ c \in Holding
    BY <2>1 DEF InFlight, Holding
  <2>3. /\ breaker' \in Breakers
        /\ StreakCounted'
    <3>1. CASE LetThrough /\ breaker.state = "Open"
      <4>1. breaker' = [breaker EXCEPT !.state = "HalfOpen", !.successes = 0]
        BY <1>4, <3>1 DEF BeforeCall
      <4> QED
        BY <2>1, <3>1, <4>1, BreakerLetsThrough
    <3>2. CASE ~(LetThrough /\ breaker.state = "Open")
      <4>1. breaker' = breaker
        BY <1>4, <3>2 DEF BeforeCall
      <4> QED
        BY <2>1, <4>1 DEF EngineTypeOK, Breakers, StreakCounted
    <3> QED
      BY <3>1, <3>2
  <2>4. CASE LetThrough
    <3>1. calls' = [calls EXCEPT ![c] = "running"] /\ inFlight' = inFlight
      BY <1>4, <2>4 DEF BeforeCall
    <3>2. /\ calls' \in [Callers -> Stages] /\ calls'[c] = "running"
          /\ \A d \in Callers : d # c => calls'[d] = calls[d]
      BY <3>1 DEF EngineTypeOK, Breakers, Stages
    <3>3. Holding' = Holding /\ InFlight' = InFlight
      BY <2>1, <3>2 DEF Holding, InFlight
    <3>4. \A i \in 1..Len(waiters) : calls'[waiters[i]] = "waiting"
      BY <1>w, <2>1, <3>2 DEF SlotsKept
    <3>5. SlotsKept'
      BY <2>1, <3>1, <3>3, <3>4 DEF SlotsKept
    <3> QED
      BY <2>1, <2>3, <3>1, <3>2, <3>5 DEF EngineTypeOK, Breakers
  <2>5. CASE ~LetThrough
    <3>1. calls' = [calls EXCEPT ![c] = "leaving"] /\ inFlight' = inFlight - 1
      BY <1>4, <2>5 DEF BeforeCall
    <3>2. /\ calls' \in [Callers -> Stages] /\ calls'[c] = "leaving"
          /\ \A d \in Callers : d # c => calls'[d] = calls[d]
      BY <3>1 DEF EngineTypeOK, Breakers, Stages
    <3>3. Holding' = Holding /\ InFlight' = InFlight \ {c}
      BY <2>1, <3>2 DEF Holding, InFlight
    <3>4. Cardinality(InFlight') = Cardinality(InFlight) - 1
              /\ Cardinality(InFlight') \in Nat
      BY <1>n, <2>2, <3>3, OneMoreHolds, FS_Subset, FS_CardinalityType
    <3>5. \A i \in 1..Len(waiters) : calls'[waiters[i]] = "waiting"
      BY <1>w, <2>1, <3>2 DEF SlotsKept
    <3>6. SlotsKept' /\ inFlight' \in Nat
      BY <1>n, <2>1, <3>1, <3>3, <3>4, <3>5 DEF SlotsKept
    <3> QED
      BY <2>1, <2>3, <3>2, <3>6 DEF EngineTypeOK, Breakers
  <2> QED
    BY <2>4, <2>5
<1>5. ASSUME NEW c \in Callers, NEW kind \in {"ok", "failed"}, CallEnds(c, kind)
      PROVE  EngineInv'
  <2>1. /\ calls[c] = "running" /\ calls' = [calls EXCEPT ![c] = "leaving"]
        /\ inFlight' = inFlight - 1 /\ UNCHANGED waiters
    BY <1>5 DEF CallEnds
  <2>2. /\ calls' \in [Callers -> Stages] /\ calls'[c] = "leaving"
        /\ \A d \in Callers : d # c => calls'[d] = calls[d]
    BY <2>1 DEF EngineTypeOK, Breakers, Stages
  <2>3. Holding' = Holding /\ InFlight' = InFlight \ {c} /\ c \in InFlight
    BY <2>1, <2>2 DEF Holding, InFlight
  <2>4. Cardinality(InFlight') = Cardinality(InFlight) - 1 /\ Cardinality(InFlight') \in Nat
    BY <1>n, <2>3, OneMoreHolds, FS_Subset, FS_CardinalityType
  <2>5. \A i \in 1..Len(waiters) : calls'[waiters[i]] = "waiting"
    BY <1>w, <2>1, <2>2 DEF SlotsKept
  <2>6. SlotsKept' /\ inFlight' \in Nat
    BY <1>n, <2>1, <2>3, <2>4, <2>5 DEF SlotsKept
  <2>7. /\ breaker' \in Breakers
        /\ streak' \in [kind : {"ok", "failed"}, times : Nat]
        /\ StreakCounted'
    <3>1. /\ breaker' = IF kind = "ok" THEN AfterSuccess(breaker) ELSE AfterFailure(breaker)
          /\ streak' = IF streak.kind # kind THEN [kind |-> kind, times |-> 1]
                       ELSE [streak EXCEPT !.times = IF @ < Longest THEN @ + 1 ELSE @]
      BY <1>5 DEF CallEnds
    <3> QED
      BY <3>1, BreakerRecords
  <2> QED
    BY <2>1, <2>2, <2>6, <2>7 DEF EngineTypeOK, Breakers
<1>6. ASSUME NEW c \in Callers, ReleasePermit(c) PROVE EngineInv'
  <2>1. calls[c] = "leaving" /\ UNCHANGED <<inFlight, breaker, streak>>
    BY <1>6 DEF ReleasePermit
  <2>2. c \in Holding /\ c \notin InFlight
    BY <2>1 DEF Holding, InFlight
  <2>3. CASE waiters = <<>> /\ calls' = [calls EXCEPT ![c] = "away"] /\ UNCHANGED waiters
    <3>1. /\ calls' \in [Callers -> Stages] /\ calls'[c] = "away"
          /\ \A d \in Callers : d # c => calls'[d] = calls[d]
      BY <2>3 DEF EngineTypeOK, Breakers, Stages
    <3>2. Holding' = Holding \ {c} /\ InFlight' = InFlight
      BY <2>1, <3>1 DEF Holding, InFlight
    <3>3. Cardinality(Holding') = Cardinality(Holding) - 1
      BY <1>n, <2>2, <3>2, OneMoreHolds
    <3>4. Len(waiters) = 0
      BY <2>3
    <3>5. SlotsKept'
      BY <1>n, <2>1, <2>3, <3>2, <3>3, <3>4 DEF SlotsKept
    <3> QED
      BY <2>1, <2>3, <3>1, <3>5 DEF EngineTypeOK, Breakers, StreakCounted
  <2>4. CASE /\ waiters # <<>> /\ waiters' = Tail(waiters)
             /\ calls' = [calls EXCEPT ![c] = "away", ![Head(waiters)] = "granted"]
    <3> DEFINE h == waiters[1]
    <3>1. /\ waiters' \in Seq(Callers) /\ Len(waiters') = Len(waiters) - 1
                 /\ Len(waiters) >= 1
          /\ \A i \in 1..Len(waiters') : waiters'[i] = waiters[i + 1]
      BY <1>w, <2>4, HeadTailProperties, EmptySeq
    <3>2. h \in Callers /\ calls[h] = "waiting" /\ h # c /\ Head(waiters) = h
      BY <1>w, <2>1, <2>4, <3>1 DEF SlotsKept
    <3>3. /\ calls' \in [Callers -> Stages] /\ calls'[c] = "away" /\ calls'[h] = "granted"
          /\ \A d \in Callers : d # c /\ d # h => calls'[d] = calls[d]
      BY <2>4, <3>2 DEF EngineTypeOK, Breakers, Stages
    <3> HIDE DEF h
    <3>4. h \notin Holding /\ h \notin InFlight
      BY <3>2 DEF Holding, InFlight
    <3>5. Holding' = (Holding \ {c}) \cup {h} /\ InFlight' = InFlight
      BY <2>1, <3>2, <3>3 DEF Holding, InFlight
    <3>6. Cardinality(Holding') = Cardinality(Holding)
      <4>1. IsFiniteSet(Holding \ {c}) /\ h \notin Holding \ {c}
        BY <1>n, <3>4, FS_Subset
      <4>2. Cardinality(Holding \ {c}) = Cardinality(Holding) - 1
        BY <1>n, <2>2, OneMoreHolds
      <4>3. Cardinality((Holding \ {c}) \cup {h}) = Cardinality(Holding \ {c}) + 1
        BY <4>1, OneMoreHolds
      <4> QED
        BY <1>n, <3>5, <4>2, <4>3
    <3>7. \A i \in 1..Len(waiters') : waiters'[i] # h /\ calls'[waiters'[i]] = "waiting"
      <4> SUFFICES ASSUME NEW i \in 1..Len(waiters')
                   PROVE  waiters'[i] # h /\ calls'[waiters'[i]] = "waiting"
        OBVIOUS
      <4>1. i + 1 \in 1..Len(waiters) /\ 1 \in 1..Len(waiters) /\ i + 1 # 1
        BY <1>w, <3>1
      <4>2. waiters'[i] = waiters[i + 1] /\ waiters[i + 1] # h
        BY <3>1, <4>1 DEF SlotsKept, h
      <4>3. calls[waiters[i + 1]] = "waiting" /\ waiters[i + 1] \in Callers
        BY <1>w, <4>1 DEF SlotsKept
      <4> QED
        BY <2>1, <3>3, <4>2, <4>3
    <3>8. \A i, j \in 1..Len(waiters') : waiters'[i] = waiters'[j] => i = j
      <4> SUFFICES ASSUME NEW i \in 1..Len(waiters'), NEW j \in 1..Len(waiters'),
                          waiters'[i] = waiters'[j]
                   PROVE  i = j
        OBVIOUS
      <4>1. i + 1 \in 1..Len(waiters) /\ j + 1 \in 1..Len(waiters)
        BY <1>w, <3>1
      <4>2. waiters[i + 1] = waiters[j + 1]
        BY <3>1
      <4>3. i + 1 = j + 1
        BY <4>1, <4>2 DEF SlotsKept
      <4> QED
        BY <4>3
    <3>9. SlotsKept'
      BY <1>n, <2>1, <2>4, <3>5, <3>6, <3>7, <3>8 DEF SlotsKept
    <3> QED
      BY <2>1, <3>1, <3>3, <3>9 DEF EngineTypeOK, Breakers, StreakCounted
  <2> QED
    BY <1>6, <2>3, <2>4 DEF ReleasePermit
<1>7. ASSUME ResetBreaker PROVE EngineInv'
  <2>1. /\ breaker' = Healthy /\ streak' = [kind |-> "ok", times |-> 0]
        /\ UNCHANGED <<calls, waiters, inFlight>>
    BY <1>7 DEF ResetBreaker
  <2>2. /\ breaker' \in Breakers
        /\ streak' \in [kind : {"ok", "failed"}, times : Nat]
        /\ StreakCounted'
    BY <2>1, EngineAssumption DEF StreakCounted, Healthy, Breakers
  <2>3. SlotsKept'
    BY <2>1 DEF SlotsKept, Holding, InFlight
  <2> QED
    BY <2>1, <2>2, <2>3 DEF EngineTypeOK, Breakers
<1>8. ASSUME TimeTicks PROVE EngineInv'
  <2>1. /\ breaker.state = "Open" /\ breaker' = [breaker EXCEPT !.age = @ + 1]
        /\ UNCHANGED <<calls, waiters, inFlight, streak>>
    BY <1>8 DEF TimeTicks
  <2>2. /\ breaker' \in Breakers
        /\ breaker'.state = "Open"
    BY <2>1 DEF EngineTypeOK, Breakers
  <2>3. SlotsKept' /\ StreakCounted'
    BY <2>1, <2>2 DEF SlotsKept, Holding, InFlight, StreakCounted
  <2> QED
    BY <2>1, <2>2, <2>3 DEF EngineTypeOK, Breakers
<1>9. ASSUME UNCHANGED engineVars PROVE EngineInv'
  BY <1>9 DEF engineVars, EngineTypeOK, Breakers, SlotsKept, StreakCounted, Holding,
     InFlight
<1> QED
  BY <1>1, <1>2, <1>3, <1>4, <1>5, <1>6, <1>7, <1>8, <1>9 DEF EngineNext

LEMMA EngineIsSound == EngineInv => EngineSound
<1> SUFFICES ASSUME EngineInv PROVE EngineSound
  OBVIOUS
<1>1. Cardinality(InFlight) <= Cardinality(Holding)
  <2>1. InFlight \subseteq Holding
    BY DEF InFlight, Holding
  <2> QED
    BY <2>1, HoldersFinite, FS_Subset
<1>2. PoolBounded
  BY <1>1, HoldersFinite, EngineAssumption
     DEF EngineInv, EngineTypeOK, Breakers, SlotsKept, PoolBounded, InFlight
<1>3. BreakerJustified
  BY EngineAssumption DEF EngineInv, EngineTypeOK, Breakers, StreakCounted, BreakerJustified
<1> QED
  BY <1>2, <1>3 DEF EngineSound

\* Never more calls are in flight than there are slots, nobody waits beside a free one, and
\* the breaker closes and opens on the outcomes that call for it, however the calls that
\* report them overlap or are given up.
THEOREM SlotsAndBreakerHold == EngineSpec => []EngineSound
BY EngineStarts, EngineStep, EngineIsSound, PTL DEF EngineSpec

-----------------------------------------------------------------------------
(***************************************************************************)
(* One engine behind its pipes.  Between two searches nothing of a search  *)
(* is in either pipe (Quiet); during one its go, its engine or its answer  *)
(* is in one place, never in two (Ordered, Thinking, Found): this is why   *)
(* an answer fits, and why a wait ends but for a line torn apart.          *)
(***************************************************************************)
Commands == {"uci", "isready", "stop", "go", "quit"}

Lines == [kind : {"uciok", "readyok", "info", "bestmove", "torn"}, of : Nat]

UciTypeOK ==
    /\ stdin \in Seq(Commands) /\ stdout \in Seq(Lines)
    /\ uci \in [state : {"idle", "searching", "dead"}, search : Nat]
    /\ owner \in [stage : {"starting", "idle", "going", "draining", "asking", "waiting", "gone"},
                  info : Lines \cup {NoLine}]
    /\ asked \in [go : Nat, calls : Nat]

NoGo == \A i \in 1..Len(stdin) : stdin[i] # "go"

NoMove == \A i \in 1..Len(stdout) : stdout[i].kind # "bestmove"

NoInfo == \A i \in 1..Len(stdout) : stdout[i].kind # "info"

InfosFit == \A i \in 1..Len(stdout) : stdout[i].kind = "info" => stdout[i].of = asked.go

Quiet == NoGo /\ NoMove /\ NoInfo /\ uci.state # "searching" /\ uci.search = asked.go

\* The go is on its way.
Ordered ==
    /\ \E k \in 1..Len(stdin) : /\ stdin[k] = "go"
                                /\ \A i \in 1..Len(stdin) : stdin[i] = "go" => i = k
    /\ NoMove /\ NoInfo /\ uci.state # "searching" /\ uci.search + 1 = asked.go

\* The engine searches, or died over it.
Thinking == NoGo /\ NoMove /\ InfosFit /\ uci.state # "idle" /\ uci.search = asked.go

\* The answer is on its way, after everything else that was said of the search.
Found ==
    /\ \E m \in 1..Len(stdout) :
        /\ stdout[m].kind = "bestmove" /\ stdout[m].of = asked.go
        /\ \A i \in 1..Len(stdout) : /\ stdout[i].kind = "bestmove" => i = m
                                     /\ stdout[i].kind = "info" => i < m
    /\ NoGo /\ InfosFit /\ uci.state # "searching" /\ uci.search = asked.go

\* The answer was torn apart.
Torn == Quiet /\ torn \in Lines /\ torn.kind = "bestmove"

UciInv ==
    /\ UciTypeOK /\ AnswersFit
    /\ owner.stage \in {"starting", "idle", "asking", "waiting"} => Quiet
    /\ owner.stage \in {"going", "draining"} => \/ Ordered \/ Thinking \/ Found
                                                \/ owner.stage = "draining" /\ Torn
    /\ owner.stage = "going" => owner.info = NoLine \/ owner.info.of = asked.go

LEMMA Tearing ==
    ASSUME NEW S, NEW s \in Seq(S), s # <<>>, NEW e \in S, NEW t, t = <<e>> \o Tail(s)
    PROVE  /\ Len(s) \in Nat /\ Len(s) >= 1 /\ t \in Seq(S) /\ Len(t) = Len(s)
           /\ t[1] = e /\ \A i \in 1..Len(s) : i # 1 => t[i] = s[i]
<1>1. /\ Len(s) \in Nat /\ Len(s) >= 1 /\ Tail(s) \in Seq(S) /\ Len(Tail(s)) = Len(s) - 1
      /\ \A i \in 1..Len(Tail(s)) : Tail(s)[i] = s[i + 1]
  BY EmptySeq, HeadTailProperties
<1>2. <<e>> \in Seq(S) /\ Len(<<e>>) = 1 /\ <<e>>[1] = e
  OBVIOUS
<1>3. /\ t \in Seq(S) /\ Len(t) = Len(<<e>>) + Len(Tail(s))
      /\ \A i \in 1..(Len(<<e>>) + Len(Tail(s))) :
            t[i] = IF i <= Len(<<e>>) THEN <<e>>[i] ELSE Tail(s)[i - Len(<<e>>)]
  BY <1>1, <1>2, ConcatProperties
<1>4. Len(t) = Len(s) /\ \A i \in 1..Len(s) : t[i] = IF i <= 1 THEN <<e>>[i] ELSE Tail(s)[i - 1]
  BY <1>1, <1>2, <1>3
<1>5. t[1] = e
  BY <1>1, <1>2, <1>4
<1>6. \A i \in 1..Len(s) : i # 1 => t[i] = s[i]
  <2> SUFFICES ASSUME NEW i \in 1..Len(s), i # 1 PROVE t[i] = s[i]
    OBVIOUS
  <2>1. i - 1 \in 1..Len(Tail(s)) /\ ~(i <= 1) /\ (i - 1) + 1 = i
    BY <1>1
  <2> QED
    BY <1>1, <1>4, <2>1
<1> QED
  BY <1>1, <1>3, <1>4, <1>5, <1>6

LEMMA UciStarts == UciInit => UciInv
<1> SUFFICES ASSUME UciInit PROVE UciInv
  OBVIOUS
<1>1. stdin = <<"uci">> /\ stdin \in Seq(Commands) /\ Len(stdin) = 1 /\ stdin[1] = "uci"
  BY DEF UciInit, Commands
<1>2. stdout = <<>> /\ stdout \in Seq(Lines) /\ Len(stdout) = 0
  BY EmptySeq DEF UciInit
<1>3. /\ uci.state = "idle" /\ uci.search = 0 /\ owner.stage = "starting" /\ asked.go = 0
      /\ uci \in [state : {"idle", "searching", "dead"}, search : Nat]
      /\ owner \in [stage : {"starting", "idle", "going", "draining", "asking", "waiting",
                             "gone"}, info : Lines \cup {NoLine}]
      /\ asked \in [go : Nat, calls : Nat] /\ answered = {}
  BY DEF UciInit
<1> QED
  BY <1>1, <1>2, <1>3 DEF UciInv, UciTypeOK, AnswersFit, Quiet, NoGo, NoMove, NoInfo

\* The engine reads a command.
LEMMA EngineReadsWell == ASSUME UciInv, EngineReads PROVE UciInv'
<1> DEFINE command == Head(stdin)
<1>1. /\ stdin # <<>> /\ uci.state # "dead" /\ stdin' = Tail(stdin)
      /\ UNCHANGED <<owner, asked, answered, torn>>
  BY DEF EngineReads
<1>2. /\ Len(stdin) \in Nat /\ Len(stdin) >= 1 /\ command = stdin[1] /\ command \in Commands
      /\ stdin' \in Seq(Commands) /\ Len(stdin') = Len(stdin) - 1
      /\ \A i \in 1..Len(stdin') : stdin'[i] = stdin[i + 1]
  BY <1>1, Dropping DEF UciInv, UciTypeOK
<1>3. NoGo => command # "go" /\ NoGo'
  <2> SUFFICES ASSUME NoGo PROVE command # "go" /\ NoGo'
    OBVIOUS
  <2>1. \A i \in 1..Len(stdin') : i + 1 \in 1..Len(stdin)
    BY <1>2
  <2>2. 1 \in 1..Len(stdin)
    BY <1>2
  <2> QED
    BY <1>2, <2>1, <2>2 DEF NoGo
<1>4. AnswersFit'
  BY <1>1 DEF UciInv, AnswersFit
<1>5. /\ uci \in [state : {"idle", "searching", "dead"}, search : Nat] /\ uci.search \in Nat
      /\ stdout \in Seq(Lines) /\ asked \in [go : Nat, calls : Nat] /\ asked.go \in Nat
      /\ Len(stdout) \in Nat
  BY LenProperties DEF UciInv, UciTypeOK
<1> DEFINE Tells(kind) == /\ stdout' = Append(stdout, [kind |-> kind, of |-> uci.search])
                          /\ uci' = uci
<1>6. ASSUME NEW kind \in {"uciok", "readyok", "bestmove"},
             stdout' = Append(stdout, [kind |-> kind, of |-> uci.search])
      PROVE  /\ stdout' \in Seq(Lines) /\ Len(stdout') = Len(stdout) + 1
             /\ stdout'[Len(stdout) + 1].kind = kind
             /\ stdout'[Len(stdout) + 1].of = uci.search
             /\ \A i \in 1..Len(stdout) : stdout'[i] = stdout[i]
             /\ \A i \in 1..(Len(stdout) + 1) : i \in 1..Len(stdout) \/ i = Len(stdout) + 1
  <2>1. [kind |-> kind, of |-> uci.search] \in Lines
    BY <1>5 DEF Lines
  <2>2. /\ stdout' \in Seq(Lines) /\ Len(stdout') = Len(stdout) + 1
        /\ stdout'[Len(stdout) + 1] = [kind |-> kind, of |-> uci.search]
        /\ \A i \in 1..Len(stdout) : stdout'[i] = stdout[i]
    BY <1>5, <1>6, <2>1, Adding
  <2> QED
    BY <1>5, <2>2
\* Lines that are not of a search, or none.
<1>7. CASE /\ uci'.search = uci.search /\ uci' \in [state : {"idle", "searching", "dead"},
                                                   search : Nat]
           /\ uci'.state = uci.state \/ uci'.state = "dead"
           /\ command # "go"
           /\ stdout' = stdout \/ Tells("uciok") \/ Tells("readyok")
  <2>1. /\ stdout' \in Seq(Lines) /\ (NoMove => NoMove') /\ (NoInfo => NoInfo')
        /\ (InfosFit => InfosFit') /\ Len(stdout') \in Nat /\ Len(stdout') >= Len(stdout)
        /\ \A i \in 1..Len(stdout) : stdout'[i] = stdout[i]
        /\ \A i \in 1..Len(stdout') : i \in 1..Len(stdout) \/ stdout'[i].kind \notin
                                        {"bestmove", "info"}
    <3>1. CASE stdout' = stdout
      BY <1>1, <1>5, <3>1 DEF NoMove, NoInfo, InfosFit
    <3>2. ASSUME NEW kind \in {"uciok", "readyok"}, Tells(kind)
          PROVE  /\ stdout' \in Seq(Lines) /\ (NoMove => NoMove') /\ (NoInfo => NoInfo')
                 /\ (InfosFit => InfosFit') /\ Len(stdout') \in Nat
                 /\ Len(stdout') >= Len(stdout)
                 /\ \A i \in 1..Len(stdout) : stdout'[i] = stdout[i]
                 /\ \A i \in 1..Len(stdout') :
                        i \in 1..Len(stdout) \/ stdout'[i].kind \notin {"bestmove", "info"}
      <4>1. /\ stdout' \in Seq(Lines) /\ Len(stdout') = Len(stdout) + 1
            /\ stdout'[Len(stdout) + 1].kind = kind
            /\ \A i \in 1..Len(stdout) : stdout'[i] = stdout[i]
            /\ \A i \in 1..(Len(stdout) + 1) : i \in 1..Len(stdout) \/ i = Len(stdout) + 1
        BY <1>6, <3>2
      <4> QED
        BY <1>1, <1>5, <3>2, <4>1 DEF NoMove, NoInfo, InfosFit
    <3> HIDE DEF Tells
    <3> QED
      BY <1>7, <3>1, <3>2
  <2>2. Quiet => Quiet'
    BY <1>1, <1>3, <1>7, <2>1 DEF Quiet
  <2>3. Thinking => Thinking'
    BY <1>1, <1>3, <1>7, <2>1 DEF Thinking
  <2>4. Torn => Torn'
    BY <1>1, <2>2 DEF Torn
  <2>5. Found => Found'
    <3> SUFFICES ASSUME Found PROVE Found'
      OBVIOUS
    <3>1. PICK m \in 1..Len(stdout) :
            /\ stdout[m].kind = "bestmove" /\ stdout[m].of = asked.go
            /\ \A i \in 1..Len(stdout) : /\ stdout[i].kind = "bestmove" => i = m
                                         /\ stdout[i].kind = "info" => i < m
      BY DEF Found
    <3>2. m \in 1..Len(stdout')
      BY <1>5, <2>1
    <3>3. \A i \in 1..Len(stdout') : /\ stdout'[i].kind = "bestmove" => i = m
                                     /\ stdout'[i].kind = "info" => i < m
      BY <2>1, <3>1
    <3>4. NoGo' /\ InfosFit' /\ uci'.state # "searching" /\ uci'.search = asked'.go
      BY <1>1, <1>3, <1>7, <2>1 DEF Found
    <3> QED
      BY <1>1, <2>1, <3>1, <3>2, <3>3, <3>4 DEF Found
  <2>6. (Ordered => Ordered')
    <3> SUFFICES ASSUME Ordered PROVE Ordered'
      OBVIOUS
    <3>1. PICK k \in 1..Len(stdin) : /\ stdin[k] = "go"
                                     /\ \A i \in 1..Len(stdin) : stdin[i] = "go" => i = k
      BY DEF Ordered
    <3>2. k # 1
      BY <1>2, <1>7, <3>1
    <3>3. k - 1 \in 1..Len(stdin') /\ stdin'[k - 1] = "go"
      BY <1>2, <3>1, <3>2
    <3>4. \A i \in 1..Len(stdin') : stdin'[i] = "go" => i = k - 1
      <4>1. \A i \in 1..Len(stdin') : i + 1 \in 1..Len(stdin)
        BY <1>2
      <4> QED
        BY <1>2, <3>1, <4>1
    <3> QED
      BY <1>1, <1>7, <2>1, <3>3, <3>4 DEF Ordered
  <2>7. UciTypeOK'
    BY <1>1, <1>2, <1>7, <2>1 DEF UciInv, UciTypeOK
  <2> HIDE DEF Tells
  <2> QED
    BY <1>1, <1>4, <2>2, <2>3, <2>4, <2>5, <2>6, <2>7 DEF UciInv
<1>8. CASE command = "go" /\ uci' = [state |-> "searching", search |-> uci.search + 1]
           /\ UNCHANGED stdout
  <2>1. /\ uci'.state = "searching" /\ uci'.search = uci.search + 1
        /\ uci' \in [state : {"idle", "searching", "dead"}, search : Nat]
    BY <1>5, <1>8
  <2>2. ~NoGo
    BY <1>3, <1>8
  <2>3. ~Quiet /\ ~Thinking /\ ~Found /\ ~Torn
    BY <2>2 DEF Quiet, Thinking, Found, Torn
  <2>4. Ordered => Thinking'
    <3> SUFFICES ASSUME Ordered PROVE Thinking'
      OBVIOUS
    <3>1. PICK k \in 1..Len(stdin) : /\ stdin[k] = "go"
                                     /\ \A i \in 1..Len(stdin) : stdin[i] = "go" => i = k
      BY DEF Ordered
    <3>2. k = 1
      BY <1>2, <1>8, <3>1
    <3>3. NoGo'
      <4>1. \A i \in 1..Len(stdin') : i + 1 \in 1..Len(stdin) /\ i + 1 # 1
        BY <1>2
      <4> QED
        BY <1>2, <3>1, <3>2, <4>1 DEF NoGo
    <3> QED
      BY <1>1, <1>5, <1>8, <2>1, <3>3 DEF Ordered, Thinking, NoMove, NoInfo, InfosFit
  <2>5. UciTypeOK'
    BY <1>1, <1>2, <1>8, <2>1 DEF UciInv, UciTypeOK
  <2> QED
    BY <1>1, <1>4, <2>3, <2>4, <2>5 DEF UciInv
<1>9. CASE /\ command = "stop" /\ uci.state = "searching"
           /\ uci' = [uci EXCEPT !.state = "idle"]
           /\ stdout' = Append(stdout, [kind |-> "bestmove", of |-> uci.search])
  <2>1. /\ uci'.state = "idle" /\ uci'.search = uci.search
        /\ uci' \in [state : {"idle", "searching", "dead"}, search : Nat]
    BY <1>5, <1>9
  <2>2. /\ stdout' \in Seq(Lines) /\ Len(stdout') = Len(stdout) + 1
        /\ stdout'[Len(stdout) + 1].kind = "bestmove"
        /\ stdout'[Len(stdout) + 1].of = uci.search
        /\ \A i \in 1..Len(stdout) : stdout'[i] = stdout[i]
        /\ \A i \in 1..(Len(stdout) + 1) : i \in 1..Len(stdout) \/ i = Len(stdout) + 1
    BY <1>6, <1>9
  <2>3. ~Quiet /\ ~Ordered /\ ~Found /\ ~Torn
    BY <1>9 DEF Quiet, Ordered, Found, Torn
  <2>4. Thinking => Found'
    <3> SUFFICES ASSUME Thinking PROVE Found'
      OBVIOUS
    <3>1. NoGo' /\ InfosFit'
      BY <1>1, <1>3, <2>2 DEF Thinking, InfosFit
    <3>2. Len(stdout) + 1 \in 1..Len(stdout')
      BY <1>5, <2>2
    <3>3. \A i \in 1..Len(stdout') :
            /\ stdout'[i].kind = "bestmove" => i = Len(stdout) + 1
            /\ stdout'[i].kind = "info" => i < Len(stdout) + 1
      BY <1>5, <2>2 DEF Thinking, NoMove
    <3> QED
      BY <1>1, <2>1, <2>2, <3>1, <3>2, <3>3 DEF Thinking, Found
  <2>5. UciTypeOK'
    BY <1>1, <1>2, <2>1, <2>2 DEF UciInv, UciTypeOK
  <2> QED
    BY <1>1, <1>4, <2>3, <2>4, <2>5 DEF UciInv
<1> QED
  <2>1. CASE command = "go"
    BY <1>8, <2>1 DEF EngineReads
  <2>2. CASE command = "stop" /\ uci.state = "searching"
    BY <1>9, <2>2 DEF EngineReads, Line
  <2>3. CASE command = "uci"
    BY <1>5, <1>7, <2>3 DEF EngineReads, Line
  <2>4. CASE command = "isready"
    BY <1>5, <1>7, <2>4 DEF EngineReads, Line
  <2>5. CASE command = "quit"
    <3>1. uci' = [uci EXCEPT !.state = "dead"] /\ UNCHANGED stdout
      BY <2>5 DEF EngineReads
    <3>2. /\ uci'.search = uci.search /\ uci'.state = "dead"
          /\ uci' \in [state : {"idle", "searching", "dead"}, search : Nat]
      BY <1>5, <3>1
    <3> QED
      BY <1>7, <2>5, <3>1, <3>2
  <2>6. CASE command = "stop" /\ uci.state # "searching"
    BY <1>5, <1>7, <2>6 DEF EngineReads
  <2> QED
    BY <1>2, <2>1, <2>2, <2>3, <2>4, <2>5, <2>6 DEF Commands

\* The engine says something of its search, or dies.
LEMMA EngineSaysWell == ASSUME UciInv, EngineSays \/ EngineDies PROVE UciInv'
<1>1. /\ UNCHANGED <<stdin, owner, asked, answered, torn>>
      /\ uci \in [state : {"idle", "searching", "dead"}, search : Nat] /\ uci.search \in Nat
      /\ stdout \in Seq(Lines) /\ Len(stdout) \in Nat /\ asked.go \in Nat
  BY LenProperties DEF EngineSays, EngineDies, UciInv, UciTypeOK
<1>2. AnswersFit' /\ NoGo' = NoGo
  BY <1>1 DEF UciInv, AnswersFit, NoGo
<1>3. ASSUME NEW kind \in {"info", "bestmove"},
             stdout' = Append(stdout, [kind |-> kind, of |-> uci.search])
      PROVE  /\ stdout' \in Seq(Lines) /\ Len(stdout') = Len(stdout) + 1
             /\ stdout'[Len(stdout) + 1].kind = kind
             /\ stdout'[Len(stdout) + 1].of = uci.search
             /\ \A i \in 1..Len(stdout) : stdout'[i] = stdout[i]
             /\ \A i \in 1..(Len(stdout) + 1) : i \in 1..Len(stdout) \/ i = Len(stdout) + 1
  <2>1. [kind |-> kind, of |-> uci.search] \in Lines
    BY <1>1 DEF Lines
  <2>2. /\ stdout' \in Seq(Lines) /\ Len(stdout') = Len(stdout) + 1
        /\ stdout'[Len(stdout) + 1] = [kind |-> kind, of |-> uci.search]
        /\ \A i \in 1..Len(stdout) : stdout'[i] = stdout[i]
    BY <1>1, <1>3, <2>1, Adding
  <2> QED
    BY <1>1, <2>2
<1>4. CASE EngineSays /\ UNCHANGED uci
  <2>1. /\ uci.state = "searching"
        /\ stdout' = Append(stdout, [kind |-> "info", of |-> uci.search]) \/ uci' # uci
    BY <1>1, <1>4 DEF EngineSays, Line
  <2>2. /\ stdout' \in Seq(Lines) /\ Len(stdout') = Len(stdout) + 1
        /\ stdout'[Len(stdout) + 1].kind = "info"
        /\ stdout'[Len(stdout) + 1].of = uci.search
        /\ \A i \in 1..Len(stdout) : stdout'[i] = stdout[i]
        /\ \A i \in 1..(Len(stdout) + 1) : i \in 1..Len(stdout) \/ i = Len(stdout) + 1
    BY <1>3, <1>4, <2>1
  <2>3. ~Quiet /\ ~Ordered /\ ~Found /\ ~Torn
    BY <2>1 DEF Quiet, Ordered, Found, Torn
  <2>4. Thinking => Thinking'
    BY <1>1, <1>2, <1>4, <2>2 DEF Thinking, NoMove, InfosFit
  <2> QED
    BY <1>1, <1>2, <1>4, <2>2, <2>3, <2>4 DEF UciInv, UciTypeOK
<1>5. CASE EngineSays /\ uci' = [uci EXCEPT !.state = "idle"]
           /\ stdout' = Append(stdout, [kind |-> "bestmove", of |-> uci.search])
  <2>1. /\ uci.state = "searching" /\ uci'.state = "idle" /\ uci'.search = uci.search
        /\ uci' \in [state : {"idle", "searching", "dead"}, search : Nat]
    BY <1>1, <1>5 DEF EngineSays
  <2>2. /\ stdout' \in Seq(Lines) /\ Len(stdout') = Len(stdout) + 1
        /\ stdout'[Len(stdout) + 1].kind = "bestmove"
        /\ stdout'[Len(stdout) + 1].of = uci.search
        /\ \A i \in 1..Len(stdout) : stdout'[i] = stdout[i]
        /\ \A i \in 1..(Len(stdout) + 1) : i \in 1..Len(stdout) \/ i = Len(stdout) + 1
    BY <1>3, <1>5
  <2>3. ~Quiet /\ ~Ordered /\ ~Found /\ ~Torn
    BY <2>1 DEF Quiet, Ordered, Found, Torn
  <2>4. Thinking => Found'
    BY <1>1, <1>2, <2>1, <2>2 DEF Thinking, Found, NoMove, InfosFit
  <2> QED
    BY <1>1, <1>2, <2>1, <2>2, <2>3, <2>4 DEF UciInv, UciTypeOK
<1>6. CASE EngineDies
  <2>1. /\ uci'.state = "dead" /\ uci'.search = uci.search /\ UNCHANGED stdout
        /\ uci' \in [state : {"idle", "searching", "dead"}, search : Nat]
    BY <1>1, <1>6 DEF EngineDies
  <2>2. NoMove' = NoMove /\ NoInfo' = NoInfo /\ InfosFit' = InfosFit
    BY <1>1, <2>1 DEF NoMove, NoInfo, InfosFit
  <2>3. /\ (Quiet => Quiet') /\ (Torn => Torn') /\ (Thinking => Thinking')
    BY <1>1, <1>2, <2>1, <2>2 DEF Quiet, Torn, Thinking
  <2>4. (Ordered => Ordered') /\ (Found => Found')
    BY <1>1, <1>2, <2>1, <2>2 DEF Ordered, Found
  <2> QED
    BY <1>1, <1>2, <2>1, <2>3, <2>4 DEF UciInv, UciTypeOK
<1> QED
  BY <1>4, <1>5, <1>6 DEF EngineSays, Line

\* A new call.
LEMMA OwnerAsksWell == ASSUME UciInv, Go \/ AsksTheEngine PROVE UciInv'
<1>1. /\ owner.stage = "idle" /\ UNCHANGED <<stdout, uci, answered, torn>>
      /\ stdin \in Seq(Commands) /\ Len(stdin) \in Nat /\ Quiet
      /\ asked \in [go : Nat, calls : Nat] /\ asked.go \in Nat /\ uci.search \in Nat
  BY LenProperties DEF Go, AsksTheEngine, UciInv, UciTypeOK
<1>2. AnswersFit' /\ NoMove' /\ NoInfo' /\ UNCHANGED uci
  BY <1>1 DEF UciInv, AnswersFit, Quiet, NoMove, NoInfo
<1>3. ASSUME NEW command \in Commands, stdin' = Append(stdin, command)
      PROVE  /\ stdin' \in Seq(Commands) /\ Len(stdin') = Len(stdin) + 1
             /\ stdin'[Len(stdin) + 1] = command
             /\ \A i \in 1..Len(stdin) : stdin'[i] = stdin[i]
             /\ \A i \in 1..(Len(stdin) + 1) : i \in 1..Len(stdin) \/ i = Len(stdin) + 1
  <2>1. /\ stdin' \in Seq(Commands) /\ Len(stdin') = Len(stdin) + 1
        /\ stdin'[Len(stdin) + 1] = command
        /\ \A i \in 1..Len(stdin) : stdin'[i] = stdin[i]
    BY <1>1, <1>3, Adding
  <2> QED
    BY <1>1, <2>1
<1>4. ASSUME NEW doing \in {"idle", "going", "asking"},
             owner' = [stage |-> doing, info |-> NoLine]
      PROVE  /\ owner'.stage = doing /\ owner'.info = NoLine
             /\ owner' \in [stage : {"starting", "idle", "going", "draining", "asking",
                                     "waiting", "gone"}, info : Lines \cup {NoLine}]
  BY <1>4
<1>5. CASE Go
  <2>1. /\ stdin' = Append(stdin, "go") /\ owner' = [stage |-> "going", info |-> NoLine]
        /\ asked' = [asked EXCEPT !.go = @ + 1]
    BY <1>5 DEF Go, Sends
  <2>2. asked' \in [go : Nat, calls : Nat] /\ asked'.go = asked.go + 1
    BY <1>1, <2>1
  <2>3. "go" \in Commands
    BY DEF Commands
  <2>4. /\ stdin' \in Seq(Commands) /\ Len(stdin') = Len(stdin) + 1
        /\ stdin'[Len(stdin) + 1] = "go"
        /\ \A i \in 1..Len(stdin) : stdin'[i] = stdin[i]
        /\ \A i \in 1..(Len(stdin) + 1) : i \in 1..Len(stdin) \/ i = Len(stdin) + 1
    BY <1>3, <2>1, <2>3
  <2>5. Ordered'
    BY <1>1, <1>2, <2>2, <2>4, SMTT(30) DEF Ordered, Quiet, NoGo
  <2> QED
    BY <1>1, <1>2, <1>4, <2>1, <2>2, <2>4, <2>5 DEF UciInv, UciTypeOK
<1>6. CASE AsksTheEngine
  <2>1. PICK command \in {"isready", "stop", "uci"}, doing \in {"asking", "idle"} :
            stdin' = Append(stdin, command) /\ owner' = [stage |-> doing, info |-> NoLine]
    BY <1>6 DEF AsksTheEngine, Sends
  <2>2. asked' \in [go : Nat, calls : Nat] /\ asked'.go = asked.go
    <3>1. asked' = [asked EXCEPT !.calls = @ + 1]
      BY <1>6 DEF AsksTheEngine
    <3> QED
      BY <1>1, <3>1
  <2>3. command \in Commands /\ command # "go"
    BY DEF Commands
  <2>4. /\ stdin' \in Seq(Commands) /\ Len(stdin') = Len(stdin) + 1
        /\ stdin'[Len(stdin) + 1] = command
        /\ \A i \in 1..Len(stdin) : stdin'[i] = stdin[i]
        /\ \A i \in 1..(Len(stdin) + 1) : i \in 1..Len(stdin) \/ i = Len(stdin) + 1
    BY <1>3, <2>1, <2>3
  <2>5. Quiet'
    BY <1>1, <1>2, <2>2, <2>3, <2>4 DEF Quiet, NoGo
  <2> QED
    BY <1>1, <1>2, <1>4, <2>1, <2>2, <2>4, <2>5 DEF UciInv, UciTypeOK
<1> QED
  BY <1>5, <1>6

\* A line is read.
LEMMA OwnerReadsWell == ASSUME UciInv, OwnerReads PROVE UciInv'
<1> DEFINE top == Head(stdout)
<1>1. /\ owner.stage \in {"starting", "going", "draining", "asking", "waiting"}
      /\ stdout # <<>> /\ stdout' = Tail(stdout) /\ UNCHANGED <<stdin, uci, asked, torn>>
      /\ owner' = CASE top.kind = Awaited[owner.stage] -> [stage |-> "idle", info |-> NoLine]
                    [] top.kind = "info" /\ owner.stage = "going" ->
                            [owner EXCEPT !.info = top]
                    [] OTHER -> owner
      /\ answered' = IF owner.stage = "going" /\ top.kind = "bestmove"
                     THEN answered \cup {[go |-> asked.go, move |-> top, info |-> owner.info]}
                     ELSE answered
  BY DEF OwnerReads, Awaited
<1>2. /\ Len(stdout) \in Nat /\ Len(stdout) >= 1 /\ top = stdout[1] /\ top \in Lines
      /\ stdout' \in Seq(Lines) /\ Len(stdout') = Len(stdout) - 1
      /\ \A i \in 1..Len(stdout') : stdout'[i] = stdout[i + 1]
  BY <1>1, Dropping DEF UciInv, UciTypeOK
<1>3. /\ \A i \in 1..Len(stdout') : i + 1 \in 1..Len(stdout) /\ i + 1 # 1
      /\ 1 \in 1..Len(stdout)
  BY <1>2
<1>4. owner \in [stage : {"starting", "idle", "going", "draining", "asking", "waiting", "gone"},
                 info : Lines \cup {NoLine}]
  BY DEF UciInv, UciTypeOK
<1>5. /\ Awaited["starting"] = "uciok" /\ Awaited["going"] = "bestmove"
      /\ Awaited["draining"] = "bestmove"
      /\ Awaited["asking"] = "readyok" /\ Awaited["waiting"] = "readyok"
  BY DEF Awaited
<1>6. /\ NoGo' = NoGo /\ (NoMove => NoMove') /\ (NoInfo => NoInfo') /\ (InfosFit =>
             InfosFit')
  BY <1>1, <1>2, <1>3 DEF NoGo, NoMove, NoInfo, InfosFit
<1> HIDE DEF top
<1>7. /\ (Quiet => Quiet' /\ top.kind # "bestmove" /\ top.kind # "info")
      /\ (Torn => Torn' /\ top.kind # "bestmove" /\ top.kind # "info")
      /\ (Thinking => Thinking' /\ top.kind # "bestmove")
      /\ (Ordered => Ordered' /\ top.kind # "bestmove" /\ top.kind # "info")
  <2>1. NoMove => top.kind # "bestmove"
    BY <1>2, <1>3 DEF NoMove
  <2>2. NoInfo => top.kind # "info"
    BY <1>2, <1>3 DEF NoInfo
  <2>3. UNCHANGED <<stdin, uci, asked, torn>>
    BY <1>1
  <2> QED
    BY <1>6, <2>1, <2>2, <2>3 DEF Quiet, Torn, Thinking, Ordered
<1>8. Found /\ top.kind = "info" => top.of = asked.go
  BY <1>2, <1>3 DEF Found, InfosFit
<1>8a. Thinking /\ top.kind = "info" => top.of = asked.go
  BY <1>2, <1>3 DEF Thinking, InfosFit
<1>9. Found /\ top.kind = "bestmove" => top.of = asked.go /\ Quiet'
  <2> SUFFICES ASSUME Found, top.kind = "bestmove" PROVE top.of = asked.go /\ Quiet'
    OBVIOUS
  <2>1. PICK m \in 1..Len(stdout) :
          /\ stdout[m].kind = "bestmove" /\ stdout[m].of = asked.go
          /\ \A i \in 1..Len(stdout) : /\ stdout[i].kind = "bestmove" => i = m
                                       /\ stdout[i].kind = "info" => i < m
    BY DEF Found
  <2>2. m = 1
    BY <1>2, <1>3, <2>1
  <2>3. \A i \in 1..Len(stdout') :
            stdout'[i].kind # "bestmove" /\ stdout'[i].kind # "info"
    BY <1>2, <1>3, <2>1, <2>2
  <2>4. NoMove' /\ NoInfo'
    BY <2>3 DEF NoMove, NoInfo
  <2>5. UNCHANGED <<uci, asked>>
    BY <1>1
  <2> QED
    BY <1>2, <1>6, <2>1, <2>2, <2>4, <2>5 DEF Found, Quiet
<1>10. Found /\ top.kind # "bestmove" => Found'
  <2> SUFFICES ASSUME Found, top.kind # "bestmove" PROVE Found'
    OBVIOUS
  <2>1. PICK m \in 1..Len(stdout) :
          /\ stdout[m].kind = "bestmove" /\ stdout[m].of = asked.go
          /\ \A i \in 1..Len(stdout) : /\ stdout[i].kind = "bestmove" => i = m
                                       /\ stdout[i].kind = "info" => i < m
    BY DEF Found
  <2>2. m # 1
    BY <1>2, <2>1
  <2>3. m - 1 \in 1..Len(stdout') /\ stdout'[m - 1] = stdout[m]
    <3>1. m - 1 \in 1..Len(stdout') /\ (m - 1) + 1 = m
      BY <1>2, <2>2
    <3> QED
      BY <1>2, <3>1
  <2>4. \A i \in 1..Len(stdout') : /\ stdout'[i].kind = "bestmove" => i = m - 1
                                   /\ stdout'[i].kind = "info" => i < m - 1
    <3> SUFFICES ASSUME NEW i \in 1..Len(stdout')
                 PROVE  /\ stdout'[i].kind = "bestmove" => i = m - 1
                        /\ stdout'[i].kind = "info" => i < m - 1
      OBVIOUS
    <3>1. stdout'[i] = stdout[i + 1] /\ i + 1 \in 1..Len(stdout)
      BY <1>2, <1>3
    <3>2. stdout'[i].kind = "bestmove" => i + 1 = m
      BY <2>1, <3>1
    <3>3. stdout'[i].kind = "info" => i + 1 < m
      BY <2>1, <3>1
    <3> QED
      BY <3>2, <3>3
  <2>5. UNCHANGED <<uci, asked>>
    BY <1>1
  <2> QED
    BY <1>6, <2>1, <2>3, <2>4, <2>5 DEF Found
<1>11. CASE owner.stage \in {"starting", "asking", "waiting"}
  <2>1. Quiet
    BY <1>11 DEF UciInv
  <2>2. answered' = answered
            /\ (owner' = owner \/ owner' = [stage |-> "idle", info |-> NoLine])
    BY <1>1, <1>7, <1>11, <2>1
  <2>3. owner'.stage \in {"starting", "asking", "waiting", "idle"}
        /\ owner' \in [stage : {"starting", "idle", "going", "draining", "asking", "waiting",
                                "gone"}, info : Lines \cup {NoLine}]
    BY <1>4, <1>11, <2>2
  <2> QED
    BY <1>1, <1>2, <1>7, <2>1, <2>2, <2>3 DEF UciInv, UciTypeOK, AnswersFit
<1>12. CASE owner.stage \in {"going", "draining"} /\ top.kind = "bestmove"
  <2>1. Found
    BY <1>7, <1>12 DEF UciInv
  <2>2. owner' = [stage |-> "idle", info |-> NoLine]
    BY <1>1, <1>5, <1>12
  <2>3. owner'.stage = "idle"
        /\ owner' \in [stage : {"starting", "idle", "going", "draining", "asking", "waiting",
                                "gone"}, info : Lines \cup {NoLine}]
    BY <2>2
  <2>4. AnswersFit'
    <3> SUFFICES ASSUME NEW a \in answered'
                 PROVE  a.move.of = a.go /\ (a.info # NoLine => a.info.of = a.go)
      BY DEF AnswersFit
    <3>1. CASE a \in answered
      BY <3>1 DEF UciInv, AnswersFit
    <3>2. CASE a = [go |-> asked.go, move |-> top, info |-> owner.info]
               /\ owner.stage = "going"
      BY <1>9, <1>12, <2>1, <3>2 DEF UciInv
    <3> QED
      BY <1>1, <3>1, <3>2
  <2> QED
    BY <1>1, <1>2, <1>9, <1>12, <2>1, <2>3, <2>4 DEF UciInv, UciTypeOK
<1>13. CASE owner.stage \in {"going", "draining"} /\ top.kind # "bestmove"
  <2>1. answered' = answered /\ AnswersFit'
    BY <1>1, <1>13 DEF UciInv, AnswersFit
  <2>2. \/ owner' = owner
        \/ owner' = [owner EXCEPT !.info = top] /\ top.kind = "info"
               /\ owner.stage = "going"
    BY <1>1, <1>5, <1>13
  <2>3. /\ owner'.stage = owner.stage
        /\ owner' \in [stage : {"starting", "idle", "going", "draining", "asking", "waiting",
                                "gone"}, info : Lines \cup {NoLine}]
        /\ \/ owner'.info = owner.info
           \/ owner'.info = top /\ top.kind = "info" /\ owner.stage = "going"
    BY <1>2, <1>4, <2>2
  <2>4. \/ Ordered /\ Ordered' /\ top.kind # "info"
        \/ Thinking /\ Thinking' /\ (top.kind = "info" => top.of = asked.go)
        \/ Found /\ Found' /\ (top.kind = "info" => top.of = asked.go)
        \/ owner.stage = "draining" /\ Torn /\ Torn'
    BY <1>7, <1>8, <1>8a, <1>10, <1>13 DEF UciInv
  <2>5. owner'.stage = "going" => owner'.info = NoLine \/ owner'.info.of = asked'.go
    BY <1>1, <2>3, <2>4 DEF UciInv
  <2>6. UciTypeOK'
    BY <1>1, <1>2, <2>3 DEF UciInv, UciTypeOK
  <2> QED
    BY <1>13, <2>1, <2>3, <2>4, <2>5, <2>6 DEF UciInv
<1> QED
  BY <1>1, <1>11, <1>12, <1>13

\* The time is over.
LEMMA OwnerTimesOutWell == ASSUME UciInv, OwnerTimesOut PROVE UciInv'
<1>1. /\ owner.stage \in {"going", "asking"} /\ stdin' = Append(stdin, "stop")
      /\ owner' = [stage |-> AfterTimeout(owner.stage), info |-> NoLine]
      /\ UNCHANGED <<uci, asked, answered>>
      /\ stdin \in Seq(Commands) /\ stdout \in Seq(Lines) /\ Len(stdout) \in Nat
  BY LenProperties DEF OwnerTimesOut, Sends, UciInv, UciTypeOK
<1>2. "stop" \in Commands
  BY DEF Commands
<1>3. /\ Len(stdin) \in Nat /\ stdin' \in Seq(Commands) /\ Len(stdin') = Len(stdin) + 1
      /\ stdin'[Len(stdin) + 1] = "stop"
      /\ \A i \in 1..Len(stdin) : stdin'[i] = stdin[i]
  BY <1>1, <1>2, Adding
<1>4. \A i \in 1..Len(stdin') : i \in 1..Len(stdin) \/ i = Len(stdin) + 1
  BY <1>3
<1>5. NoGo => NoGo'
  BY <1>3, <1>4 DEF NoGo
<1>6. /\ owner'.stage = (IF owner.stage = "asking" THEN "waiting" ELSE "draining")
      /\ owner' \in [stage : {"starting", "idle", "going", "draining", "asking", "waiting",
                              "gone"}, info : Lines \cup {NoLine}]
  BY <1>1 DEF AfterTimeout
<1>7. AnswersFit'
  BY <1>1 DEF UciInv, AnswersFit
<1>8. ASSUME Ordered, NoMove', NoInfo' PROVE Ordered'
  <2>1. PICK k \in 1..Len(stdin) : /\ stdin[k] = "go"
                                   /\ \A i \in 1..Len(stdin) : stdin[i] = "go" => i = k
    BY <1>8 DEF Ordered
  <2>2. k \in 1..Len(stdin') /\ stdin'[k] = "go"
    BY <1>3, <2>1
  <2>3. \A i \in 1..Len(stdin') : stdin'[i] = "go" => i = k
    BY <1>3, <1>4, <2>1
  <2> QED
    BY <1>1, <1>8, <2>2, <2>3 DEF Ordered
<1>9. CASE UNCHANGED <<stdout, torn>>
  <2>1. /\ NoMove' = NoMove /\ NoInfo' = NoInfo /\ InfosFit' = InfosFit
    BY <1>1, <1>9 DEF NoMove, NoInfo, InfosFit
  <2>2. Ordered => Ordered'
    BY <1>8, <2>1 DEF Ordered
  <2>3. Found => Found'
    BY <1>1, <1>5, <1>9, <2>1 DEF Found
  <2>5. UciTypeOK'
    BY <1>1, <1>3, <1>6, <1>9 DEF UciInv, UciTypeOK
  <2>6. (Thinking => Thinking') /\ (Quiet => Quiet')
    BY <1>1, <1>5, <2>1 DEF Thinking, Quiet
  <2> QED
    BY <1>1, <1>6, <1>7, <2>2, <2>3, <2>5, <2>6 DEF UciInv
<1>10. CASE /\ stdout # <<>> /\ torn' = Head(stdout)
            /\ stdout' = <<[Head(stdout) EXCEPT !.kind = "torn"]>> \o Tail(stdout)
  <2> DEFINE top == Head(stdout)
             piece == [top EXCEPT !.kind = "torn"]
  <2>1. top = stdout[1] /\ top \in Lines
    BY <1>1, <1>10, Dropping
  <2>2. piece \in Lines /\ piece.kind = "torn"
    BY <2>1 DEF Lines
  <2>3. stdout' = <<piece>> \o Tail(stdout)
    BY <1>10
  <2> HIDE DEF top, piece
  <2>4. /\ Len(stdout) >= 1 /\ stdout' \in Seq(Lines) /\ Len(stdout') = Len(stdout)
        /\ stdout'[1] = piece /\ \A i \in 1..Len(stdout) : i # 1 => stdout'[i] = stdout[i]
    <3>1. stdout # <<>>
      BY <1>10
    <3> QED
      BY <1>1, <2>2, <2>3, <3>1, Tearing
  <2>5. 1 \in 1..Len(stdout)
    BY <1>1, <2>4
  <2>6a. (NoMove => NoMove') /\ (NoInfo => NoInfo') /\ (InfosFit => InfosFit')
    BY <1>1, <2>2, <2>4 DEF NoMove, NoInfo, InfosFit
  <2>7. (Ordered => Ordered')
    BY <1>8, <2>6a DEF Ordered
  <2>8. (Thinking => Thinking') /\ (Quiet => Quiet')
    BY <1>1, <1>5, <2>6a DEF Thinking, Quiet
  <2>9. Found => (Found' \/ Torn')
    <3> SUFFICES ASSUME Found PROVE Found' \/ Torn'
      OBVIOUS
    <3>1. PICK m \in 1..Len(stdout) :
            /\ stdout[m].kind = "bestmove" /\ stdout[m].of = asked.go
            /\ \A i \in 1..Len(stdout) : /\ stdout[i].kind = "bestmove" => i = m
                                         /\ stdout[i].kind = "info" => i < m
      BY DEF Found
    <3>2. NoGo' /\ InfosFit' /\ uci'.state # "searching" /\ uci'.search = asked'.go
      BY <1>1, <1>5, <2>6a DEF Found
    <3>3. CASE m = 1
      <4>1. \A i \in 1..Len(stdout') :
                stdout'[i].kind # "bestmove" /\ stdout'[i].kind # "info"
        <5> SUFFICES ASSUME NEW i \in 1..Len(stdout')
                     PROVE  stdout'[i].kind # "bestmove" /\ stdout'[i].kind # "info"
          OBVIOUS
        <5>1. CASE i = 1
          BY <2>2, <2>4, <5>1
        <5>2. CASE i # 1
          <6>1. i \in 1..Len(stdout) /\ ~(i < 1) /\ stdout'[i] = stdout[i]
            BY <1>1, <2>4, <5>2
          <6> QED
            BY <3>1, <3>3, <5>2, <6>1
        <5> QED
          BY <5>1, <5>2
      <4>2. NoMove' /\ NoInfo'
        BY <4>1 DEF NoMove, NoInfo
      <4>3. torn' \in Lines /\ torn'.kind = "bestmove"
        BY <1>10, <2>1, <3>1, <3>3 DEF top
      <4> QED
        BY <3>2, <4>2, <4>3 DEF Torn, Quiet
    <3>4. CASE m # 1
      <4>1. \A i \in 1..Len(stdout') : /\ stdout'[i].kind = "bestmove" => i = m
                                       /\ stdout'[i].kind = "info" => i < m
        BY <2>2, <2>4, <3>1
      <4>2. stdout'[m] = stdout[m] /\ m \in 1..Len(stdout')
        BY <2>4, <3>4
      <4> QED
        BY <1>1, <3>1, <3>2, <4>1, <4>2 DEF Found
    <3> QED
      BY <3>3, <3>4
  <2>10. UciTypeOK'
    BY <1>1, <1>3, <1>6, <2>4 DEF UciInv, UciTypeOK
  <2> QED
    BY <1>1, <1>6, <1>7, <2>7, <2>8, <2>9, <2>10 DEF UciInv
<1> QED
  BY <1>9, <1>10 DEF OwnerTimesOut

\* The call fails, or the owner has done with the engine.
LEMMA OwnerEndsWell == ASSUME UciInv, OwnerFails \/ OwnerLeaves PROVE UciInv'
<1>1. /\ owner' = [owner EXCEPT !.stage = "gone"] /\ UNCHANGED <<stdout, asked, answered>>
      /\ stdin' = Append(stdin, "quit") \/ UNCHANGED stdin
      /\ uci' = uci \/ uci' = [uci EXCEPT !.state = "dead"]
  BY DEF OwnerFails, OwnerLeaves
<1>2. "quit" \in Commands
  BY DEF Commands
<1>3. stdin' \in Seq(Commands)
  <2>1. stdin \in Seq(Commands)
    BY DEF UciInv, UciTypeOK
  <2>2. Append(stdin, "quit") \in Seq(Commands)
    BY <1>2, <2>1, AppendProperties
  <2> QED
    BY <1>1, <2>1, <2>2
<1>3a. uci' \in [state : {"idle", "searching", "dead"}, search : Nat]
  BY <1>1 DEF UciInv, UciTypeOK
<1>4. /\ owner'.stage = "gone"
      /\ owner' \in [stage : {"starting", "idle", "going", "draining", "asking", "waiting",
                              "gone"}, info : Lines \cup {NoLine}]
  BY <1>1 DEF UciInv, UciTypeOK
<1> QED
  BY <1>1, <1>3, <1>3a, <1>4 DEF UciInv, UciTypeOK, AnswersFit

LEMMA UciStep == UciInv /\ [UciNext]_uciVars => UciInv'
<1> SUFFICES ASSUME UciInv, [UciNext]_uciVars PROVE UciInv'
  OBVIOUS
<1>1. CASE UNCHANGED uciVars
  BY <1>1 DEF uciVars, UciInv, UciTypeOK, AnswersFit, Quiet, Ordered, Thinking, Found, Torn,
              NoGo, NoMove, NoInfo, InfosFit
<1> QED
  BY <1>1, EngineReadsWell, EngineSaysWell, OwnerAsksWell, OwnerReadsWell,
     OwnerTimesOutWell,
     OwnerEndsWell DEF UciNext

LEMMA UciIsSound == UciInv => UciSound
<1> SUFFICES ASSUME UciInv, owner.stage = "draining", uci.state # "dead",
                    uci.state # "searching"
             PROVE  \/ Coming("bestmove") \/ "go" \in {stdin[i] : i \in DOMAIN stdin}
                    \/ torn # NoLine /\ torn.kind = "bestmove"
  BY DEF UciInv, UciSound, DrainsEnd
<1>1. DOMAIN stdin = 1..Len(stdin) /\ DOMAIN stdout = 1..Len(stdout)
  BY LenProperties DEF UciInv, UciTypeOK
<1>2. CASE Ordered
  BY <1>1, <1>2 DEF Ordered
<1>3. CASE Found
  BY <1>1, <1>3 DEF Found, Coming
<1>4. CASE Torn
  BY <1>4, UciAssumption DEF Torn, Lines
<1>5. ~Thinking
  <2>1. uci.state \in {"idle", "searching", "dead"}
    BY DEF UciInv, UciTypeOK
  <2> QED
    BY <2>1 DEF Thinking
<1> QED
  BY <1>2, <1>3, <1>4, <1>5 DEF UciInv

\* Whatever times out, a search is answered with its own move and evaluation, and whoever
\* reads on waits for a line that will come, unless the engine died or the timeout has torn
\* that very line.
THEOREM AnswersFitTheirSearch == UciSpec => []UciSound
BY UciStarts, UciStep, UciIsSound, PTL DEF UciSpec

-----------------------------------------------------------------------------
(***************************************************************************)
(* Workers.  Whoever waits, some call is under way (the pool was full when *)
(* he began to), and it ends with his being notified, as long as every     *)
(* remembered index still names the worker that was reserved: which is so  *)
(* until a worker is removed (IndicesHold).                                *)
(***************************************************************************)
TaskSteps == {"idle", "asking", "waiting", "analysing", "releasing"}

WorkersTypeOK ==
    /\ workers \in Seq(WorkerIds) /\ reservations \in Seq(Int)
    /\ load \in [WorkerIds -> Nat] /\ alive \in [WorkerIds -> BOOLEAN]
    /\ task \in [Tasks -> [at : TaskSteps, worker : WorkerIds \cup {NoWorker}, index : Nat]]
    /\ scaler \in [doing : {"nothing", "starting", "draining", "stopping"},
                   worker : WorkerIds \cup {NoWorker}, index : Nat]
    /\ phase \in {"open", "closing", "closed"} /\ removed \in BOOLEAN

Serving(t) == task[t].at \in {"analysing", "releasing"}

Running(w) == {t \in Tasks : task[t].at = "analysing" /\ task[t].worker = w}

\* The list and what the scaler is about to do to it.
ListKept ==
    /\ Len(workers) \in MinWorkers..MaxWorkers /\ Len(reservations) = Len(workers)
    /\ scaler.doing = "starting" => Len(workers) < MaxWorkers /\ scaler.worker \in WorkerIds
    /\ scaler.doing \in {"draining", "stopping"} =>
        Len(workers) > MinWorkers /\ scaler.index \in 1..Len(workers)
                                  /\ scaler.worker \in WorkerIds

LoadsCounted ==
    \A w \in WorkerIds : load[w] = Cardinality(Running(w)) /\ load[w] <= MaxAnalyses

TasksKept ==
    \A t \in Tasks : IF Serving(t) THEN task[t].worker \in WorkerIds
                     ELSE task[t].worker = NoWorker

\* Until a worker is removed: every worker is listed once, a call's index is that of its
\* worker, nobody uses a worker that is being started, and reservations are right.
IndicesHold ==
    /\ Len(workers) >= 1
    /\ \A i, j \in 1..Len(workers) : workers[i] = workers[j] => i = j
    /\ \A t \in Tasks : Serving(t) =>
        task[t].index \in 1..Len(workers) /\ workers[task[t].index] = task[t].worker
    /\ scaler.doing = "starting" =>
        \A i \in 1..Len(workers) : workers[i] # scaler.worker
    /\ \A i \in 1..Len(workers) :
        /\ reservations[i] = Cardinality(Using(workers[i]))
        /\ 2 * load[workers[i]] <= MaxAnalyses + 1
    /\ \A t \in Tasks : task[t].at = "waiting" => \E u \in Tasks : Serving(u)

WorkersInv ==
    WorkersTypeOK /\ ListKept /\ LoadsCounted /\ TasksKept /\ (~removed => IndicesHold)

LEMMA UsersFinite ==
    \A w : /\ IsFiniteSet(Using(w)) /\ IsFiniteSet(Running(w))
           /\ Cardinality(Using(w)) \in Nat /\ Cardinality(Running(w)) \in Nat
           /\ Cardinality(Running(w)) <= Cardinality(Using(w))
<1> SUFFICES ASSUME NEW w
             PROVE  /\ IsFiniteSet(Using(w)) /\ IsFiniteSet(Running(w))
                    /\ Cardinality(Using(w)) \in Nat /\ Cardinality(Running(w)) \in Nat
                    /\ Cardinality(Running(w)) <= Cardinality(Using(w))
  OBVIOUS
<1>1. Using(w) \subseteq Tasks /\ Running(w) \subseteq Using(w) /\ IsFiniteSet(Tasks)
  BY WorkerPoolAssumption DEF Using, Running
<1> QED
  BY <1>1, FS_Subset, FS_CardinalityType

LEMMA WorkersStart == WorkersInit => WorkersInv
<1> SUFFICES ASSUME WorkersInit PROVE WorkersInv
  OBVIOUS
<1> PICK n \in PoolSizes :
        /\ workers = [i \in 1..n |-> i] /\ reservations = [i \in 1..n |-> 0]
        /\ load = [w \in WorkerIds |-> 0] /\ alive = [w \in WorkerIds |-> w <= n]
        /\ task = [t \in Tasks |-> Idle] /\ scaler = Resting /\ phase = "open"
        /\ removed = FALSE
  BY DEF WorkersInit
<1>1. /\ n \in MinWorkers..MaxWorkers /\ n >= 1 /\ n \in Nat /\ 1..n \subseteq WorkerIds
      /\ MaxAnalyses \in Nat /\ MaxAnalyses >= 1 /\ MinWorkers \in Nat /\ MaxWorkers \in Nat
  BY WorkerPoolAssumption
<1>2. /\ workers \in Seq(WorkerIds) /\ Len(workers) = n
      /\ reservations \in Seq(Int) /\ Len(reservations) = n
  <2>1. workers \in [1..n -> WorkerIds] /\ reservations \in [1..n -> Int]
    BY <1>1
  <2> QED
    BY <1>1, <2>1, SeqDef, LenProperties
<1>3. /\ \A t \in Tasks : task[t] = [at |-> "idle", worker |-> NoWorker, index |-> 0]
      /\ \A t \in Tasks : ~Serving(t) /\ task[t].at # "waiting"
  BY DEF Idle, Serving
<1>4. WorkersTypeOK
  <2>1. alive \in [WorkerIds -> BOOLEAN] /\ load \in [WorkerIds -> Nat]
    OBVIOUS
  <2>2. task \in [Tasks -> [at : TaskSteps, worker : WorkerIds \cup {NoWorker}, index : Nat]]
    BY DEF Idle, TaskSteps
  <2>3. scaler \in [doing : {"nothing", "starting", "draining", "stopping"},
                    worker : WorkerIds \cup {NoWorker}, index : Nat]
    BY DEF Resting
  <2> QED
    BY <1>2, <2>1, <2>2, <2>3 DEF WorkersTypeOK
<1>5. \A w : Using(w) = {} /\ Running(w) = {}
  BY <1>3 DEF Using, Running, Serving
<1>6. \A w : Cardinality(Using(w)) = 0 /\ Cardinality(Running(w)) = 0
  BY <1>5, FS_EmptySet
<1>7. LoadsCounted
  BY <1>1, <1>6 DEF LoadsCounted
<1>8. scaler.doing = "nothing"
  BY DEF Resting
<1>9. IndicesHold
  <2>1. \A i \in 1..n : workers[i] = i /\ workers[i] \in WorkerIds /\ reservations[i] = 0
    BY <1>1
  <2>2. \A i \in 1..n : reservations[i] = Cardinality(Using(workers[i]))
                          /\ 2 * load[workers[i]] <= MaxAnalyses + 1
    <3> SUFFICES ASSUME NEW i \in 1..n
                 PROVE  reservations[i] = Cardinality(Using(workers[i]))
                          /\ 2 * load[workers[i]] <= MaxAnalyses + 1
      OBVIOUS
    <3>1. load[workers[i]] = 0
      BY <2>1
    <3> QED
      BY <1>1, <1>6, <2>1, <3>1
  <2> QED
    BY <1>1, <1>2, <1>3, <1>8, <2>1, <2>2 DEF IndicesHold
<1> QED
  BY <1>1, <1>2, <1>3, <1>4, <1>7, <1>8, <1>9 DEF WorkersInv, ListKept, TasksKept

TaskRecords == [Tasks -> [at : TaskSteps, worker : WorkerIds \cup {NoWorker}, index : Nat]]

\* A step of one task: what the sets of users become.
LEMMA UsersMove ==
    ASSUME NEW t \in Tasks,
           \A u \in Tasks : u # t => task'[u] = task[u] \/ (~Serving(u) /\ ~Serving(u)')
    PROVE  /\ \A w : task'[t].at \in {"analysing", "releasing"} /\ task'[t].worker = w =>
                        Using(w)' = Using(w) \cup {t}
           /\ \A w : ~(task'[t].at \in {"analysing", "releasing"} /\ task'[t].worker = w) =>
                        Using(w)' = Using(w) \ {t}
           /\ \A w : task'[t].at = "analysing" /\ task'[t].worker = w =>
                        Running(w)' = Running(w) \cup {t}
           /\ \A w : ~(task'[t].at = "analysing" /\ task'[t].worker = w) =>
                        Running(w)' = Running(w) \ {t}
BY DEF Using, Running, Serving

\* Calls that use no worker before and after.
LEMMA QuietTasks ==
    ASSUME WorkersInv, task' \in TaskRecords,
           \A t \in Tasks : task'[t] # task[t] =>
                /\ ~Serving(t) /\ task'[t].at \in {"idle", "asking", "waiting"}
                /\ task'[t].worker = NoWorker,
           ~removed =>
                \A t \in Tasks : task'[t].at = "waiting" => \E u \in Tasks : Serving(u),
           UNCHANGED <<workers, reservations, load, alive, scaler, phase, removed>>
    PROVE  WorkersInv'
<1>1. \A t \in Tasks : Serving(t)' = Serving(t) /\ (Serving(t) => task'[t] = task[t])
  BY DEF Serving
<1>2. \A w : Using(w)' = Using(w) /\ Running(w)' = Running(w)
  BY <1>1 DEF Using, Running, Serving
<1>3. WorkersTypeOK' /\ ListKept'
  BY DEF WorkersInv, WorkersTypeOK, ListKept, TaskRecords
<1>4. LoadsCounted'
  BY <1>2 DEF WorkersInv, LoadsCounted
<1>5. TasksKept'
  BY <1>1 DEF WorkersInv, TasksKept, Serving
<1>6. ~removed' => IndicesHold'
  BY <1>1, <1>2 DEF WorkersInv, IndicesHold, Serving
<1> QED
  BY <1>3, <1>4, <1>5, <1>6 DEF WorkersInv

\* The scaler and a shutdown, before they change the list.
LEMMA QuietPool ==
    ASSUME WorkersInv, UNCHANGED <<workers, reservations, load, task, removed>>,
           alive' \in [WorkerIds -> BOOLEAN], phase' \in {"open", "closing", "closed"},
           scaler' \in [doing : {"nothing", "starting", "draining", "stopping"},
                        worker : WorkerIds \cup {NoWorker}, index : Nat],
           scaler'.doing = "starting" =>
                /\ Len(workers) < MaxWorkers /\ scaler'.worker \in WorkerIds
                /\ ~removed => \A i \in 1..Len(workers) : workers[i] # scaler'.worker,
           scaler'.doing \in {"draining", "stopping"} =>
                Len(workers) > MinWorkers /\ scaler'.index \in 1..Len(workers)
                                          /\ scaler'.worker \in WorkerIds
    PROVE  WorkersInv'
<1>1. \A t \in Tasks : Serving(t)' = Serving(t)
  BY DEF Serving
<1>2. \A w : Using(w)' = Using(w) /\ Running(w)' = Running(w)
  BY DEF Using, Running
<1>3. WorkersTypeOK' /\ ListKept'
  BY DEF WorkersInv, WorkersTypeOK, ListKept
<1>4. LoadsCounted' /\ TasksKept'
  BY <1>1, <1>2 DEF WorkersInv, LoadsCounted, TasksKept
<1>6. ~removed' => IndicesHold'
  BY <1>1, <1>2 DEF WorkersInv, IndicesHold
<1> QED
  BY <1>3, <1>4, <1>6 DEF WorkersInv

\* When the pool is full somebody is using it.
LEMMA FullPoolIsUsed ==
    ASSUME WorkersInv, ~removed, Candidates = {}
    PROVE  \E u \in Tasks : Serving(u)
<1>1. /\ Len(workers) \in Nat /\ Len(workers) >= 1 /\ MaxAnalyses \in Nat
             /\ MaxAnalyses >= 1
      /\ DOMAIN workers = 1..Len(workers)
  BY WorkerPoolAssumption, LenProperties DEF WorkersInv, WorkersTypeOK, ListKept,
     IndicesHold
<1>2. 1 \in DOMAIN workers /\ workers[1] \in WorkerIds
  BY <1>1, ElementOfSeq DEF WorkersInv, WorkersTypeOK
<1>3. ~(load[workers[1]] + reservations[1] < MaxAnalyses)
  BY <1>2 DEF Candidates, Burden
<1>4. /\ reservations[1] = Cardinality(Using(workers[1]))
      /\ load[workers[1]] = Cardinality(Running(workers[1]))
  BY <1>1, <1>2 DEF WorkersInv, IndicesHold, LoadsCounted
<1>5. Cardinality(Using(workers[1])) # 0
  <2>1. /\ Cardinality(Using(workers[1])) \in Nat
               /\ Cardinality(Running(workers[1])) \in Nat
        /\ Cardinality(Running(workers[1])) <= Cardinality(Using(workers[1]))
    BY UsersFinite
  <2> QED
    BY <1>1, <1>3, <1>4, <2>1
<1>6. Using(workers[1]) # {}
  BY <1>5, FS_EmptySet
<1> QED
  BY <1>6 DEF Using, Serving

LEMMA NotifiedTasks ==
    ASSUME NEW tasks \in TaskRecords
    PROVE  /\ Notified(tasks) \in TaskRecords
           /\ \A t \in Tasks : /\ Notified(tasks)[t].at # "waiting"
                               /\ tasks[t].at # "waiting" => Notified(tasks)[t] = tasks[t]
                               /\ tasks[t].at = "waiting" =>
                                    /\ Notified(tasks)[t].at = "asking"
                                    /\ Notified(tasks)[t].worker = tasks[t].worker
<1>1. \A t \in Tasks :
        tasks[t] \in [at : TaskSteps, worker : WorkerIds \cup {NoWorker}, index : Nat]
  BY DEF TaskRecords
<1>2. \A t \in Tasks : [tasks[t] EXCEPT !.at = "asking"] \in
        [at : TaskSteps, worker : WorkerIds \cup {NoWorker}, index : Nat]
  BY <1>1 DEF TaskSteps
<1> QED
  BY <1>1, <1>2 DEF Notified, TaskRecords

LEMMA SubmitKeeps == ASSUME WorkersInv, NEW t \in Tasks, Submit(t) PROVE WorkersInv'
<1>1. /\ task[t].at = "idle" /\ task \in TaskRecords
      /\ task[t] \in [at : TaskSteps, worker : WorkerIds \cup {NoWorker}, index : Nat]
  BY DEF WorkersInv, WorkersTypeOK, Submit, TaskRecords
<1>2. /\ \A u \in Tasks : u # t => task'[u] = task[u]
      /\ task'[t] = [task[t] EXCEPT !.at = "asking"] /\ task' \in TaskRecords
  BY <1>1 DEF Submit, TaskRecords, TaskSteps
<1>3. /\ task'[t].at = "asking" /\ task'[t].worker = task[t].worker
      /\ ~Serving(t) /\ task[t].worker = NoWorker
  BY <1>1, <1>2 DEF WorkersInv, TasksKept, Serving
<1>4. ~removed => \A u \in Tasks : task'[u].at = "waiting" => \E v \in Tasks : Serving(v)
  BY <1>2, <1>3 DEF WorkersInv, IndicesHold
<1> QED
  BY <1>2, <1>3, <1>4, QuietTasks DEF Submit

LEMMA ReserveKeeps ==
    ASSUME WorkersInv, NEW t \in Tasks, task[t].at = "asking", NEW i \in DOMAIN workers,
           LeastLoaded(i), Reserve(t, i), UNCHANGED <<workers, alive, scaler, phase, removed>>
    PROVE  WorkersInv'
<1> DEFINE w == workers[i]
           enters == alive[w] /\ load[w] < MaxAnalyses
           at == IF enters THEN "analysing" ELSE "releasing"
<1>0. /\ workers \in Seq(WorkerIds) /\ reservations \in Seq(Int) /\ task \in TaskRecords
      /\ load \in [WorkerIds -> Nat] /\ Len(reservations) = Len(workers)
      /\ MaxAnalyses \in Nat
  BY WorkerPoolAssumption DEF WorkersInv, WorkersTypeOK, ListKept, TaskRecords
<1>0a. /\ Len(workers) \in Nat /\ DOMAIN workers = 1..Len(workers)
       /\ DOMAIN reservations = 1..Len(workers)
  BY <1>0, LenProperties
<1>1. /\ Len(workers) \in Nat /\ DOMAIN workers = 1..Len(workers) /\ i \in 1..Len(workers)
      /\ Len(reservations) = Len(workers) /\ i \in Nat /\ w \in WorkerIds
      /\ reservations \in Seq(Int) /\ reservations[i] \in Int /\ load[w] \in Nat
      /\ MaxAnalyses \in Nat /\ task \in TaskRecords
             /\ DOMAIN reservations = 1..Len(workers)
  <2>1. i \in 1..Len(workers) /\ i \in 1..Len(reservations) /\ i \in Nat
    BY <1>0, <1>0a
  <2>2. w \in WorkerIds /\ reservations[i] \in Int
    BY <1>0, <2>1, ElementOfSeq
  <2> QED
    BY <1>0, <1>0a, <2>1, <2>2
<1>2. /\ reservations' = [reservations EXCEPT ![i] = @ + 1]
      /\ load' = IF enters THEN [load EXCEPT ![w] = @ + 1] ELSE load
      /\ task' = [task EXCEPT ![t] = [at |-> at, worker |-> w, index |-> i]]
  BY DEF Reserve
<1>3. /\ \A u \in Tasks : u # t => task'[u] = task[u]
      /\ task'[t] = [at |-> at, worker |-> w, index |-> i]
      /\ task'[t].at = at /\ task'[t].worker = w /\ task'[t].index = i
  BY <1>1, <1>2 DEF TaskRecords
<1>4. at \in {"analysing", "releasing"} /\ (at = "analysing" <=> enters)
  OBVIOUS
<1>5. ~Serving(t) /\ Serving(t)' /\ \A u \in Tasks : u # t => Serving(u)' = Serving(u)
  BY <1>3, <1>4 DEF Serving
<1>6. /\ t \notin Using(w) /\ Using(w)' = Using(w) \cup {t}
      /\ \A v : v # w => Using(v)' = Using(v)
      /\ t \notin Running(w)
      /\ enters => Running(w)' = Running(w) \cup {t}
      /\ ~enters => Running(w)' = Running(w)
      /\ \A v : v # w => Running(v)' = Running(v)
  BY <1>3, <1>4, <1>5 DEF Using, Running, Serving
<1> HIDE DEF at, enters
<1>7. /\ Cardinality(Using(w)') = Cardinality(Using(w)) + 1
      /\ enters => Cardinality(Running(w)') = Cardinality(Running(w)) + 1
      /\ ~enters => Cardinality(Running(w)') = Cardinality(Running(w))
  <2> HIDE DEF w
  <2>1. IsFiniteSet(Using(w)) /\ IsFiniteSet(Running(w))
    BY UsersFinite
  <2>2. Cardinality(Using(w) \cup {t}) = Cardinality(Using(w)) + 1
    BY <1>6, <2>1, FS_AddElement
  <2>3. Cardinality(Running(w) \cup {t}) = Cardinality(Running(w)) + 1
    BY <1>6, <2>1, FS_AddElement
  <2> QED
    BY <1>6, <2>2, <2>3
<1>8. task' \in TaskRecords
  <2>1. [at |-> at, worker |-> w, index |-> i] \in
            [at : TaskSteps, worker : WorkerIds \cup {NoWorker}, index : Nat]
    BY <1>1, <1>4 DEF TaskSteps
  <2> QED
    BY <1>1, <1>2, <2>1 DEF TaskRecords
<1>9. /\ reservations' \in Seq(Int) /\ Len(reservations') = Len(reservations)
      /\ reservations'[i] = reservations[i] + 1
      /\ \A j \in 1..Len(workers) : j # i => reservations'[j] = reservations[j]
  <2>1. reservations[i] + 1 \in Int
    BY <1>1
  <2> QED
    BY <1>1, <1>2, <2>1, ExceptSeq
<1>10. /\ load' \in [WorkerIds -> Nat]
       /\ enters => load[w] < MaxAnalyses /\ load'[w] = load[w] + 1
       /\ ~enters => load'[w] = load[w]
       /\ \A v \in WorkerIds : v # w => load'[v] = load[v]
  <2>1. load \in [WorkerIds -> Nat] /\ load[w] + 1 \in Nat
    BY <1>1 DEF WorkersInv, WorkersTypeOK
  <2>2. enters => load[w] < MaxAnalyses
    BY DEF enters
  <2> QED
    BY <1>1, <1>2, <2>1, <2>2
<1>11. WorkersTypeOK'
  BY <1>8, <1>9, <1>10 DEF WorkersInv, WorkersTypeOK, TaskRecords
<1>12. ListKept'
  BY <1>9 DEF WorkersInv, ListKept
<1>13. LoadsCounted'
  <2> SUFFICES ASSUME NEW v \in WorkerIds
               PROVE  load'[v] = Cardinality(Running(v)') /\ load'[v] <= MaxAnalyses
    BY DEF LoadsCounted
  <2>1. load[v] = Cardinality(Running(v)) /\ load[v] <= MaxAnalyses /\ load[v] \in Nat
    BY DEF WorkersInv, LoadsCounted, WorkersTypeOK
  <2>2. CASE v # w
    BY <1>6, <1>10, <2>1, <2>2
  <2>3. CASE v = w /\ enters
    BY <1>1, <1>7, <1>10, <2>1, <2>3
  <2>4. CASE v = w /\ ~enters
    BY <1>7, <1>10, <2>1, <2>4
  <2> QED
    BY <2>2, <2>3, <2>4
<1>14. TasksKept'
  BY <1>1, <1>3, <1>5 DEF WorkersInv, TasksKept
<1>15. ASSUME ~removed PROVE IndicesHold'
  <2>1. IndicesHold
    BY <1>15 DEF WorkersInv
  <2>2. \A u \in Tasks : Serving(u)' =>
            task'[u].index \in 1..Len(workers) /\ workers[task'[u].index] = task'[u].worker
    BY <1>1, <1>3, <1>5, <2>1 DEF IndicesHold
  <2>3. reservations'[i] = Cardinality(Using(w)') /\ 2 * load'[w] <= MaxAnalyses + 1
    <3>1. /\ reservations[i] = Cardinality(Using(w)) /\ load[w] = Cardinality(Running(w))
          /\ 2 * load[w] <= MaxAnalyses + 1
          /\ Cardinality(Using(w)) \in Nat
                 /\ Cardinality(Running(w)) <= Cardinality(Using(w))
      BY <1>1, <2>1, UsersFinite DEF IndicesHold, WorkersInv, LoadsCounted
    <3>2. load[w] + reservations[i] < MaxAnalyses
      BY DEF LeastLoaded, Candidates, Burden
    <3>3. reservations'[i] = Cardinality(Using(w)')
      BY <1>1, <1>7, <1>9, <3>1
    <3>4. 2 * load[w] + 1 <= MaxAnalyses
      BY <1>1, <3>1, <3>2
    <3>5. CASE enters
      BY SMTT(30), <1>1, <1>10, <3>3, <3>4, <3>5
    <3>6. CASE ~enters
      BY <1>10, <3>1, <3>3, <3>6
    <3> QED
      BY <3>5, <3>6
  <2>4. \A j \in 1..Len(workers) : j # i =>
            /\ reservations'[j] = Cardinality(Using(workers[j])')
            /\ 2 * load'[workers[j]] <= MaxAnalyses + 1
    <3> SUFFICES ASSUME NEW j \in 1..Len(workers), j # i
                 PROVE  /\ reservations'[j] = Cardinality(Using(workers[j])')
                        /\ 2 * load'[workers[j]] <= MaxAnalyses + 1
      OBVIOUS
    <3>1. workers[j] # w /\ workers[j] \in WorkerIds
      BY <1>1, <2>1, ElementOfSeq DEF IndicesHold, WorkersInv, WorkersTypeOK
    <3>2. PICK v \in WorkerIds : v = workers[j] /\ v = workers'[j] /\ v # w
      BY <1>1, <3>1
    <3>3. reservations[j] = Cardinality(Using(v)) /\ 2 * load[v] <= MaxAnalyses + 1
      BY <2>1, <3>2 DEF IndicesHold
    <3>4. Using(v)' = Using(v) /\ reservations'[j] = reservations[j] /\ load'[v] = load[v]
      BY <1>6, <1>9, <1>10, <3>2
    <3> QED
      BY <3>2, <3>3, <3>4
  <2>5. \E u \in Tasks : Serving(u)'
    BY <1>5
  <2> QED
    BY <1>1, <2>1, <2>2, <2>3, <2>4, <2>5 DEF IndicesHold
<1> QED
  BY <1>11, <1>12, <1>13, <1>14, <1>15 DEF WorkersInv

LEMMA AcquireKeeps == ASSUME WorkersInv, NEW t \in Tasks, AcquireWorker(t) PROVE WorkersInv'
<1>1. /\ task[t].at = "asking" /\ task \in TaskRecords
      /\ task[t] \in [at : TaskSteps, worker : WorkerIds \cup {NoWorker}, index : Nat]
      /\ UNCHANGED <<workers, alive, scaler, phase, removed>>
  BY DEF WorkersInv, WorkersTypeOK, AcquireWorker, TaskRecords
<1>2. ~Serving(t) /\ task[t].worker = NoWorker
  BY <1>1 DEF WorkersInv, TasksKept, Serving
<1>3. CASE task' = [task EXCEPT ![t] = Idle] /\ UNCHANGED <<reservations, load>>
  <2>1. /\ \A u \in Tasks : u # t => task'[u] = task[u]
        /\ task'[t] = Idle /\ task' \in TaskRecords
    BY <1>1, <1>3 DEF Idle, TaskRecords, TaskSteps
  <2>2. task'[t].at = "idle" /\ task'[t].worker = NoWorker
    BY <2>1 DEF Idle
  <2>3. ~removed => \A u \in Tasks : task'[u].at = "waiting" => \E v \in Tasks : Serving(v)
    BY <2>1, <2>2 DEF WorkersInv, IndicesHold
  <2> QED
    BY <1>1, <1>2, <1>3, <2>1, <2>2, <2>3, QuietTasks
<1>4. CASE \E i \in DOMAIN workers : LeastLoaded(i) /\ Reserve(t, i)
  BY <1>1, <1>4, ReserveKeeps
<1>5. CASE Candidates = {} /\ task' = [task EXCEPT ![t].at = "waiting"]
           /\ UNCHANGED <<reservations, load>>
  <2>1. /\ \A u \in Tasks : u # t => task'[u] = task[u]
        /\ task'[t] = [task[t] EXCEPT !.at = "waiting"] /\ task' \in TaskRecords
    BY <1>1, <1>5 DEF TaskRecords, TaskSteps
  <2>2. task'[t].at = "waiting" /\ task'[t].worker = NoWorker
    BY <1>1, <1>2, <2>1
  <2>3. ~removed => \A u \in Tasks : task'[u].at = "waiting" => \E v \in Tasks : Serving(v)
    BY <1>5, FullPoolIsUsed
  <2> QED
    BY <1>1, <1>2, <1>5, <2>1, <2>2, <2>3, QuietTasks
<1> QED
  BY <1>3, <1>4, <1>5 DEF AcquireWorker

LEMMA AnalysisEndKeeps ==
    ASSUME WorkersInv, NEW t \in Tasks, AnalysisEnds(t) PROVE WorkersInv'
<1>0. PICK w : w = task[t].worker
  OBVIOUS
<1>1. /\ task[t].at = "analysing" /\ task \in TaskRecords /\ Serving(t) /\ w \in WorkerIds
      /\ task[t] \in [at : TaskSteps, worker : WorkerIds \cup {NoWorker}, index : Nat]
      /\ load' = [load EXCEPT ![w] = @ - 1] /\ task' = [task EXCEPT ![t].at = "releasing"]
      /\ UNCHANGED <<workers, reservations, alive, scaler, phase, removed>>
      /\ load \in [WorkerIds -> Nat] /\ MaxAnalyses \in Nat
  BY <1>0, WorkerPoolAssumption
     DEF WorkersInv, WorkersTypeOK, AnalysisEnds, TaskRecords, TasksKept, Serving
<1>2. /\ \A u \in Tasks : u # t => task'[u] = task[u]
      /\ task'[t] = [task[t] EXCEPT !.at = "releasing"] /\ task' \in TaskRecords
  BY <1>1 DEF TaskRecords, TaskSteps
<1>3. task'[t].at = "releasing" /\ task'[t].worker = w /\ task'[t].index = task[t].index
  BY <1>0, <1>1, <1>2
<1>4. \A u \in Tasks : Serving(u)' = Serving(u)
  BY <1>1, <1>2, <1>3 DEF Serving
<1>5. /\ \A v : Using(v)' = Using(v)
      /\ \A v : v # w => Running(v)' = Running(v)
      /\ t \in Running(w) /\ Running(w)' = Running(w) \ {t}
  BY <1>0, <1>1, <1>2, <1>3 DEF Using, Running
<1>6. Cardinality(Running(w)') = Cardinality(Running(w)) - 1
  BY <1>5, UsersFinite, FS_RemoveElement
<1>7. /\ Cardinality(Running(w)) # 0 /\ Cardinality(Running(w)) \in Nat
      /\ load[w] = Cardinality(Running(w))
  BY <1>1, <1>5, UsersFinite, FS_EmptySet DEF WorkersInv, LoadsCounted
<1>8. load' \in [WorkerIds -> Nat] /\ load'[w] = load[w] - 1
      /\ \A v \in WorkerIds : v # w => load'[v] = load[v]
  <2>1. load[w] - 1 \in Nat
    BY <1>7
  <2> QED
    BY <1>1, <2>1
<1>9. WorkersTypeOK' /\ ListKept'
  BY <1>1, <1>2, <1>8 DEF WorkersInv, WorkersTypeOK, ListKept, TaskRecords
<1>10. LoadsCounted'
  <2> SUFFICES ASSUME NEW v \in WorkerIds
               PROVE  load'[v] = Cardinality(Running(v)') /\ load'[v] <= MaxAnalyses
    BY DEF LoadsCounted
  <2>1. load[v] = Cardinality(Running(v)) /\ load[v] <= MaxAnalyses /\ load[v] \in Nat
    BY DEF WorkersInv, LoadsCounted, WorkersTypeOK
  <2>2. CASE v # w
    BY <1>5, <1>8, <2>1, <2>2
  <2>3. CASE v = w
    <3>1. load'[w] = Cardinality(Running(w)') /\ load'[w] <= MaxAnalyses
      <4>1. load[w] = Cardinality(Running(w)) /\ load[w] <= MaxAnalyses /\ load[w] \in Nat
        BY <1>1 DEF WorkersInv, LoadsCounted, WorkersTypeOK
      <4> QED
        BY <1>1, <1>6, <1>8, <4>1
    <3> QED
      BY <2>3, <3>1
  <2> QED
    BY <2>2, <2>3
<1>11. TasksKept'
  BY <1>0, <1>2, <1>3, <1>4 DEF WorkersInv, TasksKept
<1>12. ASSUME ~removed PROVE IndicesHold'
  <2>1. IndicesHold
    BY <1>12 DEF WorkersInv
  <2>2. \A u \in Tasks : Serving(u)' =>
            task'[u].index \in 1..Len(workers) /\ workers[task'[u].index] = task'[u].worker
    <3> SUFFICES ASSUME NEW u \in Tasks, Serving(u)
                 PROVE  /\ task'[u].index \in 1..Len(workers)
                        /\ workers[task'[u].index] = task'[u].worker
      BY <1>4
    <3>1. task[u].index \in 1..Len(workers) /\ workers[task[u].index] = task[u].worker
      BY <2>1 DEF IndicesHold
    <3>2. task'[u].index = task[u].index /\ task'[u].worker = task[u].worker
      BY <1>0, <1>2, <1>3
    <3> QED
      BY <3>1, <3>2
  <2>3. \A j \in 1..Len(workers) :
            /\ reservations[j] = Cardinality(Using(workers[j])')
            /\ 2 * load'[workers[j]] <= MaxAnalyses + 1
    <3> SUFFICES ASSUME NEW j \in 1..Len(workers)
                 PROVE  /\ reservations[j] = Cardinality(Using(workers[j])')
                        /\ 2 * load'[workers[j]] <= MaxAnalyses + 1
      OBVIOUS
    <3>1. workers[j] \in WorkerIds /\ load[workers[j]] \in Nat
          /\ 2 * load[workers[j]] <= MaxAnalyses + 1
      BY <2>1, ElementOfSeq DEF IndicesHold, WorkersInv, WorkersTypeOK
    <3>2. load'[workers[j]] \in Nat /\ load'[workers[j]] <= load[workers[j]]
      BY <1>1, <1>8, <3>1
    <3> QED
      BY <1>1, <1>5, <2>1, <3>1, <3>2 DEF IndicesHold
  <2>4. \A u \in Tasks : task'[u].at = "waiting" => \E v \in Tasks : Serving(v)'
    BY <1>1, <1>4
  <2> QED
    BY <1>1, <2>1, <2>2, <2>3, <2>4 DEF IndicesHold
<1> QED
  BY <1>1, <1>9, <1>10, <1>11, <1>12 DEF WorkersInv

LEMMA ReleaseKeeps == ASSUME WorkersInv, NEW t \in Tasks, Release(t) PROVE WorkersInv'
<1>0. PICK w, i : w = task[t].worker /\ i = task[t].index
  OBVIOUS
<1> DEFINE gone == [task EXCEPT ![t] = Idle]
<1>1. /\ task[t].at = "releasing" /\ task \in TaskRecords /\ Serving(t) /\ w \in WorkerIds
      /\ task[t] \in [at : TaskSteps, worker : WorkerIds \cup {NoWorker}, index : Nat]
      /\ UNCHANGED <<workers, load, alive, scaler, phase, removed>>
      /\ Len(workers) \in Nat /\ DOMAIN reservations = 1..Len(workers)
      /\ reservations \in Seq(Int) /\ Len(reservations) = Len(workers)
  BY <1>0, LenProperties
     DEF WorkersInv, WorkersTypeOK, Release, TaskRecords, TasksKept, Serving, ListKept
<1>2. /\ gone \in TaskRecords /\ gone[t] = Idle /\ \A u \in Tasks : u # t =>
             gone[u] = task[u]
  BY <1>1 DEF Idle, TaskRecords, TaskSteps
<1>3. \/ /\ i \in DOMAIN reservations
         /\ reservations' = [reservations EXCEPT ![i] = @ - 1]
         /\ task' = Notified(gone)
      \/ /\ i \notin DOMAIN reservations
         /\ task' = gone
         /\ UNCHANGED reservations
  BY <1>0 DEF Release
<1> HIDE DEF gone
<1>4. /\ Notified(gone) \in TaskRecords
      /\ \A u \in Tasks : /\ Notified(gone)[u].at # "waiting"
                          /\ gone[u].at # "waiting" => Notified(gone)[u] = gone[u]
                          /\ gone[u].at = "waiting" =>
                                /\ Notified(gone)[u].at = "asking"
                                /\ Notified(gone)[u].worker = gone[u].worker
  BY <1>2, NotifiedTasks
<1>5. /\ task' \in TaskRecords /\ task'[t] = Idle
      /\ \A u \in Tasks : u # t =>
            task'[u] = task[u] \/ (/\ task[u].at = "waiting" /\ task'[u].at = "asking"
                                   /\ task'[u].worker = task[u].worker)
  BY <1>2, <1>3, <1>4 DEF Idle
<1>6. task'[t].at = "idle" /\ task'[t].worker = NoWorker /\ ~Serving(t)'
  BY <1>5 DEF Idle, Serving
<1>7. \A u \in Tasks : u # t => Serving(u)' = Serving(u) /\ (Serving(u) =>
          task'[u] = task[u])
  BY <1>5 DEF Serving
<1>8. /\ \A v : Running(v)' = Running(v)
      /\ \A v : v # w => Using(v)' = Using(v)
      /\ t \in Using(w) /\ Using(w)' = Using(w) \ {t}
  <2>1. ASSUME NEW v
        PROVE  Running(v)' = Running(v) /\ Using(v)' = Using(v) \ {t}
    <3>1. \A u \in Tasks : u # t =>
            (u \in Running(v)' <=> u \in Running(v)) /\ (u \in Using(v)' <=> u \in Using(v))
      BY <1>5 DEF Using, Running
    <3>2. t \notin Running(v) /\ t \notin Running(v)' /\ t \notin Using(v)'
      BY <1>1, <1>6 DEF Using, Running
    <3>3. Running(v) \subseteq Tasks /\ Running(v)' \subseteq Tasks
          /\ Using(v) \subseteq Tasks /\ Using(v)' \subseteq Tasks
      BY DEF Using, Running
    <3> QED
      BY <3>1, <3>2, <3>3
  <2>2. t \in Using(w) /\ \A v : v # w => t \notin Using(v)
    BY <1>0, <1>1 DEF Using
  <2>3. \A v : Running(v)' = Running(v) /\ Using(v)' = Using(v) \ {t}
    BY <2>1
  <2>4. ASSUME NEW v, v # w PROVE Using(v)' = Using(v)
    BY <2>1, <2>2, <2>4
  <2> QED
    BY <2>2, <2>3, <2>4
<1>9. /\ Cardinality(Using(w)') = Cardinality(Using(w)) - 1
      /\ Cardinality(Using(w)) \in Nat
  <2> QED
    BY <1>8, UsersFinite, FS_RemoveElement
<1>10. /\ reservations' \in Seq(Int) /\ Len(reservations') = Len(reservations)
       /\ i \in 1..Len(workers) =>
            /\ reservations'[i] = reservations[i] - 1 /\ task' = Notified(gone)
            /\ \A j \in 1..Len(workers) : j # i => reservations'[j] = reservations[j]
  <2>1. CASE i \in DOMAIN reservations /\ task' = Notified(gone)
             /\ reservations' = [reservations EXCEPT ![i] = @ - 1]
    <3>1. reservations[i] \in Int /\ reservations[i] - 1 \in Int
              /\ i \in 1..Len(reservations)
      BY <1>1, <2>1, ElementOfSeq
    <3> QED
      BY <1>1, <2>1, <3>1, ExceptSeq
  <2>2. CASE i \notin DOMAIN reservations /\ UNCHANGED reservations
    BY <1>1, <2>2
  <2> QED
    BY <1>3, <2>1, <2>2
<1>11. WorkersTypeOK' /\ ListKept'
  BY <1>1, <1>5, <1>10 DEF WorkersInv, WorkersTypeOK, ListKept, TaskRecords
<1>12. LoadsCounted'
  BY <1>1, <1>8 DEF WorkersInv, LoadsCounted
<1>13. TasksKept'
  BY <1>5, <1>6, <1>7 DEF WorkersInv, TasksKept, Serving
<1>14. ASSUME ~removed PROVE IndicesHold'
  <2>1. IndicesHold /\ i \in 1..Len(workers) /\ workers[i] = w
    BY <1>0, <1>1, <1>14 DEF WorkersInv, IndicesHold
  <2>2. \A u \in Tasks : Serving(u)' =>
            task'[u].index \in 1..Len(workers) /\ workers[task'[u].index] = task'[u].worker
    BY <1>6, <1>7, <2>1 DEF IndicesHold
  <2>3. reservations'[i] = Cardinality(Using(w)')
    BY <1>9, <1>10, <2>1 DEF IndicesHold
  <2>4. \A j \in 1..Len(workers) : j # i =>
            reservations'[j] = Cardinality(Using(workers[j])')
    <3> SUFFICES ASSUME NEW j \in 1..Len(workers), j # i
                 PROVE  reservations'[j] = Cardinality(Using(workers[j])')
      OBVIOUS
    <3>1. workers[j] # w /\ reservations[j] = Cardinality(Using(workers[j]))
      BY <2>1 DEF IndicesHold
    <3>2. Using(workers[j])' = Using(workers[j]) /\ reservations'[j] = reservations[j]
      <4>1. workers' = workers
        BY <1>1
      <4>2. ASSUME NEW v, v # w PROVE Using(v)' = Using(v)
        BY <1>8, <4>2
      <4>3. Using(workers[j])' = Using(workers[j])
        BY <3>1, <4>1, <4>2
      <4> QED
        BY <1>10, <2>1, <4>3
    <3> QED
      BY <3>1, <3>2
  <2>5. \A u \in Tasks : task'[u].at # "waiting"
    BY <1>4, <1>10, <2>1
  <2>6. \A j \in 1..Len(workers) : reservations'[j] = Cardinality(Using(workers[j])')
                                     /\ 2 * load[workers[j]] <= MaxAnalyses + 1
    <3> SUFFICES ASSUME NEW j \in 1..Len(workers)
                 PROVE  /\ reservations'[j] = Cardinality(Using(workers[j])')
                        /\ 2 * load[workers[j]] <= MaxAnalyses + 1
      OBVIOUS
    <3>1. 2 * load[workers[j]] <= MaxAnalyses + 1
      BY <2>1 DEF IndicesHold
    <3>2. workers' = workers
      BY <1>1
    <3>3. CASE j = i
      BY <2>1, <2>3, <3>1, <3>2, <3>3
    <3>4. CASE j # i
      BY <2>4, <3>1, <3>4
    <3> QED
      BY <3>3, <3>4
  <2> QED
    BY <1>1, <2>1, <2>2, <2>5, <2>6 DEF IndicesHold
<1> QED
  BY <1>1, <1>11, <1>12, <1>13, <1>14 DEF WorkersInv

\* What joining or leaving the list does not disturb.
LEMMA EveryoneNotified ==
    ASSUME WorkersInv, task' = Notified(task)
    PROVE  /\ task' \in TaskRecords /\ \A t \in Tasks : task'[t].at # "waiting"
           /\ \A t \in Tasks : Serving(t)' = Serving(t) /\ (Serving(t) =>
                  task'[t] = task[t])
           /\ TasksKept'
           /\ \A v : Using(v)' = Using(v) /\ Running(v)' = Running(v)
<1>1. task \in TaskRecords
  BY DEF WorkersInv, WorkersTypeOK, TaskRecords
<1>2. /\ task' \in TaskRecords
      /\ \A t \in Tasks : /\ task'[t].at # "waiting"
                          /\ task[t].at # "waiting" => task'[t] = task[t]
                          /\ task[t].at = "waiting" =>
                                task'[t].at = "asking" /\ task'[t].worker = task[t].worker
  BY <1>1, NotifiedTasks
<1>3. \A t \in Tasks : Serving(t)' = Serving(t) /\ (Serving(t) => task'[t] = task[t])
  BY <1>2 DEF Serving
<1>4. TasksKept'
  BY <1>2, <1>3 DEF WorkersInv, TasksKept, Serving
<1> QED
  BY <1>2, <1>3, <1>4 DEF Using, Running, Serving

LEMMA StartKeeps == ASSUME WorkersInv, WorkerStarted PROVE WorkersInv'
<1>0. PICK w : w = scaler.worker
  OBVIOUS
<1>1. /\ scaler.doing = "starting" /\ Len(workers) < MaxWorkers /\ w \in WorkerIds
      /\ workers \in Seq(WorkerIds) /\ reservations \in Seq(Int)
      /\ Len(workers) \in Nat /\ Len(reservations) = Len(workers)
      /\ MinWorkers \in Nat /\ MaxWorkers \in Nat /\ Len(workers) >= MinWorkers
      /\ MaxAnalyses \in Nat
      /\ scaler' = Resting /\ UNCHANGED <<load, phase, removed>>
  BY <1>0, WorkerPoolAssumption, LenProperties
     DEF WorkersInv, WorkersTypeOK, ListKept, WorkerStarted
<1>2. /\ scaler' \in [doing : {"nothing", "starting", "draining", "stopping"},
                      worker : WorkerIds \cup {NoWorker}, index : Nat]
      /\ scaler'.doing = "nothing"
  BY <1>1 DEF Resting
<1>3. CASE UNCHANGED <<workers, reservations, alive, task>>
  BY <1>1, <1>2, <1>3, QuietPool DEF WorkersInv, WorkersTypeOK
<1>4. CASE /\ workers' = Append(workers, w) /\ reservations' = Append(reservations, 0)
           /\ alive' = [alive EXCEPT ![w] = TRUE] /\ task' = Notified(task)
  <2>1. /\ task' \in TaskRecords /\ \A t \in Tasks : task'[t].at # "waiting"
        /\ \A t \in Tasks : Serving(t)' = Serving(t) /\ (Serving(t) => task'[t] = task[t])
        /\ TasksKept'
        /\ \A v : Using(v)' = Using(v) /\ Running(v)' = Running(v)
    BY <1>4, EveryoneNotified
  <2>2. /\ workers' \in Seq(WorkerIds) /\ Len(workers') = Len(workers) + 1
        /\ workers'[Len(workers) + 1] = w
        /\ \A j \in 1..Len(workers) : workers'[j] = workers[j]
    BY <1>1, <1>4, AppendProperties
  <2>3. /\ reservations' \in Seq(Int) /\ Len(reservations') = Len(workers) + 1
        /\ reservations'[Len(workers) + 1] = 0
        /\ \A j \in 1..Len(workers) : reservations'[j] = reservations[j]
    BY <1>1, <1>4, AppendProperties
  <2>4. alive' \in [WorkerIds -> BOOLEAN]
    BY <1>1, <1>4 DEF WorkersInv, WorkersTypeOK
  <2>5. WorkersTypeOK'
    BY <1>1, <1>2, <2>1, <2>2, <2>3, <2>4 DEF WorkersInv, WorkersTypeOK, TaskRecords
  <2>6. ListKept'
    BY <1>1, <1>2, <2>2, <2>3 DEF ListKept
  <2>7. LoadsCounted'
    BY <1>1, <2>1 DEF WorkersInv, LoadsCounted
  <2>8. ASSUME ~removed PROVE IndicesHold'
    <3>1. IndicesHold /\ \A j \in 1..Len(workers) : workers[j] # w
      BY <1>0, <1>1, <2>8 DEF WorkersInv, IndicesHold
    <3>2. \A j \in 1..(Len(workers) + 1) : j \in 1..Len(workers) \/ j = Len(workers) + 1
      BY <1>1
    <3>3. \A j, k \in 1..(Len(workers) + 1) : workers'[j] = workers'[k] => j = k
      BY <2>2, <3>1, <3>2 DEF IndicesHold
    <3>4. \A t \in Tasks : Serving(t)' =>
            /\ task'[t].index \in 1..(Len(workers) + 1)
            /\ workers'[task'[t].index] = task'[t].worker
      <4> SUFFICES ASSUME NEW t \in Tasks, Serving(t)'
                   PROVE  /\ task'[t].index \in 1..(Len(workers) + 1)
                          /\ workers'[task'[t].index] = task'[t].worker
        OBVIOUS
      <4>1. /\ task'[t] = task[t] /\ task[t].index \in 1..Len(workers)
            /\ workers[task[t].index] = task[t].worker
        BY <2>1, <3>1 DEF IndicesHold
      <4>2. task[t].index \in 1..(Len(workers) + 1)
        BY <1>1, <4>1
      <4> QED
        BY <2>2, <4>1, <4>2
    <3>5. Using(w) = {} /\ Running(w) = {}
      BY <3>1 DEF IndicesHold, Using, Running, Serving
    <3>6. Cardinality(Using(w)') = 0 /\ load[w] = 0
      <4>1. Using(w)' = {} /\ Cardinality({}) = 0
        BY <2>1, <3>5, FS_EmptySet
      <4>2. load[w] = Cardinality(Running(w))
        BY <1>1 DEF WorkersInv, LoadsCounted
      <4> QED
        BY <3>5, <4>1, <4>2
    <3>7. \A j \in 1..(Len(workers) + 1) :
            /\ reservations'[j] = Cardinality(Using(workers[j])')
            /\ 2 * load[workers'[j]] <= MaxAnalyses + 1
      <4> SUFFICES ASSUME NEW j \in 1..(Len(workers) + 1)
                   PROVE  /\ reservations'[j] = Cardinality(Using(workers[j])')
                          /\ 2 * load[workers'[j]] <= MaxAnalyses + 1
        OBVIOUS
      <4>1. CASE j = Len(workers) + 1
        <5>1. workers'[j] = w /\ reservations'[j] = 0
          BY <2>2, <2>3, <4>1
        <5>2. Using(workers[j])' = Using(w)'
          BY <5>1 DEF Using
        <5> QED
          BY <1>1, <3>6, <5>1, <5>2
      <4>2. CASE j \in 1..Len(workers)
        <5>1. workers'[j] = workers[j] /\ reservations'[j] = reservations[j]
          BY <2>2, <2>3, <4>2
        <5>2. Using(workers[j])' = Using(workers[j])
          <6>1. {t \in Tasks : task'[t].at \in {"analysing", "releasing"}
                                  /\ task'[t].worker = workers[j]} = Using(workers[j])
            BY <2>1 DEF Using
          <6> QED
            BY <5>1, <6>1 DEF Using
        <5>3. /\ reservations[j] = Cardinality(Using(workers[j]))
              /\ 2 * load[workers[j]] <= MaxAnalyses + 1
          BY <3>1, <4>2 DEF IndicesHold
        <5> QED
          BY <5>1, <5>2, <5>3
      <4> QED
        BY <3>2, <4>1, <4>2
    <3>8. Len(workers') >= 1
      BY <1>1, <2>2
    <3> QED
      <4>1. load' = load /\ scaler'.doing # "starting" /\ Len(workers') = Len(workers) + 1
        BY <1>1, <1>2, <2>2
      <4> QED
        BY <2>1, <3>3, <3>4, <3>7, <3>8, <4>1 DEF IndicesHold
  <2> QED
    BY <1>1, <2>1, <2>5, <2>6, <2>7, <2>8 DEF WorkersInv
<1> QED
  BY <1>0, <1>3, <1>4 DEF WorkerStarted

LEMMA WorkerStopKeeps == ASSUME WorkersInv, WorkerStopped PROVE WorkersInv'
<1>1. /\ scaler.doing = "stopping" /\ Len(workers) > MinWorkers
      /\ scaler.index \in 1..Len(workers) /\ scaler.worker \in WorkerIds
      /\ workers \in Seq(WorkerIds) /\ reservations \in Seq(Int)
      /\ Len(workers) \in Nat /\ Len(reservations) = Len(workers)
      /\ MinWorkers \in Nat /\ MaxWorkers \in Nat /\ Len(workers) <= MaxWorkers
      /\ scaler' = Resting /\ UNCHANGED <<load, phase>>
  BY WorkerPoolAssumption, LenProperties
     DEF WorkersInv, WorkersTypeOK, ListKept, WorkerStopped
<1>2. /\ scaler' \in [doing : {"nothing", "starting", "draining", "stopping"},
                      worker : WorkerIds \cup {NoWorker}, index : Nat]
      /\ scaler'.doing = "nothing"
  BY <1>1 DEF Resting
<1>3. CASE UNCHANGED <<workers, reservations, alive, task, removed>>
  BY <1>1, <1>2, <1>3, QuietPool DEF WorkersInv, WorkersTypeOK
<1>4. CASE /\ workers' = RemoveAt(workers, scaler.index)
           /\ reservations' = RemoveAt(reservations, scaler.index)
           /\ alive' = [alive EXCEPT ![scaler.worker] = FALSE]
           /\ task' = Notified(task) /\ removed' = TRUE
  <2>1. /\ task' \in TaskRecords /\ TasksKept' /\ \A v : Running(v)' = Running(v)
    BY <1>4, EveryoneNotified
  <2>2. workers' \in Seq(WorkerIds) /\ Len(workers') = Len(workers) - 1
    BY <1>1, <1>4, RemovingOne
  <2>3. reservations' \in Seq(Int) /\ Len(reservations') = Len(workers) - 1
    BY <1>1, <1>4, RemovingOne
  <2>4. alive' \in [WorkerIds -> BOOLEAN]
    BY <1>1, <1>4 DEF WorkersInv, WorkersTypeOK
  <2>5. WorkersTypeOK'
    BY <1>1, <1>2, <1>4, <2>1, <2>2, <2>3, <2>4 DEF WorkersInv, WorkersTypeOK, TaskRecords
  <2>6. ListKept'
    BY <1>1, <1>2, <2>2, <2>3 DEF ListKept
  <2>7. LoadsCounted'
    BY <1>1, <2>1 DEF WorkersInv, LoadsCounted
  <2> QED
    BY <1>4, <2>1, <2>5, <2>6, <2>7 DEF WorkersInv
<1> QED
  BY <1>3, <1>4 DEF WorkerStopped

LEMMA WorkerAddKeeps == ASSUME WorkersInv, NEW w \in WorkerIds, AddWorker(w) PROVE WorkersInv'
<1>1. /\ scaler' = [doing |-> "starting", worker |-> w, index |-> 0]
      /\ UNCHANGED <<workers, reservations, load, alive, task, phase, removed>>
      /\ Len(workers) < MaxWorkers /\ \A i \in DOMAIN workers : workers[i] # w
      /\ DOMAIN workers = 1..Len(workers)
  BY LenProperties DEF AddWorker, WorkersInv, WorkersTypeOK
<1>2. /\ scaler'.doing = "starting" /\ scaler'.worker = w
      /\ scaler' \in [doing : {"nothing", "starting", "draining", "stopping"},
                      worker : WorkerIds \cup {NoWorker}, index : Nat]
  BY <1>1
<1> QED
  BY <1>1, <1>2, QuietPool DEF WorkersInv, WorkersTypeOK

LEMMA WorkerRemoveKeeps ==
    ASSUME WorkersInv, NEW i \in DOMAIN workers, RemoveWorker(i) PROVE WorkersInv'
<1>1. /\ UNCHANGED <<workers, reservations, load, alive, task, phase, removed>>
      /\ Len(workers) > MinWorkers /\ DOMAIN workers = 1..Len(workers)
      /\ workers[i] \in WorkerIds /\ i \in Nat
  BY LenProperties, ElementOfSeq DEF RemoveWorker, WorkersInv, WorkersTypeOK
<1>2. PICK doing \in {"stopping", "draining"} :
        scaler' = [doing |-> doing, worker |-> workers[i], index |-> i]
  BY DEF RemoveWorker
<1>3. /\ scaler'.doing = doing /\ scaler'.worker = workers[i] /\ scaler'.index = i
      /\ scaler' \in [doing : {"nothing", "starting", "draining", "stopping"},
                      worker : WorkerIds \cup {NoWorker}, index : Nat]
  BY <1>1, <1>2
<1> QED
  BY <1>1, <1>2, <1>3, QuietPool DEF WorkersInv, WorkersTypeOK

LEMMA PoolKeeps ==
    ASSUME WorkersInv, DrainTimesOut \/ ShutdownBegins \/ ShutdownEnds PROVE WorkersInv'
<1>1. CASE DrainTimesOut
  <2>1. /\ scaler.doing = "draining" /\ scaler' = [scaler EXCEPT !.doing = "stopping"]
        /\ scaler \in [doing : {"nothing", "starting", "draining", "stopping"},
                       worker : WorkerIds \cup {NoWorker}, index : Nat]
        /\ UNCHANGED <<workers, reservations, load, alive, task, phase, removed>>
    BY <1>1 DEF DrainTimesOut, WorkersInv, WorkersTypeOK
  <2>2. /\ scaler'.doing = "stopping" /\ scaler'.worker = scaler.worker
        /\ scaler'.index = scaler.index
        /\ scaler' \in [doing : {"nothing", "starting", "draining", "stopping"},
                        worker : WorkerIds \cup {NoWorker}, index : Nat]
    BY <2>1
  <2> QED
    BY <2>1, <2>2, QuietPool DEF WorkersInv, WorkersTypeOK, ListKept
<1>2. CASE ShutdownBegins \/ ShutdownEnds
  <2>1. /\ UNCHANGED <<workers, reservations, load, task, scaler, removed>>
        /\ alive' \in [WorkerIds -> BOOLEAN] /\ phase' \in {"open", "closing", "closed"}
    BY <1>2 DEF ShutdownBegins, ShutdownEnds, WorkersInv, WorkersTypeOK
  <2>2. ~removed /\ scaler.doing = "starting" =>
            \A i \in 1..Len(workers) : workers[i] # scaler.worker
    BY DEF WorkersInv, IndicesHold
  <2> QED
    BY <2>1, <2>2, QuietPool DEF WorkersInv, WorkersTypeOK, ListKept
<1> QED
  BY <1>1, <1>2

LEMMA WorkersStep == WorkersInv /\ [WorkersNext]_workerVars => WorkersInv'
<1> SUFFICES ASSUME WorkersInv, [WorkersNext]_workerVars PROVE WorkersInv'
  OBVIOUS
<1>1. CASE \E t \in Tasks : Submit(t) \/ AcquireWorker(t) \/ AnalysisEnds(t) \/ Release(t)
  BY <1>1, SubmitKeeps, AcquireKeeps, AnalysisEndKeeps, ReleaseKeeps
<1>2. CASE \E w \in WorkerIds : AddWorker(w)
  BY <1>2, WorkerAddKeeps
<1>3. CASE WorkerStarted
  BY <1>3, StartKeeps
<1>4. CASE \E i \in DOMAIN workers : RemoveWorker(i)
  BY <1>4, WorkerRemoveKeeps
<1>5. CASE WorkerStopped
  BY <1>5, WorkerStopKeeps
<1>6. CASE DrainTimesOut \/ ShutdownBegins \/ ShutdownEnds
  BY <1>6, PoolKeeps
<1>7. CASE UNCHANGED workerVars
  <2>1. UNCHANGED <<workers, reservations, load, alive, task, scaler, phase, removed>>
    BY <1>7 DEF workerVars
  <2>2. WorkersTypeOK' /\ ListKept'
    BY <2>1 DEF WorkersInv, WorkersTypeOK, ListKept
  <2>3. LoadsCounted'
    BY <2>1 DEF WorkersInv, LoadsCounted, Running
  <2>4. TasksKept'
    BY <2>1 DEF WorkersInv, TasksKept, Serving
  <2>5. ~removed' => IndicesHold'
    BY <2>1 DEF WorkersInv, IndicesHold, Serving, Using
  <2> QED
    BY <2>2, <2>3, <2>4, <2>5 DEF WorkersInv
<1> QED
  BY <1>1, <1>2, <1>3, <1>4, <1>5, <1>6, <1>7 DEF WorkersNext

LEMMA WorkersAreSound == WorkersInv => WorkersSound
<1> SUFFICES ASSUME WorkersInv PROVE WorkersSound
  OBVIOUS
<1>1. \A w : Running(w) = {t \in Using(w) : task[t].at = "analysing"}
  BY DEF Using, Running
<1>2. DOMAIN workers = 1..Len(workers)
  BY LenProperties DEF WorkersInv, WorkersTypeOK
<1>3. ~removed => ReservationsMatch /\ WaitersAreWoken
  BY <1>2 DEF WorkersInv, IndicesHold, ReservationsMatch, WaitersAreWoken, Serving
<1> QED
  BY <1>1, <1>3 DEF WorkersInv, ListKept, LoadsCounted, WorkersSound

\* No worker runs more analyses than its limit, whatever is added, drained or removed; until
\* one is removed, the reservations are right and every waiter will be woken.
THEOREM WorkersNeverOverloaded == WorkersSpec => []WorkersSound
BY WorkersStart, WorkersStep, WorkersAreSound, PTL DEF WorkersSpec

-----------------------------------------------------------------------------
(***************************************************************************)
(* Limits.  The requests that passed are at most what the key counts.      *)
(* What was accepted since a frame and the tokens left are at most the     *)
(* burst and what was earned since (Earned); a served cooldown gives no    *)
(* more than waiting would have.  The total of the spectators is the sum   *)
(* over the games.                                                         *)
(***************************************************************************)
Passing == {c \in HttpCalls : httpCall[c] \in {"expire", "passed"}}

HttpInv ==
    /\ httpKey \in [count : Nat, ttl : Nat \cup {-1}]
    /\ httpCall \in [HttpCalls -> {"away", "expire", "passed", "refused", "uncounted"}]
    /\ Cardinality(Passing) <= httpKey.count
    /\ WindowKept

Limiter == [tokens : 0..Burst, refilled : Nat, violations : Nat, until : Nat]

Earned ==
    \A i \in 1..Len(accepted) :
        /\ accepted[i] <= limiter.refilled
        /\ (Len(accepted) - i + 1) + limiter.tokens
              <= Burst + Rate * (limiter.refilled - accepted[i])

FramesInv ==
    /\ limiter \in Limiter
    /\ limiter.refilled <= clock
    /\ limiter.until > 0 => limiter.until = limiter.refilled + Cooldown
    /\ accepted \in Seq(Nat)
    /\ Earned /\ BudgetKept

AdmissionInv ==
    /\ entries \in [Watched -> [count : Nat, seen : Nat]]
    /\ watching \in [Watched -> Nat]
    /\ total \in Nat
    /\ AdmissionCounts

LimitsInv == clock \in Nat \ {0} /\ HttpInv /\ FramesInv /\ AdmissionInv

-----------------------------------------------------------------------------
LEMMA HttpStarts == LimitsInit => HttpInv
<1> SUFFICES ASSUME LimitsInit PROVE HttpInv
  OBVIOUS
<1>1. /\ httpKey = [count |-> 0, ttl |-> -1] /\ \A c \in HttpCalls : httpCall[c] = "away"
      /\ httpCall = [c \in HttpCalls |-> "away"]
  BY DEF LimitsInit, NoKey
<1>2. Passing = {} /\ {c \in HttpCalls : httpCall[c] \in {"expire", "passed"}} = {}
  BY <1>1 DEF Passing
<1>3. Cardinality(Passing) = 0
  BY <1>2, FS_EmptySet
<1> QED
  BY <1>1, <1>2, <1>3, LimitsAssumption DEF HttpInv, WindowKept

LEMMA HttpStep ==
    ASSUME HttpInv,
           \/ \E c \in HttpCalls : Increment(c) \/ PassesUncounted(c) \/ Expire(c)
           \/ ClockTicks
           \/ UNCHANGED httpVars
    PROVE  HttpInv'
<1>0. /\ HttpLimit \in Nat /\ HttpLimit >= 1 /\ HttpWindow \in Nat /\ IsFiniteSet(HttpCalls)
      /\ httpKey.count \in Nat /\ httpKey.ttl \in Nat \cup {-1}
  BY LimitsAssumption DEF HttpInv
<1>1. IsFiniteSet(Passing) /\ Cardinality(Passing) \in Nat
          /\ Cardinality(Passing) <= HttpLimit
  <2>1. Passing \subseteq HttpCalls
    BY DEF Passing
  <2> QED
    BY <1>0, <2>1, FS_Subset, FS_CardinalityType DEF HttpInv, WindowKept, Passing
<1>2. ASSUME NEW c \in HttpCalls, Increment(c) PROVE HttpInv'
  <2>1. /\ httpCall[c] = "away" /\ c \notin Passing
        /\ httpKey' = [httpKey EXCEPT !.count = @ + 1] /\ expireLost' = expireLost
        /\ httpCall' = [httpCall EXCEPT ![c] =
                           IF httpKey.count = 0 THEN "expire"
                           ELSE IF httpKey.count + 1 > HttpLimit THEN "refused" ELSE "passed"]
    BY <1>2 DEF Increment, httpVars, Passing
  <2>2. /\ httpKey' \in [count : Nat, ttl : Nat \cup {-1}]
        /\ httpKey'.count = httpKey.count + 1 /\ httpKey'.ttl = httpKey.ttl
    BY <2>1 DEF HttpInv
  <2>3. httpCall' \in [HttpCalls -> {"away", "expire", "passed", "refused", "uncounted"}]
    BY <2>1 DEF HttpInv
  <2>4. /\ \A d \in HttpCalls : d # c => httpCall'[d] = httpCall[d]
        /\ httpCall'[c] = IF httpKey.count = 0 THEN "expire"
                          ELSE IF httpKey.count + 1 > HttpLimit THEN "refused" ELSE "passed"
    BY <2>1 DEF HttpInv
  <2>5. CASE httpCall'[c] = "refused"
    <3>1. Passing' = Passing
      BY <2>1, <2>4, <2>5 DEF Passing
    <3>2. httpKey.count # 0
      BY <2>4, <2>5
    <3>3. \A d \in HttpCalls : httpCall[d] = "expire" => httpCall'[d] = "expire"
      BY <2>1, <2>4
    <3>4. Cardinality(Passing') <= httpKey'.count /\ Cardinality(Passing') <= HttpLimit
      BY <1>0, <1>1, <2>2, <3>1 DEF HttpInv
    <3>5. httpKey'.ttl = -1 => expireLost' \/ \E d \in HttpCalls : httpCall'[d] = "expire"
      BY <1>0, <2>1, <2>2, <3>2, <3>3 DEF HttpInv, WindowKept
    <3> QED
      BY <2>2, <2>3, <3>4, <3>5 DEF HttpInv, WindowKept, Passing
  <2>6. CASE httpCall'[c] # "refused"
    <3>1. Passing' = Passing \cup {c}
      BY <2>1, <2>4, <2>6 DEF Passing
    <3>2. Cardinality(Passing') = Cardinality(Passing) + 1
      <4>1. Cardinality(Passing \cup {c}) = Cardinality(Passing) + 1
        BY <1>1, <2>1, FS_AddElement
      <4> QED
        BY <3>1, <4>1
    <3>3. Cardinality(Passing') <= httpKey'.count /\ Cardinality(Passing') <= HttpLimit
      <4>1. Cardinality(Passing) <= httpKey.count
        BY DEF HttpInv
      <4>2. httpKey.count = 0 \/ httpKey.count + 1 <= HttpLimit
        BY <1>0, <2>4, <2>6
      <4> QED
        BY <1>0, <1>1, <2>2, <3>2, <4>1, <4>2
    <3>4. \A d \in HttpCalls : httpCall[d] = "expire" => httpCall'[d] = "expire"
      BY <2>1, <2>4
    <3>5. httpKey'.ttl = -1 => expireLost' \/ \E d \in HttpCalls : httpCall'[d] = "expire"
      BY <1>0, <2>1, <2>2, <2>4, <3>4 DEF HttpInv, WindowKept
    <3> QED
      BY <2>2, <2>3, <3>3, <3>5 DEF HttpInv, WindowKept, Passing
  <2> QED
    BY <2>5, <2>6
<1>3. ASSUME NEW c \in HttpCalls, Expire(c) PROVE HttpInv'
  <2>1. /\ httpCall[c] = "expire" /\ httpCall' = [httpCall EXCEPT ![c] = "passed"]
        /\ \/ httpKey' = [httpKey EXCEPT !.ttl = HttpWindow] /\ expireLost' = expireLost
           \/ expireLost' = TRUE /\ httpKey' = httpKey
    BY <1>3 DEF Expire
  <2>2. /\ httpCall' \in [HttpCalls -> {"away", "expire", "passed", "refused", "uncounted"}]
        /\ \A d \in HttpCalls : d # c => httpCall'[d] = httpCall[d]
        /\ httpCall'[c] = "passed"
    BY <2>1 DEF HttpInv
  <2>3. Passing' = Passing
    BY <2>1, <2>2 DEF Passing
  <2>4. /\ httpKey' \in [count : Nat, ttl : Nat \cup {-1}] /\ httpKey'.count = httpKey.count
        /\ expireLost' \/ httpKey'.ttl # -1
    <3>1. CASE httpKey' = [httpKey EXCEPT !.ttl = HttpWindow] /\ expireLost' = expireLost
      BY <1>0, <3>1 DEF HttpInv
    <3>2. CASE expireLost' = TRUE /\ httpKey' = httpKey
      BY <3>2 DEF HttpInv
    <3> QED
      BY <2>1, <3>1, <3>2
  <2>5. Cardinality(Passing') <= httpKey'.count /\ Cardinality(Passing') <= HttpLimit
    BY <1>1, <2>3, <2>4 DEF HttpInv
  <2> QED
    BY <2>2, <2>4, <2>5 DEF HttpInv, WindowKept, Passing
<1>4. ASSUME ClockTicks PROVE HttpInv'
  <2>1. CASE httpKey.ttl = 1
    <3>1. /\ httpKey' = [count |-> 0, ttl |-> -1]
          /\ httpCall' = [c \in HttpCalls |-> "away"]
      BY <1>4, <2>1 DEF ClockTicks, NoKey
    <3>2. Passing' = {}
      BY <3>1 DEF Passing
    <3>3. Cardinality(Passing') = 0
      BY <3>2, FS_EmptySet
    <3> QED
      BY <1>0, <3>1, <3>3 DEF HttpInv, WindowKept, Passing
  <2>2. CASE httpKey.ttl # 1
    <3>1. /\ httpKey' = [httpKey EXCEPT !.ttl = IF @ > 0 THEN @ - 1 ELSE @]
          /\ httpCall' = httpCall /\ expireLost' = expireLost
      BY <1>4, <2>2 DEF ClockTicks
    <3>2. /\ httpKey' \in [count : Nat, ttl : Nat \cup {-1}]
          /\ httpKey'.count = httpKey.count
          /\ httpKey'.ttl = IF httpKey.ttl > 0 THEN httpKey.ttl - 1 ELSE httpKey.ttl
      BY <1>0, <3>1 DEF HttpInv
    <3>3. httpKey'.ttl = -1 => httpKey.ttl = -1
      BY <1>0, <2>2, <3>2
    <3>4. Passing' = Passing
      BY <3>1 DEF Passing
    <3>5. Cardinality(Passing') <= httpKey'.count /\ Cardinality(Passing') <= HttpLimit
      BY <1>1, <3>2, <3>4 DEF HttpInv
    <3>6. httpKey'.count > 0 /\ httpKey'.ttl = -1 =>
            expireLost' \/ \E c \in HttpCalls : httpCall'[c] = "expire"
      BY <3>1, <3>2, <3>3 DEF HttpInv, WindowKept
    <3> QED
      BY <3>1, <3>2, <3>5, <3>6 DEF HttpInv, WindowKept, Passing
  <2> QED
    BY <2>1, <2>2
<1>5. ASSUME UNCHANGED httpVars PROVE HttpInv'
  BY <1>5 DEF httpVars, HttpInv, WindowKept, Passing
<1>6. ASSUME NEW c \in HttpCalls, PassesUncounted(c) PROVE HttpInv'
  <2>1. /\ httpCall[c] = "away" /\ httpCall' = [httpCall EXCEPT ![c] = "uncounted"]
        /\ \/ httpKey' = httpKey /\ expireLost' = expireLost
           \/ /\ httpKey' = [httpKey EXCEPT !.count = @ + 1]
              /\ expireLost' = (expireLost \/ httpKey.count = 0)
    BY <1>6 DEF PassesUncounted
  <2>2. /\ httpCall' \in [HttpCalls -> {"away", "expire", "passed", "refused", "uncounted"}]
        /\ \A d \in HttpCalls : d # c => httpCall'[d] = httpCall[d]
        /\ httpCall'[c] = "uncounted"
    BY <2>1 DEF HttpInv
  <2>3. Passing' = Passing
    BY <2>1, <2>2 DEF Passing
  <2>4. \A d \in HttpCalls : httpCall[d] = "expire" => httpCall'[d] = "expire"
    BY <2>1, <2>2
  <2>5. /\ httpKey' \in [count : Nat, ttl : Nat \cup {-1}] /\ httpKey'.count >= httpKey.count
        /\ httpKey'.ttl = httpKey.ttl
        /\ expireLost \/ (httpKey.count = 0 /\ httpKey'.count # 0) => expireLost'
    <3>1. CASE httpKey' = httpKey /\ expireLost' = expireLost
      BY <1>0, <3>1 DEF HttpInv
    <3>2. CASE /\ httpKey' = [httpKey EXCEPT !.count = @ + 1]
               /\ expireLost' = (expireLost \/ httpKey.count = 0)
      <4>1. /\ httpKey' \in [count : Nat, ttl : Nat \cup {-1}] /\ httpKey'.count >= httpKey.count
            /\ httpKey'.ttl = httpKey.ttl
        BY <1>0, <3>2 DEF HttpInv
      <4>2. expireLost \/ (httpKey.count = 0 /\ httpKey'.count # 0) => expireLost'
        BY <3>2, Zenon
      <4> QED
        BY <4>1, <4>2
    <3> QED
      BY <2>1, <3>1, <3>2
  <2>6. Cardinality(Passing') <= httpKey'.count /\ Cardinality(Passing') <= HttpLimit
    BY <1>0, <1>1, <2>3, <2>5 DEF HttpInv
  <2>7. httpKey'.count > 0 /\ httpKey'.ttl = -1 =>
          expireLost' \/ \E d \in HttpCalls : httpCall'[d] = "expire"
    BY <1>0, <2>4, <2>5 DEF HttpInv, WindowKept
  <2> QED
    BY <2>2, <2>5, <2>6, <2>7 DEF HttpInv, WindowKept, Passing
<1> QED
  BY <1>2, <1>3, <1>4, <1>5, <1>6

-----------------------------------------------------------------------------
LEMMA ProductsGrow ==
    ASSUME NEW r \in Nat, NEW a \in Int, NEW b \in Nat, NEW m \in Int
    PROVE  /\ r * (a + b) = r * a + r * b /\ r * a \in Int /\ r * b \in Nat
           /\ b >= 0 => r * (a + b) >= r * a
           /\ r * 0 = 0
OBVIOUS

\* What waiting earns, and what a cooldown gives instead.
LEMMA WaitingEarns ==
    ASSUME NEW r \in Nat, NEW burst \in Nat, NEW n \in Nat, NEW left \in Nat,
           NEW then \in Nat, NEW last \in Nat, NEW now \in Nat,
           then <= last, last <= now, n + left <= burst + r * (last - then)
    PROVE  /\ \A more \in Nat :
                more <= left + r * (now - last) => n + more <= burst + r * (now - then)
           /\ \A cool \in Nat :
                now >= last + cool /\ r * cool >= burst =>
                    n + burst <= burst + r * (now - then)
<1> DEFINE a == last - then
           b == now - last
<1>1. a \in Nat /\ b \in Nat /\ now - then = a + b
  OBVIOUS
<1>2. n + left <= burst + r * a
  OBVIOUS
<1> HIDE DEF a
<1>3. r * (a + b) = r * a + r * b /\ r * a \in Int /\ r * b \in Nat
  BY <1>1, ProductsGrow
<1>4. r * (now - then) = r * a + r * b
  BY <1>1, <1>3
<1>5. ASSUME NEW more \in Nat, more <= left + r * (now - last)
      PROVE  n + more <= burst + r * (now - then)
  <2>1. more <= left + r * b
    BY <1>5
  <2> HIDE DEF b
  <2> QED
    BY <1>2, <1>3, <1>4, <2>1
<1>6. ASSUME NEW cool \in Nat, now >= last + cool, r * cool >= burst
      PROVE  n + burst <= burst + r * (now - then)
  <2> DEFINE d == b - cool
  <2>1. d \in Nat /\ b = cool + d
    BY <1>1, <1>6
  <2> HIDE DEF b, d
  <2>2. r * (cool + d) = r * cool + r * d /\ r * cool \in Int /\ r * d \in Nat
    BY <2>1, ProductsGrow
  <2>3. r * b >= burst
    BY <1>6, <2>1, <2>2
  <2> QED
    BY <1>2, <1>3, <1>4, <2>3
<1> QED
  BY <1>5, <1>6

LEMMA FramesStart == LimitsInit => FramesInv
<1> SUFFICES ASSUME LimitsInit PROVE FramesInv
  OBVIOUS
<1>1. /\ limiter = [tokens |-> Burst, refilled |-> 1, violations |-> 0, until |-> 0]
      /\ clock = 1 /\ accepted = <<>>
  BY DEF LimitsInit, FreshBudget
<1>2. accepted \in Seq(Nat) /\ Len(accepted) = 0 /\ DOMAIN accepted = {}
  BY <1>1, EmptySeq
<1>3. Burst \in Nat
  BY LimitsAssumption
<1> QED
  BY <1>1, <1>2, <1>3 DEF FramesInv, Limiter, Earned, BudgetKept

\* What a check finds in the bucket when no cooldown is running.
LEMMA BudgetIsEarned ==
    ASSUME FramesInv, clock \in Nat \ {0}, clock >= limiter.until
    PROVE  /\ Budget \in Limiter /\ Budget.refilled = clock /\ Budget.until = 0
           /\ \A i \in 1..Len(accepted) :
                /\ accepted[i] <= clock
                /\ (Len(accepted) - i + 1) + Budget.tokens
                      <= Burst + Rate * (clock - accepted[i])
<1>1. /\ Burst \in Nat /\ Rate \in Nat /\ Cooldown \in Nat /\ Rate * Cooldown >= Burst
      /\ Len(accepted) \in Nat /\ clock \in Nat
      /\ \A i \in 1..Len(accepted) : accepted[i] \in Nat
  BY LimitsAssumption, LenProperties, ElementOfSeq DEF FramesInv
<1>2. /\ limiter.tokens \in 0..Burst /\ limiter.refilled \in Nat /\ limiter.until \in Nat
      /\ limiter.violations \in Nat /\ limiter.refilled <= clock
  BY DEF FramesInv, Limiter
<1>3. CASE limiter.until > 0
  <2>1. Budget = [FreshBudget EXCEPT !.tokens = Least(Burst, @ + Rate * (clock - clock)),
                                     !.refilled = clock]
    BY <1>3 DEF Budget, Refilled, FreshBudget
  <2>2. Least(Burst, Burst + Rate * (clock - clock)) = Burst
    <3>1. Rate * (clock - clock) = 0
      BY <1>1
    <3> QED
      BY <1>1, <3>1 DEF Least
  <2>3. Budget = [tokens |-> Burst, refilled |-> clock, violations |-> 0, until |-> 0]
    BY <1>1, <2>1, <2>2 DEF FreshBudget, Least
  <2>4. limiter.until = limiter.refilled + Cooldown
    BY <1>3 DEF FramesInv
  <2>5. ASSUME NEW i \in 1..Len(accepted)
        PROVE  /\ accepted[i] <= clock
               /\ (Len(accepted) - i + 1) + Burst <= Burst + Rate * (clock - accepted[i])
    <3>1. /\ accepted[i] <= limiter.refilled /\ accepted[i] \in Nat
          /\ (Len(accepted) - i + 1) + limiter.tokens
                <= Burst + Rate * (limiter.refilled - accepted[i])
      BY <1>1 DEF FramesInv, Earned
    <3>2. /\ accepted[i] <= clock /\ Len(accepted) - i + 1 \in Nat
          /\ limiter.tokens \in Nat /\ clock >= limiter.refilled + Cooldown
      BY <1>1, <1>2, <2>4, <3>1, SMTT(30)
    <3> QED
      BY <1>1, <1>2, <3>1, <3>2, WaitingEarns
  <2> QED
    BY <1>1, <2>3, <2>5 DEF Limiter
<1>4. CASE ~(limiter.until > 0)
  <2> DEFINE gain == Rate * (clock - limiter.refilled)
  <2>1. gain \in Nat
    <3>1. clock - limiter.refilled \in Nat
      BY <1>1, <1>2
    <3> QED
      BY <1>1, <3>1, ProductsGrow
  <2>2. Budget = [limiter EXCEPT !.tokens = Least(Burst, limiter.tokens + gain),
                                 !.refilled = clock]
    BY <1>4 DEF Budget, Refilled
  <2> HIDE DEF gain
  <2>3. PICK n \in 0..Burst : n = Least(Burst, limiter.tokens + gain)
    BY <1>1, <1>2, <2>1 DEF Least
  <2>4. Budget = [limiter EXCEPT !.tokens = n, !.refilled = clock]
    BY <2>2, <2>3
  <2>5. ASSUME NEW x, x = [limiter EXCEPT !.tokens = n, !.refilled = clock]
        PROVE  /\ x \in [tokens : 0..Burst, refilled : Nat, violations : Nat, until : Nat]
               /\ x.tokens = n /\ x.refilled = clock /\ x.until = limiter.until
    <3>1. limiter \in [tokens : 0..Burst, refilled : Nat, violations : Nat, until : Nat]
      BY DEF FramesInv, Limiter
    <3> QED
      BY <1>1, <2>5, <3>1
  <2>6. /\ Budget \in Limiter /\ Budget.tokens = n /\ Budget.refilled = clock
        /\ Budget.until = 0
    <3>1. limiter.until = 0
      BY <1>2, <1>4
    <3> QED
      BY <2>4, <2>5, <3>1 DEF Limiter
  <2>7. ASSUME NEW i \in 1..Len(accepted)
        PROVE  /\ accepted[i] <= clock
               /\ (Len(accepted) - i + 1) + n <= Burst + Rate * (clock - accepted[i])
    <3>1. /\ accepted[i] <= limiter.refilled /\ accepted[i] \in Nat
          /\ (Len(accepted) - i + 1) + limiter.tokens
                <= Burst + Rate * (limiter.refilled - accepted[i])
      BY <1>1 DEF FramesInv, Earned
    <3>2. /\ accepted[i] <= clock /\ Len(accepted) - i + 1 \in Nat
          /\ limiter.tokens \in Nat
      BY <1>1, <1>2, <3>1, SMTT(30)
    <3>3. n \in Nat /\ n <= limiter.tokens + Rate * (clock - limiter.refilled)
      BY <1>1, <1>2, <2>1, <2>3 DEF Least, gain
    <3> QED
      BY <1>1, <1>2, <3>1, <3>2, <3>3, WaitingEarns
  <2> QED
    BY <2>6, <2>7
<1> QED
  BY <1>3, <1>4

LEMMA FramesStep ==
    ASSUME FramesInv, clock \in Nat \ {0},
           CheckFrame \/ (clock' \in Nat /\ clock' >= clock /\ UNCHANGED frameVars)
    PROVE  FramesInv'
<1>1. /\ Burst \in Nat /\ Rate \in Nat /\ Cooldown \in Nat
      /\ Len(accepted) \in Nat /\ clock \in Nat /\ clock > 0
      /\ DOMAIN accepted = 1..Len(accepted)
      /\ \A i \in 1..Len(accepted) : accepted[i] \in Nat
      /\ limiter.refilled \in Nat
  BY LimitsAssumption, LenProperties, ElementOfSeq DEF FramesInv, Limiter
<1>2. CASE UNCHANGED frameVars /\ clock' \in Nat /\ clock' >= clock
  <2>1. limiter' = limiter /\ accepted' = accepted /\ limiter.refilled <= clock'
    BY <1>1, <1>2 DEF FramesInv, frameVars
  <2> QED
    BY <2>1 DEF FramesInv, Earned, BudgetKept
<1>3. CASE CheckFrame
  <2>0. clock' = clock
    BY <1>3 DEF CheckFrame
  <2>1. CASE clock < limiter.until /\ UNCHANGED frameVars
    BY <1>1, <1>2, <2>0, <2>1
  <2>2. CASE /\ clock >= limiter.until /\ Budget.tokens > 0
             /\ limiter' = [Budget EXCEPT !.tokens = @ - 1, !.violations = 0]
             /\ accepted' = Append(accepted, clock)
    <3>1. /\ Budget \in Limiter /\ Budget.refilled = clock /\ Budget.until = 0
          /\ \A i \in 1..Len(accepted) :
                /\ accepted[i] <= clock
                /\ (Len(accepted) - i + 1) + Budget.tokens
                      <= Burst + Rate * (clock - accepted[i])
      BY <2>2, BudgetIsEarned
    <3>2. PICK n \in 0..Burst : n = Budget.tokens - 1 /\ n < Burst
      BY <1>1, <2>2, <3>1 DEF Limiter
    <3>3. limiter' = [Budget EXCEPT !.tokens = n, !.violations = 0]
      BY <2>2, <3>2
    <3>4. ASSUME NEW b, b = Budget, NEW x, x = [b EXCEPT !.tokens = n, !.violations = 0]
          PROVE  /\ x \in [tokens : 0..Burst, refilled : Nat, violations : Nat, until : Nat]
                 /\ x.tokens = n /\ x.refilled = b.refilled /\ x.until = b.until
      <4>1. b \in [tokens : 0..Burst, refilled : Nat, violations : Nat, until : Nat]
        BY <3>1, <3>4 DEF Limiter
      <4> QED
        BY <3>4, <4>1
    <3>5. /\ limiter' \in Limiter /\ limiter'.tokens = n /\ limiter'.refilled = clock
          /\ limiter'.until = 0
      BY <3>1, <3>3, <3>4 DEF Limiter
    <3>6. /\ accepted' \in Seq(Nat) /\ Len(accepted') = Len(accepted) + 1
          /\ \A i \in 1..Len(accepted) : accepted'[i] = accepted[i]
          /\ accepted'[Len(accepted) + 1] = clock
          /\ DOMAIN accepted' = 1..(Len(accepted) + 1)
      <4>1. accepted \in Seq(Nat)
        BY DEF FramesInv
      <4> QED
        BY <1>1, <2>2, <4>1, AppendProperties
    <3>7. Rate * (clock - clock) = 0
      BY <1>1
    <3>8. Earned'
      <4> SUFFICES ASSUME NEW i \in 1..Len(accepted')
                   PROVE  /\ accepted'[i] <= limiter'.refilled
                          /\ (Len(accepted') - i + 1) + limiter'.tokens
                                <= Burst + Rate * (limiter'.refilled - accepted'[i])
        BY DEF Earned
      <4>1. CASE i \in 1..Len(accepted)
        <5>1. /\ accepted'[i] = accepted[i] /\ accepted[i] <= clock
              /\ (Len(accepted) - i + 1) + Budget.tokens
                    <= Burst + Rate * (clock - accepted[i])
          BY <3>1, <3>6, <4>1
        <5>2. (Len(accepted') - i + 1) + limiter'.tokens
                = (Len(accepted) - i + 1) + Budget.tokens
          BY <1>1, <3>1, <3>2, <3>5, <3>6 DEF Limiter
        <5> QED
          BY <3>5, <5>1, <5>2
      <4>2. CASE i = Len(accepted) + 1
        <5>1. accepted'[i] = clock /\ Len(accepted') - i + 1 = 1
          BY <1>1, <3>6, <4>2
        <5> QED
          BY <1>1, <3>2, <3>5, <3>7, <5>1
      <4> QED
        BY <1>1, <3>6, <4>1, <4>2
    <3>9. BudgetKept'
      <4> SUFFICES ASSUME NEW i \in 1..(Len(accepted) + 1), NEW j \in 1..(Len(accepted) + 1),
                          i <= j
                   PROVE  j - i + 1 <= Burst + Rate * (accepted'[j] - accepted'[i])
        BY <3>6 DEF BudgetKept
      <4>1. CASE j \in 1..Len(accepted)
        <5>1. i \in 1..Len(accepted) /\ accepted'[i] = accepted[i]
                  /\ accepted'[j] = accepted[j]
          BY <1>1, <3>6, <4>1
        <5> QED
          BY <1>1, <4>1, <5>1 DEF FramesInv, BudgetKept
      <4>2. CASE j = Len(accepted) + 1 /\ i \in 1..Len(accepted)
        <5>1. /\ accepted'[i] = accepted[i] /\ accepted'[j] = clock
              /\ (Len(accepted) - i + 1) + Budget.tokens
                    <= Burst + Rate * (clock - accepted[i])
          BY <3>1, <3>6, <4>2
        <5> DEFINE earned == Rate * (clock - accepted[i])
        <5>2. earned \in Int
          BY <1>1, <4>2
        <5>3. (Len(accepted) - i + 1) + Budget.tokens <= Burst + earned
          BY <5>1
        <5> HIDE DEF earned
        <5>4. j - i + 1 <= Burst + earned
          BY <1>1, <2>2, <3>1, <4>2, <5>2, <5>3, SMTT(30) DEF Limiter
        <5> QED
          BY <5>1, <5>4 DEF earned
      <4>3. CASE j = Len(accepted) + 1 /\ i = j
        <5>1. Burst >= 1 /\ accepted'[i] = clock /\ accepted'[j] = clock
          BY <1>1, <3>2, <3>6, <4>3
        <5> QED
          BY <1>1, <3>7, <4>3, <5>1
      <4> QED
        BY <1>1, <4>1, <4>2, <4>3
    <3> QED
      BY <1>1, <2>0, <3>5, <3>6, <3>8, <3>9 DEF FramesInv
  <2>3. CASE /\ clock >= limiter.until /\ Budget.tokens = 0
             /\ limiter' = IF Budget.violations + 1 < MaxViolations
                           THEN [Budget EXCEPT !.violations = @ + 1]
                           ELSE [Budget EXCEPT !.violations = 0, !.until = clock + Cooldown]
             /\ UNCHANGED accepted
    <3>1. /\ Budget \in Limiter /\ Budget.refilled = clock /\ Budget.until = 0
          /\ \A i \in 1..Len(accepted) :
                /\ accepted[i] <= clock
                /\ (Len(accepted) - i + 1) + Budget.tokens
                      <= Burst + Rate * (clock - accepted[i])
      BY <2>3, BudgetIsEarned
    <3>2. PICK v \in Nat : v = Budget.violations + 1
      BY <3>1 DEF Limiter
    <3>3. PICK u \in Nat : u = clock + Cooldown
      BY <1>1
    <3>4. \/ limiter' = [Budget EXCEPT !.violations = v]
          \/ limiter' = [Budget EXCEPT !.violations = 0, !.until = u]
      BY <2>3, <3>2, <3>3
    <3>5. ASSUME NEW b, b = Budget, NEW x,
                 \/ x = [b EXCEPT !.violations = v]
                 \/ x = [b EXCEPT !.violations = 0, !.until = u]
          PROVE  /\ x \in [tokens : 0..Burst, refilled : Nat, violations : Nat, until : Nat]
                 /\ x.tokens = b.tokens /\ x.refilled = b.refilled
                 /\ x.until = b.until \/ x.until = u
      <4>1. b \in [tokens : 0..Burst, refilled : Nat, violations : Nat, until : Nat]
        BY <3>1, <3>5 DEF Limiter
      <4>2. CASE x = [b EXCEPT !.violations = v]
        BY <4>1, <4>2
      <4>3. CASE x = [b EXCEPT !.violations = 0, !.until = u]
        BY <4>1, <4>3
      <4> QED
        BY <3>5, <4>2, <4>3
    <3>6. /\ limiter' \in Limiter /\ limiter'.tokens = 0 /\ limiter'.refilled = clock
          /\ limiter'.until > 0 => limiter'.until = limiter'.refilled + Cooldown
      <4>1. /\ limiter' \in Limiter /\ limiter'.tokens = Budget.tokens
            /\ limiter'.refilled = Budget.refilled
            /\ limiter'.until = Budget.until \/ limiter'.until = u
        BY <3>4, <3>5 DEF Limiter
      <4> QED
        BY <2>3, <3>1, <3>3, <4>1
    <3>7. Earned'
      BY <2>3, <3>1, <3>6 DEF Earned
    <3> QED
      BY <1>1, <2>0, <2>3, <3>6, <3>7 DEF FramesInv, BudgetKept
  <2> QED
    BY <1>3, <2>1, <2>2, <2>3 DEF CheckFrame
<1> QED
  BY <1>2, <1>3

-----------------------------------------------------------------------------
LEMMA AdmissionStarts == LimitsInit => AdmissionInv
<1> SUFFICES ASSUME LimitsInit PROVE AdmissionInv
  OBVIOUS
<1>1. /\ entries = [g \in Watched |-> [count |-> 0, seen |-> 0]]
      /\ total = 0 /\ watching = [g \in Watched |-> 0]
  BY DEF LimitsInit
<1>2. SumFunctionOnSet(Attendance, Watched) = 0
  <2>1. IsFiniteSet(Watched) /\ \A g \in Watched : Attendance[g] = 0
    BY <1>1, LimitsAssumption DEF Attendance
  <2> QED
    BY <2>1, SumOfZeros
<1>3. /\ entries \in [Watched -> [count : Nat, seen : Nat]] /\ watching \in [Watched -> Nat]
      /\ \A g \in Watched : entries[g].count \in 0..watching[g]
  BY <1>1
<1> QED
  BY <1>1, <1>2, <1>3, LimitsAssumption DEF AdmissionInv, AdmissionCounts

\* What is left when the idle games are forgotten.
LEMMA KeptAddsUp ==
    ASSUME AdmissionInv, clock \in Nat
    PROVE  /\ Kept \in [Watched -> [count : Nat, seen : Nat]]
           /\ \A g \in Watched : Kept[g].count <= entries[g].count
           /\ TotalKept = SumFunctionOnSet([g \in Watched |-> Kept[g].count], Watched)
           /\ TotalKept \in Nat /\ TotalKept <= total
<1> DEFINE stale == {g \in Watched : Stale(g)}
           fresh == Watched \ stale
           left == [g \in Watched |-> Kept[g].count]
<1>1. /\ IsFiniteSet(Watched) /\ IsFiniteSet(stale) /\ IsFiniteSet(fresh)
      /\ fresh \cap stale = {} /\ fresh \cup stale = Watched
  <2>1. IsFiniteSet(Watched)
    BY LimitsAssumption
  <2> QED
    BY <2>1, FS_Subset
<1>2. \A g \in Watched : Attendance[g] = entries[g].count /\ entries[g].count \in Nat
  BY DEF AdmissionInv, Attendance
<1>3. Kept \in [Watched -> [count : Nat, seen : Nat]]
  BY DEF AdmissionInv, Kept
<1>4. /\ \A g \in stale : left[g] = 0
      /\ \A g \in fresh : left[g] = Attendance[g]
      /\ \A g \in Watched : left[g] \in Nat /\ left[g] = Kept[g].count
      /\ \A g \in Watched : Kept[g].count <= entries[g].count
  <2>1. ASSUME NEW g \in Watched
        PROVE  /\ g \in stale => Kept[g].count = 0
               /\ g \in fresh => Kept[g] = entries[g]
    BY DEF Kept
  <2> QED
    BY <1>2, <2>1
<1> HIDE DEF left, fresh, stale
<1>5. /\ SumFunctionOnSet(Attendance, Watched)
            = SumFunctionOnSet(Attendance, fresh) + SumFunctionOnSet(Attendance, stale)
      /\ SumFunctionOnSet(Attendance, fresh) \in Int
      /\ SumFunctionOnSet(Attendance, stale) \in Int
  <2>1. \A g \in fresh \cup stale : Attendance[g] \in Int
    BY <1>1, <1>2
  <2>2. SumFunctionOnSet(Attendance, fresh \cup stale)
            = SumFunctionOnSet(Attendance, fresh) + SumFunctionOnSet(Attendance, stale)
        /\ SumFunctionOnSet(Attendance, fresh) \in Int
        /\ SumFunctionOnSet(Attendance, stale) \in Int
    BY <1>1, <2>1, SumOfDisjoint
  <2> QED
    BY <1>1, <2>2
<1>6. /\ SumFunctionOnSet(left, Watched)
            = SumFunctionOnSet(left, fresh) + SumFunctionOnSet(left, stale)
  <2>1. \A g \in fresh \cup stale : left[g] \in Int
    BY <1>1, <1>4
  <2>2. SumFunctionOnSet(left, fresh \cup stale)
            = SumFunctionOnSet(left, fresh) + SumFunctionOnSet(left, stale)
    BY <1>1, <2>1, SumOfDisjoint
  <2> QED
    BY <1>1, <2>2
<1>7. SumFunctionOnSet(left, stale) = 0
  BY <1>1, <1>4, SumOfZeros
<1>8. SumFunctionOnSet(left, fresh) = SumFunctionOnSet(Attendance, fresh)
  BY <1>1, <1>4, SumOfEquals
<1>9. TotalKept = total - SumFunctionOnSet(Attendance, stale)
  BY DEF TotalKept, stale
<1>10. total = SumFunctionOnSet(Attendance, Watched) /\ total \in Nat
  BY DEF AdmissionInv, AdmissionCounts
<1>11. TotalKept = SumFunctionOnSet(left, Watched)
  BY <1>5, <1>6, <1>7, <1>8, <1>9, <1>10
<1>12. SumFunctionOnSet(left, Watched) \in Nat
  BY <1>1, <1>4, SumIsNat
<1>13. SumFunctionOnSet(Attendance, stale) \in Nat
  <2>1. \A g \in stale : Attendance[g] \in Nat
    BY <1>1, <1>2
  <2> QED
    BY <1>1, <2>1, SumIsNat
<1>14. TotalKept <= total
  BY <1>9, <1>10, <1>13
<1> QED
  BY <1>3, <1>4, <1>11, <1>12, <1>14 DEF left

LEMMA AdmissionStep ==
    ASSUME AdmissionInv, clock \in Nat,
           \/ \E g \in Watched : AdmitSpectator(g) \/ ReleaseSpectator(g)
           \/ UNCHANGED admissionVars
    PROVE  AdmissionInv'
<1>0. /\ MaxPerNode \in Nat /\ MaxPerGame \in Nat /\ IsFiniteSet(Watched)
      /\ \A g \in Watched : /\ entries[g] \in [count : Nat, seen : Nat]
                            /\ watching[g] \in Nat /\ entries[g].count <= watching[g]
      /\ total = SumFunctionOnSet([h \in Watched |-> entries[h].count], Watched)
      /\ total \in Nat /\ total <= MaxPerNode
  BY LimitsAssumption DEF AdmissionInv, AdmissionCounts, Attendance
<1>k. /\ Kept \in [Watched -> [count : Nat, seen : Nat]]
      /\ \A g \in Watched : Kept[g].count <= entries[g].count
      /\ TotalKept = SumFunctionOnSet([g \in Watched |-> Kept[g].count], Watched)
      /\ TotalKept \in Nat /\ TotalKept <= total
  BY KeptAddsUp
<1>1. ASSUME NEW g \in Watched,
             Kept[g].count < MaxPerGame, TotalKept < MaxPerNode,
             entries' = [Kept EXCEPT ![g] = [count |-> @.count + 1, seen |-> clock]],
             total' = TotalKept + 1, watching' = [watching EXCEPT ![g] = @ + 1]
      PROVE  AdmissionInv'
  <2> DEFINE e == [count |-> Kept[g].count + 1, seen |-> clock]
  <2>1. e \in [count : Nat, seen : Nat] /\ e.count = Kept[g].count + 1
            /\ Kept[g].count \in Nat
    BY <1>k
  <2>2. entries' = [Kept EXCEPT ![g] = e]
    BY <1>1
  <2> HIDE DEF e
  <2>3. /\ entries' \in [Watched -> [count : Nat, seen : Nat]]
        /\ entries'[g] = e /\ \A h \in Watched : h # g => entries'[h] = Kept[h]
    BY <1>k, <2>1, <2>2
  <2>4. /\ watching' \in [Watched -> Nat] /\ watching'[g] = watching[g] + 1
        /\ \A h \in Watched : h # g => watching'[h] = watching[h]
    BY <1>1 DEF AdmissionInv
  <2>6. SumFunctionOnSet([h \in Watched |-> entries'[h].count], Watched)
            = TotalKept + (e.count - Kept[g].count)
    <3> DEFINE x == [h \in Watched |-> Kept[h].count]
               y == [h \in Watched |-> entries'[h].count]
    <3>1. /\ \A h \in Watched : x[h] \in Int /\ y[h] \in Int
          /\ \A h \in Watched \ {g} : y[h] = x[h]
          /\ x[g] = Kept[g].count /\ y[g] = e.count
      BY <1>k, <2>3
    <3>2. TotalKept = SumFunctionOnSet(x, Watched)
      BY <1>k
    <3> HIDE DEF x, y
    <3>3. SumFunctionOnSet(y, Watched) = SumFunctionOnSet(x, Watched) + (y[g] - x[g])
      BY <1>0, <3>1, SumChanges
    <3>4. SumFunctionOnSet(y, Watched) = TotalKept + (e.count - Kept[g].count)
      BY <3>1, <3>2, <3>3
    <3> QED
      BY <3>4 DEF y
  <2>7. total' = SumFunctionOnSet([h \in Watched |-> entries'[h].count], Watched)
    BY <1>1, <1>k, <2>1, <2>6
  <2>8. \A h \in Watched : entries'[h].count \in 0..watching'[h]
    <3> SUFFICES ASSUME NEW h \in Watched PROVE entries'[h].count \in 0..watching'[h]
      OBVIOUS
    <3>1. Kept[h].count \in Nat /\ Kept[h].count <= watching[h] /\ watching[h] \in Nat
      BY <1>0, <1>k
    <3> QED
      BY <2>1, <2>3, <2>4, <3>1
  <2>9. total' \in Nat /\ total' <= MaxPerNode
    BY <1>0, <1>1, <1>k
  <2> QED
    BY <2>3, <2>4, <2>7, <2>8, <2>9 DEF AdmissionInv, AdmissionCounts, Attendance
<1>2. ASSUME entries' = Kept, total' = TotalKept, UNCHANGED watching
      PROVE  AdmissionInv'
  <2>1. \A g \in Watched : Kept[g].count \in 0..watching[g]
    BY <1>0, <1>k
  <2>2. total' \in Nat /\ total' <= MaxPerNode
    BY <1>0, <1>2, <1>k
  <2> QED
    BY <1>2, <1>k, <2>1, <2>2 DEF AdmissionInv, AdmissionCounts, Attendance
<1>3. ASSUME NEW g \in Watched, ReleaseSpectator(g) PROVE AdmissionInv'
  <2>1. /\ watching[g] > 0 /\ watching' = [watching EXCEPT ![g] = @ - 1]
        /\ \/ /\ \/ /\ entries[g].count = 1
                    /\ entries' = [entries EXCEPT ![g] = [count |-> 0, seen |-> 0]]
                 \/ entries[g].count > 1 /\ entries' = [entries EXCEPT ![g].count = @ - 1]
              /\ total' = total - 1
           \/ entries[g].count = 0 /\ UNCHANGED <<entries, total>>
    BY <1>3 DEF ReleaseSpectator
  <2>2. /\ watching' \in [Watched -> Nat] /\ watching'[g] = watching[g] - 1
        /\ \A h \in Watched : h # g => watching'[h] = watching[h]
    BY <1>0, <2>1 DEF AdmissionInv
  <2>3. CASE entries[g].count = 0 /\ UNCHANGED <<entries, total>>
    <3>1. \A h \in Watched : entries'[h].count \in 0..watching'[h]
      BY <1>0, <2>1, <2>2, <2>3
    <3> QED
      BY <1>0, <2>2, <2>3, <3>1 DEF AdmissionInv, AdmissionCounts, Attendance
  <2>4. CASE /\ entries[g].count > 0
             /\ \/ /\ entries[g].count = 1
                   /\ entries' = [entries EXCEPT ![g] = [count |-> 0, seen |-> 0]]
                \/ entries[g].count > 1 /\ entries' = [entries EXCEPT ![g].count = @ - 1]
             /\ total' = total - 1
    <3>3. /\ entries' \in [Watched -> [count : Nat, seen : Nat]]
          /\ entries'[g].count = entries[g].count - 1
          /\ \A h \in Watched : h # g => entries'[h] = entries[h]
      <4>1. CASE entries[g].count = 1
        <5>1. entries' = [entries EXCEPT ![g] = [count |-> 0, seen |-> 0]]
          BY <2>4, <4>1
        <5> QED
          BY <4>1, <5>1 DEF AdmissionInv
      <4>2. CASE entries[g].count # 1
        <5>1. entries' = [entries EXCEPT ![g].count = @ - 1]
          BY <2>4, <4>2
        <5>2. PICK n \in Nat : n = entries[g].count - 1
          BY <1>0, <2>4
        <5>3. entries' = [entries EXCEPT ![g].count = n]
          BY <5>1, <5>2
        <5> QED
          BY <1>0, <5>2, <5>3 DEF AdmissionInv
      <4> QED
        BY <4>1, <4>2
    <3>5. SumFunctionOnSet([h \in Watched |-> entries'[h].count], Watched) = total - 1
      <4> DEFINE x == [h \in Watched |-> entries[h].count]
                 y == [h \in Watched |-> entries'[h].count]
      <4>1. /\ \A h \in Watched : x[h] \in Int /\ y[h] \in Int
            /\ \A h \in Watched \ {g} : y[h] = x[h]
            /\ x[g] \in Nat /\ y[g] = x[g] - 1
        BY <1>0, <3>3
      <4>2. total = SumFunctionOnSet(x, Watched)
        BY <1>0
      <4> HIDE DEF x, y
      <4>3. SumFunctionOnSet(y, Watched) = SumFunctionOnSet(x, Watched) + (y[g] - x[g])
        BY <1>0, <4>1, SumChanges
      <4>4. SumFunctionOnSet(y, Watched) = total - 1
        BY <1>0, <4>1, <4>2, <4>3
      <4> QED
        BY <4>4 DEF y
    <3>6. total' = SumFunctionOnSet([h \in Watched |-> entries'[h].count], Watched)
      BY <2>4, <3>5
    <3>7. \A h \in Watched : entries'[h].count \in 0..watching'[h]
      BY <1>0, <2>1, <2>2, <3>3
    <3>8. total' \in Nat /\ total' <= MaxPerNode
      <4>1. SumFunctionOnSet([h \in Watched |-> entries'[h].count], Watched) \in Nat
        <5> DEFINE y == [h \in Watched |-> entries'[h].count]
        <5>1. IsFiniteSet(Watched) /\ \A h \in Watched : y[h] \in Nat
          BY <3>3, LimitsAssumption
        <5> HIDE DEF y
        <5>2. SumFunctionOnSet(y, Watched) \in Nat
          BY <5>1, SumIsNat
        <5> QED
          BY <5>2 DEF y
      <4> QED
        BY <1>0, <2>4, <3>6, <4>1
    <3> QED
      BY <2>2, <3>3, <3>6, <3>7, <3>8 DEF AdmissionInv, AdmissionCounts, Attendance
  <2> QED
    BY <1>0, <2>1, <2>3, <2>4
<1>4. ASSUME UNCHANGED admissionVars PROVE AdmissionInv'
  BY <1>4 DEF admissionVars, AdmissionInv, AdmissionCounts, Attendance
<1>5. ASSUME NEW g \in Watched, AdmitSpectator(g) PROVE AdmissionInv'
  BY <1>1, <1>2, <1>5 DEF AdmitSpectator
<1> QED
  BY <1>3, <1>4, <1>5

LEMMA LimitsStart == LimitsInit => LimitsInv
<1> SUFFICES ASSUME LimitsInit PROVE LimitsInv
  OBVIOUS
<1>1. clock \in Nat \ {0}
  BY DEF LimitsInit
<1> QED
  BY <1>1, HttpStarts, FramesStart, AdmissionStarts DEF LimitsInv

LEMMA LimitsStep == LimitsInv /\ [LimitsNext]_limitVars => LimitsInv'
<1> SUFFICES ASSUME LimitsInv, [LimitsNext]_limitVars PROVE LimitsInv'
  OBVIOUS
<1> USE DEF LimitsInv
<1>1. ASSUME NEW c \in HttpCalls, Increment(c) \/ PassesUncounted(c) \/ Expire(c)
      PROVE  LimitsInv'
  <2>1. clock' = clock /\ UNCHANGED frameVars /\ UNCHANGED admissionVars
    BY <1>1 DEF Increment, PassesUncounted, Expire
  <2>2. HttpInv'
    BY <1>1, HttpStep
  <2>3. FramesInv'
    BY <2>1, FramesStep
  <2>4. AdmissionInv'
    BY <2>1, AdmissionStep
  <2> QED
    BY <2>1, <2>2, <2>3, <2>4
<1>2. ASSUME ClockTicks PROVE LimitsInv'
  <2>1. clock' = clock + 1 /\ UNCHANGED frameVars /\ UNCHANGED admissionVars
    BY <1>2 DEF ClockTicks
  <2>2. clock' \in Nat \ {0} /\ clock' >= clock
    BY <2>1
  <2>3. HttpInv'
    BY <1>2, HttpStep
  <2>4. FramesInv'
    BY <2>1, <2>2, FramesStep
  <2>5. AdmissionInv'
    BY <2>1, AdmissionStep
  <2> QED
    BY <2>2, <2>3, <2>4, <2>5
<1>3. ASSUME CheckFrame PROVE LimitsInv'
  <2>1. clock' = clock /\ UNCHANGED httpVars /\ UNCHANGED admissionVars
    BY <1>3 DEF CheckFrame
  <2>2. HttpInv'
    BY <2>1, HttpStep
  <2>3. FramesInv'
    BY <1>3, FramesStep
  <2>4. AdmissionInv'
    BY <2>1, AdmissionStep
  <2> QED
    BY <2>1, <2>2, <2>3, <2>4
<1>4. ASSUME NEW g \in Watched, AdmitSpectator(g) \/ ReleaseSpectator(g) PROVE LimitsInv'
  <2>1. clock' = clock /\ UNCHANGED httpVars /\ UNCHANGED frameVars
    BY <1>4 DEF AdmitSpectator, ReleaseSpectator
  <2>2. HttpInv'
    BY <2>1, HttpStep
  <2>3. FramesInv'
    BY <2>1, FramesStep
  <2>4. AdmissionInv'
    BY <1>4, AdmissionStep
  <2> QED
    BY <2>1, <2>2, <2>3, <2>4
<1>5. ASSUME UNCHANGED limitVars PROVE LimitsInv'
  <2>1. clock' = clock /\ UNCHANGED httpVars /\ UNCHANGED frameVars
            /\ UNCHANGED admissionVars
    BY <1>5 DEF limitVars
  <2>2. HttpInv'
    BY <2>1, HttpStep
  <2>3. FramesInv'
    BY <2>1, FramesStep
  <2>4. AdmissionInv'
    BY <2>1, AdmissionStep
  <2> QED
    BY <2>1, <2>2, <2>3, <2>4
<1> QED
  BY <1>1, <1>2, <1>3, <1>4, <1>5 DEF LimitsNext, HttpNext, FramesNext, AdmissionNext

LEMMA LimitsAreSound == LimitsInv => LimitsSound
BY DEF LimitsInv, HttpInv, FramesInv, AdmissionInv, LimitsSound

\* No key passes more requests that it counted in a window than its limit, whatever passes
\* uncounted (rate_limiter.rs:116), no socket more frames than its burst and what it earned
\* since, and a node's spectators are those of its games.
THEOREM LimitsKept == LimitsSpec => []LimitsSound
BY LimitsStart, LimitsStep, LimitsAreSound, PTL DEF LimitsSpec

-----------------------------------------------------------------------------
(***************************************************************************)
(* Reports.  What is kept of a reporter contains all he filed in the last  *)
(* hour, and what is kept against a player is all that was filed against   *)
(* him; every window that a new report falls in lies in the last hour, or  *)
(* the last day, of that moment.                                           *)
(***************************************************************************)
Report == [by : Reporters, against : Reporters, game : Evidence, at : 0..LastReportTick]

ReportsTypeOK ==
    /\ reportTick \in 0..LastReportTick
    /\ all \in SUBSET Report /\ IsFiniteSet(all)
    /\ filed \in [Reporters -> SUBSET all] /\ received \in [Reporters -> SUBSET all]
    /\ shadowBanned \in SUBSET Reporters
    /\ \A r \in all : r.at <= reportTick

\* All that was filed lately, and all that was ever received.
FiledKept ==
    \A p \in Reporters :
        /\ \A r \in filed[p] : r.by = p
        /\ \A r \in all : r.by = p /\ Within(r.at, RateWindow) => r \in filed[p]
        /\ received[p] = {r \in all : r.against = p}

ReportsInv == ReportsTypeOK /\ FiledKept /\ ReportsSound

LEMMA ReportsStart == ReportsInit => ReportsInv
<1> SUFFICES ASSUME ReportsInit PROVE ReportsInv
  OBVIOUS
<1>1. all = {} /\ IsFiniteSet(all) /\ Cardinality({}) = 0
  BY FS_EmptySet DEF ReportsInit
<1>2. ReportsTypeOK
  BY <1>1, ReportsAssumption DEF ReportsInit, ReportsTypeOK
<1>3. FiledKept
  BY <1>1 DEF ReportsInit, FiledKept
<1>4. ReportsSound
  <2>1. \A p \in Reporters, t \in 0..LastReportTick :
            {r \in all : r.by = p /\ r.at \in t..(t + RateWindow - 1)} = {}
    BY <1>1
  <2>2. \A q \in Reporters, t \in 0..LastReportTick :
            {r \in all : r.against = q /\ r.at \in t..(t + BanWindow - 1)} = {}
    BY <1>1
  <2>3. 0 <= HourlyLimit /\ ~(0 >= BanThreshold)
    BY ReportsAssumption
  <2>4. shadowBanned = {}
    BY DEF ReportsInit
  <2> QED
    BY <1>1, <2>1, <2>2, <2>3, <2>4 DEF ReportsSound
<1> QED
  BY <1>2, <1>3, <1>4 DEF ReportsInv

\* A report filed and kept.
LEMMA ReportCounts ==
    ASSUME ReportsInv, NEW p \in Reporters, NEW q \in Reporters, NEW game \in Evidence,
           NEW report, report = [by |-> p, against |-> q, game |-> game, at |-> reportTick],
           Cardinality(Recent(filed[p])) < HourlyLimit,
           filed' = [filed EXCEPT ![p] = Recent(filed[p]) \cup {report}],
           received' = [received EXCEPT ![q] = received[q] \cup {report}],
           shadowBanned' =
             IF Cardinality({r \in received[q] \cup {report} : Within(r.at, BanWindow)})
                    >= BanThreshold
             THEN shadowBanned \cup {q} ELSE shadowBanned,
           all' = all \cup {report}, reportTick' = reportTick
    PROVE  ReportsInv'
<1> USE DEF ReportsInv
<1>1. /\ report \in Report /\ report.by = p /\ report.against = q /\ report.at = reportTick
      /\ reportTick \in Nat /\ RateWindow \in Nat /\ BanWindow \in Nat
             /\ LastReportTick \in Nat
      /\ HourlyLimit \in Nat /\ BanThreshold \in Nat /\ BanThreshold > 0
      /\ reportTick <= LastReportTick
  BY ReportsAssumption DEF ReportsTypeOK, Report
<1>2. /\ IsFiniteSet(all) /\ all \subseteq Report
      /\ \A r \in all : r.at \in Nat /\ r.at <= reportTick
  BY <1>1 DEF ReportsTypeOK, Report
<1>3. IsFiniteSet(all')
  BY <1>2, FS_AddElement
<1>4. ReportsTypeOK'
  <2>1. all' \in SUBSET Report /\ \A r \in all' : r.at <= reportTick'
    BY <1>1, <1>2
  <2>2. filed' \in [Reporters -> SUBSET all'] /\ received' \in [Reporters -> SUBSET all']
    BY DEF ReportsTypeOK, Recent
  <2>3. shadowBanned' \in SUBSET Reporters
    BY DEF ReportsTypeOK
  <2> QED
    BY <1>3, <2>1, <2>2, <2>3 DEF ReportsTypeOK
<1>5. FiledKept'
  <2> SUFFICES ASSUME NEW x \in Reporters
               PROVE  /\ \A r \in filed'[x] : r.by = x
                      /\ \A r \in all' : r.by = x /\ reportTick - r.at < RateWindow
                            => r \in filed'[x]
                      /\ received'[x] = {r \in all' : r.against = x}
    BY DEF FiledKept, Within
  <2>1. CASE x = p
    <3>1. filed'[x] = Recent(filed[p]) \cup {report}
      BY <2>1 DEF ReportsTypeOK
    <3>2. /\ \A r \in filed'[x] : r.by = x
          /\ \A r \in all' : r.by = x /\ reportTick - r.at < RateWindow => r \in filed'[x]
      BY <1>1, <2>1, <3>1 DEF FiledKept, Within, Recent
    <3>3. received'[x] = {r \in all' : r.against = x}
      BY <1>1 DEF FiledKept, ReportsTypeOK
    <3> QED
      BY <3>2, <3>3
  <2>2. CASE x # p
    <3>1. filed'[x] = filed[x]
      BY <2>2 DEF ReportsTypeOK
    <3>2. /\ \A r \in filed'[x] : r.by = x
          /\ \A r \in all' : r.by = x /\ reportTick - r.at < RateWindow => r \in filed'[x]
      BY <1>1, <2>2, <3>1 DEF FiledKept, Within
    <3>3. received'[x] = {r \in all' : r.against = x}
      BY <1>1 DEF FiledKept, ReportsTypeOK
    <3> QED
      BY <3>2, <3>3
  <2> QED
    BY <2>1, <2>2
<1>6. ASSUME NEW x \in Reporters, NEW t \in 0..LastReportTick
      PROVE  Cardinality({r \in all' : r.by = x /\ r.at \in t..(t + RateWindow - 1)})
                <= HourlyLimit
  <2> DEFINE earlier == {r \in all : r.by = x /\ r.at \in t..(t + RateWindow - 1)}
             new == {r \in all' : r.by = x /\ r.at \in t..(t + RateWindow - 1)}
  <2>1. CASE x = p /\ reportTick \in t..(t + RateWindow - 1)
    <3> DEFINE mine == Recent(filed[p])
    <3>1. IsFiniteSet(mine) /\ Cardinality(mine) \in Nat
      <4>1. mine \subseteq all
        BY DEF Recent, ReportsTypeOK
      <4> QED
        BY <1>2, <4>1, FS_Subset, FS_CardinalityType
    <3>2. new \subseteq mine \cup {report}
      <4> SUFFICES ASSUME NEW r \in new, r # report PROVE r \in mine
        OBVIOUS
      <4>1. r \in all /\ r.by = p /\ r.at \in Nat /\ r.at >= t
        BY <1>2, <2>1
      <4>2. reportTick - r.at < RateWindow
        BY <1>1, <2>1, <4>1
      <4> QED
        BY <4>1, <4>2 DEF FiledKept, Recent, Within
    <3> HIDE DEF mine, new, earlier
    <3>3. /\ IsFiniteSet(mine \cup {report})
          /\ Cardinality(mine \cup {report}) <= Cardinality(mine) + 1
      <4>1. CASE report \in mine
        <5>1. mine \cup {report} = mine
          BY <4>1
        <5> QED
          BY <3>1, <5>1
      <4>2. CASE report \notin mine
        <5>1. /\ IsFiniteSet(mine \cup {report})
              /\ Cardinality(mine \cup {report}) = Cardinality(mine) + 1
          BY <3>1, <4>2, FS_AddElement
        <5> QED
          BY <3>1, <5>1
      <4> QED
        BY <4>1, <4>2
    <3>4. Cardinality(new) <= Cardinality(mine \cup {report}) /\ Cardinality(new) \in Nat
          /\ Cardinality(mine \cup {report}) \in Nat
      BY <3>2, <3>3, FS_Subset, FS_CardinalityType
    <3>5. Cardinality(mine) < HourlyLimit
      BY DEF mine
    <3>6. Cardinality(new) <= HourlyLimit
      BY <1>1, <3>1, <3>3, <3>4, <3>5
    <3> QED
      BY <3>6 DEF new
  <2>2. CASE ~(x = p /\ reportTick \in t..(t + RateWindow - 1))
    <3>1. new = earlier
      BY <1>1, <2>2
    <3>2. Cardinality(earlier) <= HourlyLimit
      BY DEF ReportsSound
    <3> QED
      BY <3>1, <3>2
  <2> QED
    BY <2>1, <2>2
<1>7. ASSUME NEW x \in Reporters
      PROVE  x \in shadowBanned' <=>
                \E t \in 0..LastReportTick :
                    Cardinality({r \in all' : r.against = x
                        /\ r.at \in t..(t + BanWindow - 1)})
                        >= BanThreshold
  <2> DEFINE earlier(t) == {r \in all : r.against = x /\ r.at \in t..(t + BanWindow - 1)}
             new(t) == {r \in all' : r.against = x /\ r.at \in t..(t + BanWindow - 1)}
             today == {r \in received[q] \cup {report} : Within(r.at, BanWindow)}
  <2>1. \A t \in 0..LastReportTick :
            /\ IsFiniteSet(new(t)) /\ Cardinality(new(t)) \in Nat
            /\ Cardinality(earlier(t)) \in Nat
                   /\ Cardinality(earlier(t)) <= Cardinality(new(t))
    <3> SUFFICES ASSUME NEW t \in 0..LastReportTick
                 PROVE  /\ IsFiniteSet(new(t)) /\ Cardinality(new(t)) \in Nat
                        /\ Cardinality(earlier(t)) \in Nat
                        /\ Cardinality(earlier(t)) <= Cardinality(new(t))
      OBVIOUS
    <3>1. new(t) \subseteq all' /\ earlier(t) \subseteq new(t)
      OBVIOUS
    <3> QED
      BY <1>3, <3>1, FS_Subset, FS_CardinalityType
  <2>2. x \in shadowBanned <=>
            \E t \in 0..LastReportTick : Cardinality(earlier(t)) >= BanThreshold
    BY DEF ReportsSound
  <2>3. IsFiniteSet(today) /\ Cardinality(today) \in Nat
    <3>1. today \subseteq all'
      BY DEF ReportsTypeOK
    <3> QED
      BY <1>3, <3>1, FS_Subset, FS_CardinalityType
  <2>4. \A r \in today : r \in all' /\ r.against = q /\ r.at \in Nat /\ r.at <= reportTick
                            /\ reportTick - r.at < BanWindow
    BY <1>1, <1>2 DEF FiledKept, Within
  <2>5. \A t \in 0..LastReportTick :
            x = q /\ reportTick \in t..(t + BanWindow - 1) => new(t) \subseteq today
    <3> SUFFICES ASSUME NEW t \in 0..LastReportTick, x = q,
                        reportTick \in t..(t + BanWindow - 1), NEW r \in new(t)
                 PROVE  r \in today
      OBVIOUS
    <3>1. r \in received[q] \cup {report}
      BY DEF FiledKept
    <3>2. r.at \in Nat /\ reportTick - r.at < BanWindow
      BY <1>1, <1>2
    <3> QED
      BY <3>1, <3>2 DEF Within
  <2>6. \A t \in 0..LastReportTick :
            ~(x = q /\ reportTick \in t..(t + BanWindow - 1)) => new(t) = earlier(t)
    BY <1>1
  <2>7. ASSUME x = q, Cardinality(today) >= BanThreshold
        PROVE  \E t \in 0..LastReportTick : Cardinality(new(t)) >= BanThreshold
    <3> DEFINE t == IF reportTick - BanWindow + 1 < 0 THEN 0 ELSE reportTick - BanWindow + 1
    <3>1. t \in 0..LastReportTick
      <4>1. CASE BanWindow = 0
        <5>1. today = {}
          <6> SUFFICES ASSUME NEW r \in today PROVE FALSE
            OBVIOUS
          <6>1. r.at \in Nat /\ r.at <= reportTick /\ reportTick - r.at < BanWindow
            BY <2>4
          <6> QED
            BY <1>1, <4>1, <6>1
        <5>2. Cardinality(today) = 0
          BY <5>1, FS_EmptySet
        <5> QED
          BY <1>1, <2>7, <5>2
      <4>2. CASE BanWindow # 0
        BY <1>1, <4>2
      <4> QED
        BY <4>1, <4>2
    <3>2. today \subseteq new(t)
      <4> SUFFICES ASSUME NEW r \in today PROVE r \in new(t)
        OBVIOUS
      <4>1. r \in all' /\ r.against = q /\ r.at \in Nat /\ r.at <= reportTick
            /\ reportTick - r.at < BanWindow
        BY <2>4
      <4>2. r.at >= t /\ r.at <= t + BanWindow - 1
        BY <1>1, <4>1
      <4>3. r.at \in t..(t + BanWindow - 1)
        BY <1>1, <3>1, <4>1, <4>2
      <4> QED
        BY <2>7, <4>1, <4>3
    <3> HIDE DEF t, new, today
    <3>3. Cardinality(today) <= Cardinality(new(t)) /\ Cardinality(new(t)) \in Nat
      BY <2>1, <3>1, <3>2, FS_Subset
    <3> QED
      BY <1>1, <2>3, <2>7, <3>1, <3>3
  <2>8. ASSUME NEW t \in 0..LastReportTick, Cardinality(new(t)) >= BanThreshold
        PROVE  \/ Cardinality(earlier(t)) >= BanThreshold
               \/ x = q /\ Cardinality(today) >= BanThreshold
    <3> HIDE DEF new, today, earlier
    <3>1. CASE x = q /\ reportTick \in t..(t + BanWindow - 1)
      <4>1. new(t) \subseteq today
        BY <2>5, <3>1
      <4>2. Cardinality(new(t)) <= Cardinality(today)
        BY <2>3, <4>1, FS_Subset
      <4> QED
        BY <1>1, <2>1, <2>3, <2>8, <3>1, <4>2
    <3>2. CASE ~(x = q /\ reportTick \in t..(t + BanWindow - 1))
      BY <2>6, <2>8, <3>2
    <3> QED
      BY <3>1, <3>2
  <2>9. x \in shadowBanned' <=>
            x \in shadowBanned \/ (x = q /\ Cardinality(today) >= BanThreshold)
    OBVIOUS
  <2>10. x \in shadowBanned =>
             \E t \in 0..LastReportTick : Cardinality(new(t)) >= BanThreshold
    <3> HIDE DEF new, earlier
    <3> SUFFICES ASSUME x \in shadowBanned
                 PROVE  \E t \in 0..LastReportTick : Cardinality(new(t)) >= BanThreshold
      OBVIOUS
    <3>1. PICK t \in 0..LastReportTick : Cardinality(earlier(t)) >= BanThreshold
      BY <2>2
    <3> QED
      BY <1>1, <2>1, <3>1
  <2> HIDE DEF new, earlier, today
  <2>11. x \in shadowBanned' <=> \E t \in 0..LastReportTick : Cardinality(new(t)) >= BanThreshold
    BY <2>2, <2>7, <2>8, <2>9, <2>10
  <2> QED
    BY <2>11 DEF new
<1>8. ReportsSound'
  BY <1>6, <1>7 DEF ReportsSound
<1> QED
  BY <1>4, <1>5, <1>8

LEMMA ReportsStep == ReportsInv /\ [ReportsNext]_reportVars => ReportsInv'
<1> SUFFICES ASSUME ReportsInv, [ReportsNext]_reportVars PROVE ReportsInv'
  OBVIOUS
<1>1. ASSUME NEW p \in Reporters, NEW q \in Reporters, NEW game \in Evidence,
             FileReport(p, q, game)
      PROVE  ReportsInv'
  <2> DEFINE report == [by |-> p, against |-> q, game |-> game, at |-> reportTick]
  <2>1. CASE Cardinality(Recent(filed[p])) >= HourlyLimit
    <3>1. /\ filed' = [filed EXCEPT ![p] = Recent(filed[p])]
          /\ UNCHANGED <<reportTick, received, shadowBanned, all>>
      BY <1>1, <2>1 DEF FileReport
    <3>2. ReportsTypeOK'
      BY <3>1 DEF ReportsInv, ReportsTypeOK, Recent
    <3>3. FiledKept'
      BY <3>1 DEF ReportsInv, ReportsTypeOK, FiledKept, Recent, Within
    <3>4. ReportsSound'
      BY <3>1 DEF ReportsInv, ReportsSound
    <3> QED
      BY <3>2, <3>3, <3>4 DEF ReportsInv
  <2>2. CASE ~(Cardinality(Recent(filed[p])) >= HourlyLimit)
    <3>1. /\ filed' = [filed EXCEPT ![p] = Recent(filed[p]) \cup {report}]
          /\ received' = [received EXCEPT ![q] = received[q] \cup {report}]
          /\ shadowBanned' =
               IF Cardinality({r \in received[q] \cup {report} : Within(r.at, BanWindow)})
                      >= BanThreshold
               THEN shadowBanned \cup {q} ELSE shadowBanned
          /\ all' = all \cup {report} /\ reportTick' = reportTick
      BY <1>1, <2>2 DEF FileReport
    <3>2. Cardinality(Recent(filed[p])) < HourlyLimit
      <4>1. Recent(filed[p]) \subseteq all
        BY DEF ReportsInv, ReportsTypeOK, Recent
      <4>2. Cardinality(Recent(filed[p])) \in Nat
        BY <4>1, FS_Subset, FS_CardinalityType DEF ReportsInv, ReportsTypeOK
      <4> QED
        BY <2>2, <4>2, ReportsAssumption
    <3> QED
      BY <3>1, <3>2, ReportCounts
  <2> QED
    BY <2>1, <2>2
<1>2. ASSUME ReportTimePasses PROVE ReportsInv'
  <2>1. /\ reportTick < LastReportTick /\ reportTick' = reportTick + 1
        /\ UNCHANGED <<filed, received, shadowBanned, all>>
    BY <1>2 DEF ReportTimePasses
  <2>2. ReportsTypeOK'
    <3>1. reportTick \in Nat /\ LastReportTick \in Nat
      BY ReportsAssumption DEF ReportsInv, ReportsTypeOK
    <3>2. \A r \in all : r.at \in Nat /\ r.at <= reportTick
      BY <3>1 DEF ReportsInv, ReportsTypeOK, Report
    <3> QED
      BY <2>1, <3>1, <3>2 DEF ReportsInv, ReportsTypeOK
  <2>3. FiledKept'
    <3>1. reportTick \in Nat /\ RateWindow \in Nat /\ \A r \in all : r.at \in Nat
      BY ReportsAssumption DEF ReportsInv, ReportsTypeOK, Report
    <3>2. \A r \in all : reportTick' - r.at < RateWindow => reportTick - r.at < RateWindow
      BY <2>1, <3>1
    <3> QED
      BY <2>1, <3>2 DEF ReportsInv, FiledKept, Within
  <2>4. ReportsSound'
    BY <2>1 DEF ReportsInv, ReportsSound
  <2> QED
    BY <2>2, <2>3, <2>4 DEF ReportsInv
<1>3. ASSUME UNCHANGED reportVars PROVE ReportsInv'
  BY <1>3 DEF reportVars, ReportsInv, ReportsTypeOK, FiledKept, ReportsSound, Within
<1> QED
  BY <1>1, <1>2, <1>3 DEF ReportsNext

\* No hour holds more reports of a player than the limit, and who is banned was reported
\* often enough within a day, wherever the windows begin.
THEOREM ReportsCountInTheirWindows == ReportsSpec => []ReportsSound
<1>1. ReportsInv => ReportsSound
  BY DEF ReportsInv
<1> QED
  BY <1>1, ReportsStart, ReportsStep, PTL DEF ReportsSpec

-----------------------------------------------------------------------------
(***************************************************************************)
(* Spectators.  A frame is carried once, so that it has one place in what  *)
(* was carried; the queue of a subscriber is the end of that, and what he  *)
(* got lies before, in order (InTurn).  A queue is full only after a frame *)
(* that came since its owner last took one (QueueKept).                    *)
(***************************************************************************)
Watchers ==
    [socket : {"none", "open", "overflowed"}, subscribed : BOOLEAN, queue : Seq(Nat),
     overflows : Nat, closed : BOOLEAN, since : Nat, got : Seq(Nat), dropped : Nat,
     stalled : Nat]

FanoutTypeOK ==
    /\ published \in Nat /\ publishing \in SUBSET Nat /\ carried \in Seq(Nat)
    /\ watcher \in [Spectators -> Watchers]
    /\ counting \in SUBSET (Spectators \X {1, -1}) /\ count \in Int /\ uncounted \in Int

Distinct(c) == \A i, j \in 1..Len(c) : c[i] = c[j] => i = j

\* A frame that was not carried yet.
Fresh(f, c) == \A i \in 1..Len(c) : c[i] # f

FramesOnce ==
    /\ \A f \in publishing : f <= published
    /\ \A i \in 1..Len(carried) : carried[i] <= published /\ carried[i] \notin publishing
    /\ Distinct(carried)

QueueKept(w) ==
    /\ Len(w.queue) <= QueueCapacity
    /\ w.subscribed => w.socket = "open" /\ ~w.closed
    /\ ~w.subscribed /\ ~w.closed => w.queue = <<>> /\ w.got = <<>> /\ w.dropped = 0
    /\ w.socket = "open" /\ Len(w.queue) = QueueCapacity => w.stalled >= w.overflows + 1
    /\ w.socket = "overflowed" => w.stalled > MaxOverflows

\* Of n frames carried, q wait and g were got.
Placed(queued, q, got, g, since, dropped, c, n) ==
    /\ since + q <= n /\ g + dropped = n - q - since
    /\ \A i \in 1..q : queued[i] = c[n - q + i]
    /\ \A i \in 1..g : \E k \in (since + 1)..(n - q) : got[i] = c[k]
    /\ \A i, j \in 1..g, k, l \in 1..n : i < j /\ got[i] = c[k] /\ got[j] = c[l] => k < l

InTurn(w, c) ==
    Placed(w.queue, Len(w.queue), w.got, Len(w.got), w.since, w.dropped, c, Len(c))

Present == {s \in Spectators : watcher[s].socket # "none"}

Changes(k) == {c \in counting : c[2] = k}

\* What the tasks that have run, or failed, were told to count.
Told == count + uncounted

CountKept ==
    /\ Told = Cardinality(Present) - Cardinality(Changes(1)) + Cardinality(Changes(-1))
    /\ \A s \in Present : <<s, -1>> \notin counting

FanoutInv ==
    /\ FanoutTypeOK /\ FramesOnce /\ CountKept
    /\ \A s \in Spectators :
        QueueKept(watcher[s]) /\ (watcher[s].subscribed => InTurn(watcher[s], carried))

LEMMA FanoutFinite ==
    ASSUME FanoutInv
    PROVE  /\ IsFiniteSet(Present) /\ Cardinality(Present) \in Nat
           /\ \A k : IsFiniteSet(Changes(k)) /\ Cardinality(Changes(k)) \in Nat
<1>1. IsFiniteSet(Spectators) /\ IsFiniteSet({1, -1})
  <2>1. IsFiniteSet({}) /\ {1, -1} = ({} \cup {1}) \cup {-1}
    BY FS_EmptySet
  <2>2. IsFiniteSet({} \cup {1})
    BY <2>1, FS_AddElement
  <2>3. IsFiniteSet(({} \cup {1}) \cup {-1})
    BY <2>2, FS_AddElement
  <2> QED
    BY <2>1, <2>3, FanoutAssumption
<1>2. IsFiniteSet(Spectators \X {1, -1})
  BY <1>1, FS_Product
<1>3. IsFiniteSet(counting)
  BY <1>2, FS_Subset DEF FanoutInv, FanoutTypeOK
<1>4. Present \subseteq Spectators /\ \A k : Changes(k) \subseteq counting
  BY DEF Present, Changes
<1> QED
  BY <1>1, <1>3, <1>4, FS_Subset, FS_CardinalityType

LEMMA NobodyWatches ==
    /\ NotWatching \in Watchers /\ QueueKept(NotWatching)
    /\ NotWatching.socket = "none" /\ ~NotWatching.subscribed
    /\ [NotWatching EXCEPT !.socket = "open"] \in Watchers
    /\ QueueKept([NotWatching EXCEPT !.socket = "open"])
    /\ [NotWatching EXCEPT !.socket = "open"].socket = "open"
    /\ ~[NotWatching EXCEPT !.socket = "open"].subscribed
<1>1. <<>> \in Seq(Nat) /\ Len(<<>>) = 0 /\ QueueCapacity \in Nat /\ QueueCapacity # 0
  BY FanoutAssumption, EmptySeq
<1>2. NotWatching \in Watchers /\ NotWatching.socket = "none" /\ ~NotWatching.subscribed
      /\ NotWatching.queue = <<>> /\ NotWatching.got = <<>> /\ NotWatching.dropped = 0
      /\ ~NotWatching.closed
  BY <1>1 DEF NotWatching, Watchers
<1>3. ASSUME NEW w, w = [NotWatching EXCEPT !.socket = "open"]
      PROVE  /\ w \in Watchers /\ w.socket = "open" /\ ~w.subscribed /\ w.queue = <<>>
             /\ w.got = <<>> /\ w.dropped = 0 /\ ~w.closed
  BY <1>1, <1>3 DEF NotWatching, Watchers
<1>4. QueueKept(NotWatching)
  BY <1>1, <1>2 DEF QueueKept
<1>5. ASSUME NEW w, w = [NotWatching EXCEPT !.socket = "open"] PROVE QueueKept(w)
  <2>1. /\ w.socket = "open" /\ ~w.subscribed /\ w.queue = <<>> /\ w.got = <<>>
        /\ w.dropped = 0 /\ ~w.closed
    BY <1>3, <1>5
  <2>2. Len(w.queue) = 0 /\ Len(w.queue) <= QueueCapacity /\ Len(w.queue) # QueueCapacity
    BY <1>1, <2>1
  <2> QED
    BY <2>1, <2>2 DEF QueueKept
<1> QED
  BY <1>2, <1>3, <1>4, <1>5

LEMMA FanoutStarts == FanoutInit => FanoutInv
<1> SUFFICES ASSUME FanoutInit PROVE FanoutInv
  OBVIOUS
<1>1. /\ published = 0 /\ publishing = {} /\ carried = <<>> /\ Len(carried) = 0
      /\ counting = {} /\ count = 0 /\ uncounted = 0 /\ carried \in Seq(Nat)
      /\ \A s \in Spectators : watcher[s] = NotWatching
      /\ watcher \in [Spectators -> Watchers]
  BY NobodyWatches, EmptySeq DEF FanoutInit
<1>2. Present = {} /\ \A k : Changes(k) = {}
  BY <1>1, NobodyWatches DEF Present, Changes
<1>3. CountKept
  <2>1. Cardinality(Present) = 0 /\ Cardinality(Changes(1)) = 0
            /\ Cardinality(Changes(-1)) = 0
    BY <1>2, FS_EmptySet
  <2> QED
    BY <1>1, <1>2, <2>1 DEF CountKept, Told
<1>4. FramesOnce
  BY <1>1 DEF FramesOnce, Distinct
<1>5. FanoutTypeOK
  BY <1>1 DEF FanoutTypeOK
<1> QED
  BY <1>1, <1>3, <1>4, <1>5, NobodyWatches DEF FanoutInv

\* The first elements of queue are gone from kept.
Less(kept, queued, gone) ==
    /\ kept \in Seq(Nat) /\ Len(kept) = Len(queued) - gone
    /\ \A i \in 1..Len(kept) : kept[i] = queued[i + gone]

\* A frame arrives, and gone is 1 if it displaced another.
LEMMA ArrivalPlaced ==
    ASSUME NEW c \in Seq(Nat), NEW f \in Nat, Fresh(f, c),
           NEW queued \in Seq(Nat), NEW got \in Seq(Nat), NEW since \in Nat, NEW dropped \in Nat,
           Placed(queued, Len(queued), got, Len(got), since, dropped, c, Len(c)), NEW gone \in {0, 1},
           NEW kept, Less(kept, queued, gone),
           NEW d, d = Append(c, f), NEW more, more = Append(kept, f)
    PROVE  Placed(more, Len(more), got, Len(got), since, dropped + gone, d, Len(d))
<1>1. PICK n \in Nat, q \in Nat, g \in Nat, r \in Nat :
        n = Len(c) /\ q = Len(queued) /\ g = Len(got) /\ r = Len(kept)
  BY LenProperties DEF Less
<1>2. /\ Len(d) = n + 1 /\ d[n + 1] = f /\ \A i \in 1..n : d[i] = c[i]
  BY <1>1, Adding
<1>3. /\ Len(more) = r + 1 /\ more[r + 1] = f /\ \A i \in 1..r : more[i] = kept[i]
  BY <1>1, Adding DEF Less
<1>4. /\ r = q - gone /\ \A i \in 1..r : kept[i] = queued[i + gone]
      /\ \A i \in 1..n : c[i] # f
  BY <1>1 DEF Less, Fresh
<1>5. /\ since + q <= n /\ g + dropped = n - q - since
      /\ \A i \in 1..q : queued[i] = c[n - q + i]
      /\ \A i \in 1..g : \E k \in (since + 1)..(n - q) : got[i] = c[k]
      /\ \A i, j \in 1..g, k, l \in 1..n : i < j /\ got[i] = c[k] /\ got[j] = c[l] => k < l
  BY <1>1 DEF Placed
<1> SUFFICES Placed(more, r + 1, got, g, since, dropped + gone, d, n + 1)
  BY <1>1, <1>2, <1>3
<1>6. since + (r + 1) <= n + 1 /\ g + (dropped + gone) = (n + 1) - (r + 1) - since
  <2>1. r = q - gone /\ since + q <= n /\ g + dropped = n - q - since
    BY <1>4, <1>5
  <2> QED
    BY <2>1
<1>7. \A i \in 1..(r + 1) : more[i] = d[(n + 1) - (r + 1) + i]
  <2> SUFFICES ASSUME NEW i \in 1..(r + 1) PROVE more[i] = d[(n + 1) - (r + 1) + i]
    OBVIOUS
  <2>1. CASE i = r + 1
    <3>1. (n + 1) - (r + 1) + i = n + 1
      BY <2>1
    <3> QED
      BY <1>2, <1>3, <2>1, <3>1
  <2>2. CASE i \in 1..r
    <3>1. i + gone \in 1..q /\ n - q + (i + gone) = (n + 1) - (r + 1) + i
          /\ n - q + (i + gone) \in 1..n
      <4>1. r = q - gone /\ since + q <= n
        BY <1>4, <1>5
      <4> QED
        BY <2>2, <4>1
    <3>2. more[i] = queued[i + gone]
      BY <1>3, <1>4, <2>2
    <3>3. queued[i + gone] = c[n - q + (i + gone)]
      BY <1>5, <3>1
    <3>4. d[n - q + (i + gone)] = c[n - q + (i + gone)]
      BY <1>2, <3>1
    <3> QED
      BY <3>1, <3>2, <3>3, <3>4
  <2>3. i = r + 1 \/ i \in 1..r
    OBVIOUS
  <2> QED
    BY <2>1, <2>2, <2>3
<1>8. \A i \in 1..g : \E k \in (since + 1)..((n + 1) - (r + 1)) : got[i] = d[k]
  <2> SUFFICES ASSUME NEW i \in 1..g
               PROVE  \E k \in (since + 1)..((n + 1) - (r + 1)) : got[i] = d[k]
    OBVIOUS
  <2>1. PICK k \in (since + 1)..(n - q) : got[i] = c[k]
    BY <1>5
  <2>2. k \in (since + 1)..((n + 1) - (r + 1)) /\ k \in 1..n
    <3>1. r = q - gone
      BY <1>4
    <3> QED
      BY <3>1
  <2>3. d[k] = c[k]
    BY <1>2, <2>2
  <2> QED
    BY <2>1, <2>2, <2>3
<1>9. \A i, j \in 1..g, k, l \in 1..(n + 1) :
        i < j /\ got[i] = d[k] /\ got[j] = d[l] => k < l
  <2>1. \A h \in 1..g, m \in 1..(n + 1) : got[h] = d[m] => m \in 1..n
    <3> SUFFICES ASSUME NEW h \in 1..g, NEW m \in 1..(n + 1), got[h] = d[m], m \notin 1..n
                 PROVE  FALSE
      OBVIOUS
    <3>1. PICK k \in (since + 1)..(n - q) : got[h] = c[k]
      BY <1>5
    <3>2. k \in 1..n /\ m = n + 1
      OBVIOUS
    <3> QED
      BY <1>2, <1>4, <3>1, <3>2
  <2> SUFFICES ASSUME NEW i \in 1..g, NEW j \in 1..g, NEW k \in 1..(n + 1),
                      NEW l \in 1..(n + 1), i < j, got[i] = d[k], got[j] = d[l]
               PROVE  k < l
    OBVIOUS
  <2>2. k \in 1..n /\ l \in 1..n
    BY <2>1
  <2>3. d[k] = c[k] /\ d[l] = c[l]
    BY <1>2, <2>2
  <2> QED
    BY <1>5, <2>2, <2>3
<1> QED
  BY <1>6, <1>7, <1>8, <1>9 DEF Placed

\* A frame is taken.
LEMMA TakingPlaced ==
    ASSUME NEW c \in Seq(Nat), Distinct(c), NEW queued \in Seq(Nat), queued # <<>>,
           NEW got \in Seq(Nat), NEW since \in Nat, NEW dropped \in Nat,
           Placed(queued, Len(queued), got, Len(got), since, dropped, c, Len(c)),
           NEW rest, rest = Tail(queued), NEW more, more = Append(got, Head(queued))
    PROVE  Placed(rest, Len(rest), more, Len(more), since, dropped, c, Len(c))
<1>1. PICK n \in Nat, q \in Nat, g \in Nat : n = Len(c) /\ q = Len(queued) /\ g = Len(got)
  BY LenProperties
<1>2. /\ q >= 1 /\ Head(queued) = queued[1] /\ Head(queued) \in Nat /\ Len(rest) = q - 1
      /\ \A i \in 1..(q - 1) : rest[i] = queued[i + 1]
  BY <1>1, Dropping
<1>3. Len(more) = g + 1 /\ more[g + 1] = queued[1] /\ \A i \in 1..g : more[i] = got[i]
  BY <1>1, <1>2, Adding
<1>4. /\ since + q <= n /\ g + dropped = n - q - since
      /\ \A i \in 1..q : queued[i] = c[n - q + i]
      /\ \A i \in 1..g : \E k \in (since + 1)..(n - q) : got[i] = c[k]
      /\ \A i, j \in 1..g, k, l \in 1..n : i < j /\ got[i] = c[k] /\ got[j] = c[l] => k < l
      /\ \A k, l \in 1..n : c[k] = c[l] => k = l
  <2>1. Placed(queued, q, got, g, since, dropped, c, n)
    BY <1>1
  <2>2. \A k, l \in 1..n : c[k] = c[l] => k = l
    BY <1>1 DEF Distinct
  <2> QED
    BY <2>1, <2>2 DEF Placed
<1> SUFFICES Placed(rest, q - 1, more, g + 1, since, dropped, c, n)
  BY <1>1, <1>2, <1>3
<1>5. since + (q - 1) <= n /\ (g + 1) + dropped = n - (q - 1) - since
  <2>1. q >= 1 /\ since + q <= n /\ g + dropped = n - q - since
    BY <1>2, <1>4
  <2> QED
    BY <2>1
<1>6. \A i \in 1..(q - 1) : rest[i] = c[n - (q - 1) + i]
  <2> SUFFICES ASSUME NEW i \in 1..(q - 1) PROVE rest[i] = c[n - (q - 1) + i]
    OBVIOUS
  <2>1. i + 1 \in 1..q /\ n - q + (i + 1) = n - (q - 1) + i
    OBVIOUS
  <2>2. rest[i] = queued[i + 1] /\ queued[i + 1] = c[n - q + (i + 1)]
    BY <1>2, <1>4, <2>1
  <2> QED
    BY <2>1, <2>2
<1>7. PICK at \in 1..n : /\ at = n - q + 1 /\ at = n - (q - 1) /\ more[g + 1] = c[at]
                         /\ at >= since + 1
  <2>1. 1 \in 1..q /\ n - q + 1 \in 1..n /\ n - q + 1 = n - (q - 1)
            /\ n - q + 1 >= since + 1
    <3>1. q >= 1 /\ since + q <= n
      BY <1>2, <1>4
    <3> QED
      BY <3>1
  <2> QED
    BY <1>3, <1>4, <2>1
<1>8. \A i \in 1..g : \E k \in 1..n : /\ k \in (since + 1)..(n - (q - 1)) /\ k < at
                                      /\ more[i] = c[k]
  <2> SUFFICES ASSUME NEW i \in 1..g
               PROVE  \E k \in 1..n : /\ k \in (since + 1)..(n - (q - 1)) /\ k < at
                                      /\ more[i] = c[k]
    OBVIOUS
  <2>1. PICK k \in (since + 1)..(n - q) : got[i] = c[k]
    BY <1>4
  <2>2. k \in 1..n /\ k \in (since + 1)..(n - (q - 1)) /\ k < at
    BY <1>7
  <2>3. more[i] = c[k]
    BY <1>3, <2>1
  <2> QED
    BY <2>2, <2>3
<1>9. \A i \in 1..(g + 1) : i \in 1..g \/ i = g + 1
  OBVIOUS
<1>10. \A i \in 1..(g + 1) : \E k \in (since + 1)..(n - (q - 1)) : more[i] = c[k]
  <2>1. at \in (since + 1)..(n - (q - 1))
    BY <1>7
  <2> QED
    BY <1>7, <1>8, <1>9, <2>1
<1>11. \A i, j \in 1..(g + 1), k, l \in 1..n :
        i < j /\ more[i] = c[k] /\ more[j] = c[l] => k < l
  <2> SUFFICES ASSUME NEW i \in 1..(g + 1), NEW j \in 1..(g + 1), NEW k \in 1..n,
                      NEW l \in 1..n, i < j, more[i] = c[k], more[j] = c[l]
               PROVE  k < l
    OBVIOUS
  <2>1. i \in 1..g
    OBVIOUS
  <2>2. CASE j \in 1..g
    BY <1>3, <1>4, <2>1, <2>2
  <2>3. CASE j = g + 1
    <3>1. l = at
      BY <1>4, <1>7, <2>3
    <3>2. PICK m \in 1..n : m < at /\ more[i] = c[m]
      BY <1>8, <2>1
    <3>3. k = m
      BY <1>4, <3>2
    <3> QED
      BY <3>1, <3>2, <3>3
  <2> QED
    BY <1>9, <2>2, <2>3
<1> QED
  BY <1>5, <1>6, <1>10, <1>11 DEF Placed

\* A frame arrives.
LEMMA PushKeeps ==
    ASSUME NEW c \in Seq(Nat), Distinct(c), NEW f \in Nat, Fresh(f, c),
           NEW w \in Watchers, w.subscribed, QueueKept(w), InTurn(w, c),
           NEW d, d = Append(c, f), NEW v, v = Push(w, f)
    PROVE  /\ v \in Watchers /\ QueueKept(v) /\ v.socket # "none"
           /\ v.subscribed => InTurn(v, d)
<1> DEFINE over == Overflows(w) >= MaxOverflows
           full == Len(w.queue) = QueueCapacity
           kept == IF full THEN Tail(w.queue) ELSE w.queue
           gone == IF full THEN 1 ELSE 0
<1>1. /\ QueueCapacity \in Nat /\ QueueCapacity >= 1 /\ MaxOverflows \in Nat
      /\ w.queue \in Seq(Nat) /\ w.got \in Seq(Nat) /\ w.since \in Nat /\ w.dropped \in Nat
      /\ w.overflows \in Nat /\ w.stalled \in Nat /\ w.socket = "open" /\ ~w.closed
      /\ Len(w.queue) \in Nat /\ Len(w.got) \in Nat /\ Len(c) \in Nat
      /\ Len(w.queue) <= QueueCapacity
  BY FanoutAssumption, LenProperties DEF Watchers, QueueKept
<1>2. /\ Len(d) = Len(c) + 1 /\ d \in Seq(Nat) /\ d[Len(c) + 1] = f
      /\ \A i \in 1..Len(c) : d[i] = c[i]
  BY Adding
<1>3. Displaced(w) = gone /\ Overflows(w) = (IF full THEN w.overflows + 1 ELSE 0)
  BY DEF Displaced, Overflows
<1>4. /\ v.queue = Append(kept, f) /\ v.overflows = Overflows(w)
      /\ v.dropped = w.dropped + gone /\ v.stalled = w.stalled + 1
      /\ v.subscribed = ~over /\ v.closed = over /\ v.got = w.got /\ v.since = w.since
      /\ v.socket = (IF over THEN "overflowed" ELSE "open")
      /\ v = [socket |-> v.socket, subscribed |-> v.subscribed, queue |-> v.queue,
              overflows |-> v.overflows, closed |-> v.closed, since |-> v.since,
              got |-> v.got, dropped |-> v.dropped, stalled |-> v.stalled]
  <2>1. w = [socket |-> w.socket, subscribed |-> w.subscribed, queue |-> w.queue,
             overflows |-> w.overflows, closed |-> w.closed, since |-> w.since,
             got |-> w.got, dropped |-> w.dropped, stalled |-> w.stalled]
    BY DEF Watchers
  <2>2. v = [socket |-> IF over THEN "overflowed" ELSE w.socket, subscribed |-> ~over,
             queue |-> Append(IF Displaced(w) = 1 THEN Tail(w.queue) ELSE w.queue, f),
             overflows |-> Overflows(w), closed |-> over, since |-> w.since,
             got |-> w.got, dropped |-> w.dropped + Displaced(w), stalled |-> w.stalled + 1]
    BY <2>1 DEF Push
  <2>3. (Displaced(w) = 1) <=> full
    BY <1>3
  <2> HIDE DEF over, full
  <2> QED
    BY <1>1, <1>3, <2>2, <2>3, SMTT(30)
<1>5. /\ kept \in Seq(Nat) /\ Len(kept) = Len(w.queue) - gone /\ Len(kept) \in Nat
      /\ \A i \in 1..Len(kept) : kept[i] = w.queue[i + gone]
  <2>1. CASE full
    <3>1. w.queue # <<>>
      BY <1>1, <2>1, EmptySeq
    <3> HIDE DEF full
    <3> QED
      BY <1>1, <2>1, <3>1, Dropping
  <2>2. CASE ~full
    BY <1>1, <2>2
  <2> QED
    BY <2>1, <2>2
<1>6. gone \in {0, 1} /\ (gone = 1 <=> full)
  OBVIOUS
<1>7. over \in BOOLEAN /\ (over => Overflows(w) >= MaxOverflows)
  OBVIOUS
<1> HIDE DEF kept, gone, over
<1>8. /\ v.queue \in Seq(Nat) /\ Len(v.queue) = Len(kept) + 1 /\ v.queue[Len(kept) + 1] = f
      /\ \A i \in 1..Len(kept) : v.queue[i] = kept[i]
  BY <1>4, <1>5, Adding
<1>9. v \in Watchers
  <2>1. v.overflows \in Nat /\ v.dropped \in Nat /\ v.stalled \in Nat
    <3>1. /\ Overflows(w) \in Nat /\ w.dropped \in Nat /\ w.stalled \in Nat /\ gone \in Nat
      BY <1>1, <1>3, <1>6
    <3>2. v.overflows = Overflows(w) /\ v.dropped = w.dropped + gone
              /\ v.stalled = w.stalled + 1
      BY <1>4
    <3> QED
      BY <3>1, <3>2
  <2>2. v.subscribed \in BOOLEAN /\ v.closed \in BOOLEAN
        /\ v.socket \in {"none", "open", "overflowed"}
    BY <1>4, <1>7
  <2> QED
    BY <1>1, <1>4, <1>8, <2>1, <2>2 DEF Watchers
<1>10. QueueKept(v)
  <2>1. Len(v.queue) = Len(w.queue) - gone + 1 /\ Len(v.queue) <= QueueCapacity
    <3>1. /\ Len(v.queue) = Len(kept) + 1 /\ Len(kept) = Len(w.queue) - gone
          /\ Len(w.queue) \in Nat /\ QueueCapacity \in Nat /\ Len(w.queue) <= QueueCapacity
          /\ gone \in {0, 1} /\ (gone = 1 <=> Len(w.queue) = QueueCapacity)
      BY <1>1, <1>5, <1>6, <1>8 DEF full
    <3> QED
      BY <3>1
  <2>2. v.stalled >= v.overflows + 1
    <3>1. CASE full
      <4>1. w.stalled >= w.overflows + 1
        BY <1>1, <3>1 DEF QueueKept
      <4> QED
        BY <1>1, <1>3, <1>4, <3>1, <4>1
    <3>2. CASE ~full
      BY <1>1, <1>3, <1>4, <3>2
    <3> QED
      BY <3>1, <3>2
  <2>3. over => v.stalled > MaxOverflows
    <3>1. v.overflows \in Nat /\ v.stalled \in Nat /\ (over => v.overflows >= MaxOverflows)
      BY <1>4, <1>7, <1>9 DEF Watchers
    <3> QED
      BY <1>1, <2>2, <3>1
  <2>4. v.subscribed \/ v.closed
    BY <1>4
  <2>5. v.subscribed => v.socket = "open" /\ ~v.closed
    BY <1>4
  <2>6. v.socket = "overflowed" => over
    BY <1>4
  <2> QED
    BY <2>1, <2>2, <2>3, <2>4, <2>5, <2>6 DEF QueueKept
<1>11. InTurn(v, d)
  <2>1. Placed(w.queue, Len(w.queue), w.got, Len(w.got), w.since, w.dropped, c, Len(c))
    BY DEF InTurn
  <2>2. Placed(v.queue, Len(v.queue), w.got, Len(w.got), w.since, w.dropped + gone, d, Len(d))
    <3>1. /\ w.queue \in Seq(Nat) /\ w.got \in Seq(Nat) /\ w.since \in Nat
                 /\ w.dropped \in Nat
          /\ v.queue = Append(kept, f) /\ gone \in {0, 1}
          /\ Less(kept, w.queue, gone)
      BY <1>1, <1>4, <1>5, <1>6 DEF Less
    <3>2. PICK queued \in Seq(Nat), got \in Seq(Nat), since \in Nat, dropped \in Nat,
               away \in {0, 1}, left \in {kept}, more \in {v.queue} :
            /\ queued = w.queue /\ got = w.got /\ since = w.since /\ dropped = w.dropped
            /\ away = gone /\ left = kept /\ more = v.queue
      BY <3>1
    <3>3. /\ more = Append(left, f) /\ Less(left, queued, away)
          /\ Placed(queued, Len(queued), got, Len(got), since, dropped, c, Len(c))
      BY <2>1, <3>1, <3>2
    <3>4. Placed(more, Len(more), got, Len(got), since, dropped + away, d, Len(d))
      BY ZenonT(40), <3>3, ArrivalPlaced
    <3> QED
      BY <3>2, <3>4
  <2> QED
    BY <1>4, <2>2 DEF InTurn
<1> QED
  BY <1>4, <1>9, <1>10, <1>11

\* A frame is taken.
LEMMA PumpKeeps ==
    ASSUME NEW c \in Seq(Nat), Distinct(c), NEW w \in Watchers, w.queue # <<>>,
           QueueKept(w), w.subscribed => InTurn(w, c), NEW n \in Nat,
           w.socket # "open" => n = w.stalled, NEW v,
           v = [w EXCEPT !.got = Append(@, Head(w.queue)), !.queue = Tail(@), !.stalled = n]
    PROVE  /\ v \in Watchers /\ QueueKept(v) /\ v.socket = w.socket
           /\ v.subscribed => InTurn(v, c)
<1>1. /\ QueueCapacity \in Nat /\ QueueCapacity >= 1
      /\ w.queue \in Seq(Nat) /\ w.got \in Seq(Nat) /\ w.since \in Nat /\ w.dropped \in Nat
      /\ Len(w.queue) \in Nat /\ Len(w.got) \in Nat /\ Len(c) \in Nat
      /\ Len(w.queue) <= QueueCapacity
  BY FanoutAssumption, LenProperties DEF Watchers, QueueKept
<1>2. /\ v.got = Append(w.got, Head(w.queue)) /\ v.queue = Tail(w.queue) /\ v.stalled = n
      /\ v.socket = w.socket /\ v.subscribed = w.subscribed /\ v.closed = w.closed
      /\ v.since = w.since /\ v.dropped = w.dropped /\ v.overflows = w.overflows
      /\ v = [socket |-> v.socket, subscribed |-> v.subscribed, queue |-> v.queue,
              overflows |-> v.overflows, closed |-> v.closed, since |-> v.since,
              got |-> v.got, dropped |-> v.dropped, stalled |-> v.stalled]
  BY DEF Watchers
<1>3. /\ Len(w.queue) >= 1 /\ Head(w.queue) = w.queue[1] /\ Head(w.queue) \in Nat
      /\ v.queue \in Seq(Nat) /\ Len(v.queue) = Len(w.queue) - 1
      /\ \A i \in 1..Len(v.queue) : v.queue[i] = w.queue[i + 1]
  <2>1. w.queue \in Seq(Nat) /\ v.queue = Tail(w.queue)
    BY <1>1, <1>2
  <2> QED
    BY <2>1, Dropping
<1>4. /\ v.got \in Seq(Nat) /\ Len(v.got) = Len(w.got) + 1
      /\ v.got[Len(w.got) + 1] = w.queue[1] /\ \A i \in 1..Len(w.got) : v.got[i] = w.got[i]
  BY <1>1, <1>2, <1>3, Adding
<1>5. v \in Watchers
  BY <1>2, <1>3, <1>4 DEF Watchers
<1>6. QueueKept(v)
  <2>1. Len(v.queue) < QueueCapacity
    BY <1>1, <1>3
  <2>2. v.subscribed \/ v.closed
    BY <1>2 DEF QueueKept, Watchers
  <2>3. v.subscribed => v.socket = "open" /\ ~v.closed
    BY <1>2 DEF QueueKept
  <2>4. v.socket = "overflowed" => v.stalled > MaxOverflows
    BY <1>2 DEF QueueKept
  <2> QED
    BY <1>1, <1>3, <2>1, <2>2, <2>3, <2>4 DEF QueueKept
<1>7. ASSUME w.subscribed PROVE InTurn(v, c)
  <2>1. Placed(w.queue, Len(w.queue), w.got, Len(w.got), w.since, w.dropped, c, Len(c))
    BY <1>7 DEF InTurn
  <2>2. Placed(v.queue, Len(v.queue), v.got, Len(v.got), w.since, w.dropped, c, Len(c))
    <3>1. /\ w.queue \in Seq(Nat) /\ w.got \in Seq(Nat) /\ w.since \in Nat
                 /\ w.dropped \in Nat
          /\ v.queue = Tail(w.queue) /\ v.got = Append(w.got, Head(w.queue))
      BY <1>1, <1>2
    <3> QED
      BY <2>1, <3>1, TakingPlaced
  <2> QED
    BY <1>2, <2>2 DEF InTurn
<1> QED
  BY <1>2, <1>5, <1>6, <1>7

\* Only one connection changes, and not whether it is there.
LEMMA OneWatches ==
    ASSUME FanoutInv, NEW s \in Spectators, NEW v \in Watchers,
           watcher' = [watcher EXCEPT ![s] = v], QueueKept(v),
           v.subscribed => InTurn(v, carried), v.socket # "none", watcher[s].socket # "none",
           UNCHANGED <<published, publishing, carried, counting, count, uncounted>>
    PROVE  FanoutInv'
<1>1. /\ watcher' \in [Spectators -> Watchers] /\ watcher'[s] = v
      /\ \A u \in Spectators : u # s => watcher'[u] = watcher[u]
  BY DEF FanoutInv, FanoutTypeOK
<1>2. Present' = Present /\ \A k : Changes(k)' = Changes(k)
  <2>1. \A u \in Spectators : watcher'[u].socket # "none" <=> watcher[u].socket # "none"
    BY <1>1
  <2> QED
    BY <2>1 DEF Present, Changes
<1>3. CountKept'
  BY <1>2 DEF FanoutInv, CountKept, Told
<1>4. FramesOnce' /\ FanoutTypeOK'
  BY <1>1 DEF FanoutInv, FramesOnce, FanoutTypeOK
<1>5. \A u \in Spectators :
        QueueKept(watcher'[u]) /\ (watcher'[u].subscribed => InTurn(watcher'[u], carried))
  <2> SUFFICES ASSUME NEW u \in Spectators
               PROVE  /\ QueueKept(watcher'[u])
                      /\ watcher'[u].subscribed => InTurn(watcher'[u], carried)
    OBVIOUS
  <2>1. CASE u = s
    BY <1>1, <2>1
  <2>2. CASE u # s
    BY <1>1, <2>2 DEF FanoutInv
  <2> QED
    BY <2>1, <2>2
<1> QED
  BY <1>3, <1>4, <1>5 DEF FanoutInv

LEMMA JoinKeeps == ASSUME FanoutInv, NEW s \in Spectators, Join(s) PROVE FanoutInv'
<1> DEFINE v == [NotWatching EXCEPT !.socket = "open"]
<1>1. /\ v \in Watchers /\ QueueKept(v) /\ v.socket = "open" /\ ~v.subscribed
  BY NobodyWatches
<1>2. /\ watcher[s].socket = "none" /\ \A c \in counting : c[1] # s
      /\ watcher' = [watcher EXCEPT ![s] = v] /\ counting' = counting \cup {<<s, 1>>}
      /\ UNCHANGED <<published, publishing, carried, count, uncounted>>
  BY DEF Join
<1> HIDE DEF v
<1>3. /\ watcher' \in [Spectators -> Watchers] /\ watcher'[s] = v
      /\ \A u \in Spectators : u # s => watcher'[u] = watcher[u]
      /\ counting \in SUBSET (Spectators \X {1, -1})
  BY <1>1, <1>2 DEF FanoutInv, FanoutTypeOK
<1>4. counting' \in SUBSET (Spectators \X {1, -1}) /\ <<s, 1>> \notin counting
      /\ <<s, -1>> \notin counting
  BY <1>2, <1>3
<1>5. s \notin Present /\ Present' = Present \cup {s}
  BY <1>1, <1>2, <1>3 DEF Present
<1>6. /\ <<s, 1>> \notin Changes(1) /\ Changes(1)' = Changes(1) \cup {<<s, 1>>}
      /\ Changes(-1)' = Changes(-1)
  BY <1>2, <1>4 DEF Changes
<1>7. /\ Cardinality(Present') = Cardinality(Present) + 1
      /\ Cardinality(Changes(1)') = Cardinality(Changes(1)) + 1
  <2>1. IsFiniteSet(Present) /\ IsFiniteSet(Changes(1))
    BY FanoutFinite
  <2> QED
    BY <1>5, <1>6, <2>1, FS_AddElement
<1>8. CountKept'
  <2>1. Told' = Cardinality(Present') - Cardinality(Changes(1)') + Cardinality(Changes(-1)')
    <3>1. Told = Cardinality(Present) - Cardinality(Changes(1)) + Cardinality(Changes(-1))
      BY DEF FanoutInv, CountKept
    <3>2. /\ Cardinality(Present) \in Nat /\ Cardinality(Changes(1)) \in Nat
          /\ Cardinality(Changes(-1)) \in Nat
      BY FanoutFinite
    <3>3. Cardinality(Changes(-1)') = Cardinality(Changes(-1)) /\ Told' = Told
      BY <1>2, <1>6 DEF Told
    <3> QED
      BY <1>7, <3>1, <3>2, <3>3
  <2>2. \A u \in Present' : <<u, -1>> \notin counting'
    <3> SUFFICES ASSUME NEW u \in Present' PROVE <<u, -1>> \notin counting'
      OBVIOUS
    <3>1. <<u, -1>> # <<s, 1>>
      OBVIOUS
    <3>2. u = s \/ u \in Present
      BY <1>5
    <3>3. <<u, -1>> \notin counting
      BY <1>4, <3>2 DEF FanoutInv, CountKept
    <3> QED
      BY <1>2, <3>1, <3>3
  <2> QED
    BY <2>1, <2>2 DEF CountKept
<1>9. FramesOnce' /\ FanoutTypeOK'
  BY <1>2, <1>3, <1>4 DEF FanoutInv, FramesOnce, FanoutTypeOK
<1>10. \A u \in Spectators :
        QueueKept(watcher'[u]) /\ (watcher'[u].subscribed => InTurn(watcher'[u], carried'))
  <2> SUFFICES ASSUME NEW u \in Spectators
               PROVE  /\ QueueKept(watcher'[u])
                      /\ watcher'[u].subscribed => InTurn(watcher'[u], carried')
    OBVIOUS
  <2>1. CASE u = s
    BY <1>1, <1>3, <2>1
  <2>2. CASE u # s
    BY <1>2, <1>3, <2>2 DEF FanoutInv
  <2> QED
    BY <2>1, <2>2
<1> QED
  BY <1>8, <1>9, <1>10 DEF FanoutInv

LEMMA WatcherStopKeeps == ASSUME FanoutInv, NEW s \in Spectators, Stop(s) PROVE FanoutInv'
<1>1. /\ NotWatching \in Watchers /\ QueueKept(NotWatching) /\ NotWatching.socket = "none"
      /\ ~NotWatching.subscribed
  BY NobodyWatches
<1>2. /\ watcher[s].socket # "none"
      /\ watcher' = [watcher EXCEPT ![s] = NotWatching]
      /\ counting' = counting \cup {<<s, -1>>}
      /\ UNCHANGED <<published, publishing, carried, count, uncounted>>
  BY DEF Stop
<1>3. /\ watcher' \in [Spectators -> Watchers] /\ watcher'[s] = NotWatching
      /\ \A u \in Spectators : u # s => watcher'[u] = watcher[u]
      /\ counting \in SUBSET (Spectators \X {1, -1})
  BY <1>1, <1>2 DEF FanoutInv, FanoutTypeOK
<1>4. s \in Present /\ <<s, -1>> \notin counting
  BY <1>2 DEF Present, FanoutInv, CountKept
<1>5. Present' = Present \ {s}
  BY <1>1, <1>2, <1>3 DEF Present
<1>6. /\ <<s, -1>> \notin Changes(-1) /\ Changes(-1)' = Changes(-1) \cup {<<s, -1>>}
      /\ Changes(1)' = Changes(1)
  BY <1>2, <1>4 DEF Changes
<1>7. /\ Cardinality(Present') = Cardinality(Present) - 1
      /\ Cardinality(Changes(-1)') = Cardinality(Changes(-1)) + 1
  <2>1. IsFiniteSet(Present) /\ IsFiniteSet(Changes(-1))
    BY FanoutFinite
  <2> QED
    <3>1. Cardinality(Present \ {s}) = Cardinality(Present) - 1
      BY <1>4, <2>1, FS_RemoveElement
    <3>2. Cardinality(Changes(-1) \cup {<<s, -1>>}) = Cardinality(Changes(-1)) + 1
      BY <1>6, <2>1, FS_AddElement
    <3> QED
      BY <1>5, <1>6, <3>1, <3>2
<1>8. CountKept'
  <2>1. Told' = Cardinality(Present') - Cardinality(Changes(1)') + Cardinality(Changes(-1)')
    <3>1. Told = Cardinality(Present) - Cardinality(Changes(1)) + Cardinality(Changes(-1))
      BY DEF FanoutInv, CountKept
    <3>2. /\ Cardinality(Present) \in Nat /\ Cardinality(Changes(1)) \in Nat
          /\ Cardinality(Changes(-1)) \in Nat
      BY FanoutFinite
    <3>3. Cardinality(Changes(1)') = Cardinality(Changes(1)) /\ Told' = Told
      BY <1>2, <1>6 DEF Told
    <3> QED
      BY <1>7, <3>1, <3>2, <3>3
  <2>2. \A u \in Present' : <<u, -1>> \notin counting'
    BY <1>2, <1>5 DEF FanoutInv, CountKept
  <2> QED
    BY <2>1, <2>2 DEF CountKept
<1>9. FramesOnce' /\ FanoutTypeOK'
  <2>1. counting' \in SUBSET (Spectators \X {1, -1})
    BY <1>2, <1>3
  <2> QED
    BY <1>2, <1>3, <2>1 DEF FanoutInv, FramesOnce, FanoutTypeOK
<1>10. \A u \in Spectators :
        QueueKept(watcher'[u]) /\ (watcher'[u].subscribed => InTurn(watcher'[u], carried'))
  <2> SUFFICES ASSUME NEW u \in Spectators
               PROVE  /\ QueueKept(watcher'[u])
                      /\ watcher'[u].subscribed => InTurn(watcher'[u], carried')
    OBVIOUS
  <2>1. CASE u = s
    BY <1>1, <1>3, <2>1
  <2>2. CASE u # s
    BY <1>2, <1>3, <2>2 DEF FanoutInv
  <2> QED
    BY <2>1, <2>2
<1> QED
  BY <1>8, <1>9, <1>10 DEF FanoutInv

LEMMA SubscribeKeeps == ASSUME FanoutInv, NEW s \in Spectators, Subscribe(s) PROVE FanoutInv'
<1> DEFINE w == watcher[s]
           v == [w EXCEPT !.subscribed = TRUE, !.since = Len(carried)]
<1>1. /\ w \in Watchers /\ w.socket = "open" /\ ~w.subscribed /\ ~w.closed /\ QueueKept(w)
      /\ watcher' = [watcher EXCEPT ![s] = v] /\ carried \in Seq(Nat)
             /\ Len(carried) \in Nat
      /\ UNCHANGED <<published, publishing, carried, counting, count, uncounted>>
  BY LenProperties DEF Subscribe, countVars, FanoutInv, FanoutTypeOK
<1>2. w.queue = <<>> /\ w.got = <<>> /\ w.dropped = 0
  BY <1>1 DEF QueueKept
<1> HIDE DEF w
<1>3. /\ v \in Watchers /\ v.socket = "open" /\ v.subscribed /\ ~v.closed
      /\ v.queue = <<>> /\ v.got = <<>> /\ v.dropped = 0 /\ v.since = Len(carried)
  BY <1>1, <1>2 DEF Watchers
<1> HIDE DEF v
<1>4. Len(v.queue) = 0 /\ Len(v.got) = 0 /\ QueueCapacity \in Nat /\ QueueCapacity # 0
  BY <1>3, FanoutAssumption
<1>5. QueueKept(v)
  BY <1>3, <1>4 DEF QueueKept
<1>6. InTurn(v, carried)
  BY <1>1, <1>3, <1>4 DEF InTurn, Placed
<1> QED
  BY <1>1, <1>3, <1>5, <1>6, OneWatches DEF w

LEMMA SubscriberEndKeeps ==
    ASSUME FanoutInv, NEW s \in Spectators, SubscriberEnds(s) PROVE FanoutInv'
<1> DEFINE w == watcher[s]
           v == [w EXCEPT !.subscribed = FALSE, !.closed = TRUE]
<1>1. /\ w \in Watchers /\ w.socket # "none" /\ QueueKept(w)
      /\ watcher' = [watcher EXCEPT ![s] = v]
      /\ UNCHANGED <<published, publishing, carried, counting, count, uncounted>>
  BY DEF SubscriberEnds, countVars, FanoutInv, FanoutTypeOK
<1> HIDE DEF w
<1>2. /\ v \in Watchers /\ v.socket = w.socket /\ ~v.subscribed /\ v.closed
      /\ v.queue = w.queue /\ v.overflows = w.overflows /\ v.stalled = w.stalled
  BY <1>1 DEF Watchers
<1> HIDE DEF v
<1>3. QueueKept(v)
  BY <1>1, <1>2 DEF QueueKept
<1> QED
  BY <1>1, <1>2, <1>3, OneWatches DEF w

LEMMA PumpingKeeps == ASSUME FanoutInv, NEW s \in Spectators, Pump(s) PROVE FanoutInv'
<1> DEFINE w == watcher[s]
           n == IF w.socket = "open" THEN 0 ELSE w.stalled
           v == [w EXCEPT !.got = Append(@, Head(w.queue)), !.queue = Tail(@), !.stalled = n]
<1>1. /\ w \in Watchers /\ w.socket # "none" /\ w.queue # <<>> /\ QueueKept(w)
      /\ w.subscribed => InTurn(w, carried)
      /\ watcher' = [watcher EXCEPT ![s] = v] /\ carried \in Seq(Nat) /\ Distinct(carried)
      /\ UNCHANGED <<published, publishing, carried, counting, count, uncounted>>
  BY DEF Pump, countVars, FanoutInv, FanoutTypeOK, FramesOnce
<1> HIDE DEF w
<1>2. n \in Nat /\ (w.socket # "open" => n = w.stalled)
  BY <1>1 DEF Watchers
<1> HIDE DEF n
<1>3. v \in Watchers /\ QueueKept(v) /\ v.socket = w.socket
      /\ (v.subscribed => InTurn(v, carried))
  BY <1>1, <1>2, PumpKeeps
<1> HIDE DEF v
<1> QED
  BY <1>1, <1>3, OneWatches DEF w

\* Frames and counters.
LEMMA PublishRunKeeps ==
    ASSUME FanoutInv, NEW f \in publishing, PublishRuns(f) PROVE FanoutInv'
<1>1. /\ publishing' = publishing \ {f} /\ carried' = Append(carried, f)
      /\ watcher' = [s \in Spectators |-> IF watcher[s].subscribed THEN Push(watcher[s], f)
                                                                   ELSE watcher[s]]
      /\ UNCHANGED <<published, counting, count, uncounted>>
      /\ carried \in Seq(Nat) /\ publishing \in SUBSET Nat /\ f \in Nat
      /\ watcher \in [Spectators -> Watchers]
  BY DEF PublishRuns, countVars, FanoutInv, FanoutTypeOK
<1>2. /\ Distinct(carried) /\ \A i \in 1..Len(carried) : carried[i] # f
      /\ Fresh(f, carried)
      /\ f <= published /\ \A i \in 1..Len(carried) :
            carried[i] <= published /\ carried[i] \notin publishing
  BY DEF FanoutInv, FramesOnce, Fresh
<1>3. /\ Len(carried) \in Nat /\ carried' \in Seq(Nat) /\ Len(carried') = Len(carried) + 1
      /\ carried'[Len(carried) + 1] = f
             /\ \A i \in 1..Len(carried) : carried'[i] = carried[i]
      /\ \A i \in 1..(Len(carried) + 1) : i \in 1..Len(carried) \/ i = Len(carried) + 1
  <2>1. /\ Len(carried) \in Nat /\ carried' \in Seq(Nat) /\ Len(carried') = Len(carried) + 1
        /\ carried'[Len(carried) + 1] = f
        /\ \A i \in 1..Len(carried) : carried'[i] = carried[i]
    BY <1>1, Adding
  <2> QED
    BY <2>1
<1>4. ASSUME NEW s \in Spectators
      PROVE  /\ watcher'[s] \in Watchers /\ QueueKept(watcher'[s])
             /\ watcher'[s].subscribed => InTurn(watcher'[s], carried')
             /\ watcher'[s].socket # "none" <=> watcher[s].socket # "none"
  <2>1. /\ watcher[s] \in Watchers /\ QueueKept(watcher[s])
        /\ watcher[s].subscribed => InTurn(watcher[s], carried)
    BY DEF FanoutInv, FanoutTypeOK
  <2>2. CASE watcher[s].subscribed
    <3>1. watcher'[s] = Push(watcher[s], f) /\ watcher[s].socket = "open"
      BY <1>1, <2>1, <2>2 DEF QueueKept
    <3>2. PICK w, c, d, v : w = watcher[s] /\ c = carried /\ d = carried' /\ v = watcher'[s]
      OBVIOUS
    <3>3. /\ c \in Seq(Nat) /\ Distinct(c) /\ Fresh(f, c)
          /\ w \in Watchers /\ w.subscribed /\ QueueKept(w) /\ InTurn(w, c)
          /\ d = Append(c, f) /\ v = Push(w, f)
      BY <1>1, <1>2, <2>1, <2>2, <3>1, <3>2
    <3>4. /\ v \in Watchers /\ QueueKept(v) /\ v.socket # "none"
          /\ v.subscribed => InTurn(v, d)
      BY <1>1, <3>3, PushKeeps
    <3> QED
      BY <3>1, <3>2, <3>4
  <2>3. CASE ~watcher[s].subscribed
    BY <1>1, <2>1, <2>3
  <2> QED
    BY <2>2, <2>3
<1>5. Present' = Present /\ \A k : Changes(k)' = Changes(k)
  BY <1>1, <1>4 DEF Present, Changes
<1>6. CountKept'
  BY <1>1, <1>5 DEF FanoutInv, CountKept, Told
<1>7. FramesOnce'
  <2>1. \A g \in publishing' : g <= published
    BY <1>1 DEF FanoutInv, FramesOnce
  <2>2. \A i \in 1..Len(carried') : carried'[i] <= published
            /\ carried'[i] \notin publishing'
    BY <1>1, <1>2, <1>3
  <2>3. Distinct(carried')
    BY <1>2, <1>3 DEF Distinct
  <2> QED
    BY <1>1, <2>1, <2>2, <2>3 DEF FramesOnce
<1>8. FanoutTypeOK'
  <2>1. watcher' \in [Spectators -> Watchers]
    BY <1>1, <1>4
  <2> QED
    BY <1>1, <1>3, <2>1 DEF FanoutInv, FanoutTypeOK
<1> QED
  BY <1>4, <1>6, <1>7, <1>8 DEF FanoutInv

\* A frame more is published, or one goes.
LEMMA FramesStayOnce ==
    ASSUME FanoutInv, UNCHANGED carried,
           \/ PublishesFrame
           \/ UNCHANGED published /\ publishing' \subseteq publishing
    PROVE  FramesOnce' /\ published' \in Nat /\ publishing' \in SUBSET Nat
<1>1. published \in Nat /\ publishing \in SUBSET Nat
  BY DEF FanoutInv, FanoutTypeOK
<1>2. /\ published' \in Nat /\ published' >= published /\ publishing' \in SUBSET Nat
      /\ \A f \in publishing' : f \in publishing \/ f = published + 1
      /\ \A f \in publishing' : f <= published'
  <2>1. \A f \in publishing : f <= published /\ f \in Nat
    BY <1>1 DEF FanoutInv, FramesOnce
  <2>2. CASE PublishesFrame
    BY <1>1, <2>1, <2>2 DEF PublishesFrame
  <2>3. CASE UNCHANGED published /\ publishing' \subseteq publishing
    BY <1>1, <2>1, <2>3
  <2> QED
    BY <2>2, <2>3
<1>3. \A i \in 1..Len(carried) : carried[i] <= published' /\ carried[i] \notin publishing'
  <2> SUFFICES ASSUME NEW i \in 1..Len(carried)
               PROVE  carried[i] <= published' /\ carried[i] \notin publishing'
    OBVIOUS
  <2>1. carried[i] \in Nat /\ carried[i] <= published /\ carried[i] \notin publishing
    BY ElementOfSeq DEF FanoutInv, FanoutTypeOK, FramesOnce
  <2> QED
    BY <1>1, <1>2, <2>1
<1> QED
  BY <1>2, <1>3 DEF FanoutInv, FramesOnce

LEMMA PublishKeeps ==
    ASSUME FanoutInv, Publish \/ \E f \in publishing : PublishFails(f) PROVE FanoutInv'
<1>1. /\ UNCHANGED <<carried, watcher, counting, count, uncounted>>
      /\ PublishesFrame \/ (UNCHANGED published /\ publishing' \subseteq publishing)
  BY DEF Publish, PublishFails, countVars
<1>2. FramesOnce' /\ published' \in Nat /\ publishing' \in SUBSET Nat
  BY <1>1, FramesStayOnce
<1>3. CountKept'
  BY <1>1 DEF FanoutInv, CountKept, Present, Changes, Told
<1>4. FanoutTypeOK'
  BY <1>1, <1>2 DEF FanoutInv, FanoutTypeOK
<1> QED
  BY <1>1, <1>2, <1>3, <1>4 DEF FanoutInv

LEMMA CountRunKeeps ==
    ASSUME FanoutInv, NEW c \in counting, CountRuns(c) \/ CountFails(c) PROVE FanoutInv'
<1>1. /\ counting' = counting \ {c} /\ UNCHANGED <<carried, watcher>>
      /\ PublishesFrame \/ (UNCHANGED published /\ publishing' \subseteq publishing)
      /\ counting \in SUBSET (Spectators \X {1, -1}) /\ count \in Int /\ uncounted \in Int
      /\ c[2] \in {1, -1}
      /\ \/ count' = count + c[2] /\ uncounted' = uncounted
         \/ count' = count /\ uncounted' = uncounted + c[2]
  BY DEF CountRuns, CountFails, FanoutInv, FanoutTypeOK
<1>0. Told' = Told + c[2] /\ Told \in Int /\ count' \in Int /\ uncounted' \in Int
  BY <1>1 DEF Told
<1>2. Present' = Present
  BY <1>1 DEF Present
<1>3. Told = Cardinality(Present) - Cardinality(Changes(1)) + Cardinality(Changes(-1))
  BY DEF FanoutInv, CountKept
<1>4. /\ Cardinality(Present) \in Nat /\ Cardinality(Changes(1)) \in Nat
      /\ Cardinality(Changes(-1)) \in Nat /\ IsFiniteSet(Changes(1))
      /\ IsFiniteSet(Changes(-1))
  BY FanoutFinite
<1>5. \A u \in Present' : <<u, -1>> \notin counting'
  BY <1>1, <1>2 DEF FanoutInv, CountKept
<1>6. Told' = Cardinality(Present') - Cardinality(Changes(1)') + Cardinality(Changes(-1)')
  <2>1. CASE c[2] = 1
    <3>1. c \in Changes(1) /\ Changes(1)' = Changes(1) \ {c} /\ Changes(-1)' = Changes(-1)
      BY <1>1, <2>1 DEF Changes
    <3>2. Cardinality(Changes(1) \ {c}) = Cardinality(Changes(1)) - 1
      BY <1>4, <3>1, FS_RemoveElement
    <3>3. Cardinality(Changes(1)') = Cardinality(Changes(1)) - 1
      BY <3>1, <3>2
    <3>4. Cardinality(Changes(-1)') = Cardinality(Changes(-1))
          /\ Cardinality(Present') = Cardinality(Present) /\ Told' = Told + 1
      BY <1>0, <1>2, <2>1, <3>1
    <3> QED
      BY <1>3, <1>4, <3>3, <3>4
  <2>2. CASE c[2] = -1
    <3>1. c \in Changes(-1) /\ Changes(-1)' = Changes(-1) \ {c} /\ Changes(1)' = Changes(1)
      BY <1>1, <2>2 DEF Changes
    <3>2. Cardinality(Changes(-1) \ {c}) = Cardinality(Changes(-1)) - 1
      BY <1>4, <3>1, FS_RemoveElement
    <3>3. Cardinality(Changes(-1)') = Cardinality(Changes(-1)) - 1
      BY <3>1, <3>2
    <3>4. Cardinality(Changes(1)') = Cardinality(Changes(1))
          /\ Cardinality(Present') = Cardinality(Present) /\ Told' = Told + (-1)
      BY <1>0, <1>2, <2>2, <3>1
    <3> QED
      BY <1>3, <1>4, <3>3, <3>4
  <2> QED
    BY <1>1, <2>1, <2>2
<1>7. CountKept'
  BY <1>5, <1>6 DEF CountKept
<1>8. FramesOnce' /\ published' \in Nat /\ publishing' \in SUBSET Nat
  BY <1>1, FramesStayOnce
<1>9. FanoutTypeOK'
  BY <1>0, <1>1, <1>8 DEF FanoutInv, FanoutTypeOK
<1> QED
  BY <1>1, <1>7, <1>8, <1>9 DEF FanoutInv

LEMMA FanoutStep == FanoutInv /\ [FanoutNext]_fanoutVars => FanoutInv'
<1> SUFFICES ASSUME FanoutInv, [FanoutNext]_fanoutVars PROVE FanoutInv'
  OBVIOUS
<1>1. CASE UNCHANGED fanoutVars
  BY <1>1 DEF fanoutVars, countVars, FanoutInv, FanoutTypeOK, FramesOnce, CountKept,
              Present, Changes, Told
<1> QED
  BY <1>1, JoinKeeps, WatcherStopKeeps, SubscribeKeeps, SubscriberEndKeeps, PumpingKeeps,
     PublishRunKeeps, PublishKeeps, CountRunKeeps DEF FanoutNext

\* What FramesAccounted says of a subscriber.
LEMMA PlacedIsAccounted ==
    ASSUME NEW w \in Watchers, carried \in Seq(Nat), Distinct(carried),
           w.subscribed => InTurn(w, carried)
    PROVE  FramesAccounted(w)
<1> SUFFICES ASSUME w.subscribed PROVE FramesAccounted(w)
  BY DEF FramesAccounted
<1> DEFINE mine == w.got \o w.queue
           arrived == SubSeq(carried, w.since + 1, Len(carried))
<1>1. /\ w.queue \in Seq(Nat) /\ w.got \in Seq(Nat) /\ w.since \in Nat /\ w.dropped \in Nat
  BY DEF Watchers
<1>2. PICK n \in Nat, q \in Nat, g \in Nat, a \in Nat, lost \in Nat :
        /\ n = Len(carried) /\ q = Len(w.queue) /\ g = Len(w.got) /\ a = w.since
        /\ lost = w.dropped
  BY <1>1, LenProperties
<1>3. /\ a + q <= n /\ g + lost = n - q - a
      /\ \A i \in 1..q : w.queue[i] = carried[n - q + i]
      /\ \A i \in 1..g : \E k \in (a + 1)..(n - q) : w.got[i] = carried[k]
      /\ \A i, j \in 1..g, k, l \in 1..n :
            i < j /\ w.got[i] = carried[k] /\ w.got[j] = carried[l] => k < l
      /\ \A k, l \in 1..n : carried[k] = carried[l] => k = l
  BY <1>2 DEF InTurn, Placed, Distinct
<1>4. /\ Len(mine) = g + q /\ DOMAIN mine = 1..(g + q)
      /\ \A i \in 1..(g + q) : mine[i] = IF i <= g THEN w.got[i] ELSE w.queue[i - g]
  <2>1. /\ mine \in Seq(Nat) /\ Len(mine) = g + q
        /\ \A i \in 1..(g + q) : mine[i] = IF i <= g THEN w.got[i] ELSE w.queue[i - g]
    <3>1. /\ mine \in Seq(Nat) /\ Len(mine) = Len(w.got) + Len(w.queue)
          /\ \A i \in 1..(Len(w.got) + Len(w.queue)) :
                mine[i] = IF i <= Len(w.got) THEN w.got[i] ELSE w.queue[i - Len(w.got)]
      BY <1>1, ConcatProperties, ZenonT(30)
    <3> HIDE DEF mine
    <3> QED
      BY <1>2, <3>1
  <2> HIDE DEF mine
  <2> QED
    BY <2>1, LenProperties
<1>5. /\ Len(arrived) = n - a /\ DOMAIN arrived = 1..(n - a)
      /\ \A i \in 1..(n - a) : arrived[i] = carried[a + i]
  <2>1. a \in Nat /\ n \in Nat /\ a <= n
    BY <1>3
  <2>2. \A i \in (a + 1)..n : carried[i] \in Nat
    BY <1>2, <2>1, ElementOfSeq
  <2>3. /\ arrived \in Seq(Nat)
        /\ Len(arrived) = IF a + 1 <= n THEN n - (a + 1) + 1 ELSE 0
        /\ \A i \in 1..(n - (a + 1) + 1) : arrived[i] = carried[(a + 1) + i - 1]
    <3>1. a + 1 \in Int /\ n \in Int /\ arrived = SubSeq(carried, a + 1, n)
      BY <1>2, <2>1
    <3> HIDE DEF arrived
    <3> QED
      BY <2>2, <3>1, SubSeqProperties
  <2> HIDE DEF arrived
  <2>4. Len(arrived) = n - a
    BY <2>1, <2>3
  <2>5. \A i \in 1..(n - a) : arrived[i] = carried[a + i]
    <3> SUFFICES ASSUME NEW i \in 1..(n - a) PROVE arrived[i] = carried[a + i]
      OBVIOUS
    <3>1. i \in 1..(n - (a + 1) + 1) /\ (a + 1) + i - 1 = a + i
      BY <2>1
    <3> QED
      BY <2>3, <3>1
  <2> QED
    BY <2>3, <2>4, <2>5, LenProperties
<1> HIDE DEF mine, arrived
\* Where a frame of mine was carried.
<1>6. \A i \in 1..(g + q) : \E k \in (a + 1)..n : /\ mine[i] = carried[k]
                                                  /\ i <= g => k <= n - q
                                                  /\ i > g => k = n - q + (i - g)
  <2> SUFFICES ASSUME NEW i \in 1..(g + q)
               PROVE  \E k \in (a + 1)..n : /\ mine[i] = carried[k]
                                            /\ i <= g => k <= n - q
                                            /\ i > g => k = n - q + (i - g)
    OBVIOUS
  <2>1. CASE i <= g
    <3>1. i \in 1..g
      BY <2>1
    <3>2. PICK k \in (a + 1)..(n - q) : w.got[i] = carried[k]
      BY <1>3, <3>1
    <3>3. k \in (a + 1)..n /\ k <= n - q
      OBVIOUS
    <3>4. mine[i] = carried[k]
      BY <1>4, <2>1, <3>2
    <3> QED
      BY <2>1, <3>3, <3>4
  <2>2. CASE i > g
    <3>1. i - g \in 1..q /\ ~(i <= g)
      BY <2>2
    <3>2. n - q + (i - g) \in (a + 1)..n
      <4>1. a + q <= n
        BY <1>3
      <4> QED
        BY <3>1, <4>1
    <3>3. mine[i] = carried[n - q + (i - g)]
      BY <1>3, <1>4, <3>1
    <3> QED
      BY <3>1, <3>2, <3>3
  <2> QED
    BY <2>1, <2>2, SMTT(30)
<1>7. Len(mine) + w.dropped = Len(arrived)
  <2>1. (g + q) + lost = n - a
    <3>1. g + lost = n - q - a
      BY <1>3
    <3> QED
      BY <3>1
  <2> QED
    BY <1>2, <1>4, <1>5, <2>1
<1>8. \A i \in DOMAIN mine : \E k \in DOMAIN arrived : mine[i] = arrived[k]
  <2> SUFFICES ASSUME NEW i \in 1..(g + q) PROVE \E k \in 1..(n - a) : mine[i] = arrived[k]
    BY <1>4, <1>5
  <2>1. PICK k \in (a + 1)..n : mine[i] = carried[k]
    BY <1>6
  <2>2. k - a \in 1..(n - a) /\ a + (k - a) = k
    OBVIOUS
  <2>3. arrived[k - a] = carried[a + (k - a)]
    BY <1>5, <2>2
  <2> QED
    BY <2>1, <2>2, <2>3
<1>9. \A i, j \in DOMAIN mine, k, l \in DOMAIN arrived :
        i < j /\ mine[i] = arrived[k] /\ mine[j] = arrived[l] => k < l
  <2> SUFFICES ASSUME NEW i \in 1..(g + q), NEW j \in 1..(g + q), NEW k \in 1..(n - a),
                      NEW l \in 1..(n - a), i < j, mine[i] = arrived[k],
                      mine[j] = arrived[l]
               PROVE  k < l
    BY <1>4, <1>5
  <2>1. PICK x \in (a + 1)..n : /\ mine[i] = carried[x]
                                /\ i <= g => x <= n - q
                                /\ i > g => x = n - q + (i - g)
    BY <1>6
  <2>2. PICK y \in (a + 1)..n : /\ mine[j] = carried[y]
                                /\ j <= g => y <= n - q
                                /\ j > g => y = n - q + (j - g)
    BY <1>6
  <2>3. x = a + k /\ y = a + l
    <3>1. /\ x \in 1..n /\ y \in 1..n /\ a + k \in 1..n /\ a + l \in 1..n
      OBVIOUS
    <3>2. carried[x] = carried[a + k] /\ carried[y] = carried[a + l]
      <4>1. arrived[k] = carried[a + k] /\ arrived[l] = carried[a + l]
        BY <1>5
      <4> QED
        BY <2>1, <2>2, <4>1
    <3> QED
      BY <1>3, <3>1, <3>2
  <2>4. x < y
    <3>1. CASE j <= g
      <4>1. i \in 1..g /\ j \in 1..g /\ x \in 1..n /\ y \in 1..n
        BY <3>1
      <4>2. mine[i] = w.got[i] /\ mine[j] = w.got[j]
        <5>1. i <= g /\ j <= g
          BY <4>1
        <5> QED
          BY <1>4, <5>1
      <4>3. w.got[i] = carried[x] /\ w.got[j] = carried[y]
        BY <2>1, <2>2, <4>2
      <4> QED
        BY <1>3, <4>1, <4>3
    <3>2. CASE j > g /\ i <= g
      <4>1. x <= n - q /\ y = n - q + (j - g)
        BY <2>1, <2>2, <3>2
      <4> QED
        BY SMTT(30), <3>2, <4>1
    <3>3. CASE j > g /\ i > g
      <4>1. x = n - q + (i - g) /\ y = n - q + (j - g)
        BY <2>1, <2>2, <3>3
      <4> QED
        BY <4>1, SMTT(30)
    <3>4. j <= g \/ (j > g /\ i <= g) \/ (j > g /\ i > g)
      OBVIOUS
    <3> QED
      BY <3>1, <3>2, <3>3, <3>4
  <2> QED
    BY <2>3, <2>4
<1>10. \A i \in DOMAIN w.queue : w.queue[i] = arrived[Len(arrived) - Len(w.queue) + i]
  <2> SUFFICES ASSUME NEW i \in 1..q PROVE w.queue[i] = arrived[(n - a) - q + i]
    BY <1>1, <1>2, <1>5, LenProperties
  <2>1. (n - a) - q + i \in 1..(n - a) /\ a + ((n - a) - q + i) = n - q + i
    <3>1. a + q <= n
      BY <1>3
    <3> QED
      BY <3>1
  <2> QED
    BY <1>3, <1>5, <2>1
<1> QED
  BY <1>7, <1>8, <1>9, <1>10 DEF FramesAccounted, mine, arrived

LEMMA FanoutIsSound == FanoutInv => FanoutSound
<1> SUFFICES ASSUME FanoutInv PROVE FanoutSound
  OBVIOUS
<1>1. ASSUME NEW s \in Spectators
      PROVE  /\ Len(watcher[s].queue) <= QueueCapacity
             /\ FramesAccounted(watcher[s]) /\ OverflowMeansStalled(watcher[s])
  <2>1. /\ watcher[s] \in Watchers /\ QueueKept(watcher[s]) /\ carried \in Seq(Nat)
        /\ Distinct(carried) /\ (watcher[s].subscribed => InTurn(watcher[s], carried))
    BY DEF FanoutInv, FanoutTypeOK, FramesOnce
  <2>2. PICK w : w = watcher[s]
    OBVIOUS
  <2>3. FramesAccounted(w)
    BY <2>1, <2>2, PlacedIsAccounted
  <2> QED
    BY <2>1, <2>2, <2>3 DEF QueueKept, OverflowMeansStalled
<1>2. Told = Cardinality(Present) - Cardinality(Changes(1)) + Cardinality(Changes(-1))
  BY DEF FanoutInv, CountKept
<1> QED
  BY <1>1, <1>2 DEF FanoutSound, Present, Changes, Told

\* What a spectator got and what waits for him is what came since he subscribed, in order,
\* less what his own queue dropped; only a stalled one is cut off; the count of spectators
\* is wrong by what failed tasks left out, once the others have run.
THEOREM FramesComeInOrder == FanoutSpec => []FanoutSound
BY FanoutStarts, FanoutStep, FanoutIsSound, PTL DEF FanoutSpec

(***************************************************************************)
(* Archiving.  The replica and the task know no more moves than were       *)
(* played (RepliesBehind), a task waits in one place at most (WaitsOnce)   *)
(* and its job counts every try (TriesKept), and what is on a network is   *)
(* made up or the document of the first moves of its game (DocumentsTrue), *)
(* and is there for every network the task has gone through (UploadsKept). *)
(***************************************************************************)
ArchivalStages ==
    {"playing", "completed", "ipfs", "arweave", "archived", "failed", "stubbed", "left", "lost"}

DeadLetters == [of : Archivals, tries : Nat]

\* What a sequence of jobs is about when one is added or the first is taken.
LEMMA JobAdded ==
    ASSUME NEW jobs \in Seq(DeadLetters), NEW job \in DeadLetters,
           OnceEach(jobs), job.of \notin TasksOf(jobs)
    PROVE  /\ Append(jobs, job) \in Seq(DeadLetters) /\ OnceEach(Append(jobs, job))
           /\ TasksOf(Append(jobs, job)) = TasksOf(jobs) \cup {job.of}
           /\ \A i \in DOMAIN Append(jobs, job) :
                 \/ Append(jobs, job)[i] = job
                 \/ i \in DOMAIN jobs /\ Append(jobs, job)[i] = jobs[i]
<1> DEFINE more == Append(jobs, job)
           n == Len(jobs) + 1
<1>1. /\ more \in Seq(DeadLetters) /\ Len(jobs) \in Nat
      /\ DOMAIN jobs = 1..Len(jobs) /\ DOMAIN more = 1..n /\ more[n] = job
      /\ \A i \in DOMAIN jobs : more[i] = jobs[i]
  BY LenProperties, AppendProperties
<1>2. DOMAIN more = DOMAIN jobs \cup {n} /\ n \notin DOMAIN jobs
  BY <1>1
<1>3. /\ more[n] = job /\ more \in Seq(DeadLetters)
      /\ \A i \in DOMAIN more : \/ more[i] = job /\ i = n
                                \/ i \in DOMAIN jobs /\ more[i] = jobs[i]
  <2>1. ASSUME NEW i \in DOMAIN more, i # n  PROVE i \in DOMAIN jobs /\ more[i] = jobs[i]
    <3>1. i \in DOMAIN jobs
      BY <1>2, <2>1
    <3> QED
      BY <1>1, <3>1
  <2> QED
    BY <1>1, <2>1
<1>4. \A i \in DOMAIN jobs : i \in DOMAIN more /\ more[i] = jobs[i]
  BY <1>1, <1>2
<1>5. n \in DOMAIN more
  BY <1>2
<1> HIDE DEF more, n
<1>6. ASSUME NEW g \in TasksOf(more) PROVE g \in TasksOf(jobs) \cup {job.of}
  <2>1. PICK i \in DOMAIN more : g = more[i].of
    BY DEF TasksOf
  <2> QED
    BY <1>3, <2>1 DEF TasksOf
<1>7. ASSUME NEW g \in TasksOf(jobs) \cup {job.of} PROVE g \in TasksOf(more)
  <2>1. CASE g \in TasksOf(jobs)
    <3>1. PICK i \in DOMAIN jobs : g = jobs[i].of
      BY <2>1 DEF TasksOf
    <3> QED
      BY <1>4, <3>1 DEF TasksOf
  <2>2. CASE g = job.of
    BY <1>3, <1>5, <2>2 DEF TasksOf
  <2> QED
    BY <1>7, <2>1, <2>2
<1>8. OnceEach(more)
  <2> SUFFICES ASSUME NEW i \in DOMAIN more, NEW j \in DOMAIN more, more[i].of = more[j].of
               PROVE  i = j
    BY DEF OnceEach
  <2>1. ASSUME NEW k \in DOMAIN jobs PROVE jobs[k].of # job.of
    BY DEF TasksOf
  <2>2. CASE i = n
    BY <1>3, <2>1, <2>2
  <2>3. CASE j = n
    BY <1>3, <2>1, <2>3
  <2>4. CASE i # n /\ j # n
    <3>1. i \in DOMAIN jobs /\ j \in DOMAIN jobs /\ jobs[i].of = jobs[j].of
      BY <1>3, <2>4
    <3> QED
      BY <3>1 DEF OnceEach
  <2> QED
    BY <2>2, <2>3, <2>4
<1> QED
  BY <1>3, <1>6, <1>7, <1>8 DEF more

LEMMA JobTaken ==
    ASSUME NEW jobs \in Seq(DeadLetters), jobs # <<>>, OnceEach(jobs)
    PROVE  /\ Tail(jobs) \in Seq(DeadLetters) /\ OnceEach(Tail(jobs))
           /\ Head(jobs) \in DeadLetters /\ Head(jobs).of \in TasksOf(jobs)
           /\ TasksOf(Tail(jobs)) = TasksOf(jobs) \ {Head(jobs).of}
           /\ \A i \in DOMAIN Tail(jobs) : \E j \in DOMAIN jobs : Tail(jobs)[i] = jobs[j]
           /\ \E j \in DOMAIN jobs : Head(jobs) = jobs[j]
<1> DEFINE rest == Tail(jobs)
<1>1. /\ Len(jobs) \in Nat /\ Len(jobs) >= 1 /\ DOMAIN jobs = 1..Len(jobs)
      /\ rest \in Seq(DeadLetters) /\ DOMAIN rest = 1..(Len(jobs) - 1)
      /\ \A i \in DOMAIN rest : rest[i] = jobs[i + 1]
      /\ Head(jobs) = jobs[1] /\ Head(jobs) \in DeadLetters
  BY LenProperties, HeadTailProperties, EmptySeq
<1>2. /\ 1 \in DOMAIN jobs
      /\ \A i \in DOMAIN rest : i + 1 \in DOMAIN jobs /\ i + 1 # 1 /\ i \in Nat
      /\ \A j \in DOMAIN jobs : j # 1 => j - 1 \in DOMAIN rest /\ rest[j - 1] = jobs[j]
  <2>1. ASSUME NEW j \in DOMAIN jobs, j # 1
        PROVE  j - 1 \in DOMAIN rest /\ rest[j - 1] = jobs[j]
    <3>1. j - 1 \in DOMAIN rest /\ (j - 1) + 1 = j
      BY <1>1, <2>1
    <3> QED
      BY <1>1, <3>1
  <2> QED
    BY <1>1, <2>1
<1> HIDE DEF rest
<1>3. OnceEach(rest)
  <2> SUFFICES ASSUME NEW i \in DOMAIN rest, NEW j \in DOMAIN rest, rest[i].of = rest[j].of
               PROVE  i = j
    BY DEF OnceEach
  <2>1. i + 1 \in DOMAIN jobs /\ j + 1 \in DOMAIN jobs /\ i \in Nat /\ j \in Nat
    BY <1>2
  <2>2. jobs[i + 1].of = jobs[j + 1].of
    BY <1>1
  <2>3. i + 1 = j + 1
    BY <2>1, <2>2 DEF OnceEach
  <2> QED
    BY <2>1, <2>3
<1>4. TasksOf(rest) = TasksOf(jobs) \ {jobs[1].of}
  <2>1. ASSUME NEW g \in TasksOf(rest) PROVE g \in TasksOf(jobs) \ {jobs[1].of}
    <3>1. PICK i \in DOMAIN rest : g = rest[i].of
      BY DEF TasksOf
    <3>2. i + 1 \in DOMAIN jobs /\ i + 1 # 1 /\ g = jobs[i + 1].of
      BY <1>1, <1>2, <3>1
    <3>3. g # jobs[1].of
      BY <1>2, <3>2 DEF OnceEach
    <3> QED
      BY <3>2, <3>3 DEF TasksOf
  <2>2. ASSUME NEW g \in TasksOf(jobs) \ {jobs[1].of} PROVE g \in TasksOf(rest)
    <3>1. PICK j \in DOMAIN jobs : g = jobs[j].of
      BY DEF TasksOf
    <3>2. j # 1
      BY <3>1
    <3> QED
      BY <1>2, <3>1, <3>2 DEF TasksOf
  <2> QED
    BY <2>1, <2>2
<1> QED
  BY <1>1, <1>2, <1>3, <1>4 DEF rest, TasksOf

\* An empty queue is about no task.
LEMMA NoJobs == TasksOf(<<>>) = {} /\ OnceEach(<<>>) /\ <<>> \in Seq(DeadLetters)
BY DEF TasksOf, OnceEach

-----------------------------------------------------------------------------
ArchiveTypeOK ==
    /\ plies \in [RowIds -> Nat] /\ known \in [RowIds -> Nat]
    /\ given \in [Archivals -> Nat] /\ tried \in [Archivals -> Nat]
    /\ stage \in [Archivals -> ArchivalStages]
    /\ deadLetters \in Seq(DeadLetters)
    /\ batch \in [Retriers -> Seq(DeadLetters)]

\* The replica is behind, and a task was given no more than it had.
RepliesBehind ==
    /\ \A g \in RowIds : known[g] <= plies[g] + 1
    /\ \A c \in Archivals : given[c] <= plies[GameOf[c]]

\* Wherever a job is, it says how often its task was tried.
TriesKept ==
    /\ \A i \in DOMAIN deadLetters : deadLetters[i].tries = tried[deadLetters[i].of]
    /\ \A r \in Retriers : \A i \in DOMAIN batch[r] :
          batch[r][i].tries = tried[batch[r][i].of]
    /\ \A g \in Archivals : stage[g] \in {"ipfs", "arweave"} => tried[g] = 1

\* A document is made up, or that of the first moves of its game.
DocumentOf(n) == [text |-> PgnToString(n), rounds |-> n \div 2, genuine |-> TRUE]

DocumentsTrue ==
    \A u \in uploads :
        /\ u.game \in RowIds
        /\ u.request = StubRequest \/ \E n \in 0..plies[u.game] : u.request = DocumentOf(n)

\* What a task has uploaded when it is at a stage.
UploadsKept ==
    \A g \in Archivals :
        /\ (Len(Gateways) = 2 /\ stage[g] = Gateways[2]) =>
               Upload(g, Gateways[1], ToRequest(g)) \in uploads
        /\ stage[g] = "archived" =>
               \A i \in DOMAIN Gateways : Upload(g, Gateways[i], ToRequest(g)) \in uploads
        /\ stage[g] = "stubbed" => Upload(g, "ipfs", StubRequest) \in uploads

ArchiveInv ==
    ArchiveTypeOK /\ RepliesBehind /\ WaitsOnce /\ TriesKept /\ DocumentsTrue /\ UploadsKept

\* Without a network nothing is archived.
NoneArchived == Gateways = <<>> => \A g \in Archivals : stage[g] # "archived"

\* The document of a game is genuine as long as its moves are those of the game.
LEMMA DocumentGenuine ==
    ASSUME NEW g \in RowIds, plies[g] \in Nat, NEW n \in 0..plies[g]
    PROVE  Genuine(g, DocumentOf(n))
<1> DEFINE text == PgnToString(n)
<1>1. n \in Nat /\ n <= plies[g]
  OBVIOUS
<1>2. /\ DocumentOf(n).text = text /\ DocumentOf(n).rounds = n \div 2 /\ DocumentOf(n).genuine
      /\ DOMAIN text = 1..n /\ Len(text) = n
      /\ \A i \in 1..n : /\ text[i].move = i
                         /\ text[i].number = IF i % 2 = 1 THEN (i + 1) \div 2 ELSE 0
  <2>1. text \in Seq([number : Int, move : Nat])
    <3>1. text \in [1..n -> [number : Int, move : Nat]]
      BY <1>1 DEF PgnToString, Unnumbered
    <3> DEFINE tokens == [number : Int, move : Nat]
    <3> HIDE DEF text, tokens
    <3>2. text \in [1..n -> tokens]
      BY <3>1 DEF tokens
    <3>3. text \in Seq(tokens)
      BY <1>1, <3>2, SeqDef
    <3> QED
      BY <3>3 DEF tokens
  <2>2. DOMAIN text = 1..n
    BY DEF PgnToString
  <2>3. Len(text) = n
    BY <2>1, <2>2, LenProperties
  <2> QED
    BY <2>2, <2>3 DEF DocumentOf, PgnToString, Unnumbered
<1> HIDE DEF text
<1>3. text # <<>> => text[1].number = 1
  <2>1. text # <<>> => n >= 1
    BY <1>2, EmptySeq
  <2> QED
    BY <1>2, <2>1
<1>4. ASSUME NEW i \in 1..n, i > 1
      PROVE  (text[i].number = 0) = (text[i - 1].number # 0)
  <2>1. PICK j \in 1..n : j = i - 1
    BY <1>4
  <2>2. CASE i % 2 = 1
    <3>1. j % 2 # 1 /\ (i + 1) \div 2 > 0
      BY <1>4, <2>1, <2>2
    <3>2. text[i].number = (i + 1) \div 2 /\ text[j].number = 0
      BY <1>2, <2>2, <3>1
    <3> QED
      BY <2>1, <3>1, <3>2
  <2>3. CASE i % 2 # 1
    <3>1. j % 2 = 1 /\ (j + 1) \div 2 > 0
      BY <1>4, <2>1, <2>3
    <3>2. text[j].number = (j + 1) \div 2 /\ text[i].number = 0
      BY <1>2, <2>3, <3>1
    <3> QED
      BY <2>1, <3>1, <3>2
  <2> QED
    BY <2>2, <2>3
<1>5. ASSUME NEW i \in 1..n, i > 2, text[i].number # 0
      PROVE  text[i].number = text[i - 2].number + 1
  <2>1. i - 2 \in 1..n /\ i % 2 = 1 /\ text[i].number = (i + 1) \div 2
    BY <1>2, <1>5
  <2>2. (i - 2) % 2 = 1 /\ (i + 1) \div 2 = ((i - 2) + 1) \div 2 + 1
    BY <1>5, <2>1
  <2> QED
    BY <1>2, <2>1, <2>2
<1>6. n - 2 * (n \div 2) \in {0, 1}
  BY <1>1
<1> QED
  BY <1>1, <1>2, <1>3, <1>4, <1>5, <1>6 DEF Genuine, Unnumbered

\* The networks with a gateway: none, one, or both in one order.
LEMMA GatewaysKnown ==
    /\ DOMAIN Gateways = 1..Len(Gateways) /\ Len(Gateways) \in 0..2
    /\ \A i \in DOMAIN Gateways : Gateways[i] \in {"ipfs", "arweave"}
    /\ Gateways # <<>> <=> Len(Gateways) > 0
    /\ Gateways # <<>> => Last(Gateways) = Gateways[Len(Gateways)]
    /\ Len(Gateways) = 2 => Gateways[1] = "ipfs" /\ Gateways[2] = "arweave"
<1>1. CASE Gateways = <<>>
  BY <1>1
<1>2. CASE Gateways = <<"ipfs">>
  BY <1>2 DEF Last
<1>3. CASE Gateways = <<"arweave">>
  BY <1>3 DEF Last
<1>4. CASE Gateways = <<"ipfs", "arweave">>
  BY <1>4 DEF Last
<1> QED
  BY <1>1, <1>2, <1>3, <1>4, ArchivingAssumption

LEMMA ArchiveStarts == ArchiveInit => ArchiveInv
<1> SUFFICES ASSUME ArchiveInit PROVE ArchiveInv
  OBVIOUS
<1>1. ArchiveTypeOK /\ RepliesBehind
  BY NoJobs, ArchivingAssumption
     DEF ArchiveInit, ArchiveTypeOK, RepliesBehind, ArchivalStages
<1>2. WaitsOnce
  BY NoJobs DEF ArchiveInit, WaitsOnce
<1>3. TriesKept /\ DocumentsTrue
  BY NoJobs DEF ArchiveInit, TriesKept, DocumentsTrue
<1>4. UploadsKept
  BY GatewaysKnown DEF ArchiveInit, UploadsKept
<1> QED
  BY <1>1, <1>2, <1>3, <1>4 DEF ArchiveInv

\* Nothing happens to the jobs when no task fails or stops waiting.
LEMMA WaitsKept ==
    ASSUME WaitsOnce, UNCHANGED <<deadLetters, batch>>,
           \A g \in Archivals : stage'[g] = "failed" <=> stage[g] = "failed"
    PROVE  WaitsOnce'
BY DEF WaitsOnce

\* What is genuine stays so while more moves are played.
LEMMA DocumentsStay ==
    ASSUME ArchiveTypeOK, DocumentsTrue, plies' \in [RowIds -> Nat],
           \A g \in RowIds : plies'[g] >= plies[g],
           \A u \in uploads' \ uploads :
               /\ u.game \in RowIds
               /\ u.request = StubRequest
                  \/ \E n \in 0..plies[u.game] : u.request = DocumentOf(n)
    PROVE  DocumentsTrue'
<1> SUFFICES ASSUME NEW u \in uploads'
             PROVE  /\ u.game \in RowIds
                    /\ u.request = StubRequest
                       \/ \E n \in 0..plies'[u.game] : u.request = DocumentOf(n)
  BY DEF DocumentsTrue, DocumentOf, PgnToString
<1>1. /\ u.game \in RowIds
      /\ u.request = StubRequest \/ \E n \in 0..plies[u.game] : u.request = DocumentOf(n)
  BY DEF DocumentsTrue
<1>2. 0..plies[u.game] \subseteq 0..plies'[u.game]
  <2>1. PICK a \in Nat, b \in Nat : a = plies[u.game] /\ b = plies'[u.game] /\ a <= b
    BY <1>1 DEF ArchiveTypeOK
  <2> QED
    BY <2>1
<1> QED
  BY <1>1, <1>2

\* What a task is to do in one go: it uploads, goes on, or fails.
LEMMA UploadsStay ==
    ASSUME UploadsKept, UNCHANGED given, uploads \subseteq uploads',
           NEW g, \A h \in Archivals \ {g} : stage'[h] = stage[h],
           g \in Archivals =>
               /\ (Len(Gateways) = 2 /\ stage'[g] = Gateways[2]) =>
                      Upload(g, Gateways[1], ToRequest(g)) \in uploads'
               /\ stage'[g] = "archived" =>
                      \A i \in DOMAIN Gateways : Upload(g, Gateways[i], ToRequest(g)) \in uploads'
               /\ stage'[g] = "stubbed" => Upload(g, "ipfs", StubRequest) \in uploads'
    PROVE  UploadsKept'
<1>1. \A h : ToRequest(h)' = ToRequest(h)
  BY DEF ToRequest
<1>2. \A h, network, request : Upload(h, network, request)' = Upload(h, network, request)
  BY DEF Upload
<1> SUFFICES ASSUME NEW h \in Archivals
             PROVE  /\ (Len(Gateways) = 2 /\ stage'[h] = Gateways[2]) =>
                           Upload(h, Gateways[1], ToRequest(h)) \in uploads'
                    /\ stage'[h] = "archived" =>
                           \A i \in DOMAIN Gateways :
                               Upload(h, Gateways[i], ToRequest(h)) \in uploads'
                    /\ stage'[h] = "stubbed" => Upload(h, "ipfs", StubRequest) \in uploads'
  BY <1>1 DEF UploadsKept, StubRequest, Upload
<1>3. CASE h = g
  BY <1>3
<1>4. CASE h # g
  BY <1>4 DEF UploadsKept
<1> QED
  BY <1>3, <1>4

\* A move is played, or the replica learns of one.
LEMMA RowStep ==
    ASSUME ArchiveInv, NEW g \in RowIds, PlayMove(g) \/ RowArrives(g)
    PROVE  ArchiveInv'
<1> USE DEF ArchiveInv
<1>t. /\ plies \in [RowIds -> Nat] /\ known \in [RowIds -> Nat] /\ given \in [Archivals -> Nat]
      /\ GameOf \in [Archivals -> RowIds]
  BY ArchivingAssumption DEF ArchiveTypeOK
<1>1. CASE PlayMove(g)
  <2>1. /\ plies' = [plies EXCEPT ![g] = @ + 1]
        /\ UNCHANGED <<known, stage, given, deadLetters, batch, uploads, tried>>
    BY <1>1 DEF PlayMove
  <2>2. plies' \in [RowIds -> Nat] /\ \A h \in RowIds : plies'[h] >= plies[h]
    BY <1>t, <2>1
  <2>3. RepliesBehind'
    <3>1. ASSUME NEW h \in RowIds PROVE known[h] <= plies'[h] + 1
      BY <1>t, <2>2 DEF RepliesBehind
    <3>2. ASSUME NEW c \in Archivals PROVE given[c] <= plies'[GameOf[c]]
      <4>1. GameOf[c] \in RowIds /\ given[c] \in Nat
        BY <1>t
      <4>2. /\ plies[GameOf[c]] \in Nat /\ plies'[GameOf[c]] \in Nat
            /\ plies'[GameOf[c]] >= plies[GameOf[c]]
        BY <1>t, <2>2, <4>1
      <4> QED
        BY <4>1, <4>2 DEF RepliesBehind
    <3> QED
      BY <2>1, <3>1, <3>2 DEF RepliesBehind
  <2>4. ArchiveTypeOK'
    BY <2>1, <2>2 DEF ArchiveTypeOK
  <2>5. WaitsOnce' /\ TriesKept'
    BY <2>1 DEF WaitsOnce, TriesKept
  <2>6. DocumentsTrue'
    BY <2>1, <2>2, DocumentsStay
  <2>7. UploadsKept'
    BY <2>1 DEF UploadsKept, ToRequest, Upload
  <2> QED
    BY <2>3, <2>4, <2>5, <2>6, <2>7
<1>2. CASE RowArrives(g)
  <2>1. /\ known' = [known EXCEPT ![g] = @ + 1] /\ known[g] < plies[g] + 1
        /\ UNCHANGED <<plies, stage, given, deadLetters, batch, uploads, tried>>
    BY <1>2 DEF RowArrives
  <2>2. ArchiveTypeOK' /\ RepliesBehind'
    BY <2>1 DEF ArchiveTypeOK, RepliesBehind
  <2>3. WaitsOnce' /\ TriesKept' /\ DocumentsTrue'
    BY <2>1 DEF WaitsOnce, TriesKept, DocumentsTrue
  <2>4. UploadsKept'
    BY <2>1 DEF UploadsKept, ToRequest, Upload
  <2> QED
    BY <2>2, <2>3, <2>4
<1> QED
  BY <1>1, <1>2

\* A request completes its game, and reads the row back for its task or leaves it.
LEMMA PlayingStep ==
    ASSUME ArchiveInv, NEW g \in Archivals, CompletesGame(g) \/ ReadsBack(g)
    PROVE  ArchiveInv'
<1> USE DEF ArchiveInv
<1>1. CASE CompletesGame(g)
  <2>1. /\ stage' = [stage EXCEPT ![g] = "completed"] /\ stage[g] = "playing"
        /\ UNCHANGED <<plies, known, given, deadLetters, batch, uploads, tried>>
    BY <1>1 DEF CompletesGame, rowVars
  <2>2. ArchiveTypeOK' /\ RepliesBehind'
    BY <2>1 DEF ArchiveTypeOK, RepliesBehind, ArchivalStages
  <2>3. TriesKept' /\ DocumentsTrue'
    BY <2>1 DEF TriesKept, DocumentsTrue
  <2>4. WaitsOnce'
    <3>1. \A h \in Archivals : stage'[h] = "failed" <=> stage[h] = "failed"
      BY <2>1 DEF ArchiveTypeOK
    <3> QED
      BY <2>1, <3>1, WaitsKept
  <2>5. UploadsKept'
    <3>1. \A h \in Archivals \ {g} : stage'[h] = stage[h]
      BY <2>1 DEF ArchiveTypeOK
    <3>2. stage'[g] = "completed"
      BY <2>1 DEF ArchiveTypeOK
    <3> QED
      BY <2>1, <3>1, <3>2, GatewaysKnown, UploadsStay
  <2> QED
    BY <2>2, <2>3, <2>4, <2>5
<1>2. CASE ReadsBack(g)
  <2>1. /\ stage[g] = "completed" /\ UNCHANGED <<plies, known, deadLetters, batch, uploads>>
    BY <1>2 DEF ReadsBack, rowVars
  <2>2. \/ /\ Gateways # <<>> /\ known[GameOf[g]] # 0
           /\ given' = [given EXCEPT ![g] = known[GameOf[g]] - 1]
           /\ stage' = [stage EXCEPT ![g] = Gateways[1]] /\ tried' = [tried EXCEPT ![g] = 1]
        \/ stage' = [stage EXCEPT ![g] = "left"] /\ UNCHANGED <<given, tried>>
    BY <1>2 DEF ReadsBack, SpawnArchive
  <2>3. /\ \A h \in Archivals \ {g} : stage'[h] = stage[h] /\ tried'[h] = tried[h]
        /\ stage' \in [Archivals -> ArchivalStages] /\ tried' \in [Archivals -> Nat]
        /\ \/ stage'[g] = "left"
           \/ Gateways # <<>> /\ stage'[g] = Gateways[1] /\ tried'[g] = 1
    <3>1. Gateways # <<>> => Gateways[1] \in ArchivalStages
      BY GatewaysKnown DEF ArchivalStages
    <3>2. stage \in [Archivals -> ArchivalStages] /\ tried \in [Archivals -> Nat] /\ "left" \in ArchivalStages
      BY DEF ArchiveTypeOK, ArchivalStages
    <3>3. CASE Gateways # <<>> /\ stage' = [stage EXCEPT ![g] = Gateways[1]]
               /\ tried' = [tried EXCEPT ![g] = 1]
      BY <3>1, <3>2, <3>3
    <3>4. CASE stage' = [stage EXCEPT ![g] = "left"] /\ UNCHANGED tried
      BY <3>2, <3>4
    <3> QED
      BY <2>2, <3>3, <3>4
  <2>4. /\ given' \in [Archivals -> Nat] /\ given'[g] <= plies[GameOf[g]]
        /\ \A h \in Archivals \ {g} : given'[h] = given[h]
    <3>1. GameOf[g] \in RowIds
      BY ArchivingAssumption
    <3>2. PICK k \in Nat, m \in Nat : k = known[GameOf[g]] /\ m = plies[GameOf[g]] /\ k <= m + 1
      BY <3>1 DEF ArchiveTypeOK, RepliesBehind
    <3>3. given \in [Archivals -> Nat] /\ given[g] <= m
      BY <3>2 DEF ArchiveTypeOK, RepliesBehind
    <3>4. CASE k # 0 /\ given' = [given EXCEPT ![g] = k - 1]
      <4>1. k - 1 \in Nat /\ k - 1 <= m
        BY <3>2, <3>4
      <4> QED
        BY <3>2, <3>3, <3>4, <4>1
    <3>5. CASE UNCHANGED given
      BY <3>2, <3>3, <3>5
    <3> QED
      BY <2>2, <3>2, <3>4, <3>5
  <2>5. ArchiveTypeOK' /\ RepliesBehind'
    BY <2>1, <2>3, <2>4 DEF ArchiveTypeOK, RepliesBehind
  <2>6. stage'[g] \notin {"failed", "archived", "stubbed"}
    BY <2>3, GatewaysKnown
  <2>7. WaitsOnce'
    <3>1. \A h \in Archivals : stage'[h] = "failed" <=> stage[h] = "failed"
      BY <2>1, <2>3, <2>6
    <3> QED
      BY <2>1, <3>1, WaitsKept
  <2>8. TriesKept'
    <3>1. \A i \in DOMAIN deadLetters : deadLetters[i].of # g
      BY <2>1 DEF WaitsOnce, TasksOf
    <3>2. \A r \in Retriers : \A i \in DOMAIN batch[r] : batch[r][i].of # g
      BY <2>1 DEF WaitsOnce, TasksOf
    <3>3. \A i \in DOMAIN deadLetters : deadLetters[i].of \in Archivals
      <4> TAKE i \in DOMAIN deadLetters
      <4>1. deadLetters[i] \in DeadLetters
        BY ElementOfSeq, LenProperties DEF ArchiveTypeOK
      <4> QED
        BY <4>1 DEF DeadLetters
    <3>4. \A r \in Retriers : \A i \in DOMAIN batch[r] : batch[r][i].of \in Archivals
      <4> TAKE r \in Retriers
      <4> TAKE i \in DOMAIN batch[r]
      <4>1. batch[r][i] \in DeadLetters
        BY ElementOfSeq, LenProperties DEF ArchiveTypeOK
      <4> QED
        BY <4>1 DEF DeadLetters
    <3> QED
      BY <2>1, <2>3, <3>1, <3>2, <3>3, <3>4 DEF TriesKept
  <2>9. DocumentsTrue'
    BY <2>1 DEF DocumentsTrue
  <2>10. UploadsKept'
    <3>1. \A h \in Archivals \ {g} : ToRequest(h)' = ToRequest(h)
      BY <2>4 DEF ToRequest
    <3>2. ~(Len(Gateways) = 2 /\ stage'[g] = Gateways[2])
      BY <2>3, GatewaysKnown
    <3>3. ASSUME NEW h \in Archivals
          PROVE  /\ (Len(Gateways) = 2 /\ stage'[h] = Gateways[2]) =>
                        Upload(h, Gateways[1], ToRequest(h)') \in uploads'
                 /\ stage'[h] = "archived" =>
                        \A i \in DOMAIN Gateways :
                            Upload(h, Gateways[i], ToRequest(h)') \in uploads'
                 /\ stage'[h] = "stubbed" => Upload(h, "ipfs", StubRequest) \in uploads'
      <4>1. CASE h = g
        BY <2>6, <3>2, <4>1
      <4>2. CASE h # g
        BY <2>1, <2>3, <3>1, <4>2 DEF UploadsKept
      <4> QED
        BY <4>1, <4>2
    <3> QED
      BY <3>3 DEF UploadsKept, Upload, StubRequest
  <2> QED
    BY <2>5, <2>7, <2>8, <2>9, <2>10
<1> QED
  BY <1>1, <1>2

\* A task uploads to its network, and goes on, is done, or fails.
LEMMA TaskStep ==
    ASSUME ArchiveInv, NEW g \in Archivals, NEW network,
           Uploads(g, network) \/ ArchiveFails(g, network)
    PROVE  ArchiveInv'
<1> USE DEF ArchiveInv
<1> DEFINE document == Upload(g, network, ToRequest(g))
<1>1. /\ stage[g] = network /\ network \in {"ipfs", "arweave"} /\ Gateways # <<>>
      /\ \E i \in DOMAIN Gateways : Gateways[i] = network
      /\ UNCHANGED <<plies, known, given, batch, tried>>
      /\ uploads \subseteq uploads' /\ uploads' \subseteq uploads \cup {document}
  BY GatewaysKnown DEF Uploads, ArchiveFails, Uploading, rowVars
<1>2. /\ ToRequest(g) = DocumentOf(given[g]) /\ GameOf[g] \in RowIds
      /\ given[g] \in 0..plies[GameOf[g]]
  <2>1. /\ GameOf[g] \in RowIds /\ given[g] \in Nat /\ plies[GameOf[g]] \in Nat
        /\ given[g] <= plies[GameOf[g]]
    BY ArchivingAssumption DEF ArchiveTypeOK, RepliesBehind
  <2> QED
    BY <2>1 DEF ToRequest, DocumentOf
<1>3. DocumentsTrue'
  <2>1. document.game = GameOf[g] /\ document.request = DocumentOf(given[g])
    BY <1>2 DEF Upload
  <2>2. plies' \in [RowIds -> Nat] /\ \A h \in RowIds : plies'[h] >= plies[h]
    BY <1>1 DEF ArchiveTypeOK
  <2> HIDE DEF document
  <2> QED
    BY <1>1, <1>2, <2>1, <2>2, DocumentsStay
<1>4. CASE Uploads(g, network)
  <2>1. /\ document \in uploads' /\ UNCHANGED deadLetters
        /\ stage' = [stage EXCEPT ![g] = NextStep(g)]
    BY <1>4 DEF Uploads
  <2>2. /\ NextStep(g) \in {"archived", "ipfs", "arweave"}
        /\ NextStep(g) = "archived" => network = Gateways[Len(Gateways)]
        /\ NextStep(g) # "archived" => Len(Gateways) = 2 /\ network = Gateways[1]
    <3>1. Len(Gateways) \in DOMAIN Gateways
      BY <1>1, GatewaysKnown
    <3>2. Gateways[Len(Gateways)] \in {"ipfs", "arweave"} /\ Last(Gateways) = Gateways[Len(Gateways)]
      BY <1>1, <3>1, GatewaysKnown
    <3>3. network # Gateways[Len(Gateways)] => Len(Gateways) = 2 /\ network = Gateways[1]
      BY <1>1, GatewaysKnown
    <3> QED
      BY <1>1, <3>2, <3>3 DEF NextStep
  <2>3. /\ stage' \in [Archivals -> ArchivalStages] /\ stage'[g] = NextStep(g)
        /\ \A h \in Archivals \ {g} : stage'[h] = stage[h]
    BY <2>1, <2>2 DEF ArchiveTypeOK, ArchivalStages
  <2>4. ArchiveTypeOK' /\ RepliesBehind' /\ TriesKept'
    BY <1>1, <2>1, <2>3 DEF ArchiveTypeOK, RepliesBehind, TriesKept
  <2>5. WaitsOnce'
    <3>1. \A h \in Archivals : stage'[h] = "failed" <=> stage[h] = "failed"
      BY <1>1, <2>2, <2>3
    <3> QED
      BY <1>1, <2>1, <3>1, WaitsKept
  <2>6. UploadsKept'
    <3>1. (Len(Gateways) = 2 /\ stage'[g] = Gateways[2]) =>
              Upload(g, Gateways[1], ToRequest(g)) \in uploads'
      BY <2>1, <2>2, <2>3, GatewaysKnown
    <3>2. stage'[g] = "archived" =>
              \A i \in DOMAIN Gateways : Upload(g, Gateways[i], ToRequest(g)) \in uploads'
      <4> SUFFICES ASSUME stage'[g] = "archived", NEW i \in DOMAIN Gateways
                   PROVE  Upload(g, Gateways[i], ToRequest(g)) \in uploads'
        OBVIOUS
      <4>1. network = Gateways[Len(Gateways)]
        BY <2>2, <2>3
      <4>2. CASE i = Len(Gateways)
        BY <2>1, <4>1, <4>2
      <4>3. CASE i # Len(Gateways)
        <5>1. i = 1 /\ Len(Gateways) = 2
          BY <4>3, GatewaysKnown
        <5>2. stage[g] = Gateways[2]
          BY <1>1, <4>1, <5>1
        <5> QED
          BY <1>1, <5>1, <5>2 DEF UploadsKept
      <4> QED
        BY <4>2, <4>3
    <3>3. stage'[g] # "stubbed"
      BY <2>2, <2>3
    <3> QED
      BY <1>1, <2>3, <3>1, <3>2, <3>3, UploadsStay
  <2> QED
    BY <1>3, <2>4, <2>5, <2>6
<1>5. CASE ArchiveFails(g, network)
  <2>1. /\ stage' = [stage EXCEPT ![g] = "failed"]
        /\ deadLetters' = Append(deadLetters, Dead(g, 1))
    BY <1>5 DEF ArchiveFails
  <2>2. /\ stage' \in [Archivals -> ArchivalStages] /\ stage'[g] = "failed"
        /\ \A h \in Archivals \ {g} : stage'[h] = stage[h]
    BY <2>1 DEF ArchiveTypeOK, ArchivalStages
  <2>3. Dead(g, 1) \in DeadLetters /\ Dead(g, 1).of = g /\ Dead(g, 1).tries = 1
    BY DEF Dead, DeadLetters
  <2>4. g \notin TasksOf(deadLetters) /\ \A r \in Retriers : g \notin TasksOf(batch[r])
    BY <1>1 DEF WaitsOnce
  <2>5. /\ deadLetters' \in Seq(DeadLetters) /\ OnceEach(deadLetters')
        /\ TasksOf(deadLetters') = TasksOf(deadLetters) \cup {g}
        /\ \A i \in DOMAIN deadLetters' :
              \/ deadLetters'[i] = Dead(g, 1)
              \/ i \in DOMAIN deadLetters /\ deadLetters'[i] = deadLetters[i]
    <3>1. deadLetters \in Seq(DeadLetters) /\ OnceEach(deadLetters)
      BY DEF ArchiveTypeOK, WaitsOnce
    <3> QED
      BY <2>1, <2>3, <2>4, <3>1, JobAdded
  <2>6. ArchiveTypeOK' /\ RepliesBehind'
    BY <1>1, <2>2, <2>5 DEF ArchiveTypeOK, RepliesBehind
  <2>7. WaitsOnce'
    <3>n. \A r \in Retriers :
            /\ OnceEach(batch[r]) /\ TasksOf(batch[r]) \cap TasksOf(deadLetters) = {}
            /\ \A s \in Retriers \ {r} : TasksOf(batch[r]) \cap TasksOf(batch[s]) = {}
      BY DEF WaitsOnce
    <3>1. ASSUME NEW r \in Retriers
          PROVE  TasksOf(batch[r]) \cap TasksOf(deadLetters') = {}
      BY <2>4, <2>5, <3>n
    <3>2. ASSUME NEW h \in Archivals
          PROVE  stage'[h] = "failed" <=> \/ h \in TasksOf(deadLetters')
                                          \/ \E r \in Retriers : h \in TasksOf(batch[r])
      <4>1. CASE h = g
        BY <2>2, <2>5, <4>1
      <4>2. CASE h # g
        <5>1. stage'[h] = stage[h] /\ (h \in TasksOf(deadLetters') <=> h \in TasksOf(deadLetters))
          BY <2>2, <2>5, <4>2
        <5> QED
          BY <5>1 DEF WaitsOnce
      <4> QED
        BY <4>1, <4>2
    <3> QED
      BY <1>1, <2>5, <3>n, <3>1, <3>2 DEF WaitsOnce
  <2>8. TriesKept'
    <3>1. tried[g] = 1
      BY <1>1 DEF TriesKept
    <3>3. \A i \in DOMAIN deadLetters' : deadLetters'[i].tries = tried[deadLetters'[i].of]
      BY <2>3, <2>5, <3>1 DEF TriesKept
    <3> QED
      BY <1>1, <2>2, <3>3 DEF TriesKept
  <2>9. UploadsKept'
    BY <1>1, <2>2, GatewaysKnown, UploadsStay
  <2> QED
    BY <1>3, <2>6, <2>7, <2>8, <2>9
<1> QED
  BY <1>4, <1>5

\* A retry takes the whole queue, tries a job, or is dropped with what it has.
LEMMA TakeStep ==
    ASSUME ArchiveInv, NEW r \in Retriers, TakeDeadLetters(r)
    PROVE  ArchiveInv'
<1> USE DEF ArchiveInv
<1>1. /\ batch[r] = <<>> /\ batch' = [batch EXCEPT ![r] = deadLetters] /\ deadLetters' = <<>>
      /\ UNCHANGED <<plies, known, given, stage, uploads, tried>>
  BY DEF TakeDeadLetters, LeftAfterTake, rowVars
<1>2. /\ batch' \in [Retriers -> Seq(DeadLetters)] /\ batch'[r] = deadLetters
      /\ \A s \in Retriers \ {r} : batch'[s] = batch[s]
  BY <1>1 DEF ArchiveTypeOK
<1>3. TasksOf(batch[r]) = {} /\ TasksOf(deadLetters') = {} /\ OnceEach(deadLetters')
  BY <1>1, NoJobs
<1>4. ArchiveTypeOK' /\ RepliesBehind'
  BY <1>1, <1>2, NoJobs DEF ArchiveTypeOK, RepliesBehind
<1>5. WaitsOnce'
  <2>1. ASSUME NEW h \in Archivals
        PROVE  (\/ h \in TasksOf(deadLetters')
                \/ \E s \in Retriers : h \in TasksOf(batch'[s]))
               <=> \/ h \in TasksOf(deadLetters)
                   \/ \E s \in Retriers : h \in TasksOf(batch[s])
    BY <1>2, <1>3
  <2>2. /\ \A s \in Retriers : OnceEach(batch'[s])
        /\ \A s \in Retriers : TasksOf(batch'[s]) \cap TasksOf(deadLetters') = {}
    BY <1>2, <1>3 DEF WaitsOnce
  <2>3. \A s \in Retriers : \A t \in Retriers \ {s} :
            TasksOf(batch'[s]) \cap TasksOf(batch'[t]) = {}
    <3> SUFFICES ASSUME NEW s \in Retriers, NEW t \in Retriers, t # s
                 PROVE  TasksOf(batch'[s]) \cap TasksOf(batch'[t]) = {}
      OBVIOUS
    <3>1. CASE s = r
      BY <1>2, <3>1 DEF WaitsOnce
    <3>2. CASE t = r
      BY <1>2, <3>2 DEF WaitsOnce
    <3>3. CASE s # r /\ t # r
      BY <1>2, <3>3 DEF WaitsOnce
    <3> QED
      BY <3>1, <3>2, <3>3
  <2> QED
    BY <1>1, <1>3, <2>1, <2>2, <2>3 DEF WaitsOnce
<1>6. TriesKept'
  <2>1. \A s \in Retriers : batch'[s] = batch[s] \/ batch'[s] = deadLetters
    BY <1>2
  <2> QED
    BY <1>1, <2>1 DEF TriesKept
<1>7. DocumentsTrue'
  BY <1>1 DEF DocumentsTrue
<1>8. UploadsKept'
  BY <1>1 DEF UploadsKept, ToRequest, Upload
<1> QED
  BY <1>4, <1>5, <1>6, <1>7, <1>8

\* What the batches and the queue hold when one retry gives up one of its jobs.
LEMMA RetryStep ==
    ASSUME ArchiveInv, NEW r \in Retriers, RetryJob(r)
    PROVE  ArchiveInv'
<1> USE DEF ArchiveInv
<1> DEFINE letter == Head(batch[r])
           stub == Upload(letter.of, "ipfs", StubRequest)
<1>1. /\ batch[r] # <<>> /\ batch[r] \in Seq(DeadLetters) /\ OnceEach(batch[r])
      /\ deadLetters \in Seq(DeadLetters) /\ OnceEach(deadLetters)
  BY DEF RetryJob, ArchiveTypeOK, WaitsOnce
<1>2. PICK g \in Archivals, n \in Nat : letter = [of |-> g, tries |-> n]
  BY <1>1, JobTaken DEF DeadLetters
<1>3. /\ batch' = [batch EXCEPT ![r] = Tail(@)] /\ tried' = [tried EXCEPT ![g] = @ + 1]
      /\ UNCHANGED <<plies, known, given>>
      /\ uploads \subseteq uploads' /\ uploads' \subseteq uploads \cup {stub}
      /\ \/ /\ stub \in uploads' /\ stage' = [stage EXCEPT ![g] = "stubbed"]
            /\ UNCHANGED deadLetters
         \/ deadLetters' = Append(deadLetters, Dead(g, n + 1)) /\ UNCHANGED stage
  <2>1. letter.of = g /\ letter.tries = n
    BY <1>2
  <2> HIDE DEF stub
  <2>2. /\ batch' = [batch EXCEPT ![r] = Tail(@)]
        /\ tried' = [tried EXCEPT ![letter.of] = @ + 1]
        /\ UNCHANGED <<plies, known, given>>
        /\ \/ /\ uploads' = uploads \cup {stub}
              /\ stage' = [stage EXCEPT ![letter.of] = "stubbed"]
              /\ UNCHANGED deadLetters
           \/ /\ uploads' = uploads \/ uploads' = uploads \cup {stub}
              /\ deadLetters' = Append(deadLetters, Dead(letter.of, letter.tries + 1))
              /\ UNCHANGED stage
    BY Zenon DEF RetryJob, rowVars, stub
  <2> HIDE DEF letter
  <2> QED
    BY <2>1, <2>2
<1>4. /\ stub.game = GameOf[g] /\ GameOf[g] \in RowIds /\ stub.request = StubRequest
      /\ stub = Upload(g, "ipfs", StubRequest)
  BY <1>2, ArchivingAssumption DEF Upload
<1> HIDE DEF stub
<1>5. /\ batch' \in [Retriers -> Seq(DeadLetters)]
      /\ OnceEach(batch'[r]) /\ TasksOf(batch'[r]) = TasksOf(batch[r]) \ {g}
      /\ g \in TasksOf(batch[r])
      /\ \A i \in DOMAIN batch'[r] : \E j \in DOMAIN batch[r] : batch'[r][i] = batch[r][j]
      /\ \E j \in DOMAIN batch[r] : letter = batch[r][j]
      /\ \A s \in Retriers \ {r} : batch'[s] = batch[s]
  <2>1. /\ Tail(batch[r]) \in Seq(DeadLetters) /\ OnceEach(Tail(batch[r]))
        /\ TasksOf(Tail(batch[r])) = TasksOf(batch[r]) \ {g} /\ g \in TasksOf(batch[r])
        /\ \A i \in DOMAIN Tail(batch[r]) :
              \E j \in DOMAIN batch[r] : Tail(batch[r])[i] = batch[r][j]
        /\ \E j \in DOMAIN batch[r] : letter = batch[r][j]
    BY <1>1, <1>2, JobTaken
  <2>2. /\ batch' \in [Retriers -> Seq(DeadLetters)] /\ batch'[r] = Tail(batch[r])
        /\ \A s \in Retriers \ {r} : batch'[s] = batch[s]
    BY <1>3, <2>1 DEF ArchiveTypeOK
  <2> QED
    BY <2>1, <2>2
<1>6. /\ g \notin TasksOf(deadLetters) /\ stage[g] = "failed"
      /\ \A s \in Retriers \ {r} : g \notin TasksOf(batch[s])
  BY <1>5 DEF WaitsOnce
<1>7. n = tried[g] /\ tried' \in [Archivals -> Nat] /\ tried'[g] = n + 1
      /\ \A h \in Archivals \ {g} : tried'[h] = tried[h]
  <2>1. PICK j \in DOMAIN batch[r] : letter = batch[r][j]
    BY <1>5
  <2>2. letter.tries = tried[letter.of]
    BY <2>1 DEF TriesKept
  <2>3. n = tried[g]
    BY <1>2, <2>2
  <2> QED
    BY <1>3, <2>3 DEF ArchiveTypeOK
<1>8. DocumentsTrue'
  <2>1. plies' \in [RowIds -> Nat] /\ \A h \in RowIds : plies'[h] >= plies[h]
    BY <1>3 DEF ArchiveTypeOK
  <2> QED
    BY <1>3, <1>4, <2>1, DocumentsStay
<1>9. \* The jobs that are left say how often their tasks were tried.
      \A s \in Retriers : \A i \in DOMAIN batch'[s] :
          batch'[s][i].tries = tried'[batch'[s][i].of]
  <2> SUFFICES ASSUME NEW s \in Retriers, NEW i \in DOMAIN batch'[s]
               PROVE  batch'[s][i].tries = tried'[batch'[s][i].of]
    OBVIOUS
  <2>1. PICK j \in DOMAIN batch[s] : batch'[s][i] = batch[s][j]
    BY <1>5
  <2>2. batch[s][j].tries = tried[batch[s][j].of]
    BY <2>1 DEF TriesKept
  <2>3. batch[s][j].of \in Archivals
    <3>1. batch[s][j] \in DeadLetters
      BY <2>1, ElementOfSeq, LenProperties DEF ArchiveTypeOK
    <3> QED
      BY <3>1 DEF DeadLetters
  <2>4. batch'[s][i].of # g
    <3>1. batch'[s][i].of \in TasksOf(batch'[s])
      BY DEF TasksOf
    <3> QED
      BY <1>5, <1>6, <3>1
  <2> QED
    BY <1>7, <2>1, <2>2, <2>3, <2>4
<1>10. \* The queue still does: the task itself is not in it.
       \A i \in DOMAIN deadLetters : deadLetters[i].tries = tried'[deadLetters[i].of]
  <2> SUFFICES ASSUME NEW i \in DOMAIN deadLetters
               PROVE  deadLetters[i].tries = tried'[deadLetters[i].of]
    OBVIOUS
  <2>1. deadLetters[i] \in DeadLetters
    BY ElementOfSeq, LenProperties DEF ArchiveTypeOK
  <2>2. deadLetters[i].of \in Archivals /\ deadLetters[i].of # g
    BY <1>6, <2>1 DEF DeadLetters, TasksOf
  <2> QED
    BY <1>7, <2>2 DEF TriesKept
<1>11. \* Elsewhere the batches keep apart.
       /\ \A s \in Retriers : OnceEach(batch'[s])
       /\ \A s \in Retriers : TasksOf(batch'[s]) \subseteq TasksOf(batch[s])
       /\ \A s \in Retriers : TasksOf(batch'[s]) \cap TasksOf(deadLetters) = {}
       /\ \A s \in Retriers : \A t \in Retriers \ {s} :
             TasksOf(batch'[s]) \cap TasksOf(batch'[t]) = {}
       /\ \A s \in Retriers : TasksOf(batch'[s]) = TasksOf(batch[s]) \ {g}
  <2>1. \A s \in Retriers : OnceEach(batch'[s])
    BY <1>5 DEF WaitsOnce
  <2>2. \A s \in Retriers : TasksOf(batch'[s]) = TasksOf(batch[s]) \ {g}
    BY <1>5, <1>6
  <2>3. \A s \in Retriers : TasksOf(batch'[s]) \subseteq TasksOf(batch[s])
    BY <2>2
  <2>4. /\ \A s \in Retriers : TasksOf(batch[s]) \cap TasksOf(deadLetters) = {}
        /\ \A s \in Retriers : \A t \in Retriers \ {s} :
              TasksOf(batch[s]) \cap TasksOf(batch[t]) = {}
    BY DEF WaitsOnce
  <2>5. \A s \in Retriers : TasksOf(batch'[s]) \cap TasksOf(deadLetters) = {}
    BY <2>3, <2>4
  <2>6. \A s \in Retriers : \A t \in Retriers \ {s} :
            TasksOf(batch'[s]) \cap TasksOf(batch'[t]) = {}
    BY <2>3, <2>4
  <2> QED
    BY <2>1, <2>2, <2>3, <2>5, <2>6
<1>12. \A h \in Archivals :
         stage[h] = "failed" <=> \/ h \in TasksOf(deadLetters)
                                 \/ \E s \in Retriers : h \in TasksOf(batch[s])
  BY DEF WaitsOnce
<1>13. CASE /\ stub \in uploads' /\ stage' = [stage EXCEPT ![g] = "stubbed"]
            /\ UNCHANGED deadLetters
  <2>1. /\ stage' \in [Archivals -> ArchivalStages] /\ stage'[g] = "stubbed"
        /\ \A h \in Archivals \ {g} : stage'[h] = stage[h]
    BY <1>13 DEF ArchiveTypeOK, ArchivalStages
  <2>2. ArchiveTypeOK' /\ RepliesBehind'
    BY <1>3, <1>5, <1>7, <1>13, <2>1 DEF ArchiveTypeOK, RepliesBehind
  <2>3. WaitsOnce'
    <3>2. ASSUME NEW h \in Archivals
          PROVE  stage'[h] = "failed" <=> \/ h \in TasksOf(deadLetters)
                                          \/ \E s \in Retriers : h \in TasksOf(batch'[s])
      <4>1. CASE h = g
        BY <1>6, <1>11, <2>1, <4>1
      <4>2. CASE h # g
        BY <1>11, <1>12, <2>1, <4>2
      <4> QED
        BY <4>1, <4>2
    <3> QED
      BY <1>1, <1>11, <1>13, <3>2 DEF WaitsOnce
  <2>4. TriesKept'
    BY <1>7, <1>9, <1>10, <1>13, <2>1 DEF TriesKept
  <2>5. UploadsKept'
    BY <1>3, <1>4, <1>13, <2>1, GatewaysKnown, UploadsStay
  <2> QED
    BY <1>8, <2>2, <2>3, <2>4, <2>5
<1>14. CASE deadLetters' = Append(deadLetters, Dead(g, n + 1)) /\ UNCHANGED stage
  <2>1. /\ Dead(g, n + 1) \in DeadLetters /\ Dead(g, n + 1).of = g
        /\ Dead(g, n + 1).tries = n + 1
    BY DEF Dead, DeadLetters
  <2>2. /\ deadLetters' \in Seq(DeadLetters) /\ OnceEach(deadLetters')
        /\ TasksOf(deadLetters') = TasksOf(deadLetters) \cup {g}
        /\ \A i \in DOMAIN deadLetters' :
              \/ deadLetters'[i] = Dead(g, n + 1)
              \/ i \in DOMAIN deadLetters /\ deadLetters'[i] = deadLetters[i]
    BY <1>1, <1>6, <1>14, <2>1, JobAdded
  <2>3. ArchiveTypeOK' /\ RepliesBehind'
    BY <1>3, <1>5, <1>7, <1>14, <2>2 DEF ArchiveTypeOK, RepliesBehind
  <2>4. WaitsOnce'
    <3>3. ASSUME NEW h \in Archivals
          PROVE  stage'[h] = "failed" <=> \/ h \in TasksOf(deadLetters')
                                          \/ \E s \in Retriers : h \in TasksOf(batch'[s])
      <4>1. CASE h = g
        BY <1>6, <1>14, <2>2, <4>1
      <4>2. CASE h # g
        <5>1. /\ h \in TasksOf(deadLetters') <=> h \in TasksOf(deadLetters)
              /\ stage'[h] = stage[h]
          BY <1>14, <2>2, <4>2
        <5>2. \A s \in Retriers : h \in TasksOf(batch'[s]) <=> h \in TasksOf(batch[s])
          BY <1>11, <4>2
        <5> QED
          BY <1>12, <5>1, <5>2
      <4> QED
        BY <4>1, <4>2
    <3>4. \A s \in Retriers : TasksOf(batch'[s]) \cap TasksOf(deadLetters') = {}
      BY <1>5, <1>6, <1>11, <2>2
    <3> QED
      BY <1>11, <2>2, <3>3, <3>4 DEF WaitsOnce
  <2>5. TriesKept'
    <3>1. \A i \in DOMAIN deadLetters' : deadLetters'[i].tries = tried'[deadLetters'[i].of]
      BY <1>7, <1>10, <2>1, <2>2
    <3>2. \A h \in Archivals : stage[h] \in {"ipfs", "arweave"} => tried'[h] = 1
      BY <1>6, <1>7 DEF TriesKept
    <3> QED
      BY <1>9, <1>14, <3>1, <3>2 DEF TriesKept
  <2>6. UploadsKept'
    <3>1. /\ \A h \in Archivals \ {g} : stage'[h] = stage[h]
          /\ stage'[g] \notin {"ipfs", "arweave", "archived", "stubbed"}
      BY <1>6, <1>14
    <3> QED
      BY <1>3, <3>1, GatewaysKnown, UploadsStay
  <2> QED
    BY <1>8, <2>3, <2>4, <2>5, <2>6
<1> QED
  BY <1>3, <1>13, <1>14

LEMMA RetryDroppedStep ==
    ASSUME ArchiveInv, NEW r \in Retriers, RetryDropped(r)
    PROVE  ArchiveInv'
<1> USE DEF ArchiveInv
<1>1. /\ batch' = [batch EXCEPT ![r] = <<>>]
      /\ UNCHANGED <<plies, known, given, deadLetters, uploads, tried>>
      /\ stage' = [g \in Archivals |-> IF g \in TasksOf(batch[r]) THEN "lost" ELSE stage[g]]
  <2>1. \A g : (\E i \in DOMAIN batch[r] : batch[r][i].of = g) <=> g \in TasksOf(batch[r])
    BY DEF TasksOf
  <2> QED
    BY <2>1 DEF RetryDropped, rowVars
<1>2. /\ batch' \in [Retriers -> Seq(DeadLetters)] /\ batch'[r] = <<>>
      /\ \A s \in Retriers \ {r} : batch'[s] = batch[s]
  BY <1>1, NoJobs DEF ArchiveTypeOK
<1>3. /\ stage' \in [Archivals -> ArchivalStages]
      /\ \A g \in Archivals :
           /\ g \in TasksOf(batch[r]) => stage'[g] = "lost"
           /\ g \notin TasksOf(batch[r]) => stage'[g] = stage[g]
  BY <1>1 DEF ArchiveTypeOK, ArchivalStages
<1>4. ArchiveTypeOK' /\ RepliesBehind'
  BY <1>1, <1>2, <1>3 DEF ArchiveTypeOK, RepliesBehind
<1>5. WaitsOnce'
  <2>1. TasksOf(batch'[r]) = {} /\ OnceEach(batch'[r])
    BY <1>2, NoJobs
  <2>2. \A s \in Retriers :
          /\ OnceEach(batch'[s]) /\ TasksOf(batch'[s]) \cap TasksOf(deadLetters) = {}
          /\ \A t \in Retriers \ {s} : TasksOf(batch'[s]) \cap TasksOf(batch'[t]) = {}
    <3> SUFFICES ASSUME NEW s \in Retriers
                 PROVE  /\ OnceEach(batch'[s])
                        /\ TasksOf(batch'[s]) \cap TasksOf(deadLetters) = {}
                        /\ \A t \in Retriers \ {s} :
                              TasksOf(batch'[s]) \cap TasksOf(batch'[t]) = {}
      OBVIOUS
    <3>1. CASE s = r
      BY <2>1, <3>1
    <3>2. CASE s # r
      BY <1>2, <2>1, <3>2 DEF WaitsOnce
    <3> QED
      BY <3>1, <3>2
  <2>3. ASSUME NEW g \in Archivals
        PROVE  stage'[g] = "failed" <=> \/ g \in TasksOf(deadLetters)
                                        \/ \E s \in Retriers : g \in TasksOf(batch'[s])
    <3>1. CASE g \in TasksOf(batch[r])
      BY <1>2, <1>3, <2>1, <3>1 DEF WaitsOnce
    <3>2. CASE g \notin TasksOf(batch[r])
      <4>1. \A s \in Retriers : g \in TasksOf(batch'[s]) <=> g \in TasksOf(batch[s])
        BY <1>2, <2>1, <3>2
      <4> QED
        BY <1>3, <3>2, <4>1 DEF WaitsOnce
    <3> QED
      BY <3>1, <3>2
  <2> QED
    BY <1>1, <2>2, <2>3 DEF WaitsOnce
<1>6. TriesKept'
  <2>1. \A s \in Retriers : \A i \in DOMAIN batch'[s] :
            i \in DOMAIN batch[s] /\ batch'[s][i] = batch[s][i]
    BY <1>2
  <2> QED
    BY <1>1, <1>3, <2>1 DEF TriesKept
<1>7. DocumentsTrue'
  BY <1>1 DEF DocumentsTrue
<1>8. UploadsKept'
  <2>1. ASSUME NEW g \in Archivals
        PROVE  stage'[g] = stage[g] \/ stage'[g] \notin {"ipfs", "arweave", "archived", "stubbed"}
    BY <1>3
  <2> QED
    BY <1>1, <2>1, GatewaysKnown DEF UploadsKept, ToRequest, Upload
<1> QED
  BY <1>4, <1>5, <1>6, <1>7, <1>8

LEMMA RestartStep ==
    ASSUME ArchiveInv, ArchiverRestarts
    PROVE  ArchiveInv'
<1> USE DEF ArchiveInv
<1>1. /\ deadLetters' = <<>> /\ batch' = [r \in Retriers |-> <<>>]
      /\ UNCHANGED <<plies, known, given, uploads, tried>>
  BY DEF ArchiverRestarts, rowVars
<1>2. /\ stage' \in [Archivals -> ArchivalStages]
      /\ \A g \in Archivals : /\ stage'[g] = stage[g] \/ stage'[g] \in {"lost", "left"}
                              /\ stage'[g] \notin {"failed", "ipfs", "arweave"}
  BY DEF ArchiverRestarts, ArchiveTypeOK, ArchivalStages
<1>3. ArchiveTypeOK' /\ RepliesBehind'
  BY <1>1, <1>2, NoJobs DEF ArchiveTypeOK, RepliesBehind
<1>4. WaitsOnce'
  BY <1>1, <1>2, NoJobs DEF WaitsOnce
<1>5. TriesKept'
  BY <1>1, <1>2 DEF TriesKept
<1>6. DocumentsTrue'
  BY <1>1 DEF DocumentsTrue
<1>7. UploadsKept'
  BY <1>1, <1>2, GatewaysKnown DEF UploadsKept, ToRequest, Upload
<1> QED
  BY <1>3, <1>4, <1>5, <1>6, <1>7

LEMMA ArchiveStep == ArchiveInv /\ [ArchiveNext]_archiveVars => ArchiveInv'
<1> SUFFICES ASSUME ArchiveInv, [ArchiveNext]_archiveVars PROVE ArchiveInv'
  OBVIOUS
<1>1. ASSUME NEW g \in Archivals, CompletesGame(g) \/ ReadsBack(g)
      PROVE  ArchiveInv'
  BY <1>1, PlayingStep
<1>2. ASSUME NEW g \in Archivals,
             \/ ArchiveToIpfs(g) \/ ArchiveToArweave(g)
             \/ \E i \in DOMAIN Gateways : ArchiveFails(g, Gateways[i])
      PROVE  ArchiveInv'
  BY <1>2, TaskStep DEF ArchiveToIpfs, ArchiveToArweave
<1>3. ASSUME NEW r \in Retriers, TakeDeadLetters(r) \/ RetryJob(r) \/ RetryDropped(r)
      PROVE  ArchiveInv'
  BY <1>3, TakeStep, RetryStep, RetryDroppedStep
<1>4. CASE UNCHANGED archiveVars
  BY <1>4 DEF archiveVars, rowVars, ArchiveInv, ArchiveTypeOK, RepliesBehind, WaitsOnce,
              TriesKept, DocumentsTrue, UploadsKept, ToRequest, Upload
<1>5. ASSUME NEW g \in RowIds, PlayMove(g) \/ RowArrives(g) PROVE ArchiveInv'
  BY <1>5, RowStep
<1> QED
  BY <1>1, <1>2, <1>3, <1>4, <1>5, RestartStep DEF ArchiveNext

LEMMA NoneStep ==
    ArchiveInv /\ NoneArchived /\ [ArchiveNext]_archiveVars => NoneArchived'
<1> SUFFICES ASSUME ArchiveInv, NoneArchived, [ArchiveNext]_archiveVars, Gateways = <<>>,
                    NEW h \in Archivals
             PROVE  stage'[h] # "archived"
  BY DEF NoneArchived
<1>1. stage \in [Archivals -> ArchivalStages] /\ stage[h] # "archived"
  BY DEF ArchiveInv, ArchiveTypeOK, NoneArchived
<1>2. /\ \A g \in RowIds : PlayMove(g) \/ RowArrives(g) => stage'[h] # "archived"
      /\ \A g \in Archivals : CompletesGame(g) => stage'[h] # "archived"
  BY <1>1 DEF PlayMove, RowArrives, CompletesGame
<1>3. ASSUME NEW g \in Archivals, ReadsBack(g) PROVE stage'[h] # "archived"
  BY <1>1, <1>3 DEF ReadsBack, SpawnArchive
<1>4. ASSUME NEW g \in Archivals, NEW network, Uploading(g, network) PROVE FALSE
  BY <1>4 DEF Uploading
<1>5. ASSUME NEW r \in Retriers, TakeDeadLetters(r) \/ RetryJob(r) \/ RetryDropped(r)
      PROVE  stage'[h] # "archived"
  <2>1. ASSUME TakeDeadLetters(r) PROVE stage'[h] # "archived"
    BY <1>1, <2>1 DEF TakeDeadLetters
  <2>2. ASSUME RetryJob(r) PROVE stage'[h] # "archived"
    BY <1>1, <2>2 DEF RetryJob
  <2>3. ASSUME RetryDropped(r) PROVE stage'[h] # "archived"
    BY <1>1, <2>3 DEF RetryDropped
  <2> QED
    BY <1>5, <2>1, <2>2, <2>3
<1>6. ASSUME ArchiverRestarts PROVE stage'[h] # "archived"
  BY <1>1, <1>6 DEF ArchiverRestarts
<1>7. CASE UNCHANGED archiveVars
  BY <1>1, <1>7 DEF archiveVars
<1> QED
  BY <1>2, <1>3, <1>4, <1>5, <1>6, <1>7
     DEF ArchiveNext, ArchiveToIpfs, ArchiveToArweave, Uploads, ArchiveFails

LEMMA ArchiveIsSound == ArchiveInv /\ NoneArchived => ArchivingSound
<1> SUFFICES ASSUME ArchiveInv, NoneArchived PROVE ArchivingSound
  OBVIOUS
<1> USE DEF ArchiveInv
<1>1. ASSUME NEW u \in uploads PROVE u.request = StubRequest \/ Genuine(u.game, u.request)
  <2>1. /\ u.game \in RowIds
        /\ u.request = StubRequest \/ \E n \in 0..plies[u.game] : u.request = DocumentOf(n)
    BY DEF DocumentsTrue
  <2>2. plies[u.game] \in Nat
    BY <2>1 DEF ArchiveTypeOK
  <2> QED
    BY <2>1, <2>2, DocumentGenuine
<1>2. ASSUME NEW g \in Archivals, stage[g] = "archived"
      PROVE  \E u \in uploads : \A i \in DOMAIN Gateways :
                Upload(g, Gateways[i], u.request) \in uploads /\ u.request.genuine
  <2>1. ToRequest(g).genuine
    BY DEF ToRequest
  <2>2. \A i \in DOMAIN Gateways : Upload(g, Gateways[i], ToRequest(g)) \in uploads
    BY <1>2 DEF UploadsKept
  <2>3. CASE Gateways # <<>>
    <3>1. Upload(g, Gateways[1], ToRequest(g)) \in uploads
      BY <2>2, <2>3, GatewaysKnown
    <3>2. Upload(g, Gateways[1], ToRequest(g)).request = ToRequest(g)
      BY DEF Upload
    <3> QED
      BY <2>1, <2>2, <3>1, <3>2
  <2> QED
    BY <1>2, <2>3 DEF NoneArchived
<1> QED
  BY <1>1, <1>2 DEF ArchivingSound, TriesKept, UploadsKept

\* Of any number of tasks, several for one game or none, those that failed wait once each and
\* are counted; what is uploaded is genuine or made up, and what counts as archived is there.
THEOREM ArchivingStaysSound == ArchiveSpec => []ArchivingSound
<1>1. ArchiveInit => ArchiveInv /\ NoneArchived
  BY ArchiveStarts DEF ArchiveInit, NoneArchived
<1>2. ArchiveInv /\ NoneArchived /\ [ArchiveNext]_archiveVars => (ArchiveInv /\ NoneArchived)'
  BY ArchiveStep, NoneStep
<1>3. ArchiveInv /\ NoneArchived => ArchivingSound
  BY ArchiveIsSound
<1> QED
  BY <1>1, <1>2, <1>3, PTL DEF ArchiveSpec
=============================================================================
