--------------------------- MODULE SpectatorFanout ---------------------------
(***************************************************************************)
(* The frames of one game on their way to its spectators                   *)
(* (src/backend/modules/api/src/redis_broadcast.rs, and the spectator      *)
(* branches of ws.rs).  Each frame is published by a task of its own;      *)
(* Redis hands it to every subscriber; a spectator's subscriber buffers it *)
(* in a bounded queue that drops its oldest frame, and his pump forwards   *)
(* it to his socket.  Tasks of their own keep the count of spectators.     *)
(* A frame is its number in the order the game published it.               *)
(***************************************************************************)
EXTENDS Integers, Sequences, FiniteSets, SequencesExt

CONSTANTS
    Spectators,
    QueueCapacity,     \* SPECTATOR_QUEUE_CAPACITY
    MaxOverflows,      \* MAX_CONSECUTIVE_OVERFLOWS
    MaxFrames,         \* bound of the model: frames of the game
    MaxDrift           \* bound of the model: how far the count goes wrong

ASSUME FanoutAssumption ==
    /\ QueueCapacity \in Nat \ {0} /\ MaxOverflows \in Nat \ {0}
    /\ MaxFrames \in Nat /\ MaxDrift \in Nat
    /\ IsFiniteSet(Spectators)

VARIABLES
    published,     \* how many frames the game has published
    publishing,    \* the frames whose task has not run
    carried,       \* the frames in the order Redis carried them: no code reads it
    watcher,       \* the connection of each spectator
    counting,      \* the tasks that have yet to change the count: +1 or -1, by spectator
    count,         \* the spectator_count of the game in Redis
    uncounted      \* history: the sum of the changes whose task failed

countVars == <<counting, count, uncounted>>
fanoutVars == <<published, publishing, carried, watcher, countVars>>

\* socket: "none", "open", "overflowed" (a SpectatorDisconnect is in its mailbox).  since,
\* got, dropped and stalled only record: what Redis had carried when he subscribed, what
\* his socket got, what his queue dropped, what has arrived since it last gave a frame up.
NotWatching ==
    [socket |-> "none", subscribed |-> FALSE, queue |-> <<>>, overflows |-> 0, closed |-> FALSE,
     since |-> 0, got |-> <<>>, dropped |-> 0, stalled |-> 0]

FanoutInit ==
    /\ published = 0 /\ publishing = {} /\ carried = <<>>
    /\ watcher = [s \in Spectators |-> NotWatching]
    /\ counting = {} /\ count = 0 /\ uncounted = 0

\* Actor::started of a spectator: the subscriber and a task that counts him are spawned.
Join(s) ==
    /\ watcher[s].socket = "none"
    /\ \A c \in counting : c[1] # s
    /\ watcher' = [watcher EXCEPT ![s] = [NotWatching EXCEPT !.socket = "open"]]
    /\ counting' = counting \cup {<<s, 1>>}
    /\ UNCHANGED <<published, publishing, carried, count, uncounted>>

\* The subscriber reaches Redis, from where on it is handed the frames.
Subscribe(s) ==
    /\ watcher[s].socket = "open" /\ ~watcher[s].subscribed /\ ~watcher[s].closed
    /\ watcher' = [watcher EXCEPT ![s].subscribed = TRUE, ![s].since = Len(carried)]
    /\ UNCHANGED <<published, publishing, carried, countVars>>

\* It cannot, or its connection drops: the queue is closed, the socket is not.
SubscriberEnds(s) ==
    /\ watcher[s].socket # "none" /\ ~watcher[s].closed
    /\ watcher' = [watcher EXCEPT ![s].subscribed = FALSE, ![s].closed = TRUE]
    /\ UNCHANGED <<published, publishing, carried, countVars>>

\* publish_fire_and_forget.
PublishesFrame ==
    /\ published < MaxFrames
    /\ published' = published + 1
    /\ publishing' = publishing \cup {published + 1}

Publish ==
    /\ PublishesFrame
    /\ UNCHANGED <<carried, watcher, countVars>>

\* push into a queue at capacity: the oldest frame goes.
Displaced(w) == IF Len(w.queue) = QueueCapacity THEN 1 ELSE 0

\* The mutant never starts again from zero.
BadOverflows(w) == w.overflows + Displaced(w)

\* How many pushes in a row displaced a frame.
Overflows(w) == IF Displaced(w) = 1 THEN w.overflows + 1 ELSE 0

\* SpectatorQueue::push, and what the subscriber does when it says the queue stayed full:
\* it asks the connection to disconnect, closes the queue and ends.
Push(w, f) ==
    LET over == Overflows(w) >= MaxOverflows
    IN  [w EXCEPT !.queue = Append(IF Displaced(w) = 1 THEN Tail(@) ELSE @, f),
                  !.overflows = Overflows(w), !.dropped = @ + Displaced(w),
                  !.stalled = @ + 1, !.subscribed = ~over, !.closed = over,
                  !.socket = IF over THEN "overflowed" ELSE @]

\* The task of a frame runs: Redis carries it to whoever is subscribed.
PublishRuns(f) ==
    /\ f \in publishing
    /\ publishing' = publishing \ {f}
    /\ carried' = Append(carried, f)
    /\ watcher' = [s \in Spectators |-> IF watcher[s].subscribed THEN Push(watcher[s], f)
                                                                 ELSE watcher[s]]
    /\ UNCHANGED <<published, countVars>>

\* Or it finds no connection, and the frame is lost.
PublishFails(f) ==
    /\ f \in publishing
    /\ publishing' = publishing \ {f}
    /\ UNCHANGED <<published, carried, watcher, countVars>>

\* The pump pops a frame and sends it to the connection, even when the queue is closed.
Pump(s) ==
    /\ watcher[s].queue # <<>> /\ watcher[s].socket # "none"
    /\ watcher' = [watcher EXCEPT ![s].got = Append(@, Head(watcher[s].queue)),
                                  ![s].queue = Tail(@),
                                  ![s].stalled = IF watcher[s].socket = "open" THEN 0 ELSE @]
    /\ UNCHANGED <<published, publishing, carried, countVars>>

\* Actor::stopped of a spectator, after SpectatorDisconnect or because he left: both tasks
\* are aborted and one is spawned that uncounts him.
Stop(s) ==
    /\ watcher[s].socket # "none"
    /\ watcher' = [watcher EXCEPT ![s] = NotWatching]
    /\ counting' = counting \cup {<<s, -1>>}
    /\ UNCHANGED <<published, publishing, carried, count, uncounted>>

\* bump_spectator_count: the count is changed, and published if its answer came.
CountRuns(c) ==
    /\ c \in counting
    /\ counting' = counting \ {c}
    /\ count' = count + c[2]
    /\ PublishesFrame \/ UNCHANGED <<published, publishing>>
    /\ UNCHANGED <<carried, watcher, uncounted>>

\* Or Redis cannot be reached, and the change is never made.
CountFails(c) ==
    /\ c \in counting /\ uncounted + c[2] \in -MaxDrift..MaxDrift
    /\ counting' = counting \ {c}
    /\ uncounted' = uncounted + c[2]
    /\ UNCHANGED <<published, publishing, carried, watcher, count>>

FanoutNext ==
    \/ \E s \in Spectators : Join(s) \/ Subscribe(s) \/ SubscriberEnds(s) \/ Pump(s) \/ Stop(s)
    \/ Publish
    \/ \E f \in publishing : PublishRuns(f) \/ PublishFails(f)
    \/ \E c \in counting : CountRuns(c) \/ CountFails(c)

FanoutSpec == FanoutInit /\ [][FanoutNext]_fanoutVars

-----------------------------------------------------------------------------

\* What a spectator got and what waits for him is what Redis carried since he subscribed,
\* in that order, less the frames his own queue dropped (redis_broadcast.rs:20).
FramesAccounted(w) ==
    w.subscribed =>
        LET mine == w.got \o w.queue
            arrived == SubSeq(carried, w.since + 1, Len(carried))
        IN  /\ Len(mine) + w.dropped = Len(arrived)
            /\ \A i \in DOMAIN mine : \E k \in DOMAIN arrived : mine[i] = arrived[k]
            /\ \A i, j \in DOMAIN mine, k, l \in DOMAIN arrived :
                i < j /\ mine[i] = arrived[k] /\ mine[j] = arrived[l] => k < l
            /\ \A i \in DOMAIN w.queue :
                w.queue[i] = arrived[Len(arrived) - Len(w.queue) + i]

\* Only who took no frame while the last MaxOverflows and more arrived is disconnected
\* (redis_broadcast.rs:24).
OverflowMeansStalled(w) == w.socket = "overflowed" => w.stalled > MaxOverflows

\* Each spectator is counted when he joined and uncounted when he left, in whichever order
\* the tasks ran: the count is wrong by what failed tasks left out, which no later one makes
\* up for (redis_broadcast.rs:283), and by nothing else.  No queue outgrows its capacity.
FanoutSound ==
    /\ \A s \in Spectators :
        /\ Len(watcher[s].queue) <= QueueCapacity
        /\ FramesAccounted(watcher[s]) /\ OverflowMeansStalled(watcher[s])
    /\ count + uncounted = Cardinality({s \in Spectators : watcher[s].socket # "none"})
                 - Cardinality({c \in counting : c[2] = 1})
                 + Cardinality({c \in counting : c[2] = -1})
=============================================================================
