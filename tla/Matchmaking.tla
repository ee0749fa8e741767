----------------------------- MODULE Matchmaking -----------------------------
(***************************************************************************)
(* The matchmaking queues in Redis                                         *)
(* (src/backend/modules/matchmaking/service.rs).  Every request is an HTTP *)
(* task of any backend node; between two of its Redis commands the         *)
(* commands of all others may run, and a Lua script is one command.        *)
(*                                                                         *)
(* A queue is a sorted set whose scores are whole seconds, so requests of  *)
(* one second are ordered by their text: the model lets a script take any  *)
(* member that fits.  A match has the name of the request that found it.   *)
(* For the sorted sets a member that is an hour old is marked so; keys     *)
(* that expire as a whole (24 hours for a match, 10 minutes for the answer *)
(* to a poll) and expand_elo_ranges, which nothing calls, are left out.    *)
(***************************************************************************)
EXTENDS Integers, FiniteSets

CONSTANTS
    Requests,      \* ids of requests
    Queues,        \* redis_key of the casual, the rated and the staked queues
    Casual,        \* the casual queue, where ratings do not matter
    RatedFree,     \* the rated queue without a stake
    Elos,          \* ratings
    EloRange,      \* INITIAL_ELO_RANGE: a request looks only when it is new
    Invites,       \* the queue type Private
    NoRequest,     \* None, nil
    MaxMishaps     \* bound: tasks that fail, requests cancelled, polled for or
                   \* an hour in a queue

ASSUME MatchmakingAssumption ==
    /\ Casual \in Queues
    /\ RatedFree \in Queues \ {Casual}
    /\ Elos \subseteq Nat
    /\ 0 \in Elos
    /\ EloRange \in Nat
    /\ Invites \notin Queues
    /\ NoRequest \notin Requests \cup Queues \cup {Invites}
    /\ MaxMishaps \in Nat

VARIABLES
    asks,          \* what every request asks: queue and rating
    step,          \* the next Redis command of the task that handles it
    opponent,      \* the request the script removed for it
    queue,         \* the sorted sets
    invite,        \* the invitation of one address in the hash of invites
    index,         \* REQUEST_QUEUE_INDEX_KEY
    matched,       \* matchmaking:matched:<request>
    stored,        \* matchmaking:match:<match>
    old,           \* members that entered their queue more than an hour ago
    cancel,        \* the task that cancels a request
    polled,        \* what the task that polls for a request looks at next, or answered
    passed         \* history: requests on their way into a queue when it looked

matchVars == <<asks, step, opponent, queue, invite, index, matched, stored, old, cancel,
               polled, passed>>

Steps == {"new", "find", "remember_opponent", "remember", "store", "found", "purge", "add",
          "index", "queued", "invite", "index_invite", "invited", "failed"}

MatchInit ==
    /\ asks = [r \in Requests |-> [queue |-> Casual, elo |-> 0]]
    /\ step = [r \in Requests |-> "new"]
    /\ opponent = [r \in Requests |-> NoRequest]
    /\ queue = [k \in Queues |-> {}]
    /\ invite = NoRequest
    /\ index = [r \in Requests |-> NoRequest]
    /\ matched = [r \in Requests |-> NoRequest]
    /\ stored = {}
    /\ old = {}
    /\ cancel = [r \in Requests |-> "no"]
    /\ polled = [r \in Requests |-> "no"]
    /\ passed = [r \in Requests |-> {}]

At(r, s) == step[r] = s

Goto(r, s) == step' = [step EXCEPT ![r] = s]

(***************************************************************************)
(* join_queue                                                              *)
(***************************************************************************)
\* The handlers of the three queues make the request from the body: a new id, the queue
\* of the route and the rating.  None asks for Private, and the address to invite is
\* used only there.
Asked(k, elo) == [queue |-> k, elo |-> elo]

\* A rating makes a difference in a rated queue only.
JoinQueue(r, k, elo) ==
    /\ At(r, "new")
    /\ k \in {Casual, Invites} => elo = 0
    /\ asks' = [asks EXCEPT ![r] = Asked(k, elo)]
    /\ Goto(r, IF k = Invites THEN "invite" ELSE "find")
    /\ UNCHANGED <<opponent, queue, invite, index, matched, stored, old, cancel,
                   polled, passed>>

\* The conditions of the two scripts for rated queues.  wait_seconds is taken from the
\* new request, so the search range is always the initial one.
InRange(r, o) == asks[r].elo - asks[o].elo \in -EloRange..EloRange

Fits(r, o) == asks[o].queue = asks[r].queue /\ (asks[r].queue = Casual \/ InRange(r, o))

OnItsWay(o, k) == step[o] \in {"purge", "add"} /\ asks[o].queue = k

BadTaken(k, o) == IF k = Casual THEN [queue EXCEPT ![k] = @ \ {o}] ELSE queue

\* ZREM of the member that fits.
Taken(k, o) == [queue EXCEPT ![k] = @ \ {o}]

\* A script finds an opponent and removes it from the queue and from the index.
FindOpponent(r, o) ==
    /\ o \in queue[asks[r].queue]
    /\ Fits(r, o)
    /\ queue' = Taken(asks[r].queue, o)
    /\ index' = [index EXCEPT ![o] = NoRequest]
    /\ opponent' = [opponent EXCEPT ![r] = o]
    /\ Goto(r, "remember_opponent")
    /\ UNCHANGED <<asks, invite, matched, stored, old, cancel,
                   polled, passed>>

\* find_casual_unrated_match.  A member of another queue would be put back; there is none.
FindCasual(r, o) == At(r, "find") /\ asks[r].queue = Casual /\ FindOpponent(r, o)

\* find_rated_free_match and find_rated_staked_match, which differ in the key.
FindRated(r, o) == At(r, "find") /\ asks[r].queue # Casual /\ FindOpponent(r, o)

BadNobodyFits(r) == \A o \in queue[asks[r].queue] : asks[o].elo # asks[r].elo

NobodyFits(r) == \A o \in queue[asks[r].queue] : ~Fits(r, o)

FindNobody(r) ==
    /\ At(r, "find")
    /\ NobodyFits(r)
    /\ passed' = [passed EXCEPT ![r] = {o \in Requests : OnItsWay(o, asks[r].queue)}]
    /\ Goto(r, "purge")
    /\ UNCHANGED <<asks, opponent, queue, invite, index, matched, stored, old, cancel,
                   polled>>

\* remember_match: first the opponent, then the request itself; store_match comes last.
RememberOpponent(r) ==
    /\ At(r, "remember_opponent")
    /\ matched' = [matched EXCEPT ![opponent[r]] = r]
    /\ Goto(r, IF asks[r].queue = Invites THEN "store" ELSE "remember")
    /\ UNCHANGED <<asks, opponent, queue, invite, index, stored, old, cancel,
                   polled, passed>>

Remember(r) ==
    /\ At(r, "remember")
    /\ matched' = [matched EXCEPT ![r] = r]
    /\ Goto(r, "store")
    /\ UNCHANGED <<asks, opponent, queue, invite, index, stored, old, cancel,
                   polled, passed>>

StoreMatch(r) ==
    /\ At(r, "store")
    /\ stored' = stored \cup {r}
    /\ Goto(r, "found")
    /\ UNCHANGED <<asks, opponent, queue, invite, index, matched, old, cancel, polled, passed>>

\* add_to_redis_queue: ZREMRANGEBYSCORE, ZADD, HSET.  What is purged stays indexed.
Purge(r) ==
    /\ At(r, "purge")
    /\ queue' = [queue EXCEPT ![asks[r].queue] = @ \ old]
    /\ Goto(r, "add")
    /\ UNCHANGED <<asks, opponent, invite, index, matched, stored, old, cancel,
                   polled, passed>>

AddToQueue(r) ==
    /\ At(r, "add")
    /\ queue' = [queue EXCEPT ![asks[r].queue] = @ \cup {r}]
    /\ Goto(r, "index")
    /\ UNCHANGED <<asks, opponent, invite, index, matched, stored, old, cancel,
                   polled, passed>>

IndexRequest(r) ==
    /\ step[r] \in {"index", "index_invite"}
    /\ index' = [index EXCEPT ![r] = asks[r].queue]
    /\ Goto(r, IF At(r, "index") THEN "queued" ELSE "invited")
    /\ UNCHANGED <<asks, opponent, queue, invite, matched, stored, old, cancel,
                   polled, passed>>

(***************************************************************************)
(* Private games                                                           *)
(***************************************************************************)
\* add_private_invite: HSET replaces an earlier invitation of the same address.
AddPrivateInvite(r) ==
    /\ At(r, "invite")
    /\ invite' = r
    /\ Goto(r, "index_invite")
    /\ UNCHANGED <<asks, opponent, queue, index, matched, stored, old, cancel,
                   polled, passed>>

\* accept_private_invite: the task that accepts has no request of its own; the model
\* gives it one that is still new.  Only the inviter's request is remembered.
AcceptPrivateInvite(r, o) ==
    /\ At(r, "new")
    /\ o = invite
    /\ invite' = NoRequest
    /\ index' = [index EXCEPT ![o] = NoRequest]
    /\ asks' = [asks EXCEPT ![r] = [queue |-> Invites, elo |-> 0]]
    /\ opponent' = [opponent EXCEPT ![r] = o]
    /\ Goto(r, "remember_opponent")
    /\ UNCHANGED <<queue, matched, stored, old, cancel,
                   polled, passed>>

MoreMishaps ==
    Cardinality(old) + Cardinality({r \in Requests : cancel[r] # "no"})
      + Cardinality({r \in Requests : polled[r] # "no"})
      + Cardinality({r \in Requests : step[r] = "failed"}) < MaxMishaps

(***************************************************************************)
(* cancel_request                                                          *)
(***************************************************************************)
Cancel(r, s) == cancel' = [cancel EXCEPT ![r] = s]

\* The index says where to look; without it only the invites are searched.
LookUp(r) ==
    /\ step[r] # "new"
    /\ cancel[r] \in {"no", "refused"}
    /\ cancel[r] = "refused" \/ MoreMishaps
    /\ Cancel(r, CASE index[r] \in Queues    -> "in_queue"
                   [] index[r] = Invites     -> "in_invites"
                   [] index[r] = NoRequest   -> "unindexed")
    /\ UNCHANGED <<asks, step, opponent, queue, invite, index, matched, stored, old, polled,
                   passed>>

Cancelled(r) == [queue EXCEPT ![asks[r].queue] = @ \ {r}]

\* remove_from_queue: one script removes the member and its index entry.
RemoveFromQueue(r) ==
    /\ cancel[r] = "in_queue"
    /\ \/ /\ r \in queue[asks[r].queue]
          /\ queue' = Cancelled(r)
          /\ index' = [index EXCEPT ![r] = NoRequest]
          /\ Cancel(r, "cancelled")
       \/ /\ r \notin queue[asks[r].queue]
          /\ Cancel(r, "refused")
          /\ UNCHANGED <<queue, index>>
    /\ UNCHANGED <<asks, step, opponent, invite, matched, stored, old, polled,
                   passed>>

\* remove_private_invite, and the search without an index.  Between reading all
\* invites and deleting the one found, an unindexed one may be replaced; the delete
\* goes by address.
RemovePrivateInvite(r) ==
    /\ cancel[r] \in {"in_invites", "unindexed"}
    /\ \/ /\ invite = r
          /\ IF cancel[r] = "unindexed"
             THEN Cancel(r, "delete") /\ UNCHANGED <<invite, index>>
             ELSE /\ invite' = NoRequest
                  /\ index' = [index EXCEPT ![r] = NoRequest]
                  /\ Cancel(r, "cancelled")
       \/ /\ invite # r
          /\ index' = [index EXCEPT ![r] = IF cancel[r] = "in_invites" THEN NoRequest ELSE @]
          /\ Cancel(r, "refused")
          /\ UNCHANGED invite
    /\ UNCHANGED <<asks, step, opponent, queue, matched, stored, old, polled,
                   passed>>

DeletePrivateInvite(r) ==
    /\ cancel[r] = "delete"
    /\ invite' = NoRequest
    /\ index' = [index EXCEPT ![r] = NoRequest]
    /\ Cancel(r, "cancelled")
    /\ UNCHANGED <<asks, step, opponent, queue, matched, stored, old, polled,
                   passed>>

\* A Redis command of the cancellation fails: nothing is cancelled, the client may ask again.
CancelFails(r) ==
    /\ cancel[r] \in {"in_queue", "in_invites", "unindexed", "delete"}
    /\ Cancel(r, "refused")
    /\ UNCHANGED <<asks, step, opponent, queue, invite, index, matched, stored, old, polled,
                   passed>>

(***************************************************************************)
(* Polls for the state of a request: get_status, once its client has been  *)
(* told its id                                                             *)
(***************************************************************************)
Polled(r, s) ==
    /\ polled' = [polled EXCEPT ![r] = s]
    /\ UNCHANGED <<asks, step, opponent, queue, invite, index, matched, stored, old, cancel,
                   passed>>

\* get_matched_id: a lookup that fails is logged and counts as no match.
PollMatched(r) ==
    /\ step[r] \in {"queued", "invited"}
    /\ polled[r] = "no"
    /\ MoreMishaps
    /\ (matched[r] # NoRequest /\ Polled(r, "matched")) \/ Polled(r, "rated")

\* get_status_from_queue: a ZRANGE of the whole queue.  A client whose request waits asks
\* again later.
InQueue(r, k, otherwise) == Polled(r, IF r \in queue[k] THEN "no" ELSE otherwise)

\* get_queue_status: the free rated queue, the casual one, the invites, in this order and
\* one command each.  The staked queues are not among them.
PollQueues(r) ==
    \/ polled[r] = "rated" /\ InQueue(r, RatedFree, "casual")
    \/ polled[r] = "casual" /\ InQueue(r, Casual, "invites")
    \/ polled[r] = "invites" /\ Polled(r, IF invite = r THEN "no" ELSE "missing")

\* A Redis command of the poll fails: the client asks again.
PollFails(r) == polled[r] \in {"rated", "casual", "invites"} /\ Polled(r, "no")

(***************************************************************************)
(* Failures and time                                                       *)
(***************************************************************************)
Busy(r) == step[r] \notin {"new", "found", "queued", "invited", "failed"}

\* A Redis command fails, or the server stops: the task ends where it is, and its
\* client gets an error or nothing.
TaskFails(r) ==
    /\ Busy(r)
    /\ MoreMishaps
    /\ Goto(r, "failed")
    /\ UNCHANGED <<asks, opponent, queue, invite, index, matched, stored, old, cancel,
                   polled, passed>>

HourPasses(r) ==
    /\ \E k \in Queues : r \in queue[k]
    /\ r \notin old
    /\ MoreMishaps
    /\ old' = old \cup {r}
    /\ UNCHANGED <<asks, step, opponent, queue, invite, index, matched, stored, cancel,
                   polled, passed>>

\* EXPIRE of a queue: an hour after the last request entered it.
QueueExpires(k) ==
    /\ queue[k] # {}
    /\ queue[k] \subseteq old
    /\ queue' = [queue EXCEPT ![k] = {}]
    /\ UNCHANGED <<asks, step, opponent, invite, index, matched, stored, old, cancel,
                   polled, passed>>

MatchNext ==
    \/ \E r \in Requests :
        \/ \E k \in Queues \cup {Invites}, elo \in Elos : JoinQueue(r, k, elo)
        \/ \E o \in Requests :
              FindCasual(r, o) \/ FindRated(r, o) \/ AcceptPrivateInvite(r, o)
        \/ FindNobody(r) \/ RememberOpponent(r) \/ Remember(r) \/ StoreMatch(r)
        \/ Purge(r) \/ AddToQueue(r) \/ IndexRequest(r) \/ AddPrivateInvite(r)
        \/ LookUp(r) \/ RemoveFromQueue(r) \/ RemovePrivateInvite(r) \/ DeletePrivateInvite(r)
        \/ CancelFails(r) \/ PollMatched(r) \/ PollQueues(r) \/ PollFails(r)
        \/ TaskFails(r) \/ HourPasses(r)
    \/ \E k \in Queues : QueueExpires(k)

MatchSpec == MatchInit /\ [][MatchNext]_matchVars

(***************************************************************************)
(* Properties                                                              *)
(***************************************************************************)
\* Every variable keeps its type; a queue holds only requests that asked for it.
MatchTypeOK ==
    /\ asks \in [Requests -> [queue : Queues \cup {Invites}, elo : Elos]]
    /\ step \in [Requests -> Steps]
    /\ opponent \in [Requests -> Requests \cup {NoRequest}]
    /\ queue \in [Queues -> SUBSET Requests]
    /\ \A k \in Queues : \A r \in queue[k] : asks[r].queue = k
    /\ invite \in Requests \cup {NoRequest}
    /\ index \in [Requests -> Queues \cup {Invites, NoRequest}]
    /\ matched \in [Requests -> Requests \cup {NoRequest}]
    /\ stored \subseteq Requests
    /\ old \subseteq Requests
    /\ cancel \in [Requests -> {"no", "in_queue", "in_invites", "unindexed", "delete",
                                "cancelled", "refused"}]
    /\ polled \in [Requests -> {"no", "rated", "casual", "invites", "matched", "missing"}]
    /\ passed \in [Requests -> SUBSET Requests]

IsOpponent(o) == \E r \in Requests : opponent[r] = o

Waiting(r) == invite = r \/ \E k \in Queues : r \in queue[k]

\* Nobody is paired twice: a request is the opponent of at most one other, and one
\* that was taken, or that found an opponent itself, waits nowhere and is never taken
\* again, whatever the joins and cancellations of others do in between.
PairedOnce ==
    /\ \A r, s \in Requests : opponent[r] = opponent[s] /\ opponent[r] # NoRequest => r = s
    /\ \A o \in Requests : IsOpponent(o) => ~Waiting(o) /\ opponent[o] = NoRequest
    /\ \A r \in Requests : opponent[r] # NoRequest => ~Waiting(r) /\ ~IsOpponent(r)

\* Whoever was told that the request waits still waits, was taken, cancelled, purged
\* after an hour, or lost the invitation to a later one; and whoever was told that a
\* queued request is cancelled is in no match.  A poll that did not find a request was
\* right, but for the staked queues, and the request does not come back.
AnswersHold ==
    \A r \in Requests :
        /\ polled[r] = "missing" /\ asks[r].queue \in {RatedFree, Casual, Invites} => ~Waiting(r)
        /\ polled[r] = "matched" => matched[r] # NoRequest
        /\ step[r] = "queued" =>
             Waiting(r) \/ IsOpponent(r) \/ cancel[r] = "cancelled" \/ r \in old
        /\ cancel[r] = "cancelled" /\ asks[r].queue # Invites => ~Waiting(r) /\ ~IsOpponent(r)

\* A poll never names a match for good that will not be there: the match a request
\* was told of is stored, or its task is about to, or it failed in between.
MatchFollows ==
    \A r \in Requests : matched[r] # NoRequest =>
        \/ matched[r] \in stored
        \/ step[matched[r]] \in {"remember", "store", "failed"}

MatchmakingSound == MatchTypeOK /\ PairedOnce /\ AnswersHold /\ MatchFollows

\* Two requests that fit each other wait side by side only if neither could see the
\* other: both looked before either was in the queue.
WaitersPassedEachOther ==
    \A k \in Queues : \A r, o \in queue[k] :
        r # o /\ Fits(r, o) => o \in passed[r] \/ r \in passed[o]
=============================================================================
