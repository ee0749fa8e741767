----------------------------- MODULE ServicesProofs ----------------------------
(***************************************************************************)
(* Proofs about services beside the games: the matchmaking queues          *)
(* (Matchmaking), for any requests, queues and ratings, the board (Board), *)
(* for any squares and pieces, the draws that need no claim (ChessRules),  *)
(* and these, the calls of CallsProofs and the tournaments of              *)
(* TournamentProofs where they are composed (MCServices), each of which    *)
(* sees its own steps alone.                                               *)
(***************************************************************************)
EXTENDS MCServices, CallsProofs, TournamentProofs

(***************************************************************************)
(* Matchmaking.  That nobody is paired twice rests on how far a request    *)
(* has come (StagesKept): who was entered in a queue never looks for an    *)
(* opponent again, and who found one is never entered.  Movement says what *)
(* a step can do to a request; the answers follow from it.                 *)
(***************************************************************************)
\* Who waits has come as far as being entered, and who was taken had waited; who found
\* an opponent is on his way to a match.
Entered == {"index", "queued", "index_invite", "invited", "failed"}
OnTheWay == {"remember_opponent", "remember", "store", "found", "failed"}

ToQueue == {"find", "purge", "add", "index", "queued"}
ToInvites == {"invite", "index_invite", "invited"}

StagesKept ==
    \A r \in Requests :
        /\ Waiting(r) => step[r] \in Entered
        /\ IsOpponent(r) => step[r] \in Entered
        /\ opponent[r] # NoRequest => step[r] \in OnTheWay
        /\ invite = r => asks[r].queue = Invites
        /\ step[r] \in ToQueue => asks[r].queue \in Queues
        /\ index[r] \in {NoRequest, asks[r].queue}
        /\ step[r] = "new" => index[r] = NoRequest
        /\ step[r] \in ToInvites => asks[r].queue = Invites
        /\ cancel[r] # "no" => step[r] # "new"
        /\ cancel[r] = "in_queue" => asks[r].queue \in Queues
        /\ cancel[r] = "delete" =>
             asks[r].queue = Invites /\ step[r] \in Entered \cup OnTheWay
        /\ cancel[r] = "cancelled" => step[r] \in Entered \cup OnTheWay
        /\ polled[r] # "no" => step[r] \in {"queued", "invited"}

\* What the answers of a poll and of a cancellation rest on.
AnswersKept ==
    \A r \in Requests :
        /\ polled[r] = "casual" /\ asks[r].queue = RatedFree => ~Waiting(r)
        /\ polled[r] = "invites" /\ asks[r].queue \in {RatedFree, Casual} => ~Waiting(r)
        /\ step[r] = "index" =>
             Waiting(r) \/ IsOpponent(r) \/ cancel[r] = "cancelled" \/ r \in old

\* Two requests that have looked and fit each other passed each other.
Looked(r) == step[r] \in {"purge", "add"} \/ \E k \in Queues : r \in queue[k]

LookersPassed ==
    \A r, o \in Requests :
        r # o /\ Looked(r) /\ Looked(o) /\ Fits(r, o) => o \in passed[r] \/ r \in passed[o]

MatchInv ==
    /\ MatchTypeOK /\ StagesKept /\ PairedOnce /\ AnswersHold /\ AnswersKept
    /\ MatchFollows /\ LookersPassed

-----------------------------------------------------------------------------
LEMMA MatchTypesKept == MatchTypeOK /\ StagesKept /\ [MatchNext]_matchVars => MatchTypeOK'
<1> SUFFICES ASSUME MatchTypeOK, StagesKept, [MatchNext]_matchVars
             PROVE  MatchTypeOK'
  OBVIOUS
<1> USE MatchmakingAssumption DEF MatchTypeOK, Goto, At, Steps
<1>1. ASSUME NEW r \in Requests, NEW k \in Queues \cup {Invites}, NEW elo \in Elos,
             JoinQueue(r, k, elo)
      PROVE  MatchTypeOK'
  BY <1>1 DEF JoinQueue, Asked, StagesKept, Waiting, Entered
<1>2. ASSUME NEW r \in Requests, NEW o \in Requests, FindOpponent(r, o), At(r, "find")
      PROVE  MatchTypeOK'
  <2>1. asks[r].queue \in Queues
    BY <1>2 DEF StagesKept, ToQueue
  <2>2. /\ queue' = [queue EXCEPT ![asks[r].queue] = @ \ {o}]
        /\ index' = [index EXCEPT ![o] = NoRequest]
        /\ opponent' = [opponent EXCEPT ![r] = o]
        /\ step' = [step EXCEPT ![r] = "remember_opponent"]
        /\ UNCHANGED <<asks, invite, matched, stored, old, cancel, polled, passed>>
    BY <1>2 DEF FindOpponent, Taken
  <2> QED
    BY <2>1, <2>2
<1>3. ASSUME NEW r \in Requests, NEW o \in Requests, AcceptPrivateInvite(r, o)
      PROVE  MatchTypeOK'
  BY <1>3 DEF AcceptPrivateInvite, StagesKept, Waiting, Entered
<1>4. ASSUME NEW r \in Requests, FindNobody(r)
      PROVE  MatchTypeOK'
  BY <1>4 DEF FindNobody
<1>5. ASSUME NEW r \in Requests,
             RememberOpponent(r) \/ Remember(r) \/ StoreMatch(r) \/ IndexRequest(r)
      PROVE  MatchTypeOK'
  <2>1. CASE RememberOpponent(r)
    BY <2>1 DEF RememberOpponent
  <2>2. CASE Remember(r)
    BY <2>2 DEF Remember
  <2>3. CASE StoreMatch(r)
    BY <2>3 DEF StoreMatch
  <2>4. CASE IndexRequest(r)
    BY <2>4 DEF IndexRequest
  <2> QED
    BY <1>5, <2>1, <2>2, <2>3, <2>4
<1>6. ASSUME NEW r \in Requests, Purge(r) \/ AddToQueue(r)
      PROVE  MatchTypeOK'
  <2>1. CASE Purge(r)
    BY <2>1 DEF Purge, StagesKept, ToQueue
  <2>2. CASE AddToQueue(r)
    BY <2>2 DEF AddToQueue, StagesKept, ToQueue
  <2> QED
    BY <1>6, <2>1, <2>2
<1>7. ASSUME NEW r \in Requests, AddPrivateInvite(r)
      PROVE  MatchTypeOK'
  BY <1>7 DEF AddPrivateInvite
<1>8. ASSUME NEW r \in Requests, LookUp(r)
      PROVE  MatchTypeOK'
  BY <1>8 DEF LookUp, Cancel
<1>9. ASSUME NEW r \in Requests, RemoveFromQueue(r)
      PROVE  MatchTypeOK'
  <2>1. UNCHANGED <<asks, step, opponent, invite, matched, stored, old, polled, passed>>
    BY <1>9 DEF RemoveFromQueue
  <2>2. CASE /\ queue' = [queue EXCEPT ![asks[r].queue] = @ \ {r}]
             /\ index' = [index EXCEPT ![r] = NoRequest]
             /\ cancel' = [cancel EXCEPT ![r] = "cancelled"]
    BY <2>1, <2>2
  <2>3. CASE UNCHANGED <<queue, index>> /\ cancel' = [cancel EXCEPT ![r] = "refused"]
    BY <2>1, <2>3
  <2> QED
    BY <1>9, <2>2, <2>3 DEF RemoveFromQueue, Cancelled, Cancel
<1>10. ASSUME NEW r \in Requests, RemovePrivateInvite(r)
       PROVE  MatchTypeOK'
  <2>1. UNCHANGED <<asks, step, opponent, queue, matched, stored, old, polled, passed>>
    BY <1>10 DEF RemovePrivateInvite
  <2>2. invite' \in {invite, NoRequest}
    BY <1>10 DEF RemovePrivateInvite
  <2>3. \E i \in {index[r], NoRequest} : index' = [index EXCEPT ![r] = i]
    BY <1>10 DEF RemovePrivateInvite
  <2>4. \E s \in {"delete", "cancelled", "refused"} : cancel' = [cancel EXCEPT ![r] = s]
    BY <1>10 DEF RemovePrivateInvite, Cancel
  <2> QED
    BY <2>1, <2>2, <2>3, <2>4
<1>11. ASSUME NEW r \in Requests, DeletePrivateInvite(r) \/ CancelFails(r)
       PROVE  MatchTypeOK'
  <2>1. CASE DeletePrivateInvite(r)
    BY <2>1 DEF DeletePrivateInvite, Cancel
  <2>2. CASE CancelFails(r)
    BY <2>2 DEF CancelFails, Cancel
  <2> QED
    BY <1>11, <2>1, <2>2
<1>12. ASSUME NEW r \in Requests, PollMatched(r) \/ PollQueues(r) \/ PollFails(r)
       PROVE  MatchTypeOK'
  BY <1>12 DEF PollMatched, PollQueues, PollFails, Polled, InQueue
<1>13. ASSUME NEW r \in Requests, TaskFails(r)
       PROVE  MatchTypeOK'
  BY <1>13 DEF TaskFails
<1>14. ASSUME NEW r \in Requests, HourPasses(r)
       PROVE  MatchTypeOK'
  BY <1>14 DEF HourPasses
<1>15. ASSUME NEW k \in Queues, QueueExpires(k)
       PROVE  MatchTypeOK'
  BY <1>15 DEF QueueExpires
<1>16. CASE UNCHANGED matchVars
  BY <1>16 DEF matchVars
<1> QED
  BY <1>1, <1>2, <1>3, <1>4, <1>5, <1>6, <1>7, <1>8, <1>9, <1>10, <1>11, <1>12, <1>13,
     <1>14,
     <1>15, <1>16 DEF MatchNext, FindCasual, FindRated

\* How the steps change who waits and who was taken.
Same(q) == (Waiting(q)' <=> Waiting(q)) /\ (IsOpponent(q)' <=> IsOpponent(q))

LEMMA NobodyMoved ==
    UNCHANGED <<queue, invite, opponent>> => \A q \in Requests : Same(q)
BY DEF Same, Waiting, IsOpponent

\* Each is in the queue he asked for, or is the invitation.
LEMMA WhereHeWaits ==
    ASSUME MatchTypeOK, StagesKept, NEW q \in Requests
    PROVE  Waiting(q) <=> \/ invite = q /\ asks[q].queue = Invites
                          \/ asks[q].queue \in Queues /\ q \in queue[asks[q].queue]
BY DEF MatchTypeOK, StagesKept, Waiting

LEMMA OneIsTaken ==
    ASSUME MatchTypeOK, StagesKept, NEW r \in Requests, NEW o \in Requests,
           (FindOpponent(r, o) /\ At(r, "find")) \/ AcceptPrivateInvite(r, o)
    PROVE  /\ Waiting(o) /\ opponent[r] = NoRequest
           /\ \A q \in Requests : Waiting(q)' <=> Waiting(q) /\ q # o
           /\ \A q \in Requests : IsOpponent(q)' <=> IsOpponent(q) \/ q = o
<1> USE MatchmakingAssumption
<1>1. opponent[r] = NoRequest
  BY DEF StagesKept, FindOpponent, AcceptPrivateInvite, At, OnTheWay
<1>2. opponent' = [opponent EXCEPT ![r] = o]
  BY DEF FindOpponent, AcceptPrivateInvite
<1>3. \A q \in Requests : IsOpponent(q)' <=> IsOpponent(q) \/ q = o
  BY <1>1, <1>2 DEF IsOpponent, MatchTypeOK
<1>4. CASE FindOpponent(r, o) /\ At(r, "find")
  <2>1. /\ o \in queue[asks[r].queue] /\ asks[o].queue = asks[r].queue
        /\ asks[r].queue \in Queues
        /\ queue' = [queue EXCEPT ![asks[r].queue] = @ \ {o}] /\ invite' = invite
    BY <1>4 DEF FindOpponent, Fits, Taken, StagesKept, ToQueue, At
  <2>2. invite # o
    BY <2>1 DEF StagesKept
  <2>3. \A k \in Queues : o \in queue[k] => k = asks[r].queue
    BY <2>1 DEF MatchTypeOK
  <2>4. \A k \in Queues : queue'[k] = queue[k] \ {o}
    BY <2>1, <2>3 DEF MatchTypeOK
  <2> QED
    BY <1>1, <1>3, <2>1, <2>2, <2>4 DEF Waiting
<1>5. CASE AcceptPrivateInvite(r, o)
  <2>1. invite = o /\ invite' = NoRequest /\ queue' = queue
    BY <1>5 DEF AcceptPrivateInvite
  <2>2. \A k \in Queues : o \notin queue[k]
    BY <2>1 DEF StagesKept, MatchTypeOK
  <2> QED
    BY <1>1, <1>3, <2>1, <2>2 DEF Waiting
<1> QED
  BY <1>4, <1>5

LEMMA SomeExpire ==
    ASSUME MatchTypeOK,
           (\E r \in Requests : Purge(r)) \/ (\E k \in Queues : QueueExpires(k))
    PROVE  /\ \A q \in Requests : Waiting(q)' => Waiting(q)
           /\ \A q \in Requests : Waiting(q) => Waiting(q)' \/ q \in old
           /\ \A q \in Requests : IsOpponent(q)' <=> IsOpponent(q)
<1>1. UNCHANGED <<invite, opponent>>
  BY DEF Purge, QueueExpires
<1>2. \A k \in Queues : queue'[k] \subseteq queue[k] /\ queue[k] \subseteq queue'[k] \cup old
  BY DEF Purge, QueueExpires, MatchTypeOK
<1> QED
  BY <1>1, <1>2 DEF Waiting, IsOpponent

LEMMA OneComes ==
    ASSUME MatchTypeOK, StagesKept, NEW r \in Requests, AddToQueue(r)
    PROVE  \A q \in Requests : /\ Waiting(q)' <=> Waiting(q) \/ q = r
                               /\ IsOpponent(q)' <=> IsOpponent(q)
<1>1. /\ asks[r].queue \in Queues
      /\ queue' = [queue EXCEPT ![asks[r].queue] = @ \cup {r}]
      /\ UNCHANGED <<invite, opponent>>
  BY DEF AddToQueue, StagesKept, ToQueue, At
<1>2. \A k \in Queues : queue'[k] = queue[k] \cup (IF k = asks[r].queue THEN {r} ELSE {})
  BY <1>1 DEF MatchTypeOK
<1> QED
  BY <1>1, <1>2 DEF Waiting, IsOpponent

\* An invitation concerns only requests for private games.
LEMMA InvitesApart ==
    ASSUME MatchTypeOK, StagesKept, NEW r \in Requests,
           AddPrivateInvite(r) \/ RemovePrivateInvite(r) \/ DeletePrivateInvite(r)
    PROVE  \A q \in Requests : /\ Waiting(q)' => Waiting(q) \/ (q = r /\ AddPrivateInvite(r))
                               /\ asks[q].queue # Invites => (Waiting(q)' <=> Waiting(q))
                               /\ IsOpponent(q)' <=> IsOpponent(q)
<1>1. queue' = queue /\ opponent' = opponent
  BY DEF AddPrivateInvite, RemovePrivateInvite, DeletePrivateInvite
<1>2. invite' \in {invite, NoRequest} \/ (invite' = r /\ AddPrivateInvite(r))
  BY DEF AddPrivateInvite, RemovePrivateInvite, DeletePrivateInvite
<1>3. AddPrivateInvite(r) => asks[r].queue = Invites
  BY DEF AddPrivateInvite, StagesKept, ToInvites, At
<1>4. invite \in Requests => asks[invite].queue = Invites
  BY DEF StagesKept
<1> QED
  BY <1>1, <1>2, <1>3, <1>4, MatchmakingAssumption DEF Waiting, IsOpponent

LEMMA OneIsCancelled ==
    ASSUME MatchTypeOK, StagesKept, NEW r \in Requests, RemoveFromQueue(r)
    PROVE  \/ cancel' = [cancel EXCEPT ![r] = "refused"] /\ \A q \in Requests : Same(q)
           \/ /\ cancel' = [cancel EXCEPT ![r] = "cancelled"] /\ Waiting(r)
              /\ \A q \in Requests : /\ Waiting(q)' <=> Waiting(q) /\ q # r
                                     /\ IsOpponent(q)' <=> IsOpponent(q)
<1>1. invite' = invite /\ opponent' = opponent
  BY DEF RemoveFromQueue
<1>2. asks[r].queue \in Queues
  BY DEF RemoveFromQueue, StagesKept
<1>3. CASE /\ r \in queue[asks[r].queue]
           /\ queue' = [queue EXCEPT ![asks[r].queue] = @ \ {r}]
           /\ cancel' = [cancel EXCEPT ![r] = "cancelled"]
  <2>1. \A k \in Queues : queue'[k] = queue[k] \ {r}
    BY <1>2, <1>3 DEF MatchTypeOK
  <2>2. invite # r
    BY <1>2, MatchmakingAssumption DEF StagesKept
  <2> QED
    BY <1>1, <1>2, <1>3, <2>1, <2>2 DEF Waiting, IsOpponent
<1>4. CASE queue' = queue /\ cancel' = [cancel EXCEPT ![r] = "refused"]
  BY <1>1, <1>4, NobodyMoved
<1> QED
  BY <1>3, <1>4 DEF RemoveFromQueue, Cancelled, Cancel

LEMMA StagesStay ==
    ASSUME MatchTypeOK, StagesKept, [MatchNext]_matchVars
    PROVE  StagesKept'
<1> USE MatchmakingAssumption DEF MatchTypeOK, At, Goto, Steps, StagesKept, Entered,
        OnTheWay, ToQueue, ToInvites
<1>1. ASSUME NEW r \in Requests, NEW k \in Queues \cup {Invites}, NEW elo \in Elos,
             JoinQueue(r, k, elo)
      PROVE  StagesKept'
  BY <1>1 DEF JoinQueue, Asked, Waiting, IsOpponent
<1>2. ASSUME NEW r \in Requests, NEW o \in Requests,
              FindOpponent(r, o), At(r, "find")
      PROVE  StagesKept'
  <2>1. /\ Waiting(o) /\ opponent[r] = NoRequest
        /\ \A q \in Requests : Waiting(q)' <=> Waiting(q) /\ q # o
        /\ \A q \in Requests : IsOpponent(q)' <=> IsOpponent(q) \/ q = o
    BY <1>2, OneIsTaken
  <2>2. /\ index' = [index EXCEPT ![o] = NoRequest]
        /\ opponent' = [opponent EXCEPT ![r] = o]
        /\ step' = [step EXCEPT ![r] = "remember_opponent"]
        /\ UNCHANGED <<asks, invite, matched, stored, old, cancel, polled, passed>>
    BY <1>2 DEF FindOpponent
  <2> QED
    BY <1>2, <2>1, <2>2
<1>3. ASSUME NEW r \in Requests, NEW o \in Requests, AcceptPrivateInvite(r, o)
      PROVE  StagesKept'
  BY <1>3 DEF AcceptPrivateInvite, Waiting, IsOpponent
<1>4. ASSUME NEW r \in Requests, FindNobody(r)
      PROVE  StagesKept'
  BY <1>4 DEF FindNobody, Waiting, IsOpponent
<1>5. ASSUME NEW r \in Requests, RememberOpponent(r)
      PROVE  StagesKept'
  BY <1>5 DEF RememberOpponent, Waiting, IsOpponent
<1>6. ASSUME NEW r \in Requests, Remember(r)
      PROVE  StagesKept'
  BY <1>6 DEF Remember, Waiting, IsOpponent
<1>7. ASSUME NEW r \in Requests, StoreMatch(r)
      PROVE  StagesKept'
  BY <1>7 DEF StoreMatch, Waiting, IsOpponent
<1>8. ASSUME NEW r \in Requests, Purge(r)
      PROVE  StagesKept'
  BY <1>8 DEF Purge, Waiting, IsOpponent
<1>9. ASSUME NEW r \in Requests, AddToQueue(r)
      PROVE  StagesKept'
  BY <1>9 DEF AddToQueue, Waiting, IsOpponent
<1>10. ASSUME NEW r \in Requests, IndexRequest(r)
       PROVE  StagesKept'
  BY <1>10 DEF IndexRequest, Waiting, IsOpponent
<1>11. ASSUME NEW r \in Requests, AddPrivateInvite(r)
       PROVE  StagesKept'
  BY <1>11 DEF AddPrivateInvite, Waiting, IsOpponent
<1>12. ASSUME NEW r \in Requests, LookUp(r)
       PROVE  StagesKept'
  BY <1>12 DEF LookUp, Cancel, Waiting, IsOpponent
<1>13. ASSUME NEW r \in Requests, RemoveFromQueue(r)
       PROVE  StagesKept'
  <2>1. /\ \A q \in Requests : Waiting(q)' => Waiting(q)
        /\ \A q \in Requests : IsOpponent(q)' <=> IsOpponent(q)
        /\ cancel' = [cancel EXCEPT ![r] = "cancelled"] => Waiting(r)
    BY <1>13, OneIsCancelled DEF Same
  <2>2. /\ \E s \in {"cancelled", "refused"} : cancel' = [cancel EXCEPT ![r] = s]
        /\ index' \in {index, [index EXCEPT ![r] = NoRequest]}
        /\ UNCHANGED <<asks, step, opponent, invite, matched, stored, old, polled, passed>>
        /\ cancel[r] = "in_queue"
    BY <1>13 DEF RemoveFromQueue, Cancel
  <2>a. cancel' = [cancel EXCEPT ![r] = "cancelled"] \/ cancel'[r] = "refused"
    BY ZenonT(40), <2>2
  <2>b. cancel'[r] = "cancelled" => step[r] \in Entered
    BY <2>1, <2>a
  <2>3. step[r] # "new" /\ (cancel'[r] = "cancelled" => step[r] \in Entered \cup OnTheWay)
    BY <2>2, <2>b
  <2>4. \A q \in Requests : /\ index'[q] \in {index[q], NoRequest}
                            /\ q # r => cancel'[q] = cancel[q]
    BY <2>2
  <2>5. cancel'[r] \in {"cancelled", "refused"}
    BY <2>2
  <2> HIDE DEF MatchTypeOK
  <2> QED
    BY <2>1, <2>2, <2>3, <2>4, <2>5
<1>14. ASSUME NEW r \in Requests, RemovePrivateInvite(r)
       PROVE  StagesKept'
  BY <1>14 DEF RemovePrivateInvite, Cancel, Waiting, IsOpponent
<1>15. ASSUME NEW r \in Requests, DeletePrivateInvite(r)
       PROVE  StagesKept'
  <2>1. /\ asks[r].queue = Invites /\ step[r] \in Entered \cup OnTheWay
        /\ index' = [index EXCEPT ![r] = NoRequest]
        /\ cancel' = [cancel EXCEPT ![r] = "cancelled"]
        /\ invite' = NoRequest
        /\ UNCHANGED <<asks, step, opponent, queue, matched, stored, old, polled, passed>>
    BY <1>15 DEF DeletePrivateInvite, Cancel
  <2> QED
    BY <2>1 DEF Waiting, IsOpponent
<1>16. ASSUME NEW r \in Requests, CancelFails(r)
       PROVE  StagesKept'
  BY <1>16 DEF CancelFails, Cancel, Waiting, IsOpponent
<1>17. ASSUME NEW r \in Requests, PollMatched(r)
       PROVE  StagesKept'
  BY <1>17 DEF PollMatched, Polled, Waiting, IsOpponent
<1>18. ASSUME NEW r \in Requests, PollQueues(r)
       PROVE  StagesKept'
  BY <1>18 DEF PollQueues, Polled, InQueue, Waiting, IsOpponent
<1>19. ASSUME NEW r \in Requests, PollFails(r)
       PROVE  StagesKept'
  BY <1>19 DEF PollFails, Polled, Waiting, IsOpponent
<1>20. ASSUME NEW r \in Requests, TaskFails(r)
       PROVE  StagesKept'
  BY <1>20 DEF TaskFails, Busy, Waiting, IsOpponent
<1>21. ASSUME NEW r \in Requests, HourPasses(r)
       PROVE  StagesKept'
  BY <1>21 DEF HourPasses, Waiting, IsOpponent
<1>22. ASSUME NEW k \in Queues, QueueExpires(k)
       PROVE  StagesKept'
  BY <1>22 DEF QueueExpires, Waiting, IsOpponent
<1>23. CASE UNCHANGED matchVars
  BY <1>23 DEF matchVars, Waiting, IsOpponent
<1> QED
  BY <1>1, <1>2, <1>3, <1>4, <1>5, <1>6, <1>7, <1>8, <1>9, <1>10, <1>11, <1>12, <1>13,
     <1>14, <1>15, <1>16, <1>17, <1>18, <1>19, <1>20, <1>21, <1>22, <1>23
     DEF MatchNext, FindCasual, FindRated

LEMMA PairsStay ==
    ASSUME MatchTypeOK, StagesKept, PairedOnce, [MatchNext]_matchVars
    PROVE  PairedOnce'
<1>1. ASSUME NEW r \in Requests, NEW o \in Requests,
             (FindOpponent(r, o) /\ At(r, "find")) \/ AcceptPrivateInvite(r, o)
      PROVE  PairedOnce'
  <2>1. /\ Waiting(o) /\ opponent[r] = NoRequest
        /\ \A q \in Requests : Waiting(q)' <=> Waiting(q) /\ q # o
        /\ \A q \in Requests : IsOpponent(q)' <=> IsOpponent(q) \/ q = o
    BY <1>1, OneIsTaken
  <2>2. opponent' = [opponent EXCEPT ![r] = o] /\ step[r] \in {"find", "new"}
    BY <1>1 DEF FindOpponent, AcceptPrivateInvite, At
  <2>3. ~Waiting(r) /\ ~IsOpponent(r)
    BY <2>2 DEF StagesKept, Entered
  <2>4. ~IsOpponent(o) /\ opponent[o] = NoRequest
    BY <2>1 DEF PairedOnce
  <2>5. \A q \in Requests : opponent[q] # o
    BY <2>4 DEF IsOpponent
  <2>6. opponent'[r] = o /\ \A q \in Requests \ {r} : opponent'[q] = opponent[q]
    BY <2>2 DEF MatchTypeOK
  <2> QED
    BY <2>1, <2>3, <2>4, <2>5, <2>6 DEF PairedOnce
<1>2. ASSUME NEW r \in Requests, opponent' = opponent, opponent[r] = NoRequest,
             ~IsOpponent(r), \A q \in Requests : Waiting(q)' => Waiting(q) \/ q = r
      PROVE  PairedOnce'
  <2>1. \A q \in Requests : IsOpponent(q)' <=> IsOpponent(q)
    BY <1>2 DEF IsOpponent
  <2> QED
    BY <1>2, <2>1 DEF PairedOnce
<1>3. ASSUME opponent' = opponent, \A q \in Requests : Waiting(q)' => Waiting(q)
      PROVE  PairedOnce'
  <2>1. \A q \in Requests : IsOpponent(q)' <=> IsOpponent(q)
    BY <1>3 DEF IsOpponent
  <2> QED
    BY <1>3, <2>1 DEF PairedOnce
<1>4. ASSUME NEW r \in Requests, AddToQueue(r) \/ AddPrivateInvite(r)
      PROVE  PairedOnce'
  <2>1. step[r] \in {"add", "invite"} /\ opponent' = opponent
    BY <1>4 DEF AddToQueue, AddPrivateInvite, At
  <2>2. opponent[r] = NoRequest /\ ~IsOpponent(r)
    BY <2>1 DEF StagesKept, Entered, OnTheWay
  <2>3. \A q \in Requests : Waiting(q)' => Waiting(q) \/ q = r
    BY <1>4, OneComes, InvitesApart
  <2> QED
    BY <1>2, <2>1, <2>2, <2>3
<1>5. ASSUME NEW r \in Requests, Purge(r) \/ RemoveFromQueue(r)
      PROVE  PairedOnce'
  <2>1. opponent' = opponent
    BY <1>5 DEF Purge, RemoveFromQueue
  <2>2. \A q \in Requests : Waiting(q)' => Waiting(q)
    BY <1>5, SomeExpire, OneIsCancelled DEF Same
  <2> QED
    BY <1>3, <2>1, <2>2
<1>6. ASSUME NEW k \in Queues, QueueExpires(k)
      PROVE  PairedOnce'
  <2>1. opponent' = opponent
    BY <1>6 DEF QueueExpires
  <2> QED
    BY <1>3, <1>6, <2>1, SomeExpire
<1>7. ASSUME NEW r \in Requests, RemovePrivateInvite(r) \/ DeletePrivateInvite(r)
      PROVE  PairedOnce'
  <2>1. opponent' = opponent /\ queue' = queue /\ invite' \in {invite, NoRequest}
    BY <1>7 DEF RemovePrivateInvite, DeletePrivateInvite
  <2>2. \A q \in Requests : Waiting(q)' => Waiting(q)
    BY <2>1, MatchmakingAssumption DEF Waiting
  <2> QED
    BY <1>3, <2>1, <2>2
<1>8. ASSUME UNCHANGED <<queue, invite, opponent>>
      PROVE  PairedOnce'
  <2>1. \A q \in Requests : Waiting(q)' => Waiting(q)
    BY <1>8, NobodyMoved DEF Same
  <2> QED
    BY <1>3, <1>8, <2>1
<1>9. ASSUME NEW r \in Requests,
             \/ \E k \in Queues \cup {Invites}, elo \in Elos : JoinQueue(r, k, elo)
             \/ FindNobody(r) \/ RememberOpponent(r) \/ Remember(r) \/ StoreMatch(r)
             \/ IndexRequest(r) \/ LookUp(r) \/ CancelFails(r) \/ PollMatched(r)
             \/ PollQueues(r) \/ PollFails(r) \/ TaskFails(r) \/ HourPasses(r)
      PROVE  UNCHANGED <<queue, invite, opponent>>
  BY <1>9 DEF JoinQueue, FindNobody, RememberOpponent, Remember, StoreMatch, IndexRequest,
     LookUp, CancelFails, PollMatched, PollQueues, PollFails, Polled, InQueue, TaskFails,
     HourPasses
<1>10. CASE UNCHANGED matchVars
  BY <1>8, <1>10 DEF matchVars
<1> QED
  BY <1>1, <1>4, <1>5, <1>6, <1>7, <1>8, <1>9, <1>10 DEF MatchNext, FindCasual, FindRated

\* What a poll has answered, or is about to.
PollTrue(q) ==
    /\ polled[q] = "missing" /\ asks[q].queue \in {RatedFree, Casual, Invites} => ~Waiting(q)
    /\ polled[q] = "matched" => matched[q] # NoRequest
    /\ polled[q] = "casual" /\ asks[q].queue = RatedFree => ~Waiting(q)
    /\ polled[q] = "invites" /\ asks[q].queue \in {RatedFree, Casual} => ~Waiting(q)

\* What can happen to a request in a step.
Moves(q) ==
    /\ Waiting(q)' => Waiting(q) \/ step[q] \in {"add", "invite"}
    /\ Waiting(q) => \/ Waiting(q)' \/ IsOpponent(q)' \/ asks[q].queue = Invites
                     \/ cancel'[q] = "cancelled" \/ q \in old
    /\ IsOpponent(q)' => IsOpponent(q) \/ Waiting(q)
    /\ IsOpponent(q) => IsOpponent(q)'
    /\ asks'[q] = asks[q] \/ (step[q] = "new" /\ cancel'[q] = "no")
    /\ matched[q] # NoRequest => matched'[q] # NoRequest
    /\ cancel[q] = "cancelled" => cancel'[q] = "cancelled"
    /\ q \in old => q \in old'
    /\ step'[q] \in {"index", "queued"} => step[q] \in {"index", "queued"} \/ Waiting(q)'
    /\ cancel'[q] = "cancelled" => \/ cancel[q] = "cancelled" \/ asks[q].queue = Invites
                                   \/ /\ Waiting(q) /\ ~Waiting(q)'
                                      /\ IsOpponent(q)' <=> IsOpponent(q)
    /\ polled'[q] # polled[q] => PollTrue(q)'

LEMMA Movement ==
    ASSUME MatchTypeOK, StagesKept, \A q \in Requests : PollTrue(q), [MatchNext]_matchVars
    PROVE  \A q \in Requests : Moves(q)
<1> USE MatchmakingAssumption DEF MatchTypeOK, At, Goto, Steps, StagesKept, Entered,
        OnTheWay, ToQueue, ToInvites, Moves, PollTrue
<1>1. ASSUME NEW r \in Requests, NEW k \in Queues \cup {Invites}, NEW elo \in Elos,
             JoinQueue(r, k, elo)
      PROVE  \A q \in Requests : Moves(q)
  <2>1. UNCHANGED <<queue, invite, opponent>>
    BY <1>1 DEF JoinQueue
  <2>2. \A q \in Requests : Same(q)
    BY <2>1, NobodyMoved
  <2> QED
    BY <1>1, <2>2 DEF JoinQueue, Asked, Same
<1>2. ASSUME NEW r \in Requests, NEW o \in Requests,
              FindOpponent(r, o), At(r, "find")
      PROVE  \A q \in Requests : Moves(q)
  <2>1. /\ Waiting(o) /\ opponent[r] = NoRequest
        /\ \A q \in Requests : Waiting(q)' <=> Waiting(q) /\ q # o
        /\ \A q \in Requests : IsOpponent(q)' <=> IsOpponent(q) \/ q = o
    BY <1>2, OneIsTaken
  <2> QED
    BY <1>2, <2>1 DEF FindOpponent
<1>3. ASSUME NEW r \in Requests, NEW o \in Requests, AcceptPrivateInvite(r, o)
      PROVE  \A q \in Requests : Moves(q)
  <2>1. /\ Waiting(o) /\ opponent[r] = NoRequest
        /\ \A q \in Requests : Waiting(q)' <=> Waiting(q) /\ q # o
        /\ \A q \in Requests : IsOpponent(q)' <=> IsOpponent(q) \/ q = o
    BY <1>3, OneIsTaken
  <2> QED
    BY <1>3, <2>1 DEF AcceptPrivateInvite
<1>4. ASSUME NEW r \in Requests, FindNobody(r)
      PROVE  \A q \in Requests : Moves(q)
  <2>1. UNCHANGED <<queue, invite, opponent>>
    BY <1>4 DEF FindNobody
  <2>2. \A q \in Requests : Same(q)
    BY <2>1, NobodyMoved
  <2> QED
    BY <1>4, <2>2 DEF FindNobody, Same
<1>5. ASSUME NEW r \in Requests, RememberOpponent(r)
      PROVE  \A q \in Requests : Moves(q)
  <2>1. UNCHANGED <<queue, invite, opponent>>
    BY <1>5 DEF RememberOpponent
  <2>2. \A q \in Requests : Same(q)
    BY <2>1, NobodyMoved
  <2> QED
    BY <1>5, <2>2 DEF RememberOpponent, Same
<1>6. ASSUME NEW r \in Requests, Remember(r)
      PROVE  \A q \in Requests : Moves(q)
  <2>1. UNCHANGED <<queue, invite, opponent>>
    BY <1>6 DEF Remember
  <2>2. \A q \in Requests : Same(q)
    BY <2>1, NobodyMoved
  <2> QED
    BY <1>6, <2>2 DEF Remember, Same
<1>7. ASSUME NEW r \in Requests, StoreMatch(r)
      PROVE  \A q \in Requests : Moves(q)
  <2>1. UNCHANGED <<queue, invite, opponent>>
    BY <1>7 DEF StoreMatch
  <2>2. \A q \in Requests : Same(q)
    BY <2>1, NobodyMoved
  <2> QED
    BY <1>7, <2>2 DEF StoreMatch, Same
<1>8. ASSUME NEW r \in Requests, Purge(r)
      PROVE  \A q \in Requests : Moves(q)
  <2>1. /\ \A q \in Requests : Waiting(q)' => Waiting(q)
        /\ \A q \in Requests : Waiting(q) => Waiting(q)' \/ q \in old
        /\ \A q \in Requests : IsOpponent(q)' <=> IsOpponent(q)
    BY <1>8, SomeExpire
  <2> QED
    BY <1>8, <2>1 DEF Purge
<1>9. ASSUME NEW r \in Requests, AddToQueue(r)
      PROVE  \A q \in Requests : Moves(q)
  <2>1. \A q \in Requests : /\ Waiting(q)' <=> Waiting(q) \/ q = r
                            /\ IsOpponent(q)' <=> IsOpponent(q)
    BY <1>9, OneComes
  <2> QED
    BY <1>9, <2>1 DEF AddToQueue
<1>10. ASSUME NEW r \in Requests, IndexRequest(r)
       PROVE  \A q \in Requests : Moves(q)
  <2>1. UNCHANGED <<queue, invite, opponent>>
    BY <1>10 DEF IndexRequest
  <2>2. \A q \in Requests : Same(q)
    BY <2>1, NobodyMoved
  <2> QED
    BY <1>10, <2>2 DEF IndexRequest, Same
<1>11. ASSUME NEW r \in Requests, AddPrivateInvite(r)
       PROVE  \A q \in Requests : Moves(q)
  <2>1. \A q \in Requests : /\ Waiting(q)' => Waiting(q) \/ (q = r /\ AddPrivateInvite(r))
                            /\ asks[q].queue # Invites => (Waiting(q)' <=> Waiting(q))
                            /\ IsOpponent(q)' <=> IsOpponent(q)
    BY <1>11, InvitesApart
  <2> QED
    BY <1>11, <2>1 DEF AddPrivateInvite, Cancel
<1>12. ASSUME NEW r \in Requests, LookUp(r)
       PROVE  \A q \in Requests : Moves(q)
  <2>1. UNCHANGED <<queue, invite, opponent>>
    BY <1>12 DEF LookUp
  <2>2. \A q \in Requests : Same(q)
    BY <2>1, NobodyMoved
  <2> QED
    BY <1>12, <2>2 DEF LookUp, Cancel, Same
<1>13. ASSUME NEW r \in Requests, RemoveFromQueue(r)
       PROVE  \A q \in Requests : Moves(q)
  <2>1. \/ cancel' = [cancel EXCEPT ![r] = "refused"] /\ \A q \in Requests : Same(q)
        \/ /\ cancel' = [cancel EXCEPT ![r] = "cancelled"] /\ Waiting(r)
           /\ \A q \in Requests : /\ Waiting(q)' <=> Waiting(q) /\ q # r
                                  /\ IsOpponent(q)' <=> IsOpponent(q)
    BY <1>13, OneIsCancelled
  <2>2. /\ UNCHANGED <<asks, step, opponent, invite, matched, stored, old, polled, passed>>
        /\ cancel[r] = "in_queue"
    BY <1>13 DEF RemoveFromQueue
  <2> QED
    BY <2>1, <2>2 DEF Same
<1>14. ASSUME NEW r \in Requests, RemovePrivateInvite(r)
       PROVE  \A q \in Requests : Moves(q)
  <2>1. \A q \in Requests : /\ Waiting(q)' => Waiting(q) \/ (q = r /\ AddPrivateInvite(r))
                            /\ asks[q].queue # Invites => (Waiting(q)' <=> Waiting(q))
                            /\ IsOpponent(q)' <=> IsOpponent(q)
    BY <1>14, InvitesApart
  <2> QED
    BY <1>14, <2>1 DEF RemovePrivateInvite, AddPrivateInvite, Cancel
<1>15. ASSUME NEW r \in Requests, DeletePrivateInvite(r)
       PROVE  \A q \in Requests : Moves(q)
  <2>1. \A q \in Requests : /\ Waiting(q)' => Waiting(q) \/ (q = r /\ AddPrivateInvite(r))
                            /\ asks[q].queue # Invites => (Waiting(q)' <=> Waiting(q))
                            /\ IsOpponent(q)' <=> IsOpponent(q)
    BY <1>15, InvitesApart
  <2> QED
    BY <1>15, <2>1 DEF DeletePrivateInvite, AddPrivateInvite, Cancel
<1>16. ASSUME NEW r \in Requests, CancelFails(r)
       PROVE  \A q \in Requests : Moves(q)
  <2>1. UNCHANGED <<queue, invite, opponent>>
    BY <1>16 DEF CancelFails
  <2>2. \A q \in Requests : Same(q)
    BY <2>1, NobodyMoved
  <2> QED
    BY <1>16, <2>2 DEF CancelFails, Cancel, Same
<1>17. ASSUME NEW r \in Requests, PollMatched(r)
       PROVE  \A q \in Requests : Moves(q)
  <2>1. UNCHANGED <<queue, invite, opponent>>
    BY <1>17 DEF PollMatched, Polled
  <2>2. \A q \in Requests : Same(q)
    BY <2>1, NobodyMoved
  <2> QED
    BY <1>17, <2>2 DEF PollMatched, Polled, Same
<1>18. ASSUME NEW r \in Requests, PollQueues(r)
       PROVE  \A q \in Requests : Moves(q)
  <2>1. UNCHANGED <<queue, invite, opponent, asks, step, index, matched, stored, old, cancel>>
    BY <1>18 DEF PollQueues, Polled, InQueue
  <2>2. \A q \in Requests : Same(q)
    BY <2>1, NobodyMoved
  <2>3. \E s \in {"no", "casual", "invites", "missing"} : polled' = [polled EXCEPT ![r] = s]
    BY <1>18 DEF PollQueues, Polled, InQueue
  <2>4. /\ polled'[r] = "casual" => r \notin queue[RatedFree]
        /\ polled'[r] = "invites" => polled[r] = "casual" /\ r \notin queue[Casual]
        /\ polled'[r] = "missing" => polled[r] = "invites" /\ invite # r
    BY <1>18 DEF PollQueues, Polled, InQueue
  <2>5. Waiting(r) <=> \/ invite = r /\ asks[r].queue = Invites
                       \/ asks[r].queue \in Queues /\ r \in queue[asks[r].queue]
    BY WhereHeWaits
  <2>6. PollTrue(r)'
    BY <2>1, <2>2, <2>3, <2>4, <2>5 DEF Same
  <2> QED
    BY <2>1, <2>2, <2>3, <2>6 DEF Same
<1>19. ASSUME NEW r \in Requests, PollFails(r)
       PROVE  \A q \in Requests : Moves(q)
  <2>1. UNCHANGED <<queue, invite, opponent>>
    BY <1>19 DEF PollFails, Polled
  <2>2. \A q \in Requests : Same(q)
    BY <2>1, NobodyMoved
  <2> QED
    BY <1>19, <2>2 DEF PollFails, Polled, Same
<1>20. ASSUME NEW r \in Requests, TaskFails(r)
       PROVE  \A q \in Requests : Moves(q)
  <2>1. UNCHANGED <<queue, invite, opponent>>
    BY <1>20 DEF TaskFails
  <2>2. \A q \in Requests : Same(q)
    BY <2>1, NobodyMoved
  <2> QED
    BY <1>20, <2>2 DEF TaskFails, Busy, Same
<1>21. ASSUME NEW r \in Requests, HourPasses(r)
       PROVE  \A q \in Requests : Moves(q)
  <2>1. UNCHANGED <<queue, invite, opponent>>
    BY <1>21 DEF HourPasses
  <2>2. \A q \in Requests : Same(q)
    BY <2>1, NobodyMoved
  <2> QED
    BY <1>21, <2>2 DEF HourPasses, Same
<1>22. ASSUME NEW k \in Queues, QueueExpires(k)
       PROVE  \A q \in Requests : Moves(q)
  <2>1. /\ \A q \in Requests : Waiting(q)' => Waiting(q)
        /\ \A q \in Requests : Waiting(q) => Waiting(q)' \/ q \in old
        /\ \A q \in Requests : IsOpponent(q)' <=> IsOpponent(q)
    BY <1>22, SomeExpire
  <2> QED
    BY <1>22, <2>1 DEF QueueExpires
<1>23. CASE UNCHANGED matchVars
  BY <1>23 DEF matchVars, Waiting, IsOpponent
<1> QED
  BY <1>1, <1>2, <1>3, <1>4, <1>5, <1>6, <1>7, <1>8, <1>9, <1>10, <1>11, <1>12, <1>13,
     <1>14, <1>15, <1>16, <1>17, <1>18, <1>19, <1>20, <1>21, <1>22, <1>23
     DEF MatchNext, FindCasual, FindRated

LEMMA AnswersStay ==
    ASSUME MatchTypeOK, StagesKept, PairedOnce, AnswersHold, AnswersKept,
           [MatchNext]_matchVars
    PROVE  AnswersHold' /\ AnswersKept'
<1>1. \A q \in Requests : PollTrue(q)
  BY DEF PollTrue, AnswersHold, AnswersKept
<1>2. \A q \in Requests : Moves(q)
  BY <1>1, Movement
<1>3. ASSUME NEW q \in Requests
      PROVE  PollTrue(q)'
  <2>1. CASE polled'[q] # polled[q]
    BY <1>2, <2>1 DEF Moves
  <2>2. CASE polled'[q] = polled[q] /\ polled[q] # "no"
    <3>1. step[q] \in {"queued", "invited"}
      BY <2>2 DEF StagesKept
    <3>2. /\ Waiting(q)' => Waiting(q)
          /\ asks'[q] = asks[q]
          /\ matched[q] # NoRequest => matched'[q] # NoRequest
      BY <1>2, <3>1 DEF Moves
    <3> QED
      BY <1>1, <2>2, <3>2 DEF PollTrue
  <2>3. CASE polled'[q] = "no"
    BY <2>3 DEF PollTrue
  <2> QED
    BY <2>1, <2>2, <2>3
<1>4. ASSUME NEW q \in Requests, step'[q] \in {"index", "queued"}
      PROVE  Waiting(q)' \/ IsOpponent(q)' \/ cancel'[q] = "cancelled" \/ q \in old'
  <2>1. CASE step[q] \in {"index", "queued"}
    <3>1. Waiting(q) \/ IsOpponent(q) \/ cancel[q] = "cancelled" \/ q \in old
      BY <2>1 DEF AnswersHold, AnswersKept
    <3>2. asks[q].queue # Invites
      BY <2>1, MatchmakingAssumption DEF StagesKept, ToQueue
    <3> QED
      BY <1>2, <3>1, <3>2 DEF Moves
  <2> QED
    BY <1>2, <1>4, <2>1 DEF Moves
<1>5. ASSUME NEW q \in Requests, cancel'[q] = "cancelled", asks'[q].queue # Invites
      PROVE  ~Waiting(q)' /\ ~IsOpponent(q)'
  <2>1. CASE cancel[q] = "cancelled"
    <3>1. step[q] \in Entered \cup OnTheWay /\ step[q] # "new"
      BY <2>1 DEF StagesKept
    <3>2. asks'[q] = asks[q] /\ step[q] \notin {"add", "invite"}
      BY <1>2, <3>1 DEF Moves, Entered, OnTheWay
    <3>3. ~Waiting(q) /\ ~IsOpponent(q)
      BY <1>5, <2>1, <3>2 DEF AnswersHold
    <3> QED
      BY <1>2, <3>2, <3>3 DEF Moves
  <2>2. CASE asks[q].queue = Invites
    BY <1>2, <1>5, <2>2 DEF Moves
  <2>3. CASE Waiting(q) /\ ~Waiting(q)' /\ (IsOpponent(q)' <=> IsOpponent(q))
    BY <2>3 DEF PairedOnce
  <2> QED
    BY <1>2, <1>5, <2>1, <2>2, <2>3 DEF Moves
<1> QED
  BY <1>3, <1>4, <1>5 DEF AnswersHold, AnswersKept, PollTrue

LEMMA MatchesFollow ==
    ASSUME MatchTypeOK, StagesKept, MatchFollows, [MatchNext]_matchVars
    PROVE  MatchFollows'
<1> USE MatchmakingAssumption DEF MatchTypeOK, At, Goto, Steps, StagesKept, MatchFollows
<1>1. ASSUME NEW r \in Requests, NEW k \in Queues \cup {Invites}, NEW elo \in Elos,
             JoinQueue(r, k, elo)
      PROVE  MatchFollows'
  BY <1>1 DEF JoinQueue, Asked
<1>2. ASSUME NEW r \in Requests, NEW o \in Requests,
              FindOpponent(r, o), At(r, "find")
      PROVE  MatchFollows'
  <2>1. /\ step' = [step EXCEPT ![r] = "remember_opponent"] /\ step[r] = "find"
        /\ UNCHANGED <<matched, stored>>
    BY <1>2 DEF FindOpponent
  <2> QED
    BY <2>1
<1>3. ASSUME NEW r \in Requests, NEW o \in Requests, AcceptPrivateInvite(r, o)
      PROVE  MatchFollows'
  BY <1>3 DEF AcceptPrivateInvite
<1>4. ASSUME NEW r \in Requests, FindNobody(r)
      PROVE  MatchFollows'
  BY <1>4 DEF FindNobody
<1>5. ASSUME NEW r \in Requests, RememberOpponent(r)
      PROVE  MatchFollows'
  BY <1>5 DEF RememberOpponent
<1>6. ASSUME NEW r \in Requests, Remember(r)
      PROVE  MatchFollows'
  BY <1>6 DEF Remember
<1>7. ASSUME NEW r \in Requests, StoreMatch(r)
      PROVE  MatchFollows'
  BY <1>7 DEF StoreMatch
<1>8. ASSUME NEW r \in Requests, Purge(r)
      PROVE  MatchFollows'
  BY <1>8 DEF Purge
<1>9. ASSUME NEW r \in Requests, AddToQueue(r)
      PROVE  MatchFollows'
  BY <1>9 DEF AddToQueue
<1>10. ASSUME NEW r \in Requests, IndexRequest(r)
       PROVE  MatchFollows'
  BY <1>10 DEF IndexRequest
<1>11. ASSUME NEW r \in Requests, AddPrivateInvite(r)
       PROVE  MatchFollows'
  BY <1>11 DEF AddPrivateInvite
<1>12. ASSUME NEW r \in Requests, LookUp(r)
       PROVE  MatchFollows'
  BY <1>12 DEF LookUp, Cancel
<1>13. ASSUME NEW r \in Requests, RemoveFromQueue(r)
       PROVE  MatchFollows'
  BY <1>13 DEF RemoveFromQueue, Cancel, Cancelled
<1>14. ASSUME NEW r \in Requests, RemovePrivateInvite(r)
       PROVE  MatchFollows'
  BY <1>14 DEF RemovePrivateInvite, Cancel
<1>15. ASSUME NEW r \in Requests, DeletePrivateInvite(r)
       PROVE  MatchFollows'
  BY <1>15 DEF DeletePrivateInvite, Cancel
<1>16. ASSUME NEW r \in Requests, CancelFails(r)
       PROVE  MatchFollows'
  BY <1>16 DEF CancelFails, Cancel
<1>17. ASSUME NEW r \in Requests, PollMatched(r)
       PROVE  MatchFollows'
  BY <1>17 DEF PollMatched, Polled
<1>18. ASSUME NEW r \in Requests, PollQueues(r)
       PROVE  MatchFollows'
  BY <1>18 DEF PollQueues, Polled, InQueue
<1>19. ASSUME NEW r \in Requests, PollFails(r)
       PROVE  MatchFollows'
  BY <1>19 DEF PollFails, Polled
<1>20. ASSUME NEW r \in Requests, TaskFails(r)
       PROVE  MatchFollows'
  BY <1>20 DEF TaskFails, Busy
<1>21. ASSUME NEW r \in Requests, HourPasses(r)
       PROVE  MatchFollows'
  BY <1>21 DEF HourPasses
<1>22. ASSUME NEW k \in Queues, QueueExpires(k)
       PROVE  MatchFollows'
  BY <1>22 DEF QueueExpires
<1>23. CASE UNCHANGED matchVars
  BY <1>23 DEF matchVars
<1> QED
  BY <1>1, <1>2, <1>3, <1>4, <1>5, <1>6, <1>7, <1>8, <1>9, <1>10, <1>11, <1>12, <1>13,
     <1>14, <1>15, <1>16, <1>17, <1>18, <1>19, <1>20, <1>21, <1>22, <1>23
     DEF MatchNext, FindCasual, FindRated

\* What was looked at stays as it was, and nobody looks twice.
LEMMA NobodyLooks ==
    ASSUME LookersPassed, passed' = passed,
           \A q \in Requests : Looked(q)' => Looked(q) /\ asks'[q] = asks[q]
    PROVE  LookersPassed'
BY DEF LookersPassed, Fits, InRange

\* The ranges of two requests are equally wide.
LEMMA FitsBothWays ==
    ASSUME MatchTypeOK, NEW r \in Requests, NEW o \in Requests, Fits(o, r)
    PROVE  Fits(r, o)
<1>1. \A x, y \in Elos : x - y \in -EloRange..EloRange => y - x \in -EloRange..EloRange
  <2>1. \A x \in Elos : x \in Int
    BY MatchmakingAssumption
  <2>2. EloRange \in Int
    BY MatchmakingAssumption
  <2> QED
    BY <2>1, <2>2
<1>2. asks[o].elo \in Elos /\ asks[r].elo \in Elos
  BY DEF MatchTypeOK
<1> QED
  BY <1>1, <1>2 DEF Fits, InRange

LEMMA LookersStay ==
    ASSUME MatchTypeOK, StagesKept, LookersPassed, [MatchNext]_matchVars
    PROVE  LookersPassed'
<1> USE MatchmakingAssumption
<1>a. \A q \in Requests : Looked(q) => step[q] # "new"
  BY DEF Looked, StagesKept, Waiting, Entered
<1>1. ASSUME NEW r \in Requests, FindNobody(r)
      PROVE  LookersPassed'
  <2>1. /\ step[r] = "find" /\ NobodyFits(r) /\ step' = [step EXCEPT ![r] = "purge"]
        /\ passed' = [passed EXCEPT ![r] = {o \in Requests : OnItsWay(o, asks[r].queue)}]
        /\ UNCHANGED <<asks, queue>>
    BY <1>1 DEF FindNobody, At, Goto
  <2>2. ASSUME NEW o \in Requests, o # r, Looked(o), Fits(r, o) \/ Fits(o, r)
        PROVE  o \in passed'[r]
    <3>1. asks[o].queue = asks[r].queue /\ Fits(r, o)
      BY <2>2, FitsBothWays DEF Fits
    <3>2. o \notin queue[asks[r].queue]
      BY <2>1, <3>1 DEF NobodyFits
    <3>3. step[o] \in {"purge", "add"}
      BY <2>2, <3>1, <3>2 DEF Looked, MatchTypeOK
    <3> QED
      BY <2>1, <3>1, <3>3 DEF OnItsWay, MatchTypeOK
  <2>3. \A o \in Requests \ {r} : (Looked(o)' <=> Looked(o)) /\ passed'[o] = passed[o]
    BY <2>1 DEF Looked, MatchTypeOK
  <2>4. \A o, q \in Requests : Fits(q, o)' <=> Fits(q, o)
    BY <2>1 DEF Fits, InRange
  <2> QED
    BY <2>2, <2>3, <2>4 DEF LookersPassed
<1>2. ASSUME NEW r \in Requests, AddToQueue(r)
      PROVE  LookersPassed'
  <2>1. /\ step[r] = "add" /\ step' = [step EXCEPT ![r] = "index"]
        /\ queue' = [queue EXCEPT ![asks[r].queue] = @ \cup {r}]
        /\ UNCHANGED <<asks, passed>>
    BY <1>2 DEF AddToQueue, At, Goto
  <2>2. \A q \in Requests : Looked(q)' => Looked(q)
    BY <2>1 DEF Looked, MatchTypeOK
  <2> QED
    BY <2>1, <2>2, NobodyLooks
<1>3. ASSUME passed' = passed, \A k \in Queues : queue'[k] \subseteq queue[k],
             \A q \in Requests : /\ step'[q] \in {"purge", "add"} => step[q] \in {"purge", "add"}
                                 /\ asks'[q] = asks[q] \/ step[q] = "new"
      PROVE  LookersPassed'
  <2>1. \A q \in Requests : Looked(q)' => Looked(q)
    BY <1>3 DEF Looked
  <2> QED
    BY <1>a, <1>3, <2>1, NobodyLooks
<1> DEFINE Still == /\ passed' = passed /\ \A k \in Queues : queue'[k] \subseteq queue[k]
                    /\ \A q \in Requests :
                         /\ step'[q] \in {"purge", "add"} => step[q] \in {"purge", "add"}
                         /\ asks'[q] = asks[q] \/ step[q] = "new"
<1>4. ASSUME NEW r \in Requests, NEW k \in Queues \cup {Invites}, NEW elo \in Elos,
             JoinQueue(r, k, elo)
      PROVE  Still
  BY <1>4 DEF JoinQueue, Goto, At, MatchTypeOK
<1>5. ASSUME NEW r \in Requests, NEW o \in Requests,
             FindOpponent(r, o) \/ AcceptPrivateInvite(r, o)
      PROVE  Still
  <2>1. CASE FindOpponent(r, o)
    <3>1. /\ passed' = passed /\ asks' = asks
          /\ queue' = [queue EXCEPT ![asks[r].queue] = @ \ {o}]
          /\ step' = [step EXCEPT ![r] = "remember_opponent"]
      BY <2>1 DEF FindOpponent, Taken, Goto
    <3> QED
      BY <3>1 DEF MatchTypeOK
  <2>2. CASE AcceptPrivateInvite(r, o)
    BY <2>2 DEF AcceptPrivateInvite, Goto, At, MatchTypeOK
  <2> QED
    BY <1>5, <2>1, <2>2
<1>6. ASSUME NEW r \in Requests, Purge(r)
      PROVE  Still
  BY <1>6 DEF Purge, Goto, At, MatchTypeOK
<1>7. ASSUME NEW r \in Requests,
             \/ RememberOpponent(r) \/ Remember(r) \/ StoreMatch(r) \/ IndexRequest(r)
             \/ AddPrivateInvite(r) \/ TaskFails(r)
      PROVE  Still
  <2>1. /\ UNCHANGED <<asks, queue, passed>>
        /\ \E s \in Steps \ {"purge", "add"} : step' = [step EXCEPT ![r] = s]
    BY <1>7 DEF RememberOpponent, Remember, StoreMatch, IndexRequest, AddPrivateInvite,
       TaskFails, Goto, Steps
  <2> QED
    BY <2>1 DEF MatchTypeOK
<1>8. ASSUME NEW r \in Requests, RemoveFromQueue(r)
      PROVE  Still
  BY <1>8 DEF RemoveFromQueue, Cancelled, MatchTypeOK
<1>9. ASSUME NEW r \in Requests,
             \/ LookUp(r) \/ RemovePrivateInvite(r) \/ DeletePrivateInvite(r)
             \/ CancelFails(r) \/ PollMatched(r) \/ PollQueues(r) \/ PollFails(r)
             \/ HourPasses(r)
      PROVE  Still
  <2>1. UNCHANGED <<asks, step, queue, passed>>
    BY <1>9 DEF LookUp, RemovePrivateInvite, DeletePrivateInvite, CancelFails, PollMatched,
       PollQueues, PollFails, Polled, InQueue, HourPasses
  <2> QED
    BY <2>1
<1>10. ASSUME NEW k \in Queues, QueueExpires(k)
       PROVE  Still
  BY <1>10 DEF QueueExpires, MatchTypeOK
<1>11. CASE UNCHANGED matchVars
  <2>1. Still
    BY <1>11 DEF matchVars
  <2> QED
    BY <1>3, <2>1
<1> QED
  BY <1>1, <1>2, <1>3, <1>4, <1>5, <1>6, <1>7, <1>8, <1>9, <1>10, <1>11
     DEF MatchNext, FindCasual, FindRated

-----------------------------------------------------------------------------
LEMMA MatchStarts == MatchInit => MatchInv
<1> SUFFICES ASSUME MatchInit
             PROVE  MatchInv
  OBVIOUS
<1> USE MatchmakingAssumption DEF MatchInit
<1>1. MatchTypeOK
  BY DEF MatchTypeOK, Steps
<1>2. \A r \in Requests : ~Waiting(r) /\ ~IsOpponent(r) /\ ~Looked(r)
  BY DEF Waiting, IsOpponent, Looked
<1>3. StagesKept
  BY <1>2 DEF StagesKept, ToQueue, ToInvites
<1>4. PairedOnce /\ AnswersHold /\ AnswersKept /\ MatchFollows
  BY <1>2 DEF PairedOnce, AnswersHold, AnswersKept, MatchFollows
<1>5. LookersPassed
  BY <1>2 DEF LookersPassed
<1> QED
  BY <1>1, <1>3, <1>4, <1>5 DEF MatchInv

LEMMA MatchKept == MatchInv /\ [MatchNext]_matchVars => MatchInv'
BY MatchTypesKept, StagesStay, PairsStay, AnswersStay, MatchesFollow, LookersStay
   DEF MatchInv

LEMMA MatchInductive == MatchSpec => []MatchInv
BY MatchStarts, MatchKept, PTL DEF MatchSpec

\* Nobody is paired twice, answers to polls and cancellations hold, and whoever is told of
\* a match finds it (join_queue, cancel_request, get_status).
THEOREM PairsAndAnswers == MatchSpec => []MatchmakingSound
<1>1. MatchInv => MatchmakingSound
  BY DEF MatchInv, MatchmakingSound
<1> QED
  BY MatchInductive, <1>1, PTL

\* Two requests that fit each other wait side by side only if each looked before the other
\* was in the queue (find_match_for_queue, add_to_redis_queue).
THEOREM OnlyPassersWait == MatchSpec => []WaitersPassedEachOther
<1>1. MatchInv => WaitersPassedEachOther
  BY DEF MatchInv, MatchTypeOK, LookersPassed, Looked, WaitersPassedEachOther
<1> QED
  BY MatchInductive, <1>1, PTL

-----------------------------------------------------------------------------
(***************************************************************************)
(* Board.  Placement is inductive by itself: every operation is a Place on *)
(* a mask that holds its square, or a Discard.  NothingLost follows from   *)
(* it, and so does BlockersArePins: a square on the ray of a slider is     *)
(* whole steps from the king, which is to be a part of the way to the      *)
(* slider (RayIsBetween), so one piece on it is the only one in the way.   *)
(***************************************************************************)
\* The part of BoardConsistent that is inductive.
Placement == BoardTypeOK /\ OnePlacement

LEMMA EmptyIsPlacement == EmptyBoard => Placement
BY DEF EmptyBoard, Placement, BoardTypeOK, OnePlacement, ColorsPartition, RolesPartition,
       Colors, Roles

\* A square of the mask is free when the piece is put there, in every group.
LEMMA PlaceKeeps ==
    ASSUME Placement, NEW s \in Squares, NEW piece \in [color : Colors, role : Roles],
           NEW mask, s \in mask, Place(s, piece, mask)
    PROVE  Placement'
<1> DEFINE coloured(c) == (byColor[c] \ mask) \cup (IF c = piece.color THEN {s} ELSE {})
           cast(r) == (byRole[r] \ mask) \cup (IF r = piece.role THEN {s} ELSE {})
<1>1. /\ occupied' = (occupied \ mask) \cup {s}
      /\ byColor' = [c \in Colors |-> coloured(c)]
      /\ byRole' = [r \in Roles |-> cast(r)]
  BY DEF Place, Discarded, Update
<1>2. piece.color \in Colors /\ piece.role \in Roles
  OBVIOUS
<1>3. BoardTypeOK'
  <2>1. occupied' \subseteq Squares
    BY <1>1 DEF Placement, BoardTypeOK
  <2>2. \A c \in Colors : coloured(c) \subseteq Squares
    BY DEF Placement, BoardTypeOK
  <2>3. \A r \in Roles : cast(r) \subseteq Squares
    BY DEF Placement, BoardTypeOK
  <2> HIDE DEF coloured, cast
  <2> QED  BY <1>1, <2>1, <2>2, <2>3 DEF BoardTypeOK
<1>4. ColorsPartition'
  <2>1. coloured("white") \cap coloured("black") = {}
    BY DEF Placement, OnePlacement, ColorsPartition
  <2>2. coloured("white") \cup coloured("black") = (occupied \ mask) \cup {s}
    BY <1>2 DEF Placement, OnePlacement, ColorsPartition, Colors
  <2>3. byColor'["white"] = coloured("white") /\ byColor'["black"] = coloured("black")
    BY <1>1 DEF Colors
  <2> HIDE DEF coloured, cast
  <2> QED  BY <1>1, <2>1, <2>2, <2>3 DEF ColorsPartition
<1>5. RolesPartition'
  <2>1. \A r, q \in Roles : r # q => cast(r) \cap cast(q) = {}
    BY DEF Placement, OnePlacement, RolesPartition
  <2>2. \A x : x \in (occupied \ mask) \cup {s} <=> \E r \in Roles : x \in cast(r)
    <3>1. occupied = UNION {byRole[r] : r \in Roles}
      BY DEF Placement, OnePlacement, RolesPartition
    <3> QED  BY <1>2, <3>1
  <2>3. \A r \in Roles : byRole'[r] = cast(r)
    BY <1>1
  <2> HIDE DEF coloured, cast
  <2>4. occupied' = UNION {byRole'[r] : r \in Roles}
    BY <1>1, <2>2, <2>3
  <2> QED  BY <2>1, <2>3, <2>4 DEF RolesPartition
<1> QED  BY <1>3, <1>4, <1>5 DEF Placement, OnePlacement

LEMMA DiscardKeeps ==
    ASSUME Placement, NEW mask, Discard(mask)
    PROVE  Placement'
<1>1. /\ occupied' = occupied \ mask
      /\ byColor' = [c \in Colors |-> byColor[c] \ mask]
      /\ byRole' = [r \in Roles |-> byRole[r] \ mask]
  BY DEF Discard, Discarded
<1>2. BoardTypeOK'
  BY <1>1 DEF Placement, BoardTypeOK
<1>3. ColorsPartition'
  BY <1>1 DEF Placement, OnePlacement, ColorsPartition, Colors
<1>4. RolesPartition'
  <2>1. \A r \in Roles : byRole'[r] = byRole[r] \ mask
    BY <1>1
  <2>2. occupied = UNION {byRole[r] : r \in Roles}
    BY DEF Placement, OnePlacement, RolesPartition
  <2>3. occupied' = UNION {byRole'[r] : r \in Roles}
    BY <1>1, <2>1, <2>2
  <2>4. \A r, q \in Roles : r # q => byRole'[r] \cap byRole'[q] = {}
    BY <2>1 DEF Placement, OnePlacement, RolesPartition
  <2> QED  BY <2>3, <2>4 DEF RolesPartition
<1> QED  BY <1>2, <1>3, <1>4 DEF Placement, OnePlacement

\* What find_color and find_role answer is a colour and a role.
LEMMA PieceAtType ==
    ASSUME NEW s, IsPiece(s)
    PROVE  PieceAt(s) \in [color : Colors, role : Roles]
<1>1. ColorAt(s) \in Colors
  BY DEF IsPiece, ColorAt, Colors
<1>2. RoleAt(s) \in Roles
  BY DEF IsPiece, RoleAt, Roles
<1> QED  BY <1>1, <1>2 DEF PieceAt

LEMMA BoardStep == Placement /\ [BoardNext]_board => Placement'
<1> SUFFICES ASSUME Placement, [BoardNext]_board  PROVE Placement'
  OBVIOUS
<1>1. CASE UNCHANGED board
  BY <1>1 DEF board, Placement, BoardTypeOK, OnePlacement, ColorsPartition, RolesPartition
<1>2. ASSUME NEW s \in Squares, NEW p \in Pieces, Put(p, s) \/ Replace(p, s) \/ PutOrReplace(p, s)
      PROVE  Placement'
  <2>1. Place(s, p, {s})
    BY <1>2 DEF Put, Replace, PutOrReplace
  <2> QED  BY <2>1, PlaceKeeps, PiecesAssumption
<1>3. ASSUME NEW mask, Discard(mask)  PROVE Placement'
  BY <1>3, DiscardKeeps
<1>4. ASSUME NEW s \in Squares, Take(s)  PROVE Placement'
  BY <1>4, DiscardKeeps DEF Take
<1>5. ASSUME NEW s \in Squares, NEW t \in Squares, MovePiece(s, t)  PROVE Placement'
  <2>1. Place(t, PieceAt(s), {s, t}) /\ PieceAt(s) \in [color : Colors, role : Roles]
    BY <1>5, PieceAtType DEF MovePiece
  <2> QED  BY <2>1, PlaceKeeps
<1>6. ASSUME NEW s \in Squares, NEW t \in Squares, NEW p \in Pieces, Promote(s, t, p)
      PROVE  Placement'
  <2>1. Place(t, p, {s, t})
    BY <1>6 DEF Promote
  <2> QED  BY <2>1, PlaceKeeps, PiecesAssumption
<1> QED  BY <1>1, <1>2, <1>3, <1>4, <1>5, <1>6 DEF BoardNext

\* A square that one colour and one role hold is found, with that colour and that role.
LEMMA FoundAsPlaced ==
    ASSUME Placement, NEW s
    PROVE  /\ s \in occupied => IsPiece(s)
           /\ \A c \in Colors : s \in byColor[c] => ColorAt(s) = c
           /\ \A r \in Roles : s \in byRole[r] => RoleAt(s) = r
           /\ \A c \in Colors : ColorAt(s) = c => s \in byColor[c]
           /\ \A r \in Roles : RoleAt(s) = r => s \in byRole[r]
<1>1. \A c \in Colors : s \in byColor[c] <=> ColorAt(s) = c
  BY DEF Placement, OnePlacement, ColorsPartition, ColorAt, Colors
<1>2. \A r \in Roles : RoleAt(s) = r => s \in byRole[r]
  BY DEF RoleAt, Roles
<1>3. \A r \in Roles : s \in byRole[r] => RoleAt(s) = r
  <2>1. \A r, q \in Roles : s \in byRole[r] /\ s \in byRole[q] => r = q
    BY DEF Placement, OnePlacement, RolesPartition
  <2>2. \A r \in Roles : s \in byRole[r] => RoleAt(s) \in Roles
    BY DEF RoleAt, Roles
  <2> QED  BY <1>2, <2>1, <2>2
<1>4. s \in occupied => IsPiece(s)
  <2>1. s \in occupied => \E c \in Colors : s \in byColor[c]
    BY DEF Placement, OnePlacement, ColorsPartition, Colors
  <2>2. s \in occupied => \E r \in Roles : s \in byRole[r]
    BY DEF Placement, OnePlacement, RolesPartition
  <2>3. "none" \notin Colors /\ "none" \notin Roles
    BY DEF Colors, Roles
  <2> QED  BY <1>1, <1>3, <2>1, <2>2, <2>3 DEF IsPiece
<1> QED  BY <1>1, <1>2, <1>3, <1>4

LEMMA PlacementLosesNothing == Placement => NothingLost
<1> SUFFICES ASSUME Placement  PROVE NothingLost
  OBVIOUS
<1>1. \A c \in Colors : byColor[c] \subseteq occupied
  BY DEF Placement, OnePlacement, ColorsPartition, Colors
<1>2. \A r \in Roles : byRole[r] \subseteq occupied
  BY DEF Placement, OnePlacement, RolesPartition
<1>3. {s \in occupied : IsPiece(s)} = occupied
  BY FoundAsPlaced
<1>4. DOMAIN PieceMap = occupied /\ \A s \in occupied : PieceMap[s] = PieceAt(s)
  BY <1>3 DEF PieceMap
<1>5. ASSUME NEW p \in [color : Colors, role : Roles]
      PROVE  ByPiece(p) = {s \in occupied : PieceMap[s] = p}
  <2>1. p.color \in Colors /\ p.role \in Roles /\ p = [color |-> p.color, role |-> p.role]
    OBVIOUS
  <2>2. \A s \in occupied : PieceAt(s) = p <=> ColorAt(s) = p.color /\ RoleAt(s) = p.role
    BY <2>1 DEF PieceAt
  <2>3. \A s \in occupied : s \in ByPiece(p) <=> ColorAt(s) = p.color /\ RoleAt(s) = p.role
    BY <2>1, FoundAsPlaced DEF ByPiece
  <2>4. ByPiece(p) \subseteq occupied
    BY <1>1, <2>1 DEF ByPiece
  <2> QED  BY <1>4, <2>2, <2>3, <2>4
<1>6. Sliders = {s \in occupied : PieceMap[s].role \in {"bishop", "rook", "queen"}}
  <2>1. Sliders = byRole["bishop"] \cup byRole["rook"] \cup byRole["queen"]
    BY DEF Sliders, Pair, Placement, OnePlacement, RolesPartition, Roles
  <2>2. \A s \in occupied : PieceMap[s].role = RoleAt(s)
    BY <1>4 DEF PieceAt
  <2>3. \A s \in occupied, r \in Roles : s \in byRole[r] <=> RoleAt(s) = r
    BY FoundAsPlaced
  <2>4. {"bishop", "rook", "queen"} \subseteq Roles
    BY DEF Roles
  <2> QED  BY <1>2, <2>1, <2>2, <2>3, <2>4
<1> QED  BY <1>4, <1>5, <1>6 DEF NothingLost

\* Small factors may be left out of an equation and of a comparison.
LEMMA FactorOut ==
    ASSUME NEW n \in 1..7, NEW x \in Int, NEW y \in Int
    PROVE  (n * x = n * y <=> x = y) /\ (n * x < n * y <=> x < y)
<1>1. n = 1 \/ n = 2 \/ n = 3 \/ n = 4 \/ n = 5 \/ n = 6 \/ n = 7
  OBVIOUS
<1>2. CASE n = 1  BY <1>2
<1>3. CASE n = 2  BY <1>3
<1>4. CASE n = 3  BY <1>4
<1>5. CASE n = 4  BY <1>5
<1>6. CASE n = 5  BY <1>6
<1>7. CASE n = 6  BY <1>7
<1>8. CASE n = 7  BY <1>8
<1> QED
  BY <1>1, <1>2, <1>3, <1>4, <1>5, <1>6, <1>7, <1>8

\* Along one direction, a point that lies i nth of the way is as many steps away.
LEMMA StepsAlong ==
    ASSUME NEW n \in 1..7, NEW i \in 1..7, i < n, NEW far \in 1..7, NEW x \in Int,
           n * x = i * far
    PROVE  x \in 1..(far - 1)
<1>1. far * i < far * n
  BY FactorOut
<1>2. i * far = far * i /\ far * n = n * far /\ far * i \in Int
  OBVIOUS
<1>3. n * x < n * far
  BY <1>1, <1>2
<1>4. x < far
  BY <1>3, FactorOut
<1>5. far * 0 < far * i
  BY FactorOut
<1>6. n * 0 < n * x
  BY <1>2, <1>5
<1>7. 0 < x
  BY <1>6, FactorOut
<1> QED
  BY <1>4, <1>7

\* A place is so many whole steps along the way to another, or a part of the way.
StepsOf(far, dx, dy, x, y) == \E j \in 1..(far - 1) : x = j * dx /\ y = j * dy

PartOf(far, dx, dy, x, y) ==
    \E i, n \in 1..7 : i < n /\ n * x = i * (far * dx) /\ n * y = i * (far * dy)

LEMMA StepsArePart ==
    ASSUME NEW far \in 1..7, NEW dx \in -1..1, NEW dy \in -1..1, dx # 0 \/ dy # 0,
           NEW x \in Int, NEW y \in Int
    PROVE  StepsOf(far, dx, dy, x, y) <=> PartOf(far, dx, dy, x, y)
<1>1. ASSUME NEW j \in 1..(far - 1), x = j * dx, y = j * dy
      PROVE  PartOf(far, dx, dy, x, y)
  <2>1. j \in 1..7 /\ j < far
    OBVIOUS
  <2>2. \A d \in -1..1 : far * (j * d) = j * (far * d)
    <3> SUFFICES ASSUME NEW d \in -1..1 PROVE far * (j * d) = j * (far * d)
      OBVIOUS
    <3>1. CASE d = -1  BY <3>1
    <3>2. CASE d = 0  BY <3>2
    <3>3. CASE d = 1  BY <3>3
    <3> QED
      BY <3>1, <3>2, <3>3
  <2> QED
    BY <1>1, <2>1, <2>2 DEF PartOf
<1>2. ASSUME NEW i \in 1..7, NEW n \in 1..7, i < n,
             n * x = i * (far * dx), n * y = i * (far * dy)
      PROVE  StepsOf(far, dx, dy, x, y)
  \* One coordinate goes its way step by step, and the other is 0 or as far.
  <2>1. ASSUME NEW u \in Int, NEW v \in Int, NEW du \in {-1, 1}, NEW dv \in -1..1,
               n * u = i * (far * du), n * v = i * (far * dv)
        PROVE  StepsOf(far, du, dv, u, v)
    <3> DEFINE j == u * du
    <3>1. j \in Int /\ u = j * du /\ n * j = i * far
      <4>1. CASE du = 1  BY <4>1, <2>1
      <4>2. CASE du = -1
        <5>1. n * u = - (i * far) /\ j = -u
          BY <4>2, <2>1
        <5>2. n * (-u) = -(n * u)
          OBVIOUS
        <5> QED
          BY <5>1, <5>2, <4>2
      <4> QED
        BY <4>1, <4>2
    <3> HIDE DEF j
    <3>2. j \in 1..(far - 1)
      BY <1>2, <3>1, StepsAlong
    <3>3. n * v = n * (j * dv)
      <4>1. CASE dv = 1  BY <4>1, <2>1, <3>1
      <4>2. CASE dv = 0  BY <4>2, <2>1, <3>1
      <4>3. CASE dv = -1
        <5>1. n * v = -(i * far)
          BY <4>3, <2>1
        <5>2. n * (-j) = -(n * j)
          BY <3>1
        <5> QED
          BY <5>1, <5>2, <4>3, <3>1
      <4> QED
        BY <4>1, <4>2, <4>3
    <3>4. j * dv \in Int
      BY <3>1
    <3>5. v = j * dv
      BY <3>3, <3>4, FactorOut
    <3> QED
      BY <3>1, <3>2, <3>5 DEF StepsOf
  <2>2. CASE dx # 0
    <3>1. dx \in {-1, 1}
      BY <2>2
    <3> QED
      BY <1>2, <2>1, <3>1, Zenon
  <2>3. CASE dx = 0
    <3>1. dy \in {-1, 1}
      BY <2>3
    <3>2. StepsOf(far, dy, dx, y, x)
      BY <1>2, <2>1, <3>1, Zenon
    <3> QED
      BY <3>2 DEF StepsOf
  <2> QED
    BY <2>2, <2>3
<1> QED
  BY <1>1, <1>2 DEF StepsOf, PartOf

\* A square is its file and its rank.
LEMMA SquareIsPlace ==
    ASSUME NEW s \in 0..63
    PROVE  File(s) \in 0..7 /\ Rank(s) \in 0..7 /\ s = 8 * Rank(s) + File(s)
BY DEF File, Rank

LEMMA PlaceIsSquare ==
    ASSUME NEW s \in 0..63, NEW f \in 0..7, NEW r \in 0..7
    PROVE  s = 8 * r + f <=> File(s) = f /\ Rank(s) = r
BY DEF File, Rank

\* The farther of two distances, and the direction of each.
LEMMA WayOf ==
    ASSUME NEW k \in 0..63, NEW a \in 0..63, a # k, OnDiagonal(k, a) \/ OnLine(k, a)
    PROVE  \E far \in 1..7, dx \in -1..1, dy \in -1..1 :
              /\ dx # 0 \/ dy # 0
              /\ far = IF Away(File(a), File(k)) > Away(Rank(a), Rank(k))
                       THEN Away(File(a), File(k)) ELSE Away(Rank(a), Rank(k))
              /\ dx = Towards(File(k), File(a)) /\ dy = Towards(Rank(k), Rank(a))
              /\ File(a) - File(k) = far * dx /\ Rank(a) - Rank(k) = far * dy
<1>1. PICK fa \in 0..7, ra \in 0..7, fk \in 0..7, rk \in 0..7 :
          /\ fa = File(a) /\ ra = Rank(a) /\ fk = File(k) /\ rk = Rank(k)
          /\ fa # fk \/ ra # rk
  BY SMTT(30), SquareIsPlace
<1>2. Away(fa, fk) = Away(ra, rk) \/ fa = fk \/ ra = rk
  BY <1>1 DEF OnDiagonal, OnLine
<1> DEFINE far == IF Away(fa, fk) > Away(ra, rk) THEN Away(fa, fk) ELSE Away(ra, rk)
           dx == Towards(fk, fa)
           dy == Towards(rk, ra)
<1>3. far \in 1..7 /\ dx \in -1..1 /\ dy \in -1..1 /\ (dx # 0 \/ dy # 0)
  BY <1>1 DEF Away, Towards
<1>4. fa - fk = far * dx /\ ra - rk = far * dy
  <2>1. CASE fa > fk  BY <2>1, <1>2 DEF Away, Towards
  <2>2. CASE fa < fk  BY <2>2, <1>2 DEF Away, Towards
  <2>3. CASE fa = fk  BY <2>3, <1>2 DEF Away, Towards
  <2> QED
    BY <2>1, <2>2, <2>3
<1> HIDE DEF dx, dy
<1> QED
  BY <1>1, <1>3, <1>4 DEF dx, dy

\* The ray holds the squares between a king and a slider, and only them.
LEMMA RayIsBetween ==
    ASSUME NEW k \in 0..63, NEW a \in 0..63, a # k, OnDiagonal(k, a) \/ OnLine(k, a),
           NEW s \in 0..63
    PROVE  s \in Ray(k, a) <=> Between(s, k, a)
<1>1. PICK far \in 1..7, dx \in -1..1, dy \in -1..1 :
          /\ dx # 0 \/ dy # 0
          /\ far = IF Away(File(a), File(k)) > Away(Rank(a), Rank(k))
                   THEN Away(File(a), File(k)) ELSE Away(Rank(a), Rank(k))
          /\ dx = Towards(File(k), File(a)) /\ dy = Towards(Rank(k), Rank(a))
          /\ File(a) - File(k) = far * dx /\ Rank(a) - Rank(k) = far * dy
  BY WayOf
<1>2. PICK fk \in 0..7, rk \in 0..7, fa \in 0..7, ra \in 0..7, fs \in 0..7, rs \in 0..7 :
          /\ fk = File(k) /\ rk = Rank(k) /\ fa = File(a) /\ ra = Rank(a)
          /\ fs = File(s) /\ rs = Rank(s)
  BY SquareIsPlace
<1>3. Ray(k, a) = {8 * (rk + i * dy) + fk + i * dx : i \in 1..(far - 1)}
  BY <1>1, <1>2 DEF Ray
<1>4. ASSUME NEW j \in 1..(far - 1)
      PROVE  s = 8 * (rk + j * dy) + fk + j * dx <=> fs - fk = j * dx /\ rs - rk = j * dy
  <2>1. fa - fk = far * dx /\ ra - rk = far * dy
    BY <1>1, <1>2
  <2>2. PICK f \in Int, r \in Int : f = fk + j * dx /\ r = rk + j * dy
    OBVIOUS
  <2>3. f \in 0..7
    <3>1. CASE dx = 1  BY <3>1, <2>1, <2>2
    <3>2. CASE dx = 0  BY <3>2, <2>1, <2>2
    <3>3. CASE dx = -1  BY <3>3, <2>1, <2>2
    <3> QED
      BY <3>1, <3>2, <3>3
  <2>4. r \in 0..7
    <3>1. CASE dy = 1  BY <3>1, <2>1, <2>2
    <3>2. CASE dy = 0  BY <3>2, <2>1, <2>2
    <3>3. CASE dy = -1  BY <3>3, <2>1, <2>2
    <3> QED
      BY <3>1, <3>2, <3>3
  <2>5. s = 8 * r + f <=> fs = f /\ rs = r
    BY <2>3, <2>4, <1>2, PlaceIsSquare
  <2>6. PICK jx \in Int, jy \in Int : jx = j * dx /\ jy = j * dy
    OBVIOUS
  <2>7. s = 8 * (rk + jy) + fk + jx <=> fs - fk = jx /\ rs - rk = jy
    BY <2>2, <2>5, <2>6
  <2> QED
    BY <2>6, <2>7
<1>5. PICK x \in Int, y \in Int : x = fs - fk /\ y = rs - rk
  OBVIOUS
<1>6. StepsOf(far, dx, dy, x, y) <=> PartOf(far, dx, dy, x, y)
  BY <1>1, StepsArePart
<1>7. s \in Ray(k, a) <=> StepsOf(far, dx, dy, x, y)
  BY <1>3, <1>4, <1>5 DEF StepsOf
<1>8. Between(s, k, a) <=> PartOf(far, dx, dy, x, y)
  BY <1>1, <1>2, <1>5 DEF Between, PartOf
<1> QED
  BY <1>6, <1>7, <1>8

\* What stands on the ray of a slider that could take on k is one piece just if that piece
\* alone is in the way.
LEMMA AloneOnTheRay ==
    ASSUME Placement, NEW k \in occupied, NEW a \in occupied, a # k,
           OnDiagonal(k, a) \/ OnLine(k, a), NEW b, b # a
    PROVE  Ray(k, a) \cap (occupied \ {k}) = {b} <=>
               /\ b # k
               /\ \A s \in occupied \ {a, k, b} : ~Between(s, k, a)
               /\ ~\A s \in occupied \ {a, k} : ~Between(s, k, a)
<1>1. occupied \subseteq 0..63
  BY SquaresAssumption DEF Placement, BoardTypeOK
<1>2. \A s \in occupied : s \in Ray(k, a) <=> Between(s, k, a)
  BY <1>1, RayIsBetween
<1>3. ~Between(a, k, a)
  <2>1. PICK f \in Int, r \in Int : f = File(a) - File(k) /\ r = Rank(a) - Rank(k)
    BY <1>1, SquareIsPlace
  <2>2. f # 0 \/ r # 0
    BY <2>1, <1>1, SquareIsPlace
  <2>3. ASSUME NEW i \in 1..7, NEW n \in 1..7, i < n, n * f = i * f, n * r = i * r PROVE FALSE
    <3>1. f * n = f * i /\ r * n = r * i
      BY <2>3
    <3>2. ASSUME NEW u \in Int, u # 0, n * u = i * u PROVE FALSE
      <4>1. (n - i) * u = 0 /\ n - i \in 1..7
        BY <2>3, <3>2
      <4>2. (n - i) * u = (n - i) * 0
        BY <4>1
      <4> QED
        BY <3>2, <4>1, <4>2, FactorOut
    <3> QED
      BY <2>2, <2>3, <3>2
  <2> QED
    BY <2>1, <2>3 DEF Between
<1> DEFINE on == Ray(k, a) \cap (occupied \ {k})
<1>4. \A s : s \in on <=> s \in occupied /\ s # k /\ s # a /\ Between(s, k, a)
  BY <1>2, <1>3
<1> HIDE DEF on
<1>5. on = {b} <=> \A s : s \in on <=> s = b
  OBVIOUS
<1>6. (\A s : s \in on <=> s = b) <=>
               /\ b # k
               /\ \A s \in occupied \ {a, k, b} : ~Between(s, k, a)
               /\ ~\A s \in occupied \ {a, k} : ~Between(s, k, a)
  BY <1>4
<1> QED
  BY <1>5, <1>6 DEF on

\* The attackers of a king along lines and diagonals are the sliders that look his way.
LEMMA PinsAreBlockers == Placement => BlockersArePins
<1> SUFFICES ASSUME Placement, NEW us \in Colors, NEW k \in KingOf(us)
             PROVE  Blockers(k, us) =
                      {b \in byColor[us] \ {k} :
                          \E a \in occupied \cap byColor[Opposite(us)] :
                              Reaches(a, k, b) /\ ~Reaches(a, k, a)}
  BY DEF BlockersArePins
<1> DEFINE them == byColor[Opposite(us)]
           diagonal == them \cap (byRole["bishop"] \cup byRole["queen"])
           straight == them \cap (byRole["rook"] \cup byRole["queen"])
           looking == {a \in diagonal : OnDiagonal(k, a)} \cup {a \in straight : OnLine(k, a)}
           alone(a) == Ray(k, a) \cap (occupied \ {k})
<1>1. /\ Opposite(us) \in Colors /\ Opposite(us) # us
      /\ \A c \in Colors : byColor[c] \subseteq occupied
      /\ \A s : s \in byColor[us] => s \notin them
      /\ k \in byColor[us] /\ k \in occupied
  BY DEF Opposite, Colors, Placement, OnePlacement, ColorsPartition, KingOf
<1>2. IsFiniteSet(occupied)
  <2>1. occupied \subseteq 0..63
    BY SquaresAssumption DEF Placement, BoardTypeOK
  <2>2. IsFiniteSet(0..63)
    BY FS_Interval, 0 \in Int, 63 \in Int
  <2> QED
    BY <2>1, <2>2, FS_Subset
<1>3. ASSUME NEW a \in occupied
      PROVE  \A s : s \in (IF Cardinality(alone(a)) = 1 THEN alone(a) \cap byColor[us] ELSE {})
                <=> alone(a) = {s} /\ s \in byColor[us]
  <2>1. IsFiniteSet(alone(a))
    BY <1>2, FS_Subset
  <2> HIDE DEF alone
  <2>2. Cardinality(alone(a)) = 1 <=> \E x : alone(a) = {x}
    BY <2>1, FS_Singleton
  <2> QED
    BY <2>2
<1>4. \A a \in looking : a \in occupied /\ a \in them /\ a # k
  BY <1>1
<1>5. \A s : s \in Blockers(k, us) <=>
                 \E a \in looking : alone(a) = {s} /\ s \in byColor[us]
  <2>1. ASSUME NEW A, NEW s, A \subseteq occupied
        PROVE  s \in BlockersAgainst(k, us, A) <=> \E a \in A : alone(a) = {s} /\ s \in byColor[us]
    <3>1. s \in BlockersAgainst(k, us, A) <=> \E a \in A :
              s \in (IF Cardinality(alone(a)) = 1 THEN alone(a) \cap byColor[us] ELSE {})
      BY DEF BlockersAgainst
    <3> HIDE DEF alone
    <3> QED
      BY <2>1, <3>1, <1>3
  <2>2. Blockers(k, us) = BlockersAgainst(k, us, {a \in diagonal : OnDiagonal(k, a)})
                          \cup BlockersAgainst(k, us, {a \in straight : OnLine(k, a)})
    BY DEF Blockers
  <2>3. /\ {a \in diagonal : OnDiagonal(k, a)} \subseteq occupied
        /\ {a \in straight : OnLine(k, a)} \subseteq occupied
    BY <1>4
  <2> HIDE DEF alone, diagonal, straight, them
  <2> QED
    BY <2>1, <2>2, <2>3
<1>6. \A a \in occupied \cap them : a \in looking <=>
          \/ PieceMap[a].role \in {"bishop", "queen"} /\ OnDiagonal(k, a)
          \/ PieceMap[a].role \in {"rook", "queen"} /\ OnLine(k, a)
  <2> SUFFICES ASSUME NEW a \in occupied \cap them
               PROVE  a \in looking <=>
                        \/ PieceMap[a].role \in {"bishop", "queen"} /\ OnDiagonal(k, a)
                        \/ PieceMap[a].role \in {"rook", "queen"} /\ OnLine(k, a)
    OBVIOUS
  <2>1. PieceMap[a].role = RoleAt(a)
    BY FoundAsPlaced DEF PieceMap, PieceAt
  <2>2. \A r \in Roles : a \in byRole[r] <=> RoleAt(a) = r
    BY FoundAsPlaced
  <2>3. {"bishop", "rook", "queen"} \subseteq Roles
    BY DEF Roles
  <2> QED
    BY <2>1, <2>2, <2>3
<1>7. ASSUME NEW b \in byColor[us] \ {k}, NEW a \in occupied \cap them
      PROVE  (a \in looking /\ alone(a) = {b}) <=> (Reaches(a, k, b) /\ ~Reaches(a, k, a))
  <2>1. a # k /\ b # a
    BY <1>1, <1>7
  <2>2. CASE a \in looking
    <3>1. alone(a) = {b} <=>
               /\ b # k
               /\ \A s \in occupied \ {a, k, b} : ~Between(s, k, a)
               /\ ~\A s \in occupied \ {a, k} : ~Between(s, k, a)
      BY <1>1, <2>1, <2>2, AloneOnTheRay
    <3>2. occupied \ {a, k, a} = occupied \ {a, k}
      OBVIOUS
    <3>3. /\ Reaches(a, k, b) <=> \A s \in occupied \ {a, k, b} : ~Between(s, k, a)
          /\ Reaches(a, k, a) <=> \A s \in occupied \ {a, k, a} : ~Between(s, k, a)
      BY <1>6, <2>2 DEF Reaches
    <3> HIDE DEF looking, alone
    <3> QED
      BY <1>7, <2>2, <3>1, <3>2, <3>3
  <2>3. CASE a \notin looking
    <3>1. ~Reaches(a, k, b)
      BY <1>6, <2>3 DEF Reaches
    <3> QED
      BY <2>3, <3>1
  <2> QED
    BY <2>2, <2>3
<1>8. \A s : s \in Blockers(k, us) => s # k
  <2>1. \A a, s : alone(a) = {s} => s # k
    OBVIOUS
  <2> HIDE DEF alone, looking
  <2> QED
    BY <1>5, <2>1
<1> HIDE DEF looking, alone, diagonal, straight
<1>9. ASSUME NEW s
      PROVE  s \in Blockers(k, us) <=>
                /\ s \in byColor[us] \ {k}
                /\ \E a \in occupied \cap them : Reaches(a, k, s) /\ ~Reaches(a, k, a)
  <2>1. CASE s \in byColor[us] \ {k}
    BY <2>1, <1>4, <1>5, <1>7
  <2>2. CASE s \notin byColor[us] \ {k}
    BY <2>2, <1>5, <1>8
  <2> QED
    BY <2>1, <2>2
<1> QED
  BY <1>9

\* The three groups of bitboards describe one placement, in which no piece is lost or
\* found twice and the blockers of a king are the pinned pieces, after any sequence of put,
\* replace, move_piece, promote, discard and take.
THEOREM BoardStaysConsistent == BoardSpec => []BoardConsistent
<1>1. Placement => BoardConsistent
  BY PlacementLosesNothing, PinsAreBlockers DEF Placement, BoardConsistent
<1> QED  BY <1>1, EmptyIsPlacement, BoardStep, PTL DEF BoardSpec

(***************************************************************************)
(* Draws (ChessRules).  The table holds how often each position came up    *)
(* (CountsKept), although no progress clears it, and the clock is the      *)
(* number of the last moves without progress (ClockKept); the verdict is   *)
(* that of the last move (VerdictKept).                                    *)
(***************************************************************************)
PlyPositions == Int \X Int \X Diagrams
PlyRecords == [position : PlyPositions, progress : BOOLEAN]

\* The tracker holds how often each position of the game came up, and how many moves were
\* played since the last progress.
TrackerTypeOK ==
    /\ course \in Seq(PlyRecords)
    /\ counts \in [DOMAIN counts -> Nat]
    /\ halfmoves \in 0..Len(course)

CountsKept ==
    /\ \A i \in DOMAIN course : course[i].position \in DOMAIN counts
    /\ \A p \in DOMAIN counts : counts[p] = Cardinality(Alike(p))

ClockKept == \A i \in DOMAIN course : i \in Unmoved <=> i > Len(course) - halfmoves

VerdictKept ==
    course # <<>> => verdict = MandatoryDraw(counts, halfmoves, course[Len(course)].position)

TrackerInv == TrackerTypeOK /\ CountsKept /\ ClockKept /\ VerdictKept

LEMMA MovesAreFinite ==
    ASSUME course \in Seq(PlyRecords), NEW S \in SUBSET (DOMAIN course)
    PROVE  IsFiniteSet(S) /\ Cardinality(S) \in Nat
<1>1. DOMAIN course = 1..Len(course) /\ Len(course) \in Nat
  BY DEF PlyRecords
<1>2. IsFiniteSet(1..Len(course))
  BY <1>1, FS_Interval
<1>3. IsFiniteSet(S)
  BY <1>1, <1>2, FS_Subset
<1> QED BY <1>3, FS_CardinalityType

\* How often a position has come up is what the table says.
LEMMA CountIsTrue ==
    ASSUME TrackerTypeOK, CountsKept, NEW p
    PROVE  CountOf(counts, p) = Cardinality(Alike(p)) /\ CountOf(counts, p) \in Nat
<1>1. CASE p \in DOMAIN counts
  BY <1>1 DEF CountOf, CountsKept, TrackerTypeOK
<1>2. CASE p \notin DOMAIN counts
  <2>1. Alike(p) = {}
    BY <1>2 DEF CountsKept, Alike
  <2> QED BY <1>2, <2>1, FS_EmptySet DEF CountOf
<1> QED BY <1>1, <1>2

LEMMA TrackerStarts ==
    RulesInit => TrackerInv
<1> SUFFICES ASSUME RulesInit PROVE TrackerInv
  OBVIOUS
<1>1. course = <<>> /\ counts = [p \in {} |-> 0] /\ halfmoves = 0
  BY DEF RulesInit
<1>2. TrackerTypeOK
  BY <1>1 DEF TrackerTypeOK
<1>3. CountsKept /\ ClockKept /\ VerdictKept
  BY <1>1 DEF CountsKept, ClockKept, VerdictKept
<1> QED BY <1>2, <1>3 DEF TrackerInv

\* The moves without progress are the last ones, as many as the clock says.
LEMMA ClockIsTrue ==
    ASSUME TrackerTypeOK, ClockKept
    PROVE  Cardinality(Unmoved) = halfmoves
<1> DEFINE last == Len(course)
<1>1. last \in Nat /\ halfmoves \in Nat /\ halfmoves <= last /\ DOMAIN course = 1..last
  BY DEF TrackerTypeOK
<1>2. \A i \in Unmoved : i \in 1..last
  BY <1>1 DEF Unmoved
<1> HIDE DEF last
<1>i. \A i \in 1..last : i \in Unmoved <=> i > last - halfmoves
  BY <1>1 DEF ClockKept, last
<1>3. Unmoved = (last - halfmoves + 1)..last
  <2>1. ASSUME NEW i PROVE i \in Unmoved <=> i \in (last - halfmoves + 1)..last
    <3>1. CASE i \in 1..last
      BY <3>1, <1>1, <1>i
    <3>2. CASE i \notin 1..last
      BY <3>2, <1>1, <1>2
    <3> QED BY <3>1, <3>2
  <2> QED BY <2>1
<1>4. Cardinality((last - halfmoves + 1)..last) =
          (IF last - halfmoves + 1 > last THEN 0 ELSE last - (last - halfmoves + 1) + 1)
  BY <1>1, FS_Interval
<1> QED BY <1>1, <1>3, <1>4

\* A move counts its position once more and, unless it makes progress, itself.
LEMMA PlyStep ==
    ASSUME TrackerInv, NEW diagram \in Diagrams, NEW pawnMove \in BOOLEAN,
           NEW capture \in BOOLEAN, PlyPlayed(diagram, pawnMove, capture)
    PROVE  TrackerInv'
<1> DEFINE progress == pawnMove \/ capture
           position == Reached(diagram, progress)
           last == Len(course)
<1>t. TrackerTypeOK /\ CountsKept /\ ClockKept
  BY DEF TrackerInv
<1>1. /\ counts' = RecordPosition(position)
      /\ halfmoves' = ClockAfter(pawnMove, capture)
      /\ verdict' = MandatoryDraw(counts', halfmoves', position)
      /\ course' = Append(course, [position |-> position, progress |-> progress])
  BY DEF PlyPlayed
<1>2. Progressed \in Nat
  <2>1. {i \in DOMAIN course : course[i].progress} \in SUBSET (DOMAIN course)
    OBVIOUS
  <2> QED BY <1>t, <2>1, MovesAreFinite DEF Progressed, TrackerTypeOK
<1>3. last \in Nat /\ DOMAIN course = 1..last /\ course \in Seq(PlyRecords)
  BY <1>t DEF TrackerTypeOK
<1>4. progress \in BOOLEAN
  OBVIOUS
<1>5. position \in PlyPositions
  BY <1>2, <1>3, <1>4 DEF Reached, PlyPositions
<1>6. PICK q \in PlyPositions : q = position
  BY <1>5
<1>7. PICK b \in BOOLEAN : b = progress
  BY <1>4
<1>8. [position |-> q, progress |-> b] \in PlyRecords
  BY DEF PlyRecords
<1>a. course' = Append(course, [position |-> q, progress |-> b])
  BY <1>1, <1>6, <1>7
<1>b. halfmoves' = (IF b THEN 0 ELSE halfmoves + 1)
  BY <1>1, <1>7 DEF ClockAfter
<1>c. counts' = [p \in DOMAIN counts \cup {q} |->
                    IF p = q THEN CountOf(counts, p) + 1 ELSE counts[p]]
  BY <1>1, <1>6 DEF RecordPosition
<1>d. verdict' = MandatoryDraw(counts', halfmoves', q)
  BY <1>1, <1>6
<1> HIDE DEF progress, position
<1>9. /\ course' \in Seq(PlyRecords) /\ Len(course') = last + 1
      /\ \A i \in 1..last : course'[i] = course[i]
      /\ course'[last + 1] = [position |-> q, progress |-> b]
      /\ DOMAIN course' = 1..(last + 1)
  BY <1>a, <1>3, <1>8, AppendProperties
<1>10. counts' \in [DOMAIN counts' -> Nat] /\ DOMAIN counts' = DOMAIN counts \cup {q}
  BY <1>c, <1>t, CountIsTrue DEF TrackerTypeOK
<1>11. TrackerTypeOK'
  BY <1>9, <1>10, <1>b, <1>3, <1>t DEF TrackerTypeOK
<1>12. \A p : Alike(p)' = IF p = q THEN Alike(p) \cup {last + 1} ELSE Alike(p)
  <2> TAKE p
  <2>1. \A i \in 1..last : i \in Alike(p)' <=> i \in Alike(p)
    BY <1>9, <1>3 DEF Alike
  <2>2. (last + 1 \in Alike(p)') <=> p = q
    BY <1>9, <1>3 DEF Alike
  <2>3. Alike(p)' \subseteq 1..(last + 1) /\ Alike(p) \subseteq 1..last
    BY <1>9, <1>3 DEF Alike
  <2>4. \A i \in 1..(last + 1) : i \in 1..last \/ i = last + 1
    BY <1>3
  <2>5. last + 1 \notin 1..last
    BY <1>3
  <2> HIDE DEF last
  <2>6. CASE p = q
    BY <2>1, <2>2, <2>3, <2>4, <2>5, <2>6
  <2>7. CASE p # q
    BY <2>1, <2>2, <2>3, <2>4, <2>5, <2>7
  <2> QED BY <2>6, <2>7
<1>13. CountsKept'
  <2>1. \A i \in DOMAIN course' : course'[i].position \in DOMAIN counts'
    <3> SUFFICES ASSUME NEW i \in 1..(last + 1) PROVE course'[i].position \in DOMAIN counts'
      BY <1>9
    <3>1. CASE i = last + 1
      BY <3>1, <1>9, <1>10
    <3>2. CASE i \in 1..last
      BY <3>2, <1>9, <1>10, <1>3, <1>t DEF CountsKept
    <3> QED BY <3>1, <3>2, <1>3
  <2>2. ASSUME NEW p \in DOMAIN counts' PROVE counts'[p] = Cardinality(Alike(p)')
    <3>1. CASE p = q
      <4>1. counts'[p] = Cardinality(Alike(p)) + 1
        BY <3>1, <1>c, <1>t, <2>2, <1>10, CountIsTrue
      <4>2. IsFiniteSet(Alike(p)) /\ last + 1 \notin Alike(p)
        BY <1>3, MovesAreFinite DEF Alike
      <4>3. Cardinality(Alike(p) \cup {last + 1}) = Cardinality(Alike(p)) + 1
        BY <4>2, FS_AddElement
      <4> QED BY <3>1, <4>1, <4>3, <1>12
    <3>2. CASE p # q
      BY <3>2, <2>2, <1>10, <1>c, <1>12, <1>t DEF CountsKept
    <3> QED BY <3>1, <3>2
  <2> QED BY <2>1, <2>2, <1>12 DEF CountsKept, Alike
<1>14. ClockKept'
  <2>0. Len(course') = last + 1 /\ DOMAIN course' = 1..(last + 1)
    BY <1>9
  <2> SUFFICES ASSUME NEW i \in DOMAIN course'
               PROVE  (i \in Unmoved') <=> (i > last + 1 - halfmoves')
    <3>1. halfmoves' \in Nat /\ last \in Nat /\ DOMAIN course' \subseteq Nat
      BY <1>11, <1>9, <1>3 DEF TrackerTypeOK
    <3>2. Len(course') - halfmoves' = last + 1 - halfmoves'
      BY <2>0, <3>1
    <3> QED BY <3>2 DEF ClockKept
  <2>i. i \in 1..(last + 1)
    BY <2>0
  <2>1. i \in Unmoved' <=> \A j \in i..(last + 1) : ~course'[j].progress
    BY <1>9 DEF Unmoved
  <2>2. CASE b
    <3>1. course'[last + 1].progress /\ last + 1 \in i..(last + 1)
      BY <2>2, <1>9, <1>3
    <3>2. i \notin Unmoved'
      BY <3>1, <2>1
    <3> QED BY <3>2, <2>2, <2>i, <1>b, <1>3
  <2>3. CASE ~b
    <3>1. halfmoves' = halfmoves + 1 /\ halfmoves \in Nat /\ halfmoves <= last
      BY <2>3, <1>b, <1>t DEF TrackerTypeOK
    <3>2. CASE i = last + 1
      <4>1. i \in Unmoved'
        BY <3>2, <2>3, <2>1, <1>9, <1>3
      <4> QED BY <4>1, <3>1, <3>2, <1>3
    <3>3. CASE i \in 1..last
      <4>1. i \in Unmoved <=> \A j \in i..last : ~course[j].progress
        BY <3>3, <1>3 DEF Unmoved
      <4>2. \A j \in i..(last + 1) : j \in 1..last \/ j = last + 1
        BY <3>3, <1>3
      <4>3. \A j \in i..last : j \in 1..last /\ j \in i..(last + 1)
        BY <3>3, <1>3
      <4>4. (\A j \in i..(last + 1) : ~course'[j].progress)
               <=> (\A j \in i..last : ~course[j].progress)
        BY <4>2, <4>3, <1>9, <2>3, <1>3, <3>3
      <4>5. i \in Unmoved <=> i > last - halfmoves
        BY <3>3, <1>3, <1>t DEF ClockKept
      <4> QED BY <4>1, <4>4, <4>5, <2>1, <3>1, <3>3, <1>3
    <3> QED BY <3>2, <3>3, <2>i, <1>3
  <2> QED BY <2>2, <2>3
<1>15. VerdictKept'
  <2>1. course'[Len(course')].position = q
    BY <1>9
  <2> QED BY <2>1, <1>d DEF VerdictKept
<1> QED BY <1>11, <1>13, <1>14, <1>15 DEF TrackerInv

LEMMA TrackerStep ==
    TrackerInv /\ [RulesNext]_ruleVars => TrackerInv'
<1> SUFFICES ASSUME TrackerInv, [RulesNext]_ruleVars PROVE TrackerInv'
  OBVIOUS
<1>1. CASE UNCHANGED <<counts, halfmoves, verdict, course>>
  BY <1>1 DEF TrackerInv, TrackerTypeOK, CountsKept, ClockKept, VerdictKept, Alike, Unmoved,
        MandatoryDraw, CountOf
<1>2. ASSUME NEW diagram \in Diagrams, NEW pawnMove \in BOOLEAN, NEW capture \in BOOLEAN,
             PlyPlayed(diagram, pawnMove, capture)
      PROVE  TrackerInv'
  BY <1>2, PlyStep
<1>3. CASE DrawStart
  BY <1>1, <1>3 DEF DrawStart
<1>4. CASE UNCHANGED ruleVars
  BY <1>1, <1>4 DEF ruleVars
<1> QED BY <1>2, <1>3, <1>4 DEF RulesNext

LEMMA TrackerIsSound ==
    TrackerInv => DrawsSound
<1> SUFFICES ASSUME TrackerInv, course # <<>> PROVE DrawsSound
  BY DEF DrawsSound
<1>t. TrackerTypeOK /\ CountsKept /\ ClockKept
  BY DEF TrackerInv
<1> DEFINE position == course[Len(course)].position
<1>1. PICK q : q = position
  OBVIOUS
<1>2. verdict = MandatoryDraw(counts, halfmoves, q)
  BY <1>1 DEF TrackerInv, VerdictKept
<1>3. CountOf(counts, q) = Cardinality(Alike(q)) /\ CountOf(counts, q) \in Nat
  BY <1>t, CountIsTrue
<1>4. Cardinality(Unmoved) = halfmoves /\ halfmoves \in Nat
  BY <1>t, ClockIsTrue DEF TrackerTypeOK
<1>5. (verdict = "SeventyFiveMoveRule") = (halfmoves >= HalfmoveThreshold)
  BY <1>2, <1>4, RulesAssumption DEF MandatoryDraw
<1>6. (verdict = "FivefoldRepetition") =
             (halfmoves < HalfmoveThreshold /\ CountOf(counts, q) >= RepetitionThreshold)
  BY <1>2, <1>4, RulesAssumption DEF MandatoryDraw
<1> QED BY <1>1, <1>3, <1>4, <1>5, <1>6 DEF DrawsSound

\* Whatever is played, the verdict on the last move is a draw just when it completes enough
\* moves without progress, or else when its position has come up often enough (the tracker of
\* mandatory draws).
THEOREM DrawsStaySound == RulesSpec => []DrawsSound
<1>1. RulesInit => TrackerInv
  BY TrackerStarts
<1>2. TrackerInv /\ [RulesNext]_ruleVars => TrackerInv'
  BY TrackerStep
<1>3. TrackerInv => DrawsSound
  BY TrackerIsSound
<1> QED BY <1>1, <1>2, <1>3, PTL DEF RulesSpec

-----------------------------------------------------------------------------
\* What every state of the composite satisfies, whichever part the behaviour picked.
CallsInv ==
    /\ IdemInv /\ EngineInv /\ UciInv /\ WorkersInv /\ LimitsInv /\ ReportsInv
    /\ FanoutInv /\ ArchiveInv /\ NoneArchived /\ RegistrationInv /\ TrackerInv

LEMMA CallsStart == Init => CallsInv
<1>1. Init => NoneArchived
  BY DEF Init, ArchiveInit, NoneArchived
<1>2. Init => RegistrationInv
  BY RegStarts DEF Init, RegistrationInv
<1> QED
  BY <1>1, <1>2, IdemStarts, EngineStarts, UciStarts, WorkersStart, LimitsStart, ReportsStart,
     FanoutStarts, ArchiveStarts, TrackerStarts DEF Init, CallsInv

\* In the composite every step is one of a part or leaves the part alone.
LEMMA CallsSteps ==
    [Next]_vars => /\ [IdemNext]_idemVars /\ [EngineNext]_engineVars
                   /\ [UciNext]_uciVars /\ [WorkersNext]_workerVars
                   /\ [LimitsNext]_limitVars /\ [ReportsNext]_reportVars
                   /\ [FanoutNext]_fanoutVars /\ [ArchiveNext]_archiveVars
                   /\ [RegNext]_regVars /\ [RulesNext]_ruleVars
<1> SUFFICES ASSUME [Next]_vars
             PROVE  /\ [IdemNext]_idemVars /\ [EngineNext]_engineVars
                    /\ [UciNext]_uciVars /\ [WorkersNext]_workerVars
                    /\ [LimitsNext]_limitVars /\ [ReportsNext]_reportVars
                    /\ [FanoutNext]_fanoutVars /\ [ArchiveNext]_archiveVars
                    /\ [RegNext]_regVars /\ [RulesNext]_ruleVars
  OBVIOUS
<1>1. CASE UNCHANGED vars
  BY <1>1 DEF vars, documentVars
<1>2. CASE Queueing \/ Registering \/ Eliminating \/ PlayingSwiss \/ Pairing
  BY <1>2 DEF Queueing, Registering, Eliminating, PlayingSwiss, Pairing, documentVars
<1>3. CASE KeepingGames \/ Linting \/ SettingUp \/ Ruling
  BY <1>3 DEF KeepingGames, Linting, SettingUp, Ruling, documentVars
<1>4. CASE Retrying
  BY <1>4 DEF Retrying, documentVars
<1>5. CASE Calculating
  BY <1>5 DEF Calculating, documentVars
<1>6. CASE Analysing
  BY <1>6 DEF Analysing, documentVars
<1>7. CASE LimitingRequests \/ LimitingFrames \/ Admitting
  BY <1>7 DEF LimitingRequests, LimitingFrames, Admitting, LimitsNext, documentVars
<1>8. CASE Watching
  BY <1>8 DEF Watching, documentVars
<1>9. CASE Reporting
  BY <1>9 DEF Reporting
<1>10. CASE Searching
  BY <1>10 DEF Searching
<1> QED
  BY <1>1, <1>2, <1>3, <1>4, <1>5, <1>6, <1>7, <1>8, <1>9, <1>10 DEF Next

\* However attempts, calls, analyses, frames, reports and spectators overlap and Redis fails, a
\* retried call is treated once, an engine answers its own search and is never asked for more
\* than it takes, nobody gets more than his limit of what was counted, a report counts in its
\* windows, a spectator's queue holds what came last, in order, a task that failed waits once
\* whichever others its game has, a player misses a bracket only by a race, and a game is drawn
\* when it must be.
THEOREM CallsStaySound == Spec => []CallsSound
<1>1. CallsInv /\ [Next]_vars => CallsInv'
  <2> SUFFICES ASSUME CallsInv, [Next]_vars PROVE CallsInv'
    OBVIOUS
  <2> QED
    BY CallsSteps, IdemStep, EngineStep, UciStep, WorkersStep, LimitsStep, ReportsStep,
       FanoutStep, ArchiveStep, NoneStep, RegStep, TrackerStep DEF CallsInv
<1>2. CallsInv => CallsSound
  <2> SUFFICES ASSUME CallsInv PROVE CallsSound
    OBVIOUS
  <2>1. ReportsSound
    BY DEF CallsInv, ReportsInv
  <2> QED
    BY <2>1, IdemIsSound, EngineIsSound, UciIsSound, WorkersAreSound, LimitsAreSound,
       FanoutIsSound, ArchiveIsSound, RegistrationIsSound, TrackerIsSound
       DEF CallsInv, CallsSound
<1> QED
  BY <1>1, <1>2, CallsStart, PTL DEF Spec

\* So for the tournaments.
TournamentsInv == BracketInv /\ SwissInv /\ PairingInv

LEMMA TournamentsStart == Init => TournamentsInv
BY BracketStarts, SwissStarts, PairingStarts DEF Init, TournamentsInv

LEMMA TournamentsSteps ==
    [Next]_vars => /\ [BracketNext]_bracketVars
                   /\ [SwissNext]_swissVars /\ [PairNext]_pairVars
<1> SUFFICES ASSUME [Next]_vars
             PROVE  /\ [BracketNext]_bracketVars
                    /\ [SwissNext]_swissVars /\ [PairNext]_pairVars
  OBVIOUS
<1>1. CASE UNCHANGED vars
  BY <1>1 DEF vars
<1>2. CASE Queueing \/ Retrying \/ Registering \/ Watching \/ Calculating \/ Analysing
  BY <1>2 DEF Queueing, Retrying, Registering, Watching, Calculating, Analysing
<1>3. CASE \/ LimitingRequests \/ LimitingFrames \/ Admitting \/ Reporting
           \/ KeepingGames \/ Linting \/ SettingUp \/ Searching \/ Ruling
  BY <1>3 DEF LimitingRequests, LimitingFrames, Admitting, Reporting, KeepingGames, Linting,
        SettingUp, Searching, Ruling
<1>4. CASE Eliminating
  BY <1>4 DEF Eliminating
<1>5. CASE PlayingSwiss
  BY <1>5 DEF PlayingSwiss
<1>6. CASE Pairing
  BY <1>6 DEF Pairing
<1> QED
  BY <1>1, <1>2, <1>3, <1>4, <1>5, <1>6 DEF Next

\* In any field nobody is lost or meets himself in a single elimination or a round robin, no
\* two entrants of a Swiss tournament meet twice and each point comes from a game or a bye, and
\* a single round leaves more than one of an odd field out only if it stopped early.
THEOREM TournamentsStaySound == Spec => []TournamentsSound
<1>1. TournamentsInv /\ [Next]_vars => TournamentsInv'
  <2> SUFFICES ASSUME TournamentsInv, [Next]_vars PROVE TournamentsInv'
    OBVIOUS
  <2> QED
    BY TournamentsSteps, BracketStep, SwissStep, PairingStep DEF TournamentsInv
<1>2. TournamentsInv => TournamentsSound
  BY BracketIsSound, SwissHolds DEF TournamentsInv, PairingInv, TournamentsSound
<1> QED
  BY <1>1, <1>2, TournamentsStart, PTL DEF Spec
=============================================================================
