----------------------------- MODULE SessionProofs ----------------------------
(***************************************************************************)
(* Proofs about what stands behind a web socket: the tracker of            *)
(* connections (ConnectionTracker), for any players, sessions and bounds,  *)
(* and the move packets of a game (MoveStream), for any number of moves;   *)
(* then about the tables of the game: rooms (Rooms), clocks and the        *)
(* comparison of clocks (Clocks), for any times and any number of moves,   *)
(* and the mutes of the chat (ChatModeration), for any points and windows. *)
(***************************************************************************)
EXTENDS MCSessions, Sums, SequenceTheorems

(***************************************************************************)
(* ConnectionTracker.  What a player was told stays true because the       *)
(* tracker tells both players of every change.  That only an absent player *)
(* loses needs the order of the mailbox: as long as a player never had two *)
(* sessions open at once, the report of his open session stands behind     *)
(* those of the sessions that ended, so the tracker that waits for him     *)
(* either hears of it before the grace period is over or he has none.      *)
(***************************************************************************)

\* The grace timer of a player is that of one of his sessions.
HandlesAreOwned ==
    \A p \in Players : handle[p] # NoSession => Owner(handle[p]) = p

\* What a player was told last is true of an opponent the tracker has met, whether or not
\* his session is still open.
TidingsTrue ==
    \A p \in Players :
        /\ status[p] = "absent" => addr[p] = NoSession /\ told[p] = "nothing"
        /\ addr[p] # NoSession =>
              /\ told[p] = "lost" =>
                    \E q \in Players \ {p} : status[q] \in {"reconnecting", "disconnected"}
              /\ told[p] = "back" => \E q \in Players \ {p} : status[q] = "connected"

\* Whoever never had two sessions open at once has at most one open now.
OneAtATime ==
    \A p \in Players \ overlapped : \A r, s \in OpenSessions(p) : r = s

\* The start of his open session is reported after the end of every earlier one.
ReportsInOrder ==
    \A p \in Players \ overlapped : \A i \in 1..Len(mailbox) :
        mailbox[i].type = "disconnected" /\ Owner(mailbox[i].session) = p =>
            \A s \in OpenSessions(p) :
                \E j \in (i + 1)..Len(mailbox) : mailbox[j] = Message("reconnected", s)

\* The tracker waits for him only as long as it has not heard of his open session.
AwaitedAreUnreported ==
    active => \A p \in Players \ overlapped : status[p] = "reconnecting" =>
        \A s \in OpenSessions(p) : InMailbox("reconnected", s)

TrackerInv ==
    /\ TrackerTypeOK
    /\ HandlesAreOwned /\ GraceIsTimed
    /\ TidingsTrue
    /\ OneAtATime /\ ReportsInOrder /\ AwaitedAreUnreported

-----------------------------------------------------------------------------
(***************************************************************************)
(* The mailbox                                                             *)
(***************************************************************************)
LEMMA SessionsHaveOwners ==
    ASSUME NEW s \in Sessions
    PROVE  Owner(s) \in Players
BY TrackerAssumption DEF Owner

LEMMA MessagesAreTyped ==
    ASSUME NEW s \in Sessions, NEW type \in {"reconnected", "disconnected", "expired"}
    PROVE  /\ Message(type, s) \in TrackerMessages
           /\ Message(type, s).type = type /\ Message(type, s).session = s
BY DEF Message, TrackerMessages

\* A message that is sent comes behind those that wait.
LEMMA SendAppends ==
    ASSUME mailbox \in Seq(TrackerMessages), NEW m \in TrackerMessages, Send(m)
    PROVE  /\ mailbox' \in Seq(TrackerMessages)
           /\ Len(mailbox) \in Nat
           /\ Len(mailbox') = Len(mailbox) + 1
           /\ mailbox'[Len(mailbox')] = m
           /\ \A i \in 1..Len(mailbox) : mailbox'[i] = mailbox[i]
BY DEF Send

\* The rest moves up when one is taken.
LEMMA TakingMovesUp ==
    ASSUME mailbox \in Seq(TrackerMessages), mailbox # <<>>, mailbox' = Tail(mailbox)
    PROVE  /\ mailbox' \in Seq(TrackerMessages)
           /\ Len(mailbox) \in Nat /\ Len(mailbox) >= 1
           /\ Len(mailbox') = Len(mailbox) - 1
           /\ Head(mailbox) = mailbox[1]
           /\ Head(mailbox) \in TrackerMessages
           /\ \A i \in 1..Len(mailbox') : mailbox'[i] = mailbox[i + 1]
OBVIOUS

\* Messages are about sessions of players.
LEMMA SendersAreKnown ==
    ASSUME mailbox \in Seq(TrackerMessages), NEW type, Receive(type)
    PROVE  /\ Head(mailbox).session \in Sessions
           /\ Sender \in Players
           /\ Owner(Head(mailbox).session) = Sender
BY TakingMovesUp, SessionsHaveOwners DEF TrackerMessages, Sender, Receive

\* Nothing that waits is lost when another message is sent.
LEMMA SendKeeps ==
    ASSUME mailbox \in Seq(TrackerMessages), NEW m \in TrackerMessages, Send(m),
           NEW type, NEW s
    PROVE  /\ InMailbox(type, s) => InMailbox(type, s)'
           /\ m = Message(type, s) => InMailbox(type, s)'
<1>1. /\ Len(mailbox) \in Nat /\ Len(mailbox') = Len(mailbox) + 1
      /\ mailbox'[Len(mailbox')] = m
      /\ \A i \in 1..Len(mailbox) : mailbox'[i] = mailbox[i]
  BY SendAppends
<1>2. ASSUME InMailbox(type, s)
      PROVE  InMailbox(type, s)'
  BY <1>1, <1>2 DEF InMailbox, Message
<1>3. ASSUME m = Message(type, s)
      PROVE  InMailbox(type, s)'
  <2>1. Len(mailbox') \in 1..Len(mailbox')
    BY <1>1
  <2> QED
    BY <1>1, <1>3, <2>1 DEF InMailbox, Message
<1> QED
  BY <1>2, <1>3

\* Nothing but the first message goes when it is taken.
LEMMA TakingKeeps ==
    ASSUME mailbox \in Seq(TrackerMessages), mailbox # <<>>, mailbox' = Tail(mailbox),
           NEW type, NEW s, InMailbox(type, s), Head(mailbox) # Message(type, s)
    PROVE  InMailbox(type, s)'
<1>1. /\ Len(mailbox) \in Nat /\ Len(mailbox) >= 1
      /\ Len(mailbox') = Len(mailbox) - 1
      /\ Head(mailbox) = mailbox[1]
      /\ \A i \in 1..Len(mailbox') : mailbox'[i] = mailbox[i + 1]
  BY TakingMovesUp
<1>2. PICK i \in 1..Len(mailbox) : mailbox[i] = Message(type, s)
  BY DEF InMailbox
<1>3. i # 1
  BY <1>1, <1>2
<1>4. i - 1 \in 1..Len(mailbox') /\ mailbox'[i - 1] = mailbox[i]
  BY <1>1, <1>2, <1>3
<1> QED
  BY <1>2, <1>4 DEF InMailbox, Message

-----------------------------------------------------------------------------
(***************************************************************************)
(* Types                                                                   *)
(***************************************************************************)
LEMMA TrackerTypesStart == TrackerInit => TrackerTypeOK
BY TrackerAssumption DEF TrackerInit, TrackerTypeOK

\* Messages that are sent or taken keep the type of the mailbox.
LEMMA TrackerTypesKept == TrackerTypeOK /\ [TrackerNext]_trackerVars => TrackerTypeOK'
<1> SUFFICES ASSUME TrackerTypeOK, [TrackerNext]_trackerVars
             PROVE  TrackerTypeOK'
  OBVIOUS
<1>1. ASSUME NEW s \in Sessions, SessionStarts(s) \/ SessionStops(s) \/ TimerRunsOut(s)
      PROVE  TrackerTypeOK'
  <2>1. Owner(s) \in Players
    BY SessionsHaveOwners
  <2>2. \A type \in {"reconnected", "disconnected", "expired"} :
           Send(Message(type, s)) => mailbox' \in Seq(TrackerMessages)
    BY MessagesAreTyped, SendAppends DEF TrackerTypeOK
  <2> QED
    BY <1>1, <2>1, <2>2 DEF SessionStarts, SessionStops, TimerRunsOut, TrackerTypeOK
<1>2. CASE TakeMessage
  <2>1. mailbox # <<>> /\ mailbox' = Tail(mailbox)
    BY <1>2 DEF TakeMessage, PlayerDisconnected, PlayerReconnected, PlayerArrives,
                GracePeriodExpired, MessageIgnored, Receive
  <2>2. mailbox' \in Seq(TrackerMessages) /\ Head(mailbox) \in TrackerMessages
    BY <2>1, TakingMovesUp DEF TrackerTypeOK
  <2>3. Head(mailbox).session \in Sessions /\ Sender \in Players
    BY <2>2, SessionsHaveOwners DEF TrackerMessages, Sender
  <2>4. ASSUME NEW p \in Players, NEW notice \in {"lost", "back"}
        PROVE  Notices(p, notice) \in [Players -> {"nothing", "lost", "back"}]
    BY DEF Notices, TrackerTypeOK
  <2>5. CASE PlayerDisconnected
    BY <2>2, <2>3, <2>4, <2>5 DEF PlayerDisconnected, TimerStarted, TrackerTypeOK
  <2>6. CASE PlayerReconnected
    BY <2>2, <2>3, <2>4, <2>6 DEF PlayerReconnected, Aborted, TrackerTypeOK
  <2>7. CASE PlayerArrives
    BY <2>2, <2>3, <2>7 DEF PlayerArrives, TrackerTypeOK
  <2>8. CASE GracePeriodExpired
    BY <2>2, <2>3, <2>8 DEF GracePeriodExpired, TrackerTypeOK
  <2>9. CASE MessageIgnored
    BY <2>2, <2>9 DEF MessageIgnored, TrackerTypeOK
  <2> QED
    BY <1>2, <2>5, <2>6, <2>7, <2>8, <2>9 DEF TakeMessage
<1>3. ASSUME NEW p \in Players, AbandonReads(p) \/ AbandonWrites(p) \/ AbandonFails(p)
      PROVE  TrackerTypeOK'
  BY <1>3 DEF AbandonReads, AbandonWrites, AbandonFails, TrackerTypeOK
<1>4. CASE GameEnds
  BY <1>4 DEF GameEnds, TrackerTypeOK
<1>5. CASE Restart
  BY <1>5, TrackerAssumption DEF Restart, TrackerTypeOK
<1>6. CASE UNCHANGED trackerVars
  BY <1>6 DEF trackerVars, TrackerTypeOK
<1> QED
  BY <1>1, <1>2, <1>3, <1>4, <1>5, <1>6 DEF TrackerNext

-----------------------------------------------------------------------------
(***************************************************************************)
(* Grace timers                                                            *)
(***************************************************************************)
\* A step that leaves the tracker and the timers alone and loses no message of a timer
\* leaves every grace period timed.
LEMMA GraceUndisturbed ==
    ASSUME HandlesAreOwned, GraceIsTimed,
           UNCHANGED <<active, status, handle, timer>>,
           \A s : InMailbox("expired", s) => InMailbox("expired", s)'
    PROVE  HandlesAreOwned' /\ GraceIsTimed'
BY DEF HandlesAreOwned, GraceIsTimed

LEMMA GraceKept ==
    TrackerTypeOK /\ HandlesAreOwned /\ GraceIsTimed /\ [TrackerNext]_trackerVars
      => HandlesAreOwned' /\ GraceIsTimed'
<1> SUFFICES ASSUME TrackerTypeOK, HandlesAreOwned, GraceIsTimed, [TrackerNext]_trackerVars
             PROVE  HandlesAreOwned' /\ GraceIsTimed'
  OBVIOUS
<1> DEFINE NoneLost == \A s : InMailbox("expired", s) => InMailbox("expired", s)'
<1>a. /\ mailbox \in Seq(TrackerMessages)
      /\ status \in [Players -> {"absent", "connected", "reconnecting", "disconnected"}]
      /\ handle \in [Players -> Sessions \cup {NoSession}]
      /\ timer \in [Sessions -> {"none", "running", "over"}]
      /\ NoSession \notin Sessions
  BY TrackerAssumption DEF TrackerTypeOK
<1>b. ASSUME NEW m \in TrackerMessages, Send(m)
      PROVE  NoneLost
  BY <1>a, <1>b, SendKeeps
<1>c. ASSUME Receive("disconnected") \/ Receive("reconnected")
      PROVE  NoneLost
  <2>1. mailbox # <<>> /\ mailbox' = Tail(mailbox) /\ Head(mailbox).type # "expired"
    BY <1>c DEF Receive
  <2>2. \A s : Head(mailbox) # Message("expired", s)
    BY <2>1 DEF Message
  <2> QED
    BY <1>a, <2>1, <2>2, TakingKeeps
<1>d. ASSUME mailbox' = mailbox
      PROVE  NoneLost
  BY <1>d DEF InMailbox
<1>1. ASSUME NEW s \in Sessions, SessionStarts(s) \/ SessionStops(s)
      PROVE  HandlesAreOwned' /\ GraceIsTimed'
  <2>1. Send(Message("reconnected", s)) \/ Send(Message("disconnected", s))
    BY <1>1 DEF SessionStarts, SessionStops
  <2>2. NoneLost
    BY <1>b, <2>1, MessagesAreTyped
  <2>3. UNCHANGED <<active, status, handle, timer>>
    BY <1>1 DEF SessionStarts, SessionStops
  <2> QED
    BY <2>2, <2>3, GraceUndisturbed
<1>2. ASSUME NEW s \in Sessions, TimerRunsOut(s)
      PROVE  HandlesAreOwned' /\ GraceIsTimed'
  <2>1. /\ UNCHANGED <<active, status, handle>>
        /\ timer' = [timer EXCEPT ![s] = "over"]
        /\ Send(Message("expired", s))
    BY <1>2 DEF TimerRunsOut
  <2>2. NoneLost /\ InMailbox("expired", s)'
    BY <1>a, <1>b, <2>1, MessagesAreTyped, SendKeeps
  <2> QED
    BY <1>a, <2>1, <2>2 DEF HandlesAreOwned, GraceIsTimed
<1>3. CASE PlayerDisconnected
  <2> DEFINE s == Head(mailbox).session
             p == Sender
  <2>1. /\ UNCHANGED active
        /\ status' = [status EXCEPT ![p] = "reconnecting"]
        /\ handle' = [handle EXCEPT ![p] = s]
        /\ timer' = [timer EXCEPT ![s] = "running"]
    BY <1>3 DEF PlayerDisconnected, TimerStarted
  <2>2. NoneLost
    BY <1>3, <1>c DEF PlayerDisconnected
  <2>3. s \in Sessions /\ p \in Players /\ Owner(s) = p
    BY <1>a, <1>3, SendersAreKnown DEF PlayerDisconnected
  <2> HIDE DEF s, p
  <2> QED
    BY <1>a, <2>1, <2>2, <2>3 DEF HandlesAreOwned, GraceIsTimed
<1>4. CASE PlayerReconnected
  <2> DEFINE p == Sender
  <2>1. /\ UNCHANGED active
        /\ status' = [status EXCEPT ![p] = "connected"]
        /\ handle' = [handle EXCEPT ![p] = NoSession]
        /\ timer' = Aborted(p)
    BY <1>4 DEF PlayerReconnected
  <2>2. NoneLost
    BY <1>4, <1>c DEF PlayerReconnected
  <2>3. p \in Players
    BY <1>a, <1>4, SendersAreKnown DEF PlayerReconnected
  <2> HIDE DEF p
  <2>4. \A t \in Sessions : Owner(t) # p => timer'[t] = timer[t]
    BY <1>a, <2>1, <2>3 DEF Aborted, HandlesAreOwned
  <2> QED
    BY <1>a, <2>1, <2>2, <2>3, <2>4 DEF HandlesAreOwned, GraceIsTimed
<1>5. CASE PlayerArrives
  <2> DEFINE p == Sender
  <2>1. /\ UNCHANGED <<active, handle, timer>>
        /\ status[p] = "absent" /\ active
        /\ status' = [status EXCEPT ![p] = "connected"]
    BY <1>5 DEF PlayerArrives
  <2>2. NoneLost
    BY <1>5, <1>c DEF PlayerArrives
  <2> HIDE DEF p
  <2> QED
    BY <1>a, <2>1, <2>2 DEF HandlesAreOwned, GraceIsTimed
<1>6. CASE GracePeriodExpired
  <2> DEFINE p == Sender
  <2>1. ~ active' /\ handle' = [handle EXCEPT ![p] = NoSession]
    BY <1>6 DEF GracePeriodExpired
  <2> HIDE DEF p
  <2> QED
    BY <1>a, <2>1 DEF HandlesAreOwned, GraceIsTimed
<1>7. CASE MessageIgnored
  <2>1. /\ UNCHANGED <<active, status, handle, timer>>
        /\ mailbox # <<>> /\ mailbox' = Tail(mailbox)
        /\ Ignored(Head(mailbox))
    BY <1>7 DEF MessageIgnored
  <2>2. ASSUME active, NEW p \in Players, status[p] = "reconnecting",
               InMailbox("expired", handle[p])
        PROVE  InMailbox("expired", handle[p])'
    <3>1. Owner(handle[p]) = p
      BY <2>2 DEF GraceIsTimed, HandlesAreOwned
    <3>2. Head(mailbox) # Message("expired", handle[p])
      <4>1. SUFFICES ASSUME Head(mailbox) = Message("expired", handle[p])
                     PROVE  FALSE
        OBVIOUS
      <4>2. Head(mailbox).type = "expired" /\ Owner(Head(mailbox).session) = p
        BY <3>1, <4>1 DEF Message
      <4>3. ~ Waited(Owner(Head(mailbox).session))
        BY <2>1, <4>2 DEF Ignored
      <4> QED
        BY <2>2, <4>2, <4>3 DEF Waited
    <3>3. \A t : InMailbox("expired", t) /\ Head(mailbox) # Message("expired", t)
                   => InMailbox("expired", t)'
      BY <1>a, <2>1, TakingKeeps
    <3>4. handle'[p] = handle[p]
      BY <2>1
    <3>5. PICK t : t = handle[p]
      OBVIOUS
    <3>6. InMailbox("expired", t)'
      BY <2>2, <3>2, <3>3, <3>5
    <3> QED
      BY <3>4, <3>5, <3>6 DEF InMailbox
  <2> QED
    BY <2>1, <2>2 DEF HandlesAreOwned, GraceIsTimed
<1>8. ASSUME NEW p \in Players, AbandonReads(p) \/ AbandonWrites(p) \/ AbandonFails(p)
      PROVE  HandlesAreOwned' /\ GraceIsTimed'
  BY <1>8, <1>d, GraceUndisturbed DEF AbandonReads, AbandonWrites, AbandonFails
<1>9. CASE GameEnds \/ UNCHANGED trackerVars
  BY <1>9, <1>d, GraceUndisturbed DEF GameEnds, trackerVars
<1>10. CASE Restart
  BY <1>10 DEF Restart, HandlesAreOwned, GraceIsTimed
<1> QED
  BY <1>1, <1>2, <1>3, <1>4, <1>5, <1>6, <1>7, <1>8, <1>9, <1>10
     DEF TrackerNext, TakeMessage

-----------------------------------------------------------------------------
(***************************************************************************)
(* Notices                                                                 *)
(***************************************************************************)
LEMMA TidingsKept ==
    TrackerTypeOK /\ TidingsTrue /\ [TrackerNext]_trackerVars => TidingsTrue'
<1> SUFFICES ASSUME TrackerTypeOK, TidingsTrue, [TrackerNext]_trackerVars
             PROVE  TidingsTrue'
  OBVIOUS
<1>a. /\ mailbox \in Seq(TrackerMessages)
      /\ status \in [Players -> {"absent", "connected", "reconnecting", "disconnected"}]
      /\ addr \in [Players -> Sessions \cup {NoSession}]
      /\ told \in [Players -> {"nothing", "lost", "back"}]
      /\ NoSession \notin Sessions
  BY TrackerAssumption DEF TrackerTypeOK
<1>1. ASSUME UNCHANGED <<status, addr, told>>
      PROVE  TidingsTrue'
  BY <1>1 DEF TidingsTrue
<1>2. CASE PlayerDisconnected
  <2> DEFINE p == Sender
  <2>1. /\ status' = [status EXCEPT ![p] = "reconnecting"]
        /\ addr' = [addr EXCEPT ![p] = NoSession]
        /\ told' = Notices(p, "lost")
        /\ p \in Players
    BY <1>a, <1>2, SendersAreKnown DEF PlayerDisconnected
  <2> HIDE DEF p
  <2> QED
    BY <1>a, <2>1 DEF Notices, TidingsTrue
<1>3. CASE PlayerReconnected
  <2> DEFINE p == Sender
  <2>1. /\ status[p] # "absent"
        /\ status' = [status EXCEPT ![p] = "connected"]
        /\ addr' = [addr EXCEPT ![p] = Head(mailbox).session]
        /\ told' = Notices(p, "back")
        /\ p \in Players
    BY <1>a, <1>3, SendersAreKnown DEF PlayerReconnected
  <2> HIDE DEF p
  <2> QED
    BY <1>a, <2>1 DEF Notices, TidingsTrue
<1>4. CASE PlayerArrives
  <2> DEFINE p == Sender
  <2>1. /\ status[p] = "absent"
        /\ status' = [status EXCEPT ![p] = "connected"]
        /\ addr' = [addr EXCEPT ![p] = Head(mailbox).session]
        /\ UNCHANGED told
        /\ p \in Players
    BY <1>a, <1>4, SendersAreKnown DEF PlayerArrives
  <2> HIDE DEF p
  <2> QED
    BY <1>a, <2>1 DEF TidingsTrue
<1>5. CASE GracePeriodExpired
  <2> DEFINE p == Sender
  <2>1. /\ status[p] = "reconnecting"
        /\ status' = [status EXCEPT ![p] = "disconnected"]
        /\ UNCHANGED <<addr, told>>
        /\ p \in Players
    BY <1>a, <1>5, SendersAreKnown DEF GracePeriodExpired, Waited
  <2> HIDE DEF p
  <2> QED
    BY <1>a, <2>1 DEF TidingsTrue
<1>6. CASE Restart
  BY <1>6 DEF Restart, TidingsTrue
<1> QED
  BY <1>1, <1>2, <1>3, <1>4, <1>5, <1>6
     DEF TrackerNext, TakeMessage, SessionStarts, SessionStops, TimerRunsOut, MessageIgnored,
         AbandonReads, AbandonWrites, AbandonFails, GameEnds, trackerVars

-----------------------------------------------------------------------------
(***************************************************************************)
(* The order of reports                                                    *)
(***************************************************************************)
\* What is sent behind the messages that wait does not change their order.
LEMMA SendKeepsOrder ==
    ASSUME mailbox \in Seq(TrackerMessages), NEW m \in TrackerMessages, Send(m),
           NEW i \in 1..Len(mailbox), NEW s,
           \E j \in (i + 1)..Len(mailbox) : mailbox[j] = Message("reconnected", s)
    PROVE  \E j \in (i + 1)..Len(mailbox') : mailbox'[j] = Message("reconnected", s)
<1>1. /\ Len(mailbox) \in Nat /\ Len(mailbox') = Len(mailbox) + 1
      /\ \A k \in 1..Len(mailbox) : mailbox'[k] = mailbox[k]
  BY SendAppends
<1>2. PICK j \in (i + 1)..Len(mailbox) : mailbox[j] = Message("reconnected", s)
  OBVIOUS
<1>3. j \in 1..Len(mailbox) /\ j \in (i + 1)..Len(mailbox')
  BY <1>1, <1>2
<1> QED
  BY <1>1, <1>2, <1>3

\* Nor does taking the first of them.
LEMMA TakingKeepsOrder ==
    ASSUME mailbox \in Seq(TrackerMessages), mailbox # <<>>, mailbox' = Tail(mailbox),
           UNCHANGED <<life, overlapped>>,
           OneAtATime, ReportsInOrder
    PROVE  OneAtATime' /\ ReportsInOrder'
<1>1. /\ Len(mailbox) \in Nat /\ Len(mailbox) >= 1
      /\ Len(mailbox') = Len(mailbox) - 1
      /\ \A i \in 1..Len(mailbox') : mailbox'[i] = mailbox[i + 1]
  BY TakingMovesUp
<1>2. \A p : OpenSessions(p)' = OpenSessions(p)
  BY DEF OpenSessions
<1>3. OneAtATime'
  BY <1>2 DEF OneAtATime
<1>4. ASSUME NEW p \in Players \ overlapped, NEW i \in 1..Len(mailbox'),
             mailbox'[i].type = "disconnected", Owner(mailbox'[i].session) = p,
             NEW s \in OpenSessions(p)
      PROVE  \E j \in (i + 1)..Len(mailbox') : mailbox'[j] = Message("reconnected", s)
  <2>1. i + 1 \in 1..Len(mailbox) /\ mailbox'[i] = mailbox[i + 1]
    BY <1>1
  <2>2. PICK j \in (i + 2)..Len(mailbox) : mailbox[j] = Message("reconnected", s)
    BY <1>4, <2>1 DEF ReportsInOrder
  <2>3. j - 1 \in (i + 1)..Len(mailbox') /\ mailbox'[j - 1] = mailbox[j]
    BY <1>1, <2>2
  <2> QED
    BY <2>2, <2>3
<1>5. ReportsInOrder'
  BY <1>2, <1>4 DEF ReportsInOrder, Message
<1> QED
  BY <1>3, <1>5

LEMMA OrderKept ==
    TrackerTypeOK /\ (OneAtATime /\ ReportsInOrder /\ AwaitedAreUnreported)
      /\ [TrackerNext]_trackerVars
      => OneAtATime' /\ ReportsInOrder' /\ AwaitedAreUnreported'
<1> DEFINE Ordered == OneAtATime /\ ReportsInOrder /\ AwaitedAreUnreported
<1> SUFFICES ASSUME TrackerTypeOK, Ordered, [TrackerNext]_trackerVars
             PROVE  Ordered'
  OBVIOUS
<1>a. /\ mailbox \in Seq(TrackerMessages)
      /\ status \in [Players -> {"absent", "connected", "reconnecting", "disconnected"}]
      /\ life \in [Sessions -> {"new", "open", "stopped"}]
  BY DEF TrackerTypeOK
<1>1. ASSUME NEW s \in Sessions, SessionStarts(s)
      PROVE  Ordered'
  <2> DEFINE m == Message("reconnected", s)
  <2>1. /\ m \in TrackerMessages /\ m.type = "reconnected" /\ m.session = s
        /\ Send(m)
        /\ Owner(s) \in Players
    BY <1>1, MessagesAreTyped, SessionsHaveOwners DEF SessionStarts
  <2>2. /\ Len(mailbox) \in Nat /\ Len(mailbox') = Len(mailbox) + 1
        /\ mailbox'[Len(mailbox')] = m
        /\ \A i \in 1..Len(mailbox) : mailbox'[i] = mailbox[i]
    BY <1>a, <2>1, SendAppends
  <2>3. /\ life' = [life EXCEPT ![s] = "open"]
        /\ overlapped' = IF OpenSessions(Owner(s)) = {} THEN overlapped
                         ELSE overlapped \cup {Owner(s)}
        /\ UNCHANGED <<active, status>>
    BY <1>1 DEF SessionStarts
  <2>4. ASSUME NEW p \in Players \ overlapped'
        PROVE  /\ p \notin overlapped
               /\ p # Owner(s) => OpenSessions(p)' = OpenSessions(p)
               /\ p = Owner(s) => OpenSessions(p)' = {s}
    BY <1>a, <2>3, <2>4 DEF OpenSessions
  <2>5. OneAtATime'
    BY <2>4 DEF OneAtATime
  <2>6. ASSUME NEW p \in Players \ overlapped', NEW i \in 1..Len(mailbox'),
               mailbox'[i].type = "disconnected", Owner(mailbox'[i].session) = p,
               NEW r \in OpenSessions(p)'
        PROVE  \E j \in (i + 1)..Len(mailbox') : mailbox'[j] = Message("reconnected", r)
    <3>1. i \in 1..Len(mailbox) /\ mailbox'[i] = mailbox[i]
      BY <2>1, <2>2, <2>6
    <3>2. CASE p = Owner(s)
      <4>1. r = s
        BY <2>4, <2>6, <3>2
      <4>2. Len(mailbox') \in (i + 1)..Len(mailbox')
        BY <2>2, <3>1
      <4> QED
        BY <2>2, <4>1, <4>2
    <3>3. CASE p # Owner(s)
      <4>1. \E j \in (i + 1)..Len(mailbox) : mailbox[j] = Message("reconnected", r)
        BY <2>4, <2>6, <3>1, <3>3 DEF ReportsInOrder
      <4> QED
        BY <1>a, <2>1, <3>1, <4>1, SendKeepsOrder
    <3> QED
      BY <3>2, <3>3
  <2>7. ReportsInOrder'
    BY <2>6 DEF ReportsInOrder, Message
  <2>8. /\ InMailbox("reconnected", s)'
        /\ \A r : InMailbox("reconnected", r) => InMailbox("reconnected", r)'
    BY <1>a, <2>1, SendKeeps
  <2>9. AwaitedAreUnreported'
    BY <2>3, <2>4, <2>8 DEF AwaitedAreUnreported
  <2> QED
    BY <2>5, <2>7, <2>9
<1>2. ASSUME NEW s \in Sessions, SessionStops(s)
      PROVE  Ordered'
  <2> DEFINE m == Message("disconnected", s)
  <2>1. /\ m \in TrackerMessages /\ m.type = "disconnected" /\ m.session = s
        /\ Send(m)
        /\ Owner(s) \in Players
    BY <1>2, MessagesAreTyped, SessionsHaveOwners DEF SessionStops
  <2>2. /\ Len(mailbox) \in Nat /\ Len(mailbox') = Len(mailbox) + 1
        /\ mailbox'[Len(mailbox')] = m
        /\ \A i \in 1..Len(mailbox) : mailbox'[i] = mailbox[i]
    BY <1>a, <2>1, SendAppends
  <2>3. /\ life[s] = "open" /\ life' = [life EXCEPT ![s] = "stopped"]
        /\ UNCHANGED <<overlapped, active, status>>
    BY <1>2 DEF SessionStops
  <2>4. ASSUME NEW p \in Players \ overlapped
        PROVE  /\ OpenSessions(p)' \subseteq OpenSessions(p)
               /\ p = Owner(s) => OpenSessions(p)' = {}
    BY <1>a, <2>3 DEF OpenSessions, OneAtATime
  <2>5. OneAtATime'
    BY <2>3, <2>4 DEF OneAtATime
  <2>6. ASSUME NEW p \in Players \ overlapped, NEW i \in 1..Len(mailbox'),
               mailbox'[i].type = "disconnected", Owner(mailbox'[i].session) = p,
               NEW r \in OpenSessions(p)'
        PROVE  \E j \in (i + 1)..Len(mailbox') : mailbox'[j] = Message("reconnected", r)
    <3>1. p # Owner(s) /\ r \in OpenSessions(p)
      BY <2>4, <2>6
    <3>2. i \in 1..Len(mailbox) /\ mailbox'[i] = mailbox[i]
      BY <2>1, <2>2, <2>6, <3>1
    <3>3. \E j \in (i + 1)..Len(mailbox) : mailbox[j] = Message("reconnected", r)
      BY <2>6, <3>1, <3>2 DEF ReportsInOrder
    <3> QED
      BY <1>a, <2>1, <3>2, <3>3, SendKeepsOrder
  <2>7. ReportsInOrder'
    BY <2>3, <2>6 DEF ReportsInOrder, Message
  <2>8. \A r : InMailbox("reconnected", r) => InMailbox("reconnected", r)'
    BY <1>a, <2>1, SendKeeps
  <2>9. AwaitedAreUnreported'
    BY <2>3, <2>4, <2>8 DEF AwaitedAreUnreported
  <2> QED
    BY <2>5, <2>7, <2>9
<1>3. ASSUME NEW s \in Sessions, TimerRunsOut(s)
      PROVE  Ordered'
  <2> DEFINE m == Message("expired", s)
  <2>1. /\ m \in TrackerMessages /\ m.type = "expired"
        /\ Send(m)
    BY <1>3, MessagesAreTyped DEF TimerRunsOut
  <2>2. /\ Len(mailbox) \in Nat /\ Len(mailbox') = Len(mailbox) + 1
        /\ mailbox'[Len(mailbox')] = m
        /\ \A i \in 1..Len(mailbox) : mailbox'[i] = mailbox[i]
    BY <1>a, <2>1, SendAppends
  <2>3. UNCHANGED <<life, overlapped, active, status>>
    BY <1>3 DEF TimerRunsOut
  <2>4. \A p : OpenSessions(p)' = OpenSessions(p)
    BY <2>3 DEF OpenSessions
  <2>5. OneAtATime'
    BY <2>3, <2>4 DEF OneAtATime
  <2>6. ASSUME NEW p \in Players \ overlapped, NEW i \in 1..Len(mailbox'),
               mailbox'[i].type = "disconnected", Owner(mailbox'[i].session) = p,
               NEW r \in OpenSessions(p)
        PROVE  \E j \in (i + 1)..Len(mailbox') : mailbox'[j] = Message("reconnected", r)
    <3>1. i \in 1..Len(mailbox) /\ mailbox'[i] = mailbox[i]
      BY <2>1, <2>2, <2>6
    <3>2. \E j \in (i + 1)..Len(mailbox) : mailbox[j] = Message("reconnected", r)
      BY <2>6, <3>1 DEF ReportsInOrder
    <3> QED
      BY <1>a, <2>1, <3>1, <3>2, SendKeepsOrder
  <2>7. ReportsInOrder'
    BY <2>3, <2>4, <2>6 DEF ReportsInOrder, Message
  <2>8. \A r : InMailbox("reconnected", r) => InMailbox("reconnected", r)'
    BY <1>a, <2>1, SendKeeps
  <2>9. AwaitedAreUnreported'
    BY <2>3, <2>4, <2>8 DEF AwaitedAreUnreported
  <2> QED
    BY <2>5, <2>7, <2>9
<1>4. CASE TakeMessage
  <2>1. /\ mailbox # <<>> /\ mailbox' = Tail(mailbox)
        /\ UNCHANGED <<life, overlapped>>
    BY <1>4 DEF TakeMessage, PlayerDisconnected, PlayerReconnected, PlayerArrives,
                GracePeriodExpired, MessageIgnored, Receive
  <2>2. OneAtATime' /\ ReportsInOrder'
    BY <1>a, <2>1, TakingKeepsOrder
  <2>3. /\ Head(mailbox).session \in Sessions /\ Sender \in Players
        /\ Owner(Head(mailbox).session) = Sender
    BY <1>a, <2>1, SendersAreKnown DEF Receive
  <2>4. \A p : OpenSessions(p)' = OpenSessions(p)
    BY <2>1 DEF OpenSessions
  <2>5. ASSUME NEW s, InMailbox("reconnected", s), Head(mailbox) # Message("reconnected", s)
        PROVE  InMailbox("reconnected", s)'
    BY <1>a, <2>1, <2>5, TakingKeeps
  <2>6. AwaitedAreUnreported'
    <3> SUFFICES ASSUME active', NEW p \in Players \ overlapped, status'[p] = "reconnecting",
                        NEW s \in OpenSessions(p)
                 PROVE  InMailbox("reconnected", s)'
      BY <2>1, <2>4 DEF AwaitedAreUnreported
    <3>1. Owner(s) = p
      BY DEF OpenSessions
    <3>2. CASE PlayerDisconnected /\ Sender = p
      <4>1. Head(mailbox).type = "disconnected" /\ Owner(Head(mailbox).session) = p
        BY <2>3, <3>2 DEF PlayerDisconnected, Receive
      <4>2. Head(mailbox) = mailbox[1] /\ 1 \in 1..Len(mailbox)
        BY <1>a, <2>1, TakingMovesUp
      <4>3. \E j \in (1 + 1)..Len(mailbox) : mailbox[j] = Message("reconnected", s)
        BY <4>1, <4>2 DEF ReportsInOrder
      <4>4. InMailbox("reconnected", s)
        BY <4>3 DEF InMailbox
      <4>5. Head(mailbox) # Message("reconnected", s)
        BY <4>1 DEF Message
      <4> QED
        BY <2>5, <4>4, <4>5
    <3>3. CASE ~ (PlayerDisconnected /\ Sender = p)
      <4>1. active /\ status[p] = "reconnecting"
        BY <1>a, <1>4, <2>3, <3>3
           DEF TakeMessage, PlayerDisconnected, PlayerReconnected, PlayerArrives,
               GracePeriodExpired, MessageIgnored
      <4>2. InMailbox("reconnected", s)
        BY <4>1 DEF AwaitedAreUnreported
      <4>3. Head(mailbox) # Message("reconnected", s)
        <5>1. SUFFICES ASSUME Head(mailbox) = Message("reconnected", s)
                       PROVE  FALSE
          OBVIOUS
        <5>2. Head(mailbox).type = "reconnected" /\ Sender = p
          BY <3>1, <5>1 DEF Message, Sender
        <5>3. PlayerReconnected \/ PlayerArrives \/ MessageIgnored
          BY <1>4, <5>2 DEF TakeMessage, PlayerDisconnected, GracePeriodExpired, Receive
        <5>4. ~ MessageIgnored
          BY <4>1, <5>2 DEF MessageIgnored, Ignored
        <5>5. status'[p] = "connected"
          BY <1>a, <2>3, <5>2, <5>3, <5>4 DEF PlayerReconnected, PlayerArrives
        <5> QED
          BY <5>5
      <4> QED
        BY <2>5, <4>2, <4>3
    <3> QED
      BY <3>2, <3>3
  <2> QED
    BY <2>2, <2>6
<1>5. CASE Restart
  <2>1. \A p : OpenSessions(p)' = {}
    BY <1>a, <1>5 DEF Restart, OpenSessions
  <2> QED
    BY <2>1 DEF OneAtATime, ReportsInOrder, AwaitedAreUnreported
<1>6. ASSUME UNCHANGED <<life, overlapped, mailbox, active, status>>
      PROVE  Ordered'
  <2>1. \A p : OpenSessions(p)' = OpenSessions(p)
    BY <1>6 DEF OpenSessions
  <2>2. OneAtATime'
    BY <1>6, <2>1 DEF OneAtATime
  <2>3. ReportsInOrder'
    BY <1>6, <2>1 DEF ReportsInOrder
  <2>4. AwaitedAreUnreported'
    BY <1>6, <2>1 DEF AwaitedAreUnreported, InMailbox
  <2> QED
    BY <2>2, <2>3, <2>4
<1> QED
  BY <1>1, <1>2, <1>3, <1>4, <1>5, <1>6
     DEF TrackerNext, AbandonReads, AbandonWrites, AbandonFails, GameEnds, trackerVars

-----------------------------------------------------------------------------
(***************************************************************************)
(* The theorems                                                            *)
(***************************************************************************)
LEMMA TrackerInvStarts == TrackerInit => TrackerInv
<1> SUFFICES ASSUME TrackerInit
             PROVE  TrackerInv
  OBVIOUS
<1>1. TrackerTypeOK
  BY TrackerTypesStart
<1>2. HandlesAreOwned /\ GraceIsTimed /\ TidingsTrue /\ AwaitedAreUnreported
  BY DEF TrackerInit, HandlesAreOwned, GraceIsTimed, TidingsTrue, AwaitedAreUnreported
<1>3. \A p : OpenSessions(p) = {}
  BY DEF TrackerInit, OpenSessions
<1>4. OneAtATime /\ ReportsInOrder
  BY <1>3 DEF OneAtATime, ReportsInOrder
<1> QED
  BY <1>1, <1>2, <1>4 DEF TrackerInv

LEMMA TrackerInductive == TrackerSpec => []TrackerInv
<1>1. TrackerInv /\ [TrackerNext]_trackerVars => TrackerInv'
  BY TrackerTypesKept, GraceKept, TidingsKept, OrderKept DEF TrackerInv
<1> QED
  BY TrackerInvStarts, <1>1, PTL DEF TrackerSpec

\* Whatever sessions come and go, the tracker never waits for a player without a clock
\* (PlayerDisconnected, PlayerReconnected, GracePeriodExpired).
THEOREM GraceAlwaysTimed == TrackerSpec => []GraceIsTimed
<1>1. TrackerInv => GraceIsTimed
  BY DEF TrackerInv
<1> QED
  BY TrackerInductive, <1>1, PTL

\* With any number of players and visitors, what a connected one was told last is true of
\* somebody else (broadcast_to_other_players).
THEOREM NoticesAlwaysTrue == TrackerSpec => []NoticesTrue
<1>1. TrackerInv => NoticesTrue
  BY TrackerAssumption DEF TrackerInv, TidingsTrue, NoticesTrue, OpenSessions
<1> QED
  BY TrackerInductive, <1>1, PTL

\* The grace period gives up nobody whose open session the tracker was told of, unless he
\* had two at once (GracePeriodExpired).
THEOREM OnlyAbsentPlayersLose == TrackerSpec => OnlyTheAbsentLose
<1> DEFINE OnlyAbsent ==
        \A p \in Players \ overlapped : Loses(p) =>
            \A s \in Sessions : Owner(s) = p => ~Reported(s)
<1>1. TrackerInv /\ [TrackerNext]_trackerVars => [OnlyAbsent]_trackerVars
  <2> SUFFICES ASSUME TrackerInv, [TrackerNext]_trackerVars,
                      NEW p \in Players \ overlapped, Loses(p),
                      NEW s \in Sessions, Owner(s) = p
               PROVE  ~Reported(s)
    OBVIOUS
  <2>1. status[p] # "disconnected" /\ status'[p] = "disconnected"
    BY DEF Loses
  <2>2. TrackerTypeOK /\ AwaitedAreUnreported
    BY DEF TrackerInv
  <2>3. ~ TakeMessage => status'[p] # "disconnected"
    BY <2>1 DEF TrackerNext, SessionStarts, SessionStops, TimerRunsOut, AbandonReads,
                AbandonWrites, AbandonFails, GameEnds, Restart, trackerVars
  <2>4. GracePeriodExpired
    BY <2>1, <2>2, <2>3
       DEF TakeMessage, PlayerDisconnected, PlayerReconnected, PlayerArrives,
           MessageIgnored, TrackerTypeOK
  <2>5. active /\ status[p] = "reconnecting"
    BY <2>1, <2>2, <2>4 DEF GracePeriodExpired, Waited, TrackerTypeOK
  <2> QED
    BY <2>2, <2>5 DEF AwaitedAreUnreported, Reported, OpenSessions
<1> QED
  BY TrackerInductive, <1>1, PTL DEF TrackerSpec, OnlyTheAbsentLose

(***************************************************************************)
(* MoveStream.  The invariant adds to the properties of the runs that      *)
(* nothing was fanned out whose turn has not come; a step that leaves the  *)
(* stamps and the sessions as they are is one of four cases of             *)
(* PacketArrives.                                                          *)
(***************************************************************************)

\* The part of StreamTypeOK that needs no counting.
Typed ==
    /\ stamped \in 0..MaxSeq
    /\ nextSeq \in 1..(MaxSeq + 1)
    /\ pending \subseteq Seqs
    /\ gaps \subseteq Seqs
    /\ requested \subseteq gaps
    /\ received \subseteq Seqs
    /\ released \in [Seqs -> Nat]
    /\ relayed \in [Seqs -> Nat]
    /\ skipped \subseteq Seqs
    /\ sessions \in 1..(MaxSessions + 1)

\* The buffer is within its capacity.
Bounded == Cardinality(pending) <= Capacity

\* What was fanned out has had its turn.
RelayedInTurn == \A q \in Seqs : q >= nextSeq => relayed[q] = 0

StreamInv ==
    /\ Typed /\ Bounded
    /\ EveryMoveHasItsPlace /\ EveryGapHasADeadline
    /\ RelayedInTurn

-----------------------------------------------------------------------------
\* Of stamps that are given there is a highest: what it leaves below MaxSeq is least.
LEMMA HighestIsHighest ==
    ASSUME NEW S, S \subseteq Seqs, S # {}
    PROVE  /\ Highest(S) \in S
           /\ \A n \in S : n <= Highest(S)
<1> DEFINE above == {MaxSeq - s : s \in S}
           less == OpToRel(<, Nat)
<1>1. MaxSeq \in Nat /\ \A s \in S : s \in Nat /\ s <= MaxSeq
  BY StreamAssumption DEF Seqs
<1>2. above \subseteq Nat /\ above # {}
  BY <1>1
<1>3. \A x, y \in Nat : y < x => <<y, x>> \in less
  BY DEF OpToRel
<1>4. IsWellFoundedOn(less, Nat)
  BY NatLessThanWellFounded
<1> HIDE DEF less
<1>5. \E x \in above : \A y \in above : ~ (<<y, x>> \in less)
  BY <1>2, <1>4, WFMin
<1>6. PICK least \in above : \A n \in above : least <= n
  <2>1. PICK x \in above : \A y \in above : ~ (<<y, x>> \in less)
    BY <1>5
  <2> HIDE DEF above
  <2>2. \A y \in above : x <= y
    <3> TAKE y \in above
    <3>1. x \in Nat /\ y \in Nat
      BY <1>2, <2>1
    <3>2. ~ (y < x)
      BY <1>3, <2>1, <3>1
    <3> QED
      BY <3>1, <3>2
  <2> QED
    BY <2>1, <2>2
<1>7. PICK m \in S : least = MaxSeq - m
  BY <1>6
<1>8. \A n \in S : n <= m
  <2> TAKE n \in S
  <2>1. MaxSeq - n \in above /\ MaxSeq - m <= MaxSeq - n
    BY <1>6, <1>7
  <2> QED
    BY <1>1, <2>1
<1> QED
  BY <1>8 DEF Highest

\* What is held can be counted, and so can a part of it.
LEMMA HeldIsFinite ==
    ASSUME NEW S, S \subseteq Seqs
    PROVE  IsFiniteSet(S) /\ Cardinality(S) \in Nat
<1>1. IsFiniteSet(Seqs)
  BY StreamAssumption, FS_Interval DEF Seqs
<1> QED
  BY <1>1, FS_Subset, FS_CardinalityType

LEMMA PartIsSmaller ==
    ASSUME NEW S, S \subseteq Seqs, NEW T, T \subseteq S, Cardinality(S) <= Capacity
    PROVE  Cardinality(T) <= Capacity
<1>1. Cardinality(S) \in Nat /\ Cardinality(T) \in Nat /\ IsFiniteSet(S)
  BY HeldIsFinite
<1> QED
  BY <1>1, FS_Subset, StreamAssumption

\* Counting once more what is released.
LEMMA CountedIsCount ==
    ASSUME NEW times \in [Seqs -> Nat], NEW S
    PROVE  /\ Counted(times, S) \in [Seqs -> Nat]
           /\ \A q \in Seqs : Counted(times, S)[q] = IF q \in S THEN times[q] + 1 ELSE times[q]
BY DEF Counted

-----------------------------------------------------------------------------
LEMMA StreamStarts == StreamInit => StreamInv
<1> SUFFICES ASSUME StreamInit  PROVE StreamInv
  OBVIOUS
<1>1. Cardinality({}) = 0
  BY FS_EmptySet
<1> QED
  BY <1>1, StreamAssumption
  DEF StreamInit, StreamInv, Typed, Bounded, EveryMoveHasItsPlace, EveryGapHasADeadline,
      RelayedInTurn, Never, Seqs

\* What a packet that arrives does to the state besides the history of arrivals.
LEMMA DuplicateKeeps ==
    ASSUME StreamInv, NEW q \in Seqs, Duplicate(q), received' = received \cup {q},
           UNCHANGED <<stamped, sessions>>
    PROVE  StreamInv'
<1>1. Typed' /\ Bounded'
  BY DEF StreamInv, Typed, Bounded, Duplicate, Holds, AsksAgain
<1>2. EveryMoveHasItsPlace'
  BY StreamAssumption
  DEF StreamInv, Typed, Duplicate, Holds, EveryMoveHasItsPlace, Seqs
<1>3. EveryGapHasADeadline' /\ RelayedInTurn'
  BY DEF StreamInv, Duplicate, Holds, EveryGapHasADeadline, RelayedInTurn
<1> QED
  BY <1>1, <1>2, <1>3 DEF StreamInv

LEMMA BufferKeeps ==
    ASSUME StreamInv, NEW q \in Seqs, Buffer(q), received' = received \cup {q},
           UNCHANGED <<stamped, sessions>>
    PROVE  StreamInv'
<1>1. Typed'
  <2>1. GapsBefore(q) \subseteq Seqs
    <3>1. \A m \in nextSeq..(q - 1) : m \in Seqs
      BY StreamAssumption DEF StreamInv, Typed, Seqs
    <3> QED
      BY <3>1 DEF StreamInv, Typed, GapsBefore
  <2>2. requested' \subseteq gaps'
    BY DEF Buffer, Holds, AsksAgain
  <2> QED
    BY <2>1, <2>2 DEF StreamInv, Typed, Buffer, Holds
<1>2. Bounded'
  <2>1. Cardinality(pending \cup {q}) \in Nat
    BY HeldIsFinite DEF StreamInv, Typed
  <2> QED
    BY <2>1, StreamAssumption DEF Bounded, Buffer, Overfull
<1>3. EveryMoveHasItsPlace'
  BY StreamAssumption
  DEF StreamInv, Typed, Buffer, Early, Holds, EveryMoveHasItsPlace, Seqs
<1>4. EveryGapHasADeadline'
  BY StreamAssumption
  DEF StreamInv, Typed, Buffer, Early, GapsBefore, EveryGapHasADeadline, Seqs
<1>5. RelayedInTurn'
  BY DEF StreamInv, Buffer, Holds, RelayedInTurn
<1> QED
  BY <1>1, <1>2, <1>3, <1>4, <1>5 DEF StreamInv

LEMMA InTurnKeeps ==
    ASSUME StreamInv, NEW q \in Seqs, InTurn(q), received' = received \cup {q},
           UNCHANGED <<stamped, sessions>>
    PROVE  StreamInv'
<1>1. PICK n \in (q + 1)..(MaxSeq + 1) :
        /\ n \notin pending
        /\ (q + 1)..(n - 1) \subseteq pending
        /\ nextSeq' = n
        /\ pending' = pending \ (q..(n - 1))
        /\ gaps' = gaps \ (q..(n - 1))
        /\ Applies(q, q..(n - 1))
  BY DEF InTurn
<1>2. q = nextSeq /\ skipped' = skipped
  BY DEF InTurn
<1>3. /\ released' \in [Seqs -> Nat] /\ relayed' \in [Seqs -> Nat]
      /\ \A m \in Seqs : released'[m] = IF m \in q..(n - 1) THEN released[m] + 1 ELSE released[m]
      /\ \A m \in Seqs : relayed'[m] = IF m = q THEN relayed[m] + 1 ELSE relayed[m]
      /\ requested' = {}
  <2> DEFINE turn == q..(n - 1)
  <2>1. released \in [Seqs -> Nat] /\ relayed \in [Seqs -> Nat]
    BY DEF StreamInv, Typed
  <2>2. /\ released' = Counted(released, turn) /\ relayed' = Counted(relayed, {q})
        /\ requested' = {}
    BY <1>1 DEF Applies
  <2> HIDE DEF turn
  <2>3. /\ released' \in [Seqs -> Nat]
        /\ \A m \in Seqs : released'[m] = IF m \in turn THEN released[m] + 1 ELSE released[m]
    BY <2>1, <2>2, CountedIsCount
  <2>4. /\ relayed' \in [Seqs -> Nat]
        /\ \A m \in Seqs : relayed'[m] = IF m \in {q} THEN relayed[m] + 1 ELSE relayed[m]
    BY <2>1, <2>2, CountedIsCount
  <2> QED
    BY <2>2, <2>3, <2>4 DEF turn
<1>4. Typed'
  <2>1. nextSeq' \in 1..(MaxSeq + 1)
    BY <1>1, StreamAssumption DEF Seqs
  <2>2. pending' \subseteq Seqs /\ gaps' \subseteq Seqs /\ received' \subseteq Seqs
    BY <1>1 DEF StreamInv, Typed
  <2> QED
    BY <1>2, <1>3, <2>1, <2>2 DEF StreamInv, Typed
<1>5. Bounded'
  BY <1>1, PartIsSmaller DEF StreamInv, Typed, Bounded
<1>6. EveryMoveHasItsPlace'
  <2>1. \A m \in Seqs : /\ m \in Int
                        /\ m \in q..(n - 1) <=> nextSeq <= m /\ m < nextSeq'
                        /\ m < nextSeq' => m < nextSeq \/ m \in q..(n - 1)
                        /\ m >= nextSeq' => m >= nextSeq
                        /\ m < nextSeq \/ m >= nextSeq
    BY <1>1, <1>2, StreamAssumption DEF Seqs
  <2>2. \A m \in Seqs : released[m] \in Nat
    BY DEF StreamInv, Typed
  <2>3. \A m \in Seqs : m \in q..(n - 1) => released'[m] = 1 /\ m \notin skipped
    BY <1>3, <2>1, <2>2 DEF StreamInv, EveryMoveHasItsPlace
  <2>4. \A m \in Seqs : m \notin q..(n - 1) => released'[m] = released[m]
    BY <1>3
  <2>5. \A m \in Seqs :
          m < nextSeq' => released'[m] + (IF m \in skipped' THEN 1 ELSE 0) = 1
    BY <1>2, <2>1, <2>3, <2>4 DEF StreamInv, EveryMoveHasItsPlace
  <2>6. \A m \in Seqs : m >= nextSeq' => released'[m] = 0 /\ m \notin skipped'
    <3> SUFFICES ASSUME NEW m \in Seqs, m >= nextSeq'
                 PROVE  released'[m] = 0 /\ m \notin skipped'
      OBVIOUS
    <3>1. m \notin q..(n - 1) /\ m >= nextSeq
      BY <1>1, <2>1
    <3> QED
      BY <1>2, <2>4, <3>1 DEF StreamInv, EveryMoveHasItsPlace
  <2>7. \A m \in received' : released'[m] = 1 \/ m \in pending' \/ m \in skipped'
    <3> SUFFICES ASSUME NEW m \in received'
                 PROVE  released'[m] = 1 \/ m \in pending' \/ m \in skipped'
      OBVIOUS
    <3>1. m \in Seqs /\ (m \in received \/ m = q)
      BY DEF StreamInv, Typed
    <3>2. q \in q..(n - 1)
      BY <1>1, StreamAssumption DEF Seqs
    <3>3. CASE m \in q..(n - 1)
      BY <2>3, <3>1, <3>3
    <3>4. CASE m \notin q..(n - 1)
      BY <1>1, <1>2, <2>4, <3>1, <3>2, <3>4 DEF StreamInv, EveryMoveHasItsPlace
    <3> QED
      BY <3>3, <3>4
  <2>8. \A m \in pending' : m > nextSeq' /\ m \in received'
    <3> SUFFICES ASSUME NEW m \in pending'
                 PROVE  m > nextSeq' /\ m \in received'
      OBVIOUS
    <3>1. m \in pending /\ m \notin q..(n - 1) /\ m # n /\ m \in Seqs
      BY <1>1 DEF StreamInv, Typed
    <3>2. m > nextSeq /\ m \in received
      BY <3>1 DEF StreamInv, EveryMoveHasItsPlace
    <3> QED
      BY <1>1, <1>2, <3>1, <3>2 DEF Seqs
  <2> QED
    BY <2>5, <2>6, <2>7, <2>8 DEF EveryMoveHasItsPlace
<1>7. EveryGapHasADeadline'
  BY <1>1, <1>2, StreamAssumption DEF StreamInv, Typed, EveryGapHasADeadline, Seqs
<1>8. RelayedInTurn'
  BY <1>1, <1>2, <1>3, StreamAssumption DEF StreamInv, Typed, RelayedInTurn, Seqs
<1> QED
  BY <1>4, <1>5, <1>6, <1>7, <1>8 DEF StreamInv

LEMMA FlushKeeps ==
    ASSUME StreamInv, NEW q \in Seqs, Flush(q), received' = received \cup {q},
           UNCHANGED <<stamped, sessions>>
    PROVE  StreamInv'
<1> DEFINE held == pending \cup {q}
<1>1. held \subseteq Seqs /\ held # {}
  BY DEF StreamInv, Typed
<1>2. /\ \E n \in held : nextSeq' = n + 1
      /\ nextSeq' \in Int
      /\ \A n \in held : n < nextSeq'
  <2>1. Highest(held) \in held /\ \A n \in held : n <= Highest(held)
    BY <1>1, HighestIsHighest
  <2>2. nextSeq' = Highest(held) + 1
    BY DEF Flush, AfterFlush
  <2>3. \A n \in held : n \in Int
    BY <1>1 DEF Seqs
  <2> HIDE DEF held
  <2> QED
    BY <2>1, <2>2, <2>3
<1>3. /\ released' \in [Seqs -> Nat] /\ relayed' \in [Seqs -> Nat]
      /\ \A m \in Seqs : released'[m] = IF m \in held THEN released[m] + 1 ELSE released[m]
      /\ \A m \in Seqs : relayed'[m] = IF m = q THEN relayed[m] + 1 ELSE relayed[m]
      /\ requested' = {} /\ pending' = {} /\ gaps' = {}
      /\ skipped' = skipped \cup
            {m \in Seqs : nextSeq <= m /\ m < nextSeq' /\ m \notin held}
  <2>1. released \in [Seqs -> Nat] /\ relayed \in [Seqs -> Nat]
    BY DEF StreamInv, Typed
  <2>2. /\ released' = Counted(released, held) /\ relayed' = Counted(relayed, {q})
        /\ requested' = {}
    BY DEF Flush, Applies
  <2>3. /\ pending' = {} /\ gaps' = {}
        /\ skipped' = skipped \cup
            {m \in Seqs : nextSeq <= m /\ m < nextSeq' /\ m \notin held}
    BY DEF Flush
  <2> HIDE DEF held
  <2> QED
    BY <2>1, <2>2, <2>3, CountedIsCount
<1>4. q > nextSeq /\ q \notin pending
  BY DEF Flush, Early
<1> HIDE DEF held
<1>5. Typed'
  <2>1. nextSeq' \in 1..(MaxSeq + 1)
    BY <1>1, <1>2, StreamAssumption DEF Seqs
  <2>2. skipped' \subseteq Seqs /\ received' \subseteq Seqs
    BY <1>3 DEF StreamInv, Typed
  <2> QED
    BY <1>3, <2>1, <2>2 DEF StreamInv, Typed
<1>6. Bounded'
  BY <1>3, FS_EmptySet, StreamAssumption DEF Bounded
<1>7. EveryMoveHasItsPlace'
  <2>1. \A m \in Seqs : m \in held => m > nextSeq
    BY <1>4 DEF held, StreamInv, EveryMoveHasItsPlace
  <2>2. \A m \in received' : m \in received \/ m \in held
    BY DEF held
  <2>3. \A m \in pending : m \in held
    BY DEF held
  <2>4. \A m \in Seqs : m \in Int /\ released[m] \in Nat
    BY DEF StreamInv, Typed, Seqs
  <2>5. nextSeq \in Int /\ nextSeq' \in Int
    BY <1>2 DEF StreamInv, Typed
  <2>6. \A m \in Seqs : m \in held => released'[m] = 1 /\ m \notin skipped'
    BY <1>3, <2>1, <2>4, <2>5 DEF StreamInv, EveryMoveHasItsPlace
  <2>7. \A m \in Seqs : m \notin held => released'[m] = released[m]
    BY <1>3
  <2>8. \A m \in Seqs :
          m < nextSeq' => released'[m] + (IF m \in skipped' THEN 1 ELSE 0) = 1
    <3> SUFFICES ASSUME NEW m \in Seqs, m < nextSeq', m \notin held
                 PROVE  released[m] + (IF m \in skipped' THEN 1 ELSE 0) = 1
      BY <2>6, <2>7
    <3>1. CASE m < nextSeq
      <4>1. m \in skipped' <=> m \in skipped
        BY <1>3, <2>4, <2>5, <3>1
      <4> QED
        BY <3>1, <4>1 DEF StreamInv, EveryMoveHasItsPlace
    <3>2. CASE m >= nextSeq
      <4>1. m \in skipped'
        BY <1>3, <2>4, <2>5, <3>2
      <4> QED
        BY <3>2, <4>1 DEF StreamInv, EveryMoveHasItsPlace
    <3> QED
      BY <2>4, <2>5, <3>1, <3>2
  <2>9. \A m \in Seqs : m >= nextSeq' => released'[m] = 0 /\ m \notin skipped'
    <3> SUFFICES ASSUME NEW m \in Seqs, m >= nextSeq'
                 PROVE  released'[m] = 0 /\ m \notin skipped'
      OBVIOUS
    <3>1. m \notin held
      BY <1>2, <2>4, <2>5
    <3>2. m > nextSeq
      BY <1>2, <2>1, <2>4, <2>5, <1>1 DEF held
    <3>3. m \notin skipped'
      BY <1>3, <2>4, <2>5, <3>2 DEF StreamInv, EveryMoveHasItsPlace
    <3> QED
      BY <2>7, <3>1, <3>2, <3>3, <2>4, <2>5 DEF StreamInv, EveryMoveHasItsPlace
  <2>10. \A m \in received' : released'[m] = 1 \/ m \in skipped'
    <3> SUFFICES ASSUME NEW m \in received', m \notin held
                 PROVE  released'[m] = 1 \/ m \in skipped'
      BY <1>1, <2>6
    <3>1. m \in received /\ m \in Seqs
      BY <2>2 DEF StreamInv, Typed
    <3> QED
      BY <1>3, <2>3, <2>7, <3>1 DEF StreamInv, EveryMoveHasItsPlace
  <2> QED
    BY <1>3, <2>8, <2>9, <2>10 DEF EveryMoveHasItsPlace
<1>8. EveryGapHasADeadline'
  BY <1>3 DEF EveryGapHasADeadline
<1>9. RelayedInTurn'
  BY <1>1, <1>2, <1>3, <1>4, StreamAssumption DEF StreamInv, Typed, RelayedInTurn, Seqs, held
<1> QED
  BY <1>5, <1>6, <1>7, <1>8, <1>9 DEF StreamInv

LEMMA StampKeeps == StreamInv /\ StampMove => StreamInv'
BY StreamAssumption
DEF StreamInv, StampMove, Typed, Bounded, EveryMoveHasItsPlace, EveryGapHasADeadline,
    RelayedInTurn

LEMMA NewSessionKeeps == StreamInv /\ NewSession => StreamInv'
<1>1. Cardinality({}) = 0
  BY FS_EmptySet
<1> QED
  BY <1>1, StreamAssumption
  DEF StreamInv, NewSession, Typed, Bounded, EveryMoveHasItsPlace, EveryGapHasADeadline,
      RelayedInTurn, Never, Seqs

LEMMA StreamKept == StreamInv /\ [StreamNext]_streamVars => StreamInv'
<1> SUFFICES ASSUME StreamInv, [StreamNext]_streamVars  PROVE StreamInv'
  OBVIOUS
<1>1. CASE StampMove
  BY <1>1, StampKeeps
<1>2. ASSUME NEW q \in Seqs, PacketArrives(q)  PROVE StreamInv'
  BY <1>2, DuplicateKeeps, InTurnKeeps, BufferKeeps, FlushKeeps DEF PacketArrives
<1>3. CASE NewSession
  BY <1>3, NewSessionKeeps
<1>4. CASE UNCHANGED streamVars
  BY <1>4 DEF streamVars, StreamInv, Typed, Bounded, EveryMoveHasItsPlace,
              EveryGapHasADeadline, RelayedInTurn
<1> QED
  BY <1>1, <1>2, <1>3, <1>4 DEF StreamNext

\* The types, the places, the deadlines and the turns are kept by every packet, stamp and
\* session (MoveSequencer, MoveOrderGuard, handle_player_message).
THEOREM StreamInductive == StreamSpec => []StreamInv
BY StreamStarts, StreamKept, PTL DEF StreamSpec

\* Every variable keeps its type, and the reorder buffer never holds more than its capacity
\* once a packet has been dealt with (push in sequencer.rs).
THEOREM StreamTypesKept == StreamSpec => []StreamTypeOK
<1>1. StreamInv => StreamTypeOK
  BY DEF StreamInv, Typed, Bounded, StreamTypeOK
<1> QED
  BY StreamInductive, <1>1, PTL

\* However packets are delayed and repeated, every move that reached a session was released
\* once, is held or was given up by a flush, and whatever is missing before a held one has
\* a deadline (push, force_flush in sequencer.rs).
THEOREM MovesStayAccounted == StreamSpec => []MovesAccounted
<1>1. StreamInv => MovesAccounted
  BY DEF StreamInv, MovesAccounted
<1> QED
  BY StreamInductive, <1>1, PTL

-----------------------------------------------------------------------------
\* What a step releases or fans out has had no turn before, and what was released or fanned
\* out before had.
LEMMA StepInOrder ==
    ASSUME StreamInv, StreamNext, sessions' = sessions, NEW q \in Seqs, NEW r \in Seqs
    PROVE  /\ released'[q] > released[q] /\ released[r] > 0 => r < q
           /\ relayed'[q] > relayed[q] /\ relayed[r] > 0 => r < q
<1>1. /\ released[r] > 0 => r < nextSeq
      /\ relayed[r] > 0 => r < nextSeq
      /\ nextSeq \in Int /\ released[q] \in Nat /\ relayed[q] \in Nat
  BY StreamAssumption DEF StreamInv, Typed, EveryMoveHasItsPlace, RelayedInTurn, Seqs
<1>2. sessions # sessions + 1
  BY DEF StreamInv, Typed
<1>3. CASE StampMove
  BY <1>1, <1>3 DEF StampMove
<1>4. ASSUME NEW p \in Seqs, PacketArrives(p)
      PROVE  /\ released'[q] > released[q] => q >= nextSeq
             /\ relayed'[q] > relayed[q] => q >= nextSeq
  <2>1. CASE Duplicate(p) \/ Buffer(p)
    BY <1>1, <2>1 DEF Duplicate, Buffer, Holds
  <2>2. CASE InTurn(p)
    <3>1. PICK n \in (p + 1)..(MaxSeq + 1) : Applies(p, p..(n - 1))
      BY <2>2 DEF InTurn
    <3>2. p = nextSeq
      BY <2>2 DEF InTurn
    <3> DEFINE turn == p..(n - 1)
    <3>3. /\ released \in [Seqs -> Nat] /\ relayed \in [Seqs -> Nat]
          /\ released' = Counted(released, turn) /\ relayed' = Counted(relayed, {p})
      BY <3>1 DEF Applies, StreamInv, Typed
    <3> HIDE DEF turn
    <3>4. released'[q] = IF q \in turn THEN released[q] + 1 ELSE released[q]
      BY <3>3, CountedIsCount
    <3>5. relayed'[q] = IF q \in {p} THEN relayed[q] + 1 ELSE relayed[q]
      BY <3>3, CountedIsCount
    <3> QED
      BY <1>1, <3>2, <3>4, <3>5 DEF turn
  <2>3. CASE Flush(p)
    <3>1. Applies(p, pending \cup {p}) /\ p > nextSeq
      BY <2>3 DEF Flush, Early
    <3>2. \A m \in pending : m > nextSeq
      BY DEF StreamInv, EveryMoveHasItsPlace
    <3>3. /\ released \in [Seqs -> Nat] /\ relayed \in [Seqs -> Nat]
          /\ released' = Counted(released, pending \cup {p}) /\ relayed' = Counted(relayed, {p})
      BY <3>1 DEF Applies, StreamInv, Typed
    <3>4. /\ released'[q] > released[q] => q \in pending \cup {p}
          /\ relayed'[q] > relayed[q] => q = p
      BY <1>1, <3>3, CountedIsCount
    <3> QED
      BY <1>1, <3>1, <3>2, <3>4 DEF Seqs
  <2> QED
    BY <1>4, <2>1, <2>2, <2>3 DEF PacketArrives
<1>5. CASE NewSession
  BY <1>2, <1>5 DEF NewSession
<1> QED
  BY <1>1, <1>3, <1>4, <1>5 DEF StreamNext, Seqs

\* Whatever order the packets of a session come in, nothing is released or fanned out after
\* a move that follows it (handle_player_message, MoveSequencer::push).
THEOREM ReleasedInOrder == StreamSpec => OutInOrder
<1> DEFINE InOrder ==
        sessions' = sessions =>
            \A q, r \in Seqs :
                /\ released'[q] > released[q] /\ released[r] > 0 => r < q
                /\ relayed'[q] > relayed[q] /\ relayed[r] > 0 => r < q
<1>1. StreamInv /\ [StreamNext]_streamVars => [InOrder]_streamVars
  BY StepInOrder
<1> QED
  BY StreamInductive, <1>1, PTL DEF StreamSpec, OutInOrder
-----------------------------------------------------------------------------
(***************************************************************************)
(* Rooms.  Time is bounded from both sides because what is used and what   *)
(* is left are counted together: a move takes from the one what it adds to *)
(* the other, but for the buffer.  A flag that fell keeps every later move *)
(* out, since neither the turn nor the time of the colour to move changes  *)
(* when a whole turn is taken back.                                        *)
(***************************************************************************)
Seat == [id : Guests, colour : Colours]

\* Every variable keeps its type.
RoomTypeOK ==
    /\ increment \in Increments
    /\ seats \in Seq(Seat)
    /\ game \in [status : {"none", "InProgress", "Timeout"}, turn : Colours]
    /\ game.status = "none" => game = NoGame
    /\ moves \in Nat /\ stale \in 0..moves
    /\ remaining \in [Colours -> Nat]
    /\ since \in Nat /\ tick \in Nat /\ since <= tick
    /\ takeback \in Guests \cup {Nobody}
    /\ used \in [Colours -> Nat] /\ made \in [Colours -> Nat]
    /\ mixed \in BOOLEAN /\ fallen \in BOOLEAN /\ revived \in BOOLEAN

\* A room has two seats, and a player one of them at most.
SeatedOnce ==
    /\ Len(seats) <= 2
    /\ \A i, j \in DOMAIN seats : seats[i].id = seats[j].id => i = j

\* Time used and left add up to what the clock gave, but for the buffer.
TimeAddsUp ==
    \A c \in Colours :
        /\ remaining[c] + used[c] >= InitialTime + made[c] * increment
        /\ remaining[c] + used[c] <= InitialTime + made[c] * (increment + LatencyBuffer)

\* Once a flag fell no move passes: a takeback of two half-moves leaves the turn where it is
\* and the clock of that colour with it.
FallenStays ==
    /\ revived => mixed
    /\ fallen => mixed \/ (game # NoGame /\ SinceMove > remaining[game.turn] + LatencyBuffer)

\* The turn follows from the moves of this game.
TurnsAlternate == game # NoGame => game.turn = TurnAfter(moves - stale)

\* Who hears of a room has a seat in it, and who does not has lost his connection.
Heard ==
    /\ listening \cup cut = {seats[i].id : i \in DOMAIN seats}
    /\ listening \cap cut = {}

RoomInv == RoomTypeOK /\ SeatedOnce /\ TimeAddsUp /\ FallenStays /\ TurnsAlternate /\ Heard

\* An empty room satisfies the invariant.
LEMMA RoomStarts == RoomInit => RoomInv
<1> SUFFICES ASSUME RoomInit PROVE RoomInv
  OBVIOUS
<1>1. /\ increment \in Nat /\ increment \in Increments /\ InitialTime \in Nat
      /\ LatencyBuffer \in Nat
  BY RoomsAssumption DEF RoomInit
<1>2. RoomTypeOK
  <2>1. game \in [status : {"none", "InProgress", "Timeout"}, turn : Colours]
    BY DEF RoomInit, NoGame, Colours
  <2>2. /\ remaining \in [Colours -> Nat]
        /\ used \in [Colours -> Nat] /\ made \in [Colours -> Nat]
    BY <1>1 DEF RoomInit, Zero
  <2>3. seats \in Seq(Seat)
    BY EmptySeq DEF RoomInit
  <2>4. /\ moves \in Nat /\ stale \in 0..moves /\ since \in Nat /\ tick \in Nat
        /\ since <= tick /\ takeback \in Guests \cup {Nobody} /\ game = NoGame
    BY DEF RoomInit
  <2>5. mixed \in BOOLEAN /\ fallen \in BOOLEAN /\ revived \in BOOLEAN
    BY DEF RoomInit
  <2> QED
    BY <1>1, <2>1, <2>2, <2>3, <2>4, <2>5 DEF RoomTypeOK
<1>3. SeatedOnce /\ Heard
  BY DEF RoomInit, SeatedOnce, Heard
<1>4. TimeAddsUp
  <2> SUFFICES ASSUME NEW c \in Colours
               PROVE  /\ remaining[c] + used[c] >= InitialTime + made[c] * increment
                      /\ remaining[c] + used[c] <=
                            InitialTime + made[c] * (increment + LatencyBuffer)
    BY DEF TimeAddsUp
  <2>1. remaining[c] = InitialTime /\ used[c] = 0 /\ made[c] = 0
    BY DEF RoomInit, Zero
  <2> QED
    BY <1>1, <2>1
<1> QED
  BY <1>2, <1>3, <1>4 DEF RoomInit, RoomInv, FallenStays, TurnsAlternate

\* Taking a whole turn back leaves the turn where it is.
LEMMA Alternate ==
    ASSUME NEW n \in Nat
    PROVE  /\ TurnAfter(n + 1) = OtherColour(TurnAfter(n))
           /\ n >= 2 => TurnAfter(n - 2) = TurnAfter(n)
           /\ TurnAfter(n) \in Colours
BY DEF TurnAfter, OtherColour, Colours

\* What every move adds to a product.
LEMMA OneMoreMove ==
    ASSUME NEW m \in Nat, NEW k \in Nat
    PROVE  (m + 1) * k = m * k + k /\ m * k \in Nat
OBVIOUS

\* The room with one seat fewer.
LEMMA SeatGoes ==
    ASSUME seats \in Seq(Seat), SeatedOnce, NEW i \in DOMAIN seats,
           NEW less, less = RemoveAt(seats, i)
    PROVE  /\ less \in Seq(Seat)
           /\ Len(less) = Len(seats) - 1
           /\ \A j, k \in DOMAIN less : less[j].id = less[k].id => j = k
           /\ {less[j].id : j \in DOMAIN less} =
                {seats[j].id : j \in DOMAIN seats} \ {seats[i].id}
<1> DEFINE before == SubSeq(seats, 1, i - 1)
           after == SubSeq(seats, i + 1, Len(seats))
<1>1. less = before \o after
  BY DEF RemoveAt
<1>2. Len(seats) \in Nat /\ DOMAIN seats = 1..Len(seats) /\ i \in 1..Len(seats)
      /\ \A j \in 1..Len(seats) : seats[j] \in Seat
  BY LenProperties, ElementOfSeq
<1>3. /\ before \in Seq(Seat) /\ Len(before) = i - 1
      /\ \A j \in 1..(i - 1) : before[j] = seats[j]
  <2>1. /\ 1 \in Int /\ i - 1 \in Int /\ \A j \in 1..(i - 1) : seats[j] \in Seat
        /\ i - 1 - 1 + 1 = i - 1 /\ (IF 1 <= i - 1 THEN i - 1 - 1 + 1 ELSE 0) = i - 1
    BY <1>2
  <2>2. /\ before \in Seq(Seat) /\ Len(before) = IF 1 <= i - 1 THEN i - 1 - 1 + 1 ELSE 0
        /\ \A j \in 1..(i - 1 - 1 + 1) : before[j] = seats[1 + j - 1]
    BY <2>1, SubSeqProperties
  <2> QED
    BY <1>2, <2>1, <2>2
<1>4. /\ after \in Seq(Seat) /\ Len(after) = Len(seats) - i
      /\ \A j \in 1..(Len(seats) - i) : after[j] = seats[i + j]
  <2>1. /\ i + 1 \in Int /\ Len(seats) \in Int
        /\ \A j \in (i + 1)..Len(seats) : seats[j] \in Seat
    BY <1>2
  <2>2. /\ after \in Seq(Seat)
        /\ Len(after) = IF i + 1 <= Len(seats) THEN Len(seats) - (i + 1) + 1 ELSE 0
        /\ \A j \in 1..(Len(seats) - (i + 1) + 1) : after[j] = seats[i + 1 + j - 1]
    BY <2>1, SubSeqProperties
  <2> HIDE DEF after
  <2>3. Len(seats) - (i + 1) + 1 = Len(seats) - i
    BY <1>2
  <2>4. \A j \in 1..(Len(seats) - i) : i + 1 + j - 1 = i + j
    BY <1>2
  <2>5. Len(after) = Len(seats) - i
    BY <1>2, <2>2
  <2>6. \A j \in 1..(Len(seats) - i) : after[j] = seats[i + j]
    BY <2>2, <2>3, <2>4
  <2> QED
    BY <2>2, <2>5, <2>6
<1> HIDE DEF before, after
<1>5. /\ less \in Seq(Seat) /\ Len(less) = Len(before) + Len(after)
      /\ \A j \in 1..(Len(before) + Len(after)) :
            less[j] = IF j <= Len(before) THEN before[j] ELSE after[j - Len(before)]
  <2>1. /\ before \o after \in Seq(Seat) /\ Len(before \o after) = Len(before) + Len(after)
        /\ \A j \in 1..(Len(before) + Len(after)) :
            (before \o after)[j] = IF j <= Len(before) THEN before[j] ELSE after[j - Len(before)]
    BY <1>3, <1>4, ConcatProperties
  <2> QED
    BY <1>1, <2>1
<1>6. /\ Len(less) = Len(seats) - 1 /\ DOMAIN less = 1..(Len(seats) - 1)
      /\ \A j \in 1..(Len(seats) - 1) : less[j] = IF j < i THEN seats[j] ELSE seats[j + 1]
  <2>1. Len(before) + Len(after) = Len(seats) - 1 /\ Len(less) = Len(seats) - 1
    BY <1>2, <1>3, <1>4, <1>5
  <2>2. DOMAIN less = 1..(Len(seats) - 1)
    BY <1>5, <2>1, LenProperties
  <2>3. ASSUME NEW j \in 1..(Len(seats) - 1)
        PROVE  less[j] = IF j < i THEN seats[j] ELSE seats[j + 1]
    <3>1. less[j] = IF j <= Len(before) THEN before[j] ELSE after[j - Len(before)]
      BY <1>5, <2>1, <2>3
    <3>2. CASE j < i
      BY <1>2, <1>3, <3>1, <3>2
    <3>3. CASE j >= i
      <4>1. ~(j <= Len(before)) /\ j - Len(before) \in 1..(Len(seats) - i)
            /\ i + (j - Len(before)) = j + 1
        BY <1>2, <1>3, <2>3, <3>3
      <4> QED
        BY <1>2, <1>4, <3>1, <3>3, <4>1
    <3> QED
      BY <1>2, <3>2, <3>3
  <2> QED
    BY <2>1, <2>2, <2>3
<1>7. \A j, k \in DOMAIN less : less[j].id = less[k].id => j = k
  BY <1>2, <1>6 DEF SeatedOnce
<1>8. {less[j].id : j \in DOMAIN less} = {seats[j].id : j \in DOMAIN seats} \ {seats[i].id}
  <2>1. ASSUME NEW j \in DOMAIN seats, seats[j].id # seats[i].id
        PROVE  \E k \in DOMAIN less : less[k].id = seats[j].id
    <3>1. CASE j < i
      BY <1>2, <1>6, <3>1
    <3>2. CASE j > i
      <4>1. j - 1 \in DOMAIN less /\ less[j - 1] = seats[j]
        BY <1>2, <1>6, <3>2
      <4> QED
        BY <4>1
    <3> QED
      BY <1>2, <2>1, <3>1, <3>2
  <2>2. ASSUME NEW k \in DOMAIN less
        PROVE  \E j \in DOMAIN seats : j # i /\ less[k] = seats[j]
    BY <1>2, <1>6
  <2>3. \A j \in DOMAIN seats : j # i => seats[j].id # seats[i].id
    BY DEF SeatedOnce
  <2> QED
    BY <2>1, <2>2, <2>3
<1> QED
  BY <1>1, <1>5, <1>6, <1>7, <1>8

\* The room with one seat more.
LEMMA SeatComes ==
    ASSUME seats \in Seq(Seat), SeatedOnce, Len(seats) < 2,
           NEW p \in Guests, ~Seated(p), NEW c \in Colours
    PROVE  LET more == Append(seats, [id |-> p, colour |-> c])
           IN  /\ more \in Seq(Seat)
               /\ Len(more) <= 2
               /\ \A j, k \in DOMAIN more : more[j].id = more[k].id => j = k
               /\ {more[j].id : j \in DOMAIN more} = {seats[j].id : j \in DOMAIN seats} \cup {p}
<1> DEFINE new == [id |-> p, colour |-> c]
           more == Append(seats, new)
<1>1. new \in Seat /\ new.id = p
  BY DEF Seat
<1> HIDE DEF new
<1>2. /\ more \in Seq(Seat) /\ Len(more) = Len(seats) + 1
      /\ \A j \in 1..Len(seats) : more[j] = seats[j]
      /\ more[Len(seats) + 1] = new
      /\ DOMAIN more = DOMAIN seats \cup {Len(seats) + 1} /\ DOMAIN seats = 1..Len(seats)
  BY <1>1, AppendProperties
<1> HIDE DEF more
<1>3. \A j \in DOMAIN seats : seats[j].id # p
  BY DEF Seated
<1>4. \A j, k \in DOMAIN more : more[j].id = more[k].id => j = k
  BY <1>1, <1>2, <1>3 DEF SeatedOnce
<1>5. {more[j].id : j \in DOMAIN more} = {seats[j].id : j \in DOMAIN seats} \cup {p}
  BY <1>1, <1>2
<1> QED
  BY <1>2, <1>4, <1>5 DEF new, more

\* Every message, every lost connection and every tick keep it.
LEMMA RoomStep == RoomInv /\ [RoomNext]_roomVars => RoomInv'
<1> SUFFICES ASSUME RoomInv, [RoomNext]_roomVars PROVE RoomInv'
  OBVIOUS
<1> USE RoomsAssumption
<1> USE DEF RoomInv
<1>1. /\ increment \in Nat /\ InitialTime \in Nat /\ LatencyBuffer \in Nat
      /\ \A c \in Colours : remaining[c] \in Nat /\ used[c] \in Nat /\ made[c] \in Nat
      /\ SinceMove \in Nat
      /\ game.turn \in Colours
      /\ seats \in Seq(Seat) /\ Len(seats) \in Nat /\ Len(seats) <= 2
  <2>1. seats \in Seq(Seat) /\ Len(seats) \in Nat /\ Len(seats) <= 2
    BY LenProperties DEF RoomTypeOK, SeatedOnce
  <2>2. SinceMove \in Nat
    BY DEF RoomTypeOK, SinceMove
  <2> QED
    BY <2>1, <2>2 DEF RoomTypeOK
<1>2. ASSUME NEW p \in Guests, JoinRoom(p) PROVE RoomInv'
  <2> DEFINE c == IF seats = <<>> THEN "White" ELSE "Black"
             more == Append(seats, [id |-> p, colour |-> c])
  <2>1. c \in Colours /\ seats' = more
    BY <1>2 DEF JoinRoom, Colours
  <2> HIDE DEF c
  <2>2. /\ more \in Seq(Seat)
        /\ Len(more) <= 2
        /\ \A j, k \in DOMAIN more : more[j].id = more[k].id => j = k
        /\ {more[j].id : j \in DOMAIN more} = {seats[j].id : j \in DOMAIN seats} \cup {p}
    <3>1. Len(seats) < 2 /\ ~Seated(p)
      BY <1>2 DEF JoinRoom
    <3> QED
      BY <1>1, <2>1, <3>1, SeatComes
  <2> HIDE DEF more
  <2>3. SeatedOnce' /\ Heard'
    <3>1. \A j \in DOMAIN seats : seats[j].id # p
      BY <1>2 DEF JoinRoom, Seated
    <3>2. p \notin {seats[j].id : j \in DOMAIN seats}
      BY <3>1
    <3>3. listening' = listening \cup {p} /\ cut' = cut
      BY <1>2 DEF JoinRoom
    <3>4. Heard'
      <4>1. {seats'[i].id : i \in DOMAIN seats'} = {seats[i].id : i \in DOMAIN seats} \cup {p}
        BY <2>1, <2>2
      <4> HIDE DEF RoomInv
      <4>2. /\ listening \cup cut = {seats[i].id : i \in DOMAIN seats}
            /\ listening \cap cut = {}
        BY DEF RoomInv, Heard
      <4> QED
        BY <3>2, <3>3, <4>1, <4>2 DEF Heard
    <3> QED
      BY <2>1, <2>2, <3>4 DEF SeatedOnce
  <2>4. RoomTypeOK'
    <3>1. /\ game' \in [status : {"none", "InProgress", "Timeout"}, turn : Colours]
          /\ game'.status = "none" => game' = NoGame
          /\ since' \in Nat /\ since' <= tick /\ stale' \in 0..moves /\ fallen' \in BOOLEAN
      <4>1. CASE Len(seats) = 1
        <5>1. game' = NewGame /\ since' = tick /\ stale' = moves /\ fallen' = FALSE
          BY <1>2, <4>1 DEF JoinRoom
        <5>2. NewGame \in [status : {"none", "InProgress", "Timeout"}, turn : Colours]
              /\ NewGame.status = "InProgress"
          BY DEF NewGame, Colours
        <5>3. moves \in Nat /\ tick \in Nat
          BY DEF RoomTypeOK
        <5>4. since' \in Nat /\ since' <= tick
          BY <5>1, <5>3
        <5>6. stale' \in 0..moves
          BY <5>1, <5>3
        <5>7. fallen' \in BOOLEAN
          BY <5>1
        <5>5. /\ game' \in [status : {"none", "InProgress", "Timeout"}, turn : Colours]
              /\ game'.status # "none"
          BY <5>1, <5>2
        <5> QED
          BY <5>4, <5>5, <5>6, <5>7
      <4>2. CASE Len(seats) # 1
        <5>1. UNCHANGED <<game, since, stale, fallen>>
          BY <1>2, <4>2 DEF JoinRoom
        <5> QED
          BY <5>1 DEF RoomTypeOK
      <4> QED
        BY <4>1, <4>2
    <3>2. UNCHANGED <<increment, moves, remaining, takeback, tick, used, made, mixed, revived>>
      BY <1>2 DEF JoinRoom
    <3> QED
      BY <2>1, <2>2, <3>1, <3>2 DEF RoomTypeOK
  <2>5. TimeAddsUp'
    BY <1>2 DEF JoinRoom, TimeAddsUp
  <2>6. TurnsAlternate' /\ FallenStays'
    <3>1. CASE Len(seats) = 1
      <4>1. game' = NewGame /\ stale' = moves /\ moves' = moves /\ fallen' = FALSE
            /\ UNCHANGED <<revived, mixed>>
        BY <1>2, <3>1 DEF JoinRoom
      <4> QED
        BY <4>1 DEF TurnsAlternate, FallenStays, NewGame, TurnAfter, RoomTypeOK
    <3>2. CASE Len(seats) # 1
      BY <1>2, <3>2 DEF JoinRoom, TurnsAlternate, FallenStays, SinceMove
    <3> QED
      BY <3>1, <3>2
  <2> QED
    BY <2>3, <2>4, <2>5, <2>6
<1>3. ASSUME NEW p \in Guests, TimesOut(p) PROVE RoomInv'
  <2>1. RoomTypeOK'
    BY <1>3 DEF TimesOut, RoomTypeOK, NoGame
  <2>2. SeatedOnce' /\ TimeAddsUp' /\ Heard'
    BY <1>3 DEF TimesOut, SeatedOnce, TimeAddsUp, Heard
  <2>3. game'.turn = game.turn /\ game'.status = "Timeout" /\ game' # NoGame
    BY <1>3 DEF TimesOut, RoomTypeOK, NoGame
  <2>4. FallenStays' /\ TurnsAlternate'
    BY <1>3, <2>3 DEF TimesOut, FallenStays, TurnsAlternate, SinceMove
  <2> QED
    BY <2>1, <2>2, <2>4
<1>4. ASSUME NEW p \in Guests, SendMove(p) PROVE RoomInv'
  <2> DEFINE c == game.turn
  <2>1. /\ SinceMove <= remaining[c] + LatencyBuffer
        /\ remaining' = [remaining EXCEPT ![c] = Spare(remaining[c]) + increment]
        /\ used' = [used EXCEPT ![c] = used[c] + SinceMove]
        /\ made' = [made EXCEPT ![c] = made[c] + 1]
        /\ since' = tick /\ tick' = tick /\ game # NoGame
        /\ UNCHANGED <<increment, seats, takeback, listening, cut, stale, mixed, fallen>>
    BY <1>4 DEF SendMove
  <2>2. Spare(remaining[c]) \in Nat
    BY <1>1 DEF Spare
  <2>3. c \in Colours /\ OtherColour(c) \in Colours
    BY <1>1 DEF OtherColour, Colours
  <2>4. RoomTypeOK'
    <3>1. /\ game' \in [status : {"none", "InProgress", "Timeout"}, turn : Colours]
          /\ game'.status = "none" => game' = NoGame
          /\ moves' \in Nat /\ moves' >= moves /\ revived' \in BOOLEAN
      <4>1. CASE game.status = "InProgress"
        <5>1. /\ game' = [game EXCEPT !.turn = OtherColour(c)]
              /\ moves' = moves + 1 /\ revived' = (revived \/ fallen)
          BY <1>4, <4>1 DEF SendMove
        <5>2. game' \in [status : {"none", "InProgress", "Timeout"}, turn : Colours]
              /\ game'.status = "InProgress"
          BY <2>3, <4>1, <5>1 DEF RoomTypeOK
        <5> QED
          BY SMTT(30), <5>1, <5>2 DEF RoomTypeOK
      <4>2. CASE game.status # "InProgress"
        BY <1>4, <4>2 DEF SendMove, RoomTypeOK
      <4> QED
        BY <4>1, <4>2
    <3>2. /\ remaining' \in [Colours -> Nat] /\ used' \in [Colours -> Nat]
          /\ made' \in [Colours -> Nat]
      <4>1. /\ Spare(remaining[c]) + increment \in Nat /\ used[c] + SinceMove \in Nat
            /\ made[c] + 1 \in Nat
        BY <1>1, <2>2
      <4> QED
        BY <2>1, <4>1 DEF RoomTypeOK
    <3> QED
      BY SMTT(30), <2>1, <3>1, <3>2 DEF RoomTypeOK
  <2>5. TimeAddsUp'
    <3> SUFFICES ASSUME NEW d \in Colours
                 PROVE  /\ remaining'[d] + used'[d] >= InitialTime + made'[d] * increment
                        /\ remaining'[d] + used'[d] <=
                              InitialTime + made'[d] * (increment + LatencyBuffer)
      BY <2>1 DEF TimeAddsUp
    <3>1. CASE d # c
      BY <2>1, <3>1 DEF TimeAddsUp, RoomTypeOK
    <3>2. CASE d = c
      <4>1. /\ remaining'[d] = Spare(remaining[d]) + increment
            /\ used'[d] = used[d] + SinceMove
            /\ made'[d] = made[d] + 1
        BY <2>1, <2>3, <3>2 DEF RoomTypeOK
      <4>2. /\ made'[d] * increment = made[d] * increment + increment
            /\ made[d] * increment \in Nat
            /\ made'[d] * (increment + LatencyBuffer) =
                 made[d] * (increment + LatencyBuffer) + (increment + LatencyBuffer)
            /\ made[d] * (increment + LatencyBuffer) \in Nat
        <5>1. made[d] \in Nat /\ increment + LatencyBuffer \in Nat /\ increment \in Nat
          BY <1>1
        <5>2. /\ (made[d] + 1) * increment = made[d] * increment + increment
              /\ made[d] * increment \in Nat
          BY <5>1, OneMoreMove
        <5>3. /\ (made[d] + 1) * (increment + LatencyBuffer) =
                   made[d] * (increment + LatencyBuffer) + (increment + LatencyBuffer)
              /\ made[d] * (increment + LatencyBuffer) \in Nat
          BY <5>1, OneMoreMove
        <5> QED
          BY <4>1, <5>2, <5>3
      <4>3. /\ remaining[d] + used[d] >= InitialTime + made[d] * increment
            /\ remaining[d] + used[d] <=
                 InitialTime + made[d] * (increment + LatencyBuffer)
        BY DEF TimeAddsUp
      <4>4. SinceMove <= remaining[d] + LatencyBuffer
        BY <2>1, <3>2
      <4>5. /\ remaining[d] \in Nat /\ used[d] \in Nat /\ SinceMove \in Nat
            /\ InitialTime \in Nat /\ increment \in Nat /\ LatencyBuffer \in Nat
        BY <1>1
      <4>6. \/ SinceMove < remaining[d] /\ remaining'[d] = remaining[d] - SinceMove + increment
            \/ SinceMove >= remaining[d] /\ remaining'[d] = increment
        BY <4>1, <4>5 DEF Spare
      <4> HIDE DEF c
      <4>7. remaining'[d] + used'[d] >= InitialTime + made'[d] * increment
        BY <4>1, <4>2, <4>3, <4>5, <4>6
      <4>8. remaining'[d] + used'[d] <= InitialTime + made'[d] * (increment + LatencyBuffer)
        BY <4>1, <4>2, <4>3, <4>4, <4>5, <4>6
      <4> QED
        BY <4>7, <4>8
    <3> QED
      BY <3>1, <3>2
  <2>6. TurnsAlternate' /\ FallenStays'
    <3>1. fallen => mixed
      BY <1>1, <2>1 DEF FallenStays
    <3>2. revived' => mixed
      BY <1>4, <3>1 DEF SendMove, FallenStays
    <3>3. TurnsAlternate'
      <4>1. CASE game.status = "InProgress"
        <5>1. game'.turn = OtherColour(game.turn) /\ moves' = moves + 1 /\ stale' = stale
          BY <1>4, <4>1 DEF SendMove, RoomTypeOK
        <5>2. moves' - stale' = (moves - stale) + 1 /\ moves - stale \in Nat
          BY <5>1 DEF RoomTypeOK
        <5> QED
          BY <2>1, <5>1, <5>2, Alternate DEF TurnsAlternate
      <4>2. CASE game.status # "InProgress"
        BY <1>4, <4>2 DEF SendMove, TurnsAlternate
      <4> QED
        BY <4>1, <4>2
    <3> QED
      BY <2>1, <3>1, <3>2, <3>3 DEF FallenStays
  <2>7. SeatedOnce' /\ Heard'
    BY <2>1 DEF SeatedOnce, Heard
  <2> QED
    BY <2>4, <2>5, <2>6, <2>7
<1>5. ASSUME NEW p \in Guests, LeaveRoom(p) PROVE RoomInv'
  <2> PICK i \in DOMAIN seats : seats[i].id = p /\ seats' = RemoveAt(seats, i)
    BY <1>5 DEF LeaveRoom
  <2>1. /\ seats' \in Seq(Seat)
        /\ Len(seats') = Len(seats) - 1
        /\ \A j, k \in DOMAIN seats' : seats'[j].id = seats'[k].id => j = k
        /\ {seats'[j].id : j \in DOMAIN seats'} = {seats[j].id : j \in DOMAIN seats} \ {p}
    <3>1. SeatedOnce /\ seats' = RemoveAt(seats, i)
      OBVIOUS
    <3>2. \A less : less = RemoveAt(seats, i) =>
            /\ less \in Seq(Seat)
            /\ Len(less) = Len(seats) - 1
            /\ \A j, k \in DOMAIN less : less[j].id = less[k].id => j = k
            /\ {less[j].id : j \in DOMAIN less} =
                 {seats[j].id : j \in DOMAIN seats} \ {seats[i].id}
      BY <1>1, <3>1, SeatGoes
    <3> QED
      BY <3>1, <3>2
  <2>2. SeatedOnce' /\ Heard'
    <3>1. listening' = listening \ {p} /\ cut' = cut \ {p}
      BY <1>5 DEF LeaveRoom
    <3>2. Heard'
      BY <2>1, <3>1 DEF Heard
    <3> QED
      BY <1>1, <2>1, <3>2 DEF SeatedOnce
  <2>3. CASE Len(seats) = 1
    <3>1. /\ game' = NoGame /\ moves' = 0 /\ since' = tick /\ takeback' = Nobody
          /\ remaining' = [d \in Colours |-> InitialTime]
          /\ used' = Zero /\ made' = Zero /\ stale' = 0
          /\ mixed' = FALSE /\ fallen' = FALSE /\ revived' = FALSE
          /\ UNCHANGED <<increment, tick>>
      BY <1>5, <2>3 DEF LeaveRoom
    <3>2. RoomTypeOK'
      <4>1. game' \in [status : {"none", "InProgress", "Timeout"}, turn : Colours]
        BY <3>1 DEF NoGame, Colours
      <4>2. /\ remaining' \in [Colours -> Nat]
            /\ used' \in [Colours -> Nat] /\ made' \in [Colours -> Nat]
        BY <1>1, <3>1 DEF Zero
      <4>3. /\ moves' \in Nat /\ stale' \in 0..moves' /\ since' \in Nat /\ tick' \in Nat
            /\ since' <= tick' /\ takeback' \in Guests \cup {Nobody}
            /\ increment' \in Increments
            /\ mixed' \in BOOLEAN /\ fallen' \in BOOLEAN /\ revived' \in BOOLEAN
        <5>1. tick \in Nat /\ increment \in Increments
          BY DEF RoomTypeOK
        <5>2. moves' \in Nat /\ stale' \in 0..moves' /\ takeback' \in Guests \cup {Nobody}
          BY <3>1
        <5>3. mixed' \in BOOLEAN /\ fallen' \in BOOLEAN /\ revived' \in BOOLEAN
          BY <3>1
        <5> QED
          BY <3>1, <5>1, <5>2, <5>3
      <4> QED
        BY <2>1, <3>1, <4>1, <4>2, <4>3 DEF RoomTypeOK
    <3>3. TimeAddsUp'
      <4> SUFFICES ASSUME NEW d \in Colours
                   PROVE  /\ remaining'[d] + used'[d] >= InitialTime + made'[d] * increment
                          /\ remaining'[d] + used'[d] <=
                                InitialTime + made'[d] * (increment + LatencyBuffer)
        BY <3>1 DEF TimeAddsUp
      <4>1. remaining'[d] = InitialTime /\ used'[d] = 0 /\ made'[d] = 0
        BY <3>1 DEF Zero
      <4> QED
        BY <1>1, <4>1
    <3> QED
      BY <2>2, <3>1, <3>2, <3>3 DEF FallenStays, TurnsAlternate
  <2>4. CASE Len(seats) # 1
    <3>1. /\ UNCHANGED <<game, moves, remaining, since, takeback, increment, tick>>
          /\ UNCHANGED <<used, made, stale, mixed, fallen, revived>>
      BY <1>5, <2>4 DEF LeaveRoom, roomHistory
    <3> QED
      BY <2>1, <2>2, <3>1 DEF RoomTypeOK, TimeAddsUp, FallenStays, TurnsAlternate, SinceMove
  <2> QED
    BY <2>3, <2>4
<1>6. ASSUME NEW p \in Guests, OfferTakeback(p) \/ RejectTakeback(p) PROVE RoomInv'
  <2>1. /\ UNCHANGED <<increment, seats, game, moves, remaining, since, listening, tick, cut>>
        /\ UNCHANGED <<used, made, stale, mixed, fallen, revived>>
        /\ takeback' \in Guests \cup {Nobody}
    BY <1>6 DEF OfferTakeback, RejectTakeback, roomHistory
  <2> QED
    BY <2>1 DEF RoomTypeOK, SeatedOnce, TimeAddsUp, FallenStays, TurnsAlternate, SinceMove,
                Heard
<1>7. ASSUME NEW p \in Guests, AcceptTakeback(p) PROVE RoomInv'
  <2>1. /\ moves >= 2 /\ moves' = moves - 2 /\ moves' \in Nat /\ moves \in Nat
        /\ game' = [NewGame EXCEPT !.turn = TurnAfter(moves')]
        /\ takeback' = Nobody /\ stale' = 0
        /\ mixed' = (mixed \/ stale > 0)
        /\ UNCHANGED <<increment, seats, remaining, since, listening, tick, cut, used, made,
                       fallen, revived>>
    BY <1>7 DEF AcceptTakeback, Kept, RoomTypeOK
  <2>2. /\ TurnAfter(moves') \in Colours /\ TurnAfter(moves') = TurnAfter(moves)
        /\ moves' - stale' = moves'
    BY <2>1, Alternate
  <2>3. /\ game' \in [status : {"none", "InProgress", "Timeout"}, turn : Colours]
        /\ game'.status = "InProgress" /\ game'.turn = TurnAfter(moves') /\ game' # NoGame
    BY <2>1, <2>2 DEF NewGame, NoGame
  <2>4. RoomTypeOK'
    <3>1. mixed' \in BOOLEAN /\ stale' \in 0..moves'
      BY <2>1 DEF RoomTypeOK
    <3>2. game'.status = "none" => game' = NoGame
      BY <2>3
    <3>3. UNCHANGED <<increment, seats, remaining, since, tick, used, made, fallen, revived>>
      BY <2>1
    <3>4. moves' \in Nat /\ takeback' \in Guests \cup {Nobody}
      BY <2>1
    <3> QED
      BY <2>3, <3>1, <3>2, <3>3, <3>4 DEF RoomTypeOK
  <2>5. SeatedOnce' /\ TimeAddsUp' /\ Heard' /\ TurnsAlternate'
    BY <2>1, <2>2, <2>3 DEF SeatedOnce, TimeAddsUp, Heard, TurnsAlternate
  <2>6. FallenStays'
    <3>1. CASE mixed \/ stale > 0
      BY <2>1, <3>1 DEF FallenStays
    <3>2. CASE ~mixed /\ ~(stale > 0)
      <4>1. stale = 0 /\ moves - stale = moves
        BY <2>1, <3>2 DEF RoomTypeOK
      <4>2. fallen => game'.turn = game.turn /\ game # NoGame
        BY <2>2, <2>3, <3>2, <4>1 DEF FallenStays, TurnsAlternate
      <4> QED
        BY <2>1, <2>3, <3>2, <4>2 DEF FallenStays, SinceMove
    <3> QED
      BY <3>1, <3>2
  <2> QED
    BY <2>4, <2>5, <2>6
<1>8. ASSUME NEW p \in Guests, ConnectionEnds(p) PROVE RoomInv'
  <2>1. /\ UNCHANGED <<increment, seats, game, moves, remaining, since, takeback, tick>>
        /\ UNCHANGED <<used, made, stale, mixed, fallen, revived>>
        /\ p \in listening /\ listening' = listening \ {p} /\ cut' = cut \cup {p}
    BY <1>8 DEF ConnectionEnds, roomHistory
  <2>2. Heard'
    BY <2>1 DEF Heard
  <2> QED
    BY <2>1, <2>2 DEF RoomTypeOK, SeatedOnce, TimeAddsUp, FallenStays, TurnsAlternate,
                      SinceMove
<1>9. ASSUME RoomClockTicks PROVE RoomInv'
  <2>1. /\ UNCHANGED <<increment, seats, game, moves, remaining, since, takeback, listening, cut>>
        /\ UNCHANGED <<used, made, stale, mixed, fallen, revived>>
        /\ tick' = tick + 1
    BY <1>9 DEF RoomClockTicks, roomHistory
  <2>2. FallenStays'
    BY <1>1, <2>1 DEF FallenStays, SinceMove, RoomTypeOK
  <2> QED
    BY <2>1, <2>2 DEF RoomTypeOK, SeatedOnce, TimeAddsUp, TurnsAlternate, Heard
<1>10. ASSUME UNCHANGED roomVars PROVE RoomInv'
  <2>1. /\ UNCHANGED <<increment, seats, game, moves, remaining, since, takeback, listening, cut>>
        /\ UNCHANGED <<used, made, stale, mixed, fallen, revived, tick>>
    BY <1>10 DEF roomVars
  <2> QED
    BY <2>1 DEF RoomTypeOK, SeatedOnce, TimeAddsUp, FallenStays, TurnsAlternate, SinceMove,
                Heard
<1> QED
  BY <1>2, <1>3, <1>4, <1>5, <1>6, <1>7, <1>8, <1>9, <1>10 DEF RoomNext, HandleClientMessage

\* The condition follows from the invariant.
LEMMA RoomSound == RoomInv => RoomsSound
<1> SUFFICES ASSUME RoomInv PROVE RoomsSound
  OBVIOUS
<1>1. ASSUME NEW c \in Colours
      PROVE  /\ used[c] <= InitialTime + made[c] * (increment + LatencyBuffer)
             /\ remaining[c] + used[c] >= InitialTime + made[c] * increment
  <2>1. /\ remaining[c] \in Nat /\ used[c] \in Nat /\ made[c] \in Nat
        /\ increment \in Nat /\ LatencyBuffer \in Nat /\ InitialTime \in Nat
    BY RoomsAssumption DEF RoomInv, RoomTypeOK
  <2>2. made[c] * (increment + LatencyBuffer) \in Nat
    BY <2>1, OneMoreMove
  <2> QED
    BY <2>1, <2>2 DEF RoomInv, TimeAddsUp
<1> QED
  BY <1>1 DEF RoomInv, RoomsSound, TurnsAlternate, FallenStays, Heard

-----------------------------------------------------------------------------
(***************************************************************************)
(* Clocks.  The time given and the time run are weighed against what is    *)
(* left; settling a move is the one step that does all three, so a lemma   *)
(* says what it does under every time control.                             *)
(***************************************************************************)
\* Every variable keeps its type, and a clock was not started in the future.
ClockTypeOK ==
    /\ preset \in Presets
    /\ drilling \in BOOLEAN
    /\ instant \in 0..EndOfDrill
    /\ clock \in [remaining : Nat, since : 0..NoInstant, running : BOOLEAN]
    /\ clock.since # NoInstant => clock.since <= instant
    /\ drill \in [moves : Nat, total : Nat, finished : BOOLEAN]
    /\ granted \in Nat /\ ran \in Nat /\ restopped \in BOOLEAN

\* Under byo-yomi a new period replaces the time that is left: the books close only where
\* no period can be had.
Exact == preset.kind # "ByoYomi" \/ preset.periods = 0

\* A clock that was not stopped twice has lost no time but what it ran.
NothingLost ==
    ~restopped => clock.remaining + ran >= preset.initial
                     + (IF preset.kind = "ByoYomi" THEN 0 ELSE granted)

\* The time of a drill is what its moves took, and what it was given less what is left.
DrillAdds ==
    drilling =>
        /\ drill.total = ran
        /\ drill.finished <=> ~clock.running
        /\ ~drill.finished => clock.since # NoInstant
        /\ ~drill.finished /\ Exact =>
            clock.remaining + drill.total = preset.initial + granted
        /\ drill.finished => Exact /\ drill.total >= preset.initial + granted - After

ClockInv == ClockTypeOK /\ NothingLost /\ DrillAdds

\* A clock that was never read, or one that a drill has started.
LEMMA ClockStarts == ClocksInit => ClockInv
<1> SUFFICES ASSUME ClocksInit PROVE ClockInv
  OBVIOUS
<1>1. /\ EndOfDrill \in Nat /\ preset \in Presets /\ preset.initial \in Nat
      /\ NoInstant = EndOfDrill + 1
  BY ClocksAssumption DEF ClocksInit, NoInstant
<1>2. ClockTypeOK
  <2>1. (IF drilling THEN 0 ELSE NoInstant) \in 0..NoInstant
    BY <1>1
  <2>2. clock \in [remaining : Nat, since : 0..NoInstant, running : BOOLEAN]
    BY <1>1, <2>1 DEF ClocksInit
  <2>3. drill \in [moves : Nat, total : Nat, finished : BOOLEAN]
    BY DEF ClocksInit
  <2>4. clock.since # NoInstant => clock.since <= instant
    BY <1>1 DEF ClocksInit
  <2>5. instant \in 0..EndOfDrill /\ granted \in Nat /\ ran \in Nat
    BY <1>1 DEF ClocksInit
  <2>6. drilling \in BOOLEAN /\ restopped \in BOOLEAN
    BY DEF ClocksInit
  <2> QED
    BY <1>1, <2>2, <2>3, <2>4, <2>5, <2>6 DEF ClockTypeOK
<1>3. NothingLost
  BY <1>1 DEF ClocksInit, NothingLost
<1>4. DrillAdds
  <2>1. drilling => clock.since = 0 /\ clock.running /\ ~drill.finished
    BY DEF ClocksInit
  <2>2. drill.total = 0 /\ ran = 0 /\ granted = 0 /\ clock.remaining = preset.initial
    BY DEF ClocksInit
  <2>3. 0 # NoInstant
    BY <1>1
  <2> QED
    BY <1>1, <2>1, <2>2, <2>3 DEF DrillAdds
<1> QED
  BY <1>2, <1>3, <1>4 DEF ClockInv

\* What every step uses of the types.
LEMMA ClockNumbers ==
    ASSUME ClockTypeOK
    PROVE  /\ Elapsed \in Nat /\ Spent \in Nat
           /\ clock.remaining \in Nat /\ ran \in Nat /\ granted \in Nat
           /\ preset.initial \in Nat /\ preset.increment \in Nat /\ preset.delay \in Nat
           /\ preset.periods \in Nat /\ preset.period \in Nat
           /\ Before \in Nat /\ After \in Nat /\ Refunded(Spent) \in Nat
           /\ instant \in 0..NoInstant /\ instant # NoInstant
           /\ NoInstant \in Nat
<1>1. /\ preset.initial \in Nat /\ preset.increment \in Nat /\ preset.delay \in Nat
      /\ preset.periods \in Nat /\ preset.period \in Nat
  BY ClocksAssumption DEF ClockTypeOK
<1>2. /\ instant \in 0..NoInstant /\ instant # NoInstant /\ NoInstant \in Nat
  BY ClocksAssumption DEF ClockTypeOK, NoInstant
<1>3. Elapsed \in Nat
  <2>1. clock.since \in Nat /\ (clock.since # NoInstant => clock.since <= instant)
    BY <1>2 DEF ClockTypeOK
  <2> QED
    BY <1>2, <2>1 DEF Elapsed
<1>4. Spent \in Nat
  BY <1>3 DEF Spent
<1>5. Before \in Nat /\ After \in Nat
  BY <1>1 DEF Before, After
<1>6. Refunded(Spent) \in Nat
  BY <1>1, <1>4 DEF Refunded, Least
<1> QED
  BY <1>1, <1>2, <1>3, <1>4, <1>5, <1>6 DEF ClockTypeOK

\* What settling a move does to the time that is left.
LEMMA Settling ==
    ASSUME ClockTypeOK
    PROVE  LET left == IF NewPeriod(Spent) THEN preset.period ELSE Settled(Spent)
               given == clock.remaining + Before + Refunded(Spent)
           IN  /\ left + After \in Nat /\ Granted(Spent) \in Nat
               /\ left + After + Spent >=
                    clock.remaining + (IF preset.kind = "ByoYomi" THEN 0 ELSE Granted(Spent))
               /\ Exact => Granted(Spent) = Before + Refunded(Spent) + After
               /\ ~Flagged(Spent) /\ Exact => left + After = given - Spent + After
               /\ Flagged(Spent) => Exact /\ given <= Spent
<1> DEFINE given == clock.remaining + Before + Refunded(Spent)
<1>1. /\ Spent \in Nat /\ clock.remaining \in Nat
      /\ preset.periods \in Nat /\ preset.period \in Nat
      /\ Before \in Nat /\ After \in Nat /\ Refunded(Spent) \in Nat
  BY ClockNumbers
<1>2. given \in Nat
  BY <1>1
<1>3. Settled(Spent) = IF given > Spent THEN given - Spent ELSE 0
  BY DEF Settled, Minus
<1>4. Granted(Spent) = Before + Refunded(Spent) + After
                        + (IF NewPeriod(Spent) THEN preset.period ELSE 0)
  BY DEF Granted
<1>5. NewPeriod(Spent) <=> Settled(Spent) = 0 /\ preset.kind = "ByoYomi" /\ preset.periods > 0
  BY DEF NewPeriod
<1>6. Flagged(Spent) <=> Settled(Spent) = 0 /\ ~NewPeriod(Spent)
  BY DEF Flagged
<1>7. Exact <=> preset.kind # "ByoYomi" \/ preset.periods = 0
  BY DEF Exact
<1>8. CASE NewPeriod(Spent)
  BY <1>1, <1>2, <1>3, <1>4, <1>5, <1>6, <1>7, <1>8
<1>9. CASE ~NewPeriod(Spent)
  BY <1>1, <1>2, <1>3, <1>4, <1>5, <1>6, <1>7, <1>9
<1> QED
  BY <1>8, <1>9

\* Every call of the clock keeps the books, in whichever order the calls come.
LEMMA ClockStep == ClockInv /\ [ClocksNext]_clockVars => ClockInv'
<1> SUFFICES ASSUME ClockInv, [ClocksNext]_clockVars PROVE ClockInv'
  OBVIOUS
<1> USE DEF ClockInv
<1> DEFINE left == IF NewPeriod(Spent) THEN preset.period ELSE Settled(Spent)
           given == clock.remaining + Before + Refunded(Spent)
           byo == preset.kind = "ByoYomi"
<1>n. /\ Elapsed \in Nat /\ Spent \in Nat
      /\ clock.remaining \in Nat /\ ran \in Nat /\ granted \in Nat
      /\ preset.initial \in Nat /\ preset.increment \in Nat /\ preset.delay \in Nat
      /\ preset.periods \in Nat /\ preset.period \in Nat
      /\ Before \in Nat /\ After \in Nat /\ Refunded(Spent) \in Nat
      /\ instant \in 0..NoInstant /\ instant # NoInstant
      /\ NoInstant \in Nat
  BY ClockNumbers
<1>s. /\ left + After \in Nat /\ Granted(Spent) \in Nat
      /\ left + After + Spent >= clock.remaining + (IF byo THEN 0 ELSE Granted(Spent))
      /\ Exact => Granted(Spent) = Before + Refunded(Spent) + After
      /\ ~Flagged(Spent) /\ Exact => left + After = given - Spent + After
      /\ Flagged(Spent) => Exact /\ given <= Spent
  BY Settling
<1>t. /\ drill.moves \in Nat /\ drill.total \in Nat /\ drill.finished \in BOOLEAN
      /\ clock.running \in BOOLEAN /\ instant \in Nat /\ clock.since \in 0..NoInstant
      /\ clock.since # NoInstant => clock.since <= instant
  BY DEF ClockTypeOK
<1> HIDE DEF left
<1>1. ASSUME ClockAdvances PROVE ClockInv'
  <2>1. /\ instant < EndOfDrill /\ instant' = instant + 1
        /\ UNCHANGED <<preset, drilling, clock, drill, granted, ran, restopped>>
    BY <1>1 DEF ClockAdvances
  <2>2. instant' \in 0..EndOfDrill /\ (clock.since # NoInstant => clock.since <= instant')
    BY <1>t, <2>1, ClocksAssumption DEF ClockTypeOK
  <2>3. ClockTypeOK'
    BY <2>1, <2>2 DEF ClockTypeOK
  <2> QED
    BY <2>1, <2>3 DEF NothingLost, DrillAdds, Exact, After
<1>2. ASSUME RecordMove PROVE ClockInv'
  <2>1. /\ drilling /\ ~drill.finished
        /\ drill' = [moves |-> drill.moves + 1, total |-> drill.total + Elapsed,
                     finished |-> Flagged(Spent)]
        /\ granted' = granted + Granted(Spent) /\ ran' = ran + Spent
        /\ clock' = [remaining |-> left + After,
                     since |-> IF Flagged(Spent) THEN NoInstant ELSE instant,
                     running |-> ~Flagged(Spent)]
        /\ UNCHANGED <<preset, drilling, instant, restopped>>
    BY <1>2 DEF RecordMove, left
  <2>2. Flagged(Spent) \in BOOLEAN
    BY DEF Flagged
  <2>3. ClockTypeOK'
    <3>1. drill' \in [moves : Nat, total : Nat, finished : BOOLEAN]
      BY <1>n, <1>t, <2>1, <2>2
    <3>2. clock' \in [remaining : Nat, since : 0..NoInstant, running : BOOLEAN]
          /\ (clock'.since # NoInstant => clock'.since <= instant)
      BY <1>n, <1>s, <1>t, <2>1, <2>2
    <3>3. granted' \in Nat /\ ran' \in Nat
      BY <1>n, <1>s, <2>1
    <3> QED
      BY <2>1, <3>1, <3>2, <3>3 DEF ClockTypeOK
  <2>4. NothingLost'
    <3>1. ~restopped => clock.remaining + ran >= preset.initial + (IF byo THEN 0 ELSE granted)
      BY DEF NothingLost
    <3>2. clock'.remaining = left + After
      BY <2>1
    <3> QED
      BY <1>n, <1>s, <2>1, <3>1, <3>2 DEF NothingLost
  <2>5. DrillAdds'
    <3>1. /\ drill.total = ran /\ clock.running /\ Spent = Elapsed
          /\ Exact => clock.remaining + drill.total = preset.initial + granted
      BY <2>1 DEF DrillAdds, Spent
    <3>2. /\ clock'.remaining = left + After /\ drill'.total = drill.total + Spent
          /\ drill'.finished = Flagged(Spent) /\ clock'.running = ~Flagged(Spent)
          /\ clock'.since = IF Flagged(Spent) THEN NoInstant ELSE instant
      BY <2>1, <3>1
    <3>3. After' = After /\ Exact' = Exact
      BY <2>1 DEF After, Exact
    <3>4. drill'.total = ran'
      BY <2>1, <3>1, <3>2
    <3>5. CASE Flagged(Spent)
      <4>1. Exact /\ given <= Spent /\ Granted(Spent) = Before + Refunded(Spent) + After
        BY <1>s, <3>5
      <4>2. drill'.total >= preset.initial + granted' - After
        BY <1>n, <1>t, <2>1, <3>1, <3>2, <4>1
      <4> QED
        BY <2>1, <3>2, <3>3, <3>4, <3>5, <4>1, <4>2 DEF DrillAdds
    <3>6. CASE ~Flagged(Spent)
      <4>1. Exact => clock'.remaining + drill'.total = preset.initial + granted'
        BY <1>n, <1>s, <1>t, <2>1, <3>1, <3>2, <3>6
      <4> QED
        BY <1>n, <2>1, <3>2, <3>3, <3>4, <3>6, <4>1 DEF DrillAdds
    <3> QED
      BY <3>5, <3>6
  <2> QED
    BY <2>3, <2>4, <2>5
<1>3. ASSUME SettleMove PROVE ClockInv'
  <2>1. /\ ~drilling /\ drill' = [drill EXCEPT !.moves = drill.moves + 1]
        /\ granted' = granted + Granted(Spent) /\ ran' = ran + Spent
        /\ clock' = [remaining |-> left + After, since |-> NoInstant, running |-> FALSE]
        /\ UNCHANGED <<preset, drilling, instant, restopped>>
    BY <1>3 DEF SettleMove, CompleteMove, Called, left
  <2>2. ClockTypeOK'
    <3>1. drill' \in [moves : Nat, total : Nat, finished : BOOLEAN]
      BY <2>1 DEF ClockTypeOK
    <3>2. clock' \in [remaining : Nat, since : 0..NoInstant, running : BOOLEAN]
          /\ clock'.since = NoInstant
      BY <1>n, <1>s, <2>1
    <3>3. granted' \in Nat /\ ran' \in Nat
      BY <1>n, <1>s, <2>1
    <3> QED
      BY <2>1, <3>1, <3>2, <3>3 DEF ClockTypeOK
  <2>3. NothingLost'
    <3>1. ~restopped => clock.remaining + ran >= preset.initial + (IF byo THEN 0 ELSE granted)
      BY DEF NothingLost
    <3>2. clock'.remaining = left + After
      BY <2>1
    <3> QED
      BY <1>n, <1>s, <2>1, <3>1, <3>2 DEF NothingLost
  <2> QED
    BY <2>1, <2>2, <2>3 DEF DrillAdds
<1>4. ASSUME StartClock PROVE ClockInv'
  <2>1. /\ ~drilling /\ drill' = [drill EXCEPT !.moves = drill.moves + 1]
        /\ clock' = [clock EXCEPT !.running = TRUE, !.since = instant]
        /\ UNCHANGED <<preset, drilling, instant, granted, ran, restopped>>
    BY <1>4 DEF StartClock, Called
  <2>2. ClockTypeOK'
    <3>1. drill' \in [moves : Nat, total : Nat, finished : BOOLEAN]
      BY <2>1 DEF ClockTypeOK
    <3>2. clock' \in [remaining : Nat, since : 0..NoInstant, running : BOOLEAN]
          /\ clock'.since = instant
      BY <1>n, <2>1 DEF ClockTypeOK
    <3>3. instant <= instant
      BY <1>t
    <3> QED
      BY <2>1, <3>1, <3>2, <3>3 DEF ClockTypeOK
  <2>3. NothingLost'
    BY <2>1, <2>2 DEF NothingLost, ClockTypeOK
  <2> QED
    BY <2>1, <2>2, <2>3 DEF DrillAdds
<1>5. ASSUME StopClock PROVE ClockInv'
  <2>1. /\ ~drilling /\ drill' = [drill EXCEPT !.moves = drill.moves + 1]
        /\ clock' = [clock EXCEPT !.remaining = Minus(clock.remaining, Elapsed),
                                 !.running = FALSE]
        /\ ran' = ran + Spent
        /\ restopped' = (restopped \/ (~clock.running /\ Elapsed > 0))
        /\ UNCHANGED <<preset, drilling, instant, granted>>
    BY <1>5 DEF StopClock, Called
  <2>2. Minus(clock.remaining, Elapsed) \in Nat
        /\ Minus(clock.remaining, Elapsed) + Elapsed >= clock.remaining
    BY <1>n DEF Minus
  <2>3. ClockTypeOK'
    <3>1. drill' \in [moves : Nat, total : Nat, finished : BOOLEAN]
      BY <2>1 DEF ClockTypeOK
    <3>2. clock' \in [remaining : Nat, since : 0..NoInstant, running : BOOLEAN]
          /\ clock'.since = clock.since
      BY <2>1, <2>2 DEF ClockTypeOK
    <3>3. ran' \in Nat /\ restopped' \in BOOLEAN
      BY <1>n, <2>1
    <3> QED
      BY <2>1, <3>1, <3>2, <3>3 DEF ClockTypeOK
  <2>4. NothingLost'
    <3>1. ~restopped => clock.remaining + ran >= preset.initial + (IF byo THEN 0 ELSE granted)
      BY DEF NothingLost
    <3>2. clock'.remaining = Minus(clock.remaining, Elapsed)
      BY <2>1, <2>3 DEF ClockTypeOK
    <3>3. ~restopped' => ~restopped /\ Spent = Elapsed
      <4>1. CASE clock.running
        BY <2>1, <4>1 DEF Spent
      <4>2. CASE ~clock.running
        <5>1. restopped' <=> restopped \/ Elapsed > 0
          BY <2>1, <4>2
        <5>2. Spent = 0
          BY <4>2 DEF Spent
        <5> QED
          BY <1>n, <5>1, <5>2
      <4> QED
        BY <4>1, <4>2
    <3> QED
      BY <1>n, <2>1, <2>2, <3>1, <3>2, <3>3 DEF NothingLost
  <2> QED
    BY <2>1, <2>3, <2>4 DEF DrillAdds
<1>6. ASSUME ApplyIncrement PROVE ClockInv'
  <2>1. /\ ~drilling /\ drill' = [drill EXCEPT !.moves = drill.moves + 1]
        /\ clock' = [clock EXCEPT !.remaining = clock.remaining + preset.increment]
        /\ granted' = granted + preset.increment
        /\ UNCHANGED <<preset, drilling, instant, ran, restopped>>
    BY <1>6 DEF ApplyIncrement, Called
  <2>2. ClockTypeOK'
    BY <1>n, <2>1 DEF ClockTypeOK
  <2>3. NothingLost'
    <3>1. ~restopped => clock.remaining + ran >= preset.initial + (IF byo THEN 0 ELSE granted)
      BY DEF NothingLost
    <3>2. clock'.remaining = clock.remaining + preset.increment
      BY <2>1 DEF ClockTypeOK
    <3> QED
      BY <1>n, <2>1, <3>1, <3>2 DEF NothingLost
  <2> QED
    BY <2>1, <2>2, <2>3 DEF DrillAdds
<1>7. ASSUME ApplyDelay PROVE ClockInv'
  <2> DEFINE back == Least(Elapsed, preset.delay)
  <2>1. /\ ~drilling /\ drill' = [drill EXCEPT !.moves = drill.moves + 1]
        /\ clock' = [clock EXCEPT !.remaining = clock.remaining + back]
        /\ granted' = granted + back
        /\ UNCHANGED <<preset, drilling, instant, ran, restopped>>
    BY <1>7 DEF ApplyDelay, Called
  <2>2. back \in Nat
    BY <1>n DEF Least
  <2> HIDE DEF back
  <2>3. ClockTypeOK'
    BY <1>n, <2>1, <2>2 DEF ClockTypeOK
  <2>4. NothingLost'
    <3>1. ~restopped => clock.remaining + ran >= preset.initial + (IF byo THEN 0 ELSE granted)
      BY DEF NothingLost
    <3>2. clock'.remaining = clock.remaining + back
      BY <2>1 DEF ClockTypeOK
    <3> QED
      BY <1>n, <2>1, <2>2, <3>1, <3>2 DEF NothingLost
  <2> QED
    BY <2>1, <2>3, <2>4 DEF DrillAdds
<1>8. ASSUME UNCHANGED clockVars PROVE ClockInv'
  BY <1>8 DEF clockVars, ClockTypeOK, NothingLost, DrillAdds, Exact, After
<1> QED
  BY <1>1, <1>2, <1>3, <1>4, <1>5, <1>6, <1>7, <1>8 DEF ClocksNext

\* The condition follows from the invariant.
LEMMA ClockSound == ClockInv => ClocksSound
<1> SUFFICES ASSUME ClockInv PROVE ClocksSound
  OBVIOUS
<1>1. drill.finished \in BOOLEAN /\ clock.running \in BOOLEAN
  BY DEF ClockInv, ClockTypeOK
<1> QED
  BY <1>1 DEF ClockInv, ClocksSound, NothingLost, DrillAdds, Exact

-----------------------------------------------------------------------------
(***************************************************************************)
(* The comparison with a client's clock.  The error of a sample is half    *)
(* the difference of the two delays, which their sum bounds, as long as    *)
(* the send time noted for a ping is the ping's: a number is used once.    *)
(***************************************************************************)
Samples == [ping : PingIds, offset : Int, rtt : Nat]

\* Twice the error of a sample is at most its delay, and one for the rounding.
Close(s) == 2 * (s.offset - Drift) <= s.rtt + 1 /\ 2 * (Drift - s.offset) <= s.rtt + 1

\* Every variable keeps its type.
SyncTypeOK ==
    /\ ms \in Nat
    /\ inFlight \in [PingIds -> Nat \cup {Unsent}]
    /\ samples \in Seq(Samples)
    /\ pings \in SUBSET [id : PingIds, sent : Nat]
    /\ pongs \in SUBSET [id : PingIds, received : Int, sent : Int]
    /\ sampled \in Seq(PingIds)

\* A ping that waits was sent once, at the time noted for it; a pong lies between that
\* time and now.
PingsKept ==
    /\ \A a, b \in pings : a.id = b.id => a = b
    /\ \A a \in pings : a.sent <= ms
    /\ \A id \in PingIds : inFlight[id] # Unsent => [id |-> id, sent |-> inFlight[id]] \in pings
    /\ \A pong \in pongs : \E ping \in pings :
        /\ pong.id = ping.id
        /\ ping.sent <= pong.received - Drift /\ pong.received <= pong.sent
        /\ pong.sent - Drift <= ms

\* Every sample of the window is close, and a ping that was sampled waits no more.
SamplesKept ==
    /\ \A i \in 1..Len(samples) : Close(samples[i])
    /\ \A i \in 1..Len(sampled) :
        inFlight[sampled[i]] = Unsent /\ \E ping \in pings : ping.id = sampled[i]
    /\ \A i, j \in 1..Len(sampled) : sampled[i] = sampled[j] => i = j

SyncInv == SyncTypeOK /\ PingsKept /\ SamplesKept

\* No ping was sent yet.
LEMMA SyncStarts == SyncInit => SyncInv
<1> SUFFICES ASSUME SyncInit PROVE SyncInv
  OBVIOUS
<1>1. samples \in Seq(Samples) /\ sampled \in Seq(PingIds)
      /\ Len(samples) = 0 /\ Len(sampled) = 0
  BY EmptySeq DEF SyncInit
<1>2. \A id \in PingIds : inFlight[id] = Unsent
  BY DEF SyncInit
<1> QED
  BY <1>1, <1>2 DEF SyncInit, SyncInv, SyncTypeOK, PingsKept, SamplesKept

\* Division towards zero loses at most one half.
LEMMA HalfIsClose ==
    ASSUME NEW n \in Int
    PROVE  Half(n) \in Int /\ 2 * Half(n) <= n + 1 /\ n <= 2 * Half(n) + 1
<1>1. CASE n >= 0
  BY <1>1 DEF Half
<1>2. CASE n < 0
  <2>1. -n \in Nat /\ 2 * ((-n) \div 2) <= -n /\ -n <= 2 * ((-n) \div 2) + 1
    BY <1>2
  <2> QED
    BY <1>2, <2>1 DEF Half
<1> QED
  BY <1>1, <1>2

\* The symmetric delay is the worst that is not seen.
LEMMA SampleIsClose ==
    ASSUME ms \in Nat, Drift \in Int, NEW t1 \in Nat, NEW pong,
           pong.received \in Int, pong.sent \in Int,
           t1 <= pong.received - Drift, pong.received <= pong.sent, pong.sent - Drift <= ms
    PROVE  /\ Rtt(t1, pong) \in Nat /\ Offset(t1, pong) \in Int
           /\ 2 * (Offset(t1, pong) - Drift) <= Rtt(t1, pong) + 1
           /\ 2 * (Drift - Offset(t1, pong)) <= Rtt(t1, pong) + 1
<1> DEFINE n == (pong.received - t1) + (pong.sent - ms)
<1>1. n \in Int
  OBVIOUS
<1>2. Offset(t1, pong) = Half(n)
  BY DEF Offset
<1>3. Half(n) \in Int /\ 2 * Half(n) <= n + 1 /\ n <= 2 * Half(n) + 1
  BY <1>1, HalfIsClose
<1>4. Rtt(t1, pong) = ms - t1 - (pong.sent - pong.received) /\ Rtt(t1, pong) \in Nat
  BY DEF Rtt
<1>5. /\ n - 2 * Drift <= Rtt(t1, pong) /\ 2 * Drift - n <= Rtt(t1, pong)
  BY <1>4
<1> HIDE DEF n
<1> QED
  BY <1>1, <1>2, <1>3, <1>4, <1>5

\* Every ping, pong and reset keeps the samples close.
LEMMA SyncStep == SyncInv /\ [SyncNext]_syncVars => SyncInv'
<1> SUFFICES ASSUME SyncInv, [SyncNext]_syncVars PROVE SyncInv'
  OBVIOUS
<1> USE DEF SyncInv
<1> USE ClockSyncAssumption
<1>n. Len(samples) \in Nat /\ Len(sampled) \in Nat
  BY LenProperties DEF SyncTypeOK
<1>1. ASSUME MsPasses PROVE SyncInv'
  <2>1. ms' = ms + 1 /\ UNCHANGED <<inFlight, samples, pings, pongs, sampled>>
    BY <1>1 DEF MsPasses
  <2>2. PingsKept'
    BY <2>1 DEF PingsKept, SyncTypeOK
  <2> QED
    BY <2>1, <2>2 DEF SyncTypeOK, SamplesKept
<1>2. ASSUME ClearSync PROVE SyncInv'
  <2>1. /\ inFlight' = [id \in PingIds |-> Unsent] /\ samples' = <<>>
        /\ UNCHANGED <<ms, pings, pongs, sampled>>
    BY <1>2 DEF ClearSync
  <2>2. samples' \in Seq(Samples) /\ Len(samples') = 0
    BY <2>1, EmptySeq
  <2>3. \A i \in 1..Len(sampled) : sampled[i] \in PingIds
    BY ElementOfSeq DEF SyncTypeOK
  <2>4. \A id \in PingIds : inFlight'[id] = Unsent
    BY <2>1
  <2>5. SyncTypeOK'
    BY <2>1, <2>2 DEF SyncTypeOK
  <2>6. PingsKept' /\ SamplesKept'
    BY <2>1, <2>2, <2>3, <2>4 DEF PingsKept, SamplesKept
  <2> QED
    BY <2>5, <2>6
<1>3. ASSUME NEW id \in PingIds, StartPing(id) PROVE SyncInv'
  <2> DEFINE new == [id |-> id, sent |-> ms]
  <2>1. /\ \A ping \in pings : ping.id # id
        /\ inFlight' = [inFlight EXCEPT ![id] = ms] /\ pings' = pings \cup {new}
        /\ UNCHANGED <<ms, samples, pongs, sampled>>
    BY <1>3 DEF StartPing
  <2>2. ms \in Nat /\ new \in [id : PingIds, sent : Nat] /\ new.id = id /\ new.sent = ms
    BY DEF SyncTypeOK
  <2>3. SyncTypeOK'
    BY <2>1, <2>2 DEF SyncTypeOK
  <2>4. PingsKept'
    <3>1. \A a, b \in pings' : a.id = b.id => a = b
      BY <2>1, <2>2 DEF PingsKept
    <3>2. \A a \in pings' : a.sent <= ms'
      BY <2>1, <2>2 DEF PingsKept
    <3>3. ASSUME NEW o \in PingIds, inFlight'[o] # Unsent
          PROVE  [id |-> o, sent |-> inFlight'[o]] \in pings'
      <4>1. CASE o = id
        BY <2>1, <4>1 DEF SyncTypeOK
      <4>2. CASE o # id
        BY <2>1, <3>3, <4>2 DEF SyncTypeOK, PingsKept
      <4> QED
        BY <4>1, <4>2
    <3>4. \A pong \in pongs : \E ping \in pings' :
            /\ pong.id = ping.id
            /\ ping.sent <= pong.received - Drift /\ pong.received <= pong.sent
            /\ pong.sent - Drift <= ms
      BY <2>1 DEF PingsKept
    <3> QED
      BY <2>1, <3>1, <3>2, <3>3, <3>4 DEF PingsKept
  <2>5. SamplesKept'
    <3>1. ASSUME NEW i \in 1..Len(sampled)
          PROVE  inFlight'[sampled[i]] = Unsent /\ \E ping \in pings' : ping.id = sampled[i]
      <4>1. /\ inFlight[sampled[i]] = Unsent /\ \E ping \in pings : ping.id = sampled[i]
        BY DEF SamplesKept
      <4>2. sampled[i] # id
        BY <2>1, <4>1
      <4>3. sampled[i] \in PingIds
        BY ElementOfSeq DEF SyncTypeOK
      <4> QED
        BY <2>1, <4>1, <4>2, <4>3 DEF SyncTypeOK
    <3> QED
      BY <2>1, <3>1 DEF SamplesKept
  <2> QED
    BY <2>3, <2>4, <2>5
<1>4. ASSUME NEW ping \in pings, NEW came \in 0..ms, ClientPongs(ping, came)
      PROVE  SyncInv'
  <2> DEFINE new == [id |-> ping.id, received |-> came + Drift, sent |-> ms + Drift]
  <2>1. /\ came \in ping.sent..ms /\ pongs' = pongs \cup {new}
        /\ UNCHANGED <<ms, inFlight, samples, pings, sampled>>
    BY <1>4 DEF ClientPongs
  <2>2. /\ ms \in Nat /\ ping.id \in PingIds /\ ping.sent \in Nat /\ came \in Nat
        /\ ping.sent <= came /\ came <= ms
    BY <2>1 DEF SyncTypeOK
  <2>3. /\ new \in [id : PingIds, received : Int, sent : Int]
        /\ new.id = ping.id /\ ping.sent <= new.received - Drift /\ new.received <= new.sent
        /\ new.sent - Drift <= ms
    BY <2>2
  <2> HIDE DEF new
  <2>4. SyncTypeOK'
    BY <2>1, <2>3 DEF SyncTypeOK
  <2>5. PingsKept'
    <3>1. \A pong \in pongs' : \E p \in pings :
            /\ pong.id = p.id
            /\ p.sent <= pong.received - Drift /\ pong.received <= pong.sent
            /\ pong.sent - Drift <= ms
      BY <2>1, <2>3 DEF PingsKept
    <3> QED
      BY <2>1, <3>1 DEF PingsKept
  <2> QED
    BY <2>1, <2>4, <2>5 DEF SamplesKept
<1>5. ASSUME NEW pong \in pongs, OnPong(pong) PROVE SyncInv'
  <2> DEFINE t1 == inFlight[pong.id]
             new == [ping |-> pong.id, offset |-> Offset(t1, pong), rtt |-> Rtt(t1, pong)]
             more == Append(samples, new)
  <2>1. /\ t1 # Unsent /\ inFlight' = [inFlight EXCEPT ![pong.id] = Unsent]
        /\ \/ UNCHANGED <<samples, sampled>>
           \/ /\ samples' = IF Len(more) > Window THEN Tail(more) ELSE more
              /\ sampled' = Append(sampled, pong.id)
        /\ UNCHANGED <<ms, pings, pongs>>
    BY <1>5 DEF OnPong
  <2>2. /\ pong.id \in PingIds /\ pong.received \in Int /\ pong.sent \in Int
        /\ t1 \in Nat /\ ms \in Nat
    BY <2>1 DEF SyncTypeOK
  <2>3. [id |-> pong.id, sent |-> t1] \in pings
    BY <2>1, <2>2 DEF PingsKept
  <2>4. /\ t1 <= pong.received - Drift /\ pong.received <= pong.sent
        /\ pong.sent - Drift <= ms
    <3> PICK ping \in pings :
            /\ pong.id = ping.id
            /\ ping.sent <= pong.received - Drift /\ pong.received <= pong.sent
            /\ pong.sent - Drift <= ms
      BY DEF PingsKept
    <3>1. ping = [id |-> pong.id, sent |-> t1]
      BY <2>3 DEF PingsKept
    <3> QED
      BY <3>1
  <2>5. new \in Samples /\ Close(new)
    <3>1. /\ Rtt(t1, pong) \in Nat /\ Offset(t1, pong) \in Int
          /\ 2 * (Offset(t1, pong) - Drift) <= Rtt(t1, pong) + 1
          /\ 2 * (Drift - Offset(t1, pong)) <= Rtt(t1, pong) + 1
      BY <2>2, <2>4, SampleIsClose
    <3> QED
      BY <2>2, <3>1 DEF Samples, Close
  <2> HIDE DEF new
  <2>6. samples' \in Seq(Samples) /\ \A i \in 1..Len(samples') : Close(samples'[i])
    <3>1. /\ more \in Seq(Samples) /\ more # <<>> /\ Len(more) = Len(samples) + 1
          /\ \A i \in 1..Len(samples) : more[i] = samples[i]
          /\ more[Len(samples) + 1] = new
      BY <2>5, AppendProperties DEF SyncTypeOK
    <3> HIDE DEF more
    <3>2. \A i \in 1..Len(more) : Close(more[i])
      BY <1>n, <2>5, <3>1 DEF SamplesKept
    <3>3. /\ Tail(more) \in Seq(Samples) /\ Len(Tail(more)) = Len(more) - 1
          /\ \A i \in 1..Len(Tail(more)) : Tail(more)[i] = more[i + 1]
      BY <3>1, HeadTailProperties
    <3>4. \A i \in 1..Len(Tail(more)) : Close(Tail(more)[i])
      BY <1>n, <3>1, <3>2, <3>3
    <3> QED
      BY <2>1, <3>1, <3>2, <3>3, <3>4 DEF SyncTypeOK, SamplesKept
  <2>7. /\ sampled' \in Seq(PingIds)
        /\ \A i \in 1..Len(sampled') :
             inFlight'[sampled'[i]] = Unsent /\ \E ping \in pings : ping.id = sampled'[i]
        /\ \A i, j \in 1..Len(sampled') : sampled'[i] = sampled'[j] => i = j
    <3>1. inFlight'[pong.id] = Unsent /\ \A id \in PingIds :
            inFlight[id] = Unsent => inFlight'[id] = Unsent
      BY <2>1, <2>2 DEF SyncTypeOK
    <3>2. \A i \in 1..Len(sampled) : sampled[i] \in PingIds /\ sampled[i] # pong.id
      BY <2>1, ElementOfSeq DEF SyncTypeOK, SamplesKept
    <3>3. \E ping \in pings : ping.id = pong.id
      BY <2>3
    <3>4. CASE sampled' = sampled
      BY <3>1, <3>2, <3>4 DEF SyncTypeOK, SamplesKept
    <3>5. CASE sampled' = Append(sampled, pong.id)
      <4>1. /\ sampled' \in Seq(PingIds) /\ Len(sampled') = Len(sampled) + 1
            /\ \A i \in 1..Len(sampled) : sampled'[i] = sampled[i]
            /\ sampled'[Len(sampled) + 1] = pong.id
        BY <2>2, <3>5, AppendProperties DEF SyncTypeOK
      <4>2. \A i \in 1..Len(sampled') :
              inFlight'[sampled'[i]] = Unsent /\ \E ping \in pings : ping.id = sampled'[i]
        BY <1>n, <3>1, <3>2, <3>3, <4>1 DEF SamplesKept
      <4>3. \A i, j \in 1..Len(sampled') : sampled'[i] = sampled'[j] => i = j
        BY <1>n, <3>2, <4>1 DEF SamplesKept
      <4> QED
        BY <4>1, <4>2, <4>3
    <3> QED
      BY <2>1, <3>4, <3>5
  <2>8. SyncTypeOK'
    BY <2>1, <2>2, <2>6, <2>7 DEF SyncTypeOK
  <2>9. PingsKept'
    <3>1. ASSUME NEW o \in PingIds, inFlight'[o] # Unsent
          PROVE  [id |-> o, sent |-> inFlight'[o]] \in pings'
      BY <2>1, <2>2, <3>1 DEF SyncTypeOK, PingsKept
    <3> QED
      BY <2>1, <3>1 DEF PingsKept
  <2> QED
    BY <2>1, <2>6, <2>7, <2>8, <2>9 DEF SamplesKept
<1>6. ASSUME UNCHANGED syncVars PROVE SyncInv'
  BY <1>6 DEF syncVars, SyncTypeOK, PingsKept, SamplesKept
<1> QED
  BY <1>1, <1>2, <1>3, <1>4, <1>5, <1>6 DEF SyncNext

\* A set of numbers has a least one.
LEMMA LeastExists ==
    ASSUME NEW S \in SUBSET Nat, S # {}
    PROVE  \E n \in S : \A m \in S : n <= m
<1> DEFINE less == OpToRel(<, Nat)
<1>1. \A m, n \in Nat : m < n => <<m, n>> \in less
  BY DEF OpToRel
<1>2. IsWellFoundedOn(less, Nat)
  BY NatLessThanWellFounded
<1> HIDE DEF less
<1>3. PICK n \in S : \A m \in S : ~ (<<m, n>> \in less)
  BY <1>2, WFMin
<1>4. \A m \in S : n <= m
  <2> TAKE m \in S
  <2>1. m \in Nat /\ n \in Nat /\ ~(m < n)
    BY <1>1, <1>3
  <2> QED
    BY <2>1
<1> QED
  BY <1>4

\* The condition follows from the invariant.
LEMMA SyncIsSound == SyncInv => SyncSound
<1> SUFFICES ASSUME SyncInv PROVE SyncSound
  OBVIOUS
<1> DEFINE Least1(i) == \A j \in DOMAIN samples : samples[i].rtt <= samples[j].rtt
           chosen == {i \in 1..Len(samples) : Least1(i)}
<1>1. /\ samples \in Seq(Samples) /\ Len(samples) \in Nat /\ DOMAIN samples = 1..Len(samples)
      /\ \A i \in 1..Len(samples) : samples[i].rtt \in Nat /\ Close(samples[i])
  <2>1. samples \in Seq(Samples)
    BY DEF SyncInv, SyncTypeOK
  <2>2. \A i \in 1..Len(samples) : samples[i] \in Samples
    BY <2>1, ElementOfSeq
  <2> QED
    BY <2>1, <2>2, LenProperties DEF SyncInv, SamplesKept, Samples
<1>2. ASSUME samples # <<>>
      PROVE  \E i \in chosen : BestSample = samples[i]
  <2>1. {samples[i].rtt : i \in 1..Len(samples)} \in SUBSET Nat
    BY <1>1
  <2>2. {samples[i].rtt : i \in 1..Len(samples)} # {}
    <3>1. 1 \in 1..Len(samples)
      BY <1>1, <1>2, EmptySeq
    <3> QED
      BY <3>1
  <2>3. chosen # {}
    <3>1. \E n \in {samples[i].rtt : i \in 1..Len(samples)} :
            \A m \in {samples[i].rtt : i \in 1..Len(samples)} : n <= m
      BY <2>1, <2>2, LeastExists
    <3> QED
      BY SMTT(30), <1>1, <3>1
  <2>4. Min(chosen) \in chosen
    <3>1. chosen \in SUBSET Nat
      OBVIOUS
    <3>2. \E n \in chosen : \A m \in chosen : n <= m
      BY <2>3, <3>1, LeastExists
    <3> HIDE DEF chosen
    <3> QED
      BY <3>2 DEF Min
  <2>5. BestSample = samples[Min(chosen)]
    BY <2>3 DEF BestSample, SelectInSeq
  <2> QED
    BY <2>4, <2>5
<1>3. samples # <<>> =>
        /\ 2 * (BestSample.offset - Drift) <= BestSample.rtt + 1
        /\ 2 * (Drift - BestSample.offset) <= BestSample.rtt + 1
        /\ \A i \in DOMAIN samples : BestSample.rtt <= samples[i].rtt
  BY <1>1, <1>2 DEF Close
<1>4. IsInjective(sampled)
  BY LenProperties DEF SyncInv, SyncTypeOK, SamplesKept, IsInjective
<1> QED
  BY <1>3, <1>4 DEF SyncSound

(***************************************************************************)
(* ChatModeration: the ledger of offences.  The history adds up what every *)
(* chatter did in any stretch of time; Booked relates those sums to his    *)
(* entry, through the window that is open and the mute that was imposed    *)
(* last.  The times of his offences alone say that a window opens with     *)
(* the first offence after a quiet one (Spaced), so that what he commits   *)
(* from then on is counted together.  An offence, a sweep and time keep    *)
(* it, each for one chatter's numbers (OffenceBooked, ForgottenBooked,     *)
(* TimeBooked).                                                            *)
(***************************************************************************)
\* An offence as the history keeps it.
Offence == [by : Chatters, at : Nat, points : Nat]

\* The sum is a number, and it is nothing where there is no offence.
LEMMA PointsAreNat ==
    ASSUME NEW log \in Seq(Offence), NEW u, NEW times
    PROVE  /\ PointsOf(log, u, times) \in Nat
           /\ IsFiniteSet({i \in DOMAIN log : log[i].by = u /\ log[i].at \in times})
           /\ (\A i \in DOMAIN log : ~(log[i].by = u /\ log[i].at \in times)) =>
                 PointsOf(log, u, times) = 0
<1> DEFINE S == {i \in DOMAIN log : log[i].by = u /\ log[i].at \in times}
           f == [i \in DOMAIN log |-> log[i].points]
<1>1. DOMAIN log = 1..Len(log) /\ Len(log) \in Nat
  BY LenProperties
<1>2. IsFiniteSet(DOMAIN log) /\ S \subseteq DOMAIN log
  BY <1>1, FS_Interval
<1>3. IsFiniteSet(S)
  BY <1>2, FS_Subset
<1>4. \A i \in S : f[i] \in Nat
  <2> TAKE i \in S
  <2>1. log[i] \in Offence
    BY <1>1, ElementOfSeq
  <2> QED
    BY <2>1 DEF Offence
<1>5. PointsOf(log, u, times) = SumFunctionOnSet(f, S)
  BY Zenon DEF PointsOf
<1>6. (\A i \in DOMAIN log : ~(log[i].by = u /\ log[i].at \in times)) => S = {}
  OBVIOUS
<1> HIDE DEF S, f
<1>7. SumFunctionOnSet(f, S) \in Nat
  BY <1>3, <1>4, SumIsNat
<1>8. S = {} => SumFunctionOnSet(f, S) = 0
  BY SumOfNothing
<1> QED
  BY <1>3, <1>5, <1>6, <1>7, <1>8 DEF S

\* Two sets of times without an offence in common add up.
LEMMA PointsSplit ==
    ASSUME NEW log \in Seq(Offence), NEW u, NEW early, NEW late, early \cap late = {}
    PROVE  PointsOf(log, u, early \cup late) = PointsOf(log, u, early) + PointsOf(log, u, late)
<1> DEFINE S(times) == {i \in DOMAIN log : log[i].by = u /\ log[i].at \in times}
           f == [i \in DOMAIN log |-> log[i].points]
<1>1. IsFiniteSet(S(early)) /\ IsFiniteSet(S(late))
  BY ZenonT(40), PointsAreNat
<1>2. S(early) \cap S(late) = {} /\ S(early \cup late) = S(early) \cup S(late)
  OBVIOUS
<1>3. \A i \in S(early) \cup S(late) : f[i] \in Int
  <2> TAKE i \in S(early) \cup S(late)
  <2>1. i \in DOMAIN log /\ DOMAIN log = 1..Len(log)
    BY LenProperties
  <2>2. log[i] \in Offence
    BY <2>1, ElementOfSeq
  <2> QED
    BY <2>1, <2>2 DEF Offence
<1>4. \A times : PointsOf(log, u, times) = SumFunctionOnSet(f, S(times))
  BY Zenon DEF PointsOf
<1>5. /\ PointsOf(log, u, early \cup late) = SumFunctionOnSet(f, S(early) \cup S(late))
      /\ PointsOf(log, u, early) = SumFunctionOnSet(f, S(early))
      /\ PointsOf(log, u, late) = SumFunctionOnSet(f, S(late))
  BY <1>2, <1>4
<1> HIDE DEF S, f
<1>6. SumFunctionOnSet(f, S(early) \cup S(late))
        = SumFunctionOnSet(f, S(early)) + SumFunctionOnSet(f, S(late))
  BY <1>1, <1>2, <1>3, SumOfDisjoint
<1> QED
  BY <1>5, <1>6

\* More times have no fewer points.
LEMMA PointsGrow ==
    ASSUME NEW log \in Seq(Offence), NEW u, NEW more, NEW times \in SUBSET more
    PROVE  PointsOf(log, u, times) <= PointsOf(log, u, more)
<1>1. times \cap (more \ times) = {} /\ times \cup (more \ times) = more
  OBVIOUS
<1>2. PointsOf(log, u, more) = PointsOf(log, u, times) + PointsOf(log, u, more \ times)
  BY <1>1, PointsSplit
<1>3. PointsOf(log, u, times) \in Nat /\ PointsOf(log, u, more \ times) \in Nat
  BY PointsAreNat
<1> QED
  BY <1>2, <1>3

\* The sum depends on the times of offences alone.
LEMMA PointsSame ==
    ASSUME NEW log, NEW u, NEW times, NEW others,
           \A i \in DOMAIN log :
               log[i].by = u => (log[i].at \in times <=> log[i].at \in others)
    PROVE  PointsOf(log, u, times) = PointsOf(log, u, others)
<1>1. {i \in DOMAIN log : log[i].by = u /\ log[i].at \in times}
        = {i \in DOMAIN log : log[i].by = u /\ log[i].at \in others}
  OBVIOUS
<1> QED
  BY <1>1 DEF PointsOf

\* One more offence counts for who committed it, at the time he did.
LEMMA PointsAdded ==
    ASSUME NEW log \in Seq(Offence), NEW offence \in Offence, NEW u, NEW times
    PROVE  /\ Append(log, offence) \in Seq(Offence)
           /\ (offence.by = u /\ offence.at \in times) =>
                 PointsOf(Append(log, offence), u, times)
                     = PointsOf(log, u, times) + offence.points
           /\ ~(offence.by = u /\ offence.at \in times) =>
                 PointsOf(Append(log, offence), u, times) = PointsOf(log, u, times)
<1> DEFINE more == Append(log, offence)
           n == Len(log) + 1
           S == {i \in DOMAIN log : log[i].by = u /\ log[i].at \in times}
           R == {i \in DOMAIN more : more[i].by = u /\ more[i].at \in times}
           f == [i \in DOMAIN log |-> log[i].points]
           g == [i \in DOMAIN more |-> more[i].points]
<1>1. /\ more \in Seq(Offence) /\ Len(log) \in Nat
      /\ DOMAIN log = 1..Len(log) /\ DOMAIN more = 1..n /\ more[n] = offence
      /\ \A i \in DOMAIN log : more[i] = log[i]
  BY LenProperties, AppendProperties
<1>2. IsFiniteSet(S) /\ n \notin S
  <2>1. IsFiniteSet(S)
    BY PointsAreNat
  <2>2. n \notin DOMAIN log
    BY <1>1
  <2> QED
    BY <2>1, <2>2
<1>3. /\ (offence.by = u /\ offence.at \in times) => R = S \cup {n}
      /\ ~(offence.by = u /\ offence.at \in times) => R = S
  BY <1>1
<1>4. g[n] = offence.points /\ g[n] \in Int
  BY <1>1 DEF Offence
<1>n. ASSUME NEW i \in S PROVE f[i] \in Int /\ g[i] \in Int /\ g[i] = f[i]
  <2>1. log[i] \in Offence /\ i \in DOMAIN more /\ more[i] = log[i]
    BY <1>1, ElementOfSeq
  <2> QED
    BY <2>1 DEF Offence
<1>5. PointsOf(log, u, times) = SumFunctionOnSet(f, S) /\ PointsOf(more, u, times) = SumFunctionOnSet(g, R)
  BY Zenon DEF PointsOf
<1>6. more \in Seq(Offence)
  BY <1>1
<1> HIDE DEF S, R, f, g, n
<1>7. SumFunctionOnSet(f, S) = SumFunctionOnSet(g, S)
  BY <1>2, <1>n, SumOfEquals
<1>8. SumFunctionOnSet(g, S \cup {n}) = SumFunctionOnSet(g, S) + g[n]
  BY <1>2, <1>4, <1>n, SumAdds
<1>9. CASE offence.by = u /\ offence.at \in times
  BY <1>3, <1>4, <1>5, <1>6, <1>7, <1>8, <1>9
<1>10. CASE ~(offence.by = u /\ offence.at \in times)
  BY <1>3, <1>5, <1>6, <1>7, <1>10
<1> QED
  BY <1>9, <1>10

-----------------------------------------------------------------------------
\* All that is logged was done by now.
Logged(log, now) ==
    log \in Seq(Offence) /\ \A i \in DOMAIN log : log[i].at <= now

ChatNumbers ==
    MuteThreshold \in Nat \ {0} /\ MuteWindow \in Nat /\ MuteTime \in Nat \ {0}

\* The times of a chatter's offences and the window that began at s.  As long as it is open
\* it began with an offence, and no offence after a quiet window came shortly before it; once
\* it is over none came that lately.
Spaced(times, now, s) ==
    /\ times \subseteq 0..now
    /\ now - s <= MuteWindow => s \in times
    /\ \A t \in Nat : Rested(times, t) => \A a \in times : t <= a =>
          /\ now - s <= MuteWindow /\ t <= s /\ s - t <= MuteWindow => a >= s
          /\ now - s > MuteWindow => t < now - MuteWindow

\* An offence opens a window when none is open.
LEMMA OffenceSpaced ==
    ASSUME ChatNumbers, NEW now \in Nat, NEW s \in Nat, NEW s2, NEW times,
           Spaced(times, now, s), s <= now,
           now - s > MuteWindow => s2 = now, now - s <= MuteWindow => s2 = s
    PROVE  Spaced(times \cup {now}, now, s2)
<1> DEFINE more == times \cup {now}
<1>1. MuteWindow \in Nat /\ s2 \in Nat /\ s2 <= now /\ now - s2 <= MuteWindow
  BY DEF ChatNumbers
<1>2. more \subseteq 0..now /\ s2 \in more
  <2>1. times \subseteq 0..now /\ now \in 0..now
    BY DEF Spaced
  <2>2. now - s <= MuteWindow => s \in times
    BY DEF Spaced
  <2>3. now - s <= MuteWindow \/ now - s > MuteWindow
    BY <1>1
  <2> QED
    BY <2>1, <2>2, <2>3
<1>3. ASSUME NEW t \in Nat, Rested(more, t), NEW a \in more, t <= a,
             t <= s2, s2 - t <= MuteWindow
      PROVE  a >= s2
  <2>1. Rested(times, t)
    BY <1>3 DEF Rested
  <2>2. CASE a = now
    BY <1>1, <2>2
  <2>3. CASE a \in times
    <3>1. a \in Nat
      BY <1>2
    <3>2. CASE now - s <= MuteWindow
      BY <1>1, <1>3, <2>1, <2>3, <3>2 DEF Spaced
    <3>3. CASE now - s > MuteWindow
      <4>1. t < now - MuteWindow
        BY <1>3, <2>1, <2>3, <3>3 DEF Spaced
      <4> QED
        BY <1>1, <1>3, <3>3, <4>1
    <3> QED
      BY <1>1, <3>2, <3>3
  <2> QED
    BY <2>2, <2>3
<1>4. ~(now - s2 > MuteWindow)
  BY <1>1
<1> HIDE DEF more
<1>5. Spaced(more, now, s2)
  BY <1>2, <1>3, <1>4 DEF Spaced
<1> QED
  BY <1>5 DEF more

\* A window that is over may be forgotten.
LEMMA ForgottenSpaced ==
    ASSUME ChatNumbers, NEW now \in Nat, now > MuteWindow, NEW s \in Nat, NEW times,
           Spaced(times, now, s), now - s > MuteWindow
    PROVE  Spaced(times, now, 0)
<1>1. MuteWindow \in Nat /\ now - 0 > MuteWindow /\ ~(now - 0 <= MuteWindow)
  BY DEF ChatNumbers
<1> QED
  BY <1>1 DEF Spaced

\* Of a window that is just over, its first offence is too late for quiet before any offence
\* it counted.
LEMMA TimeSpaced ==
    ASSUME ChatNumbers, NEW now \in Nat, NEW s \in Nat, s <= now, NEW times,
           Spaced(times, now, s)
    PROVE  Spaced(times, now + 1, s)
<1>1. MuteWindow \in Nat /\ times \subseteq 0..(now + 1)
  BY DEF ChatNumbers, Spaced
<1>2. now + 1 - s <= MuteWindow => now - s <= MuteWindow
  BY <1>1
<1>3. ASSUME NEW t \in Nat, Rested(times, t), NEW a \in times, t <= a,
             now + 1 - s > MuteWindow
      PROVE  t < now + 1 - MuteWindow
  <2>1. a \in 0..now
    BY DEF Spaced
  <2>2. CASE now - s > MuteWindow
    <3>1. t < now - MuteWindow
      BY <1>3, <2>2 DEF Spaced
    <3> QED
      BY <1>1, <3>1
  <2>3. CASE now - s <= MuteWindow
    <3>1. s = now - MuteWindow /\ s \in times
      BY <1>1, <1>3, <2>3 DEF Spaced
    <3>2. s \notin (t - MuteWindow)..(t - 1)
      BY <1>3, <3>1 DEF Rested
    <3> QED
      BY <1>1, <1>3, <2>1, <3>1, <3>2
  <2> QED
    BY <1>1, <2>2, <2>3
<1>4. ASSUME NEW t \in Nat, Rested(times, t), NEW a \in times, t <= a,
             now + 1 - s <= MuteWindow, t <= s, s - t <= MuteWindow
      PROVE  a >= s
  BY <1>2, <1>4 DEF Spaced
<1>5. now + 1 - s <= MuteWindow => s \in times
  BY <1>2 DEF Spaced
<1> QED
  BY <1>1, <1>3, <1>4, <1>5 DEF Spaced

\* What the ledger says of a chatter, points p since s and muted until m, and the latest end
\* of a mute of his, agree with his offences.
Booked(log, now, u, s, p, m, sen) ==
    /\ {s, p, m, sen} \subseteq Nat
    /\ s <= now /\ m <= now + MuteTime /\ sen <= now + MuteTime
    /\ now - s <= MuteWindow => p = PointsOf(log, u, s..now)
    /\ now - s > MuteWindow => \A i \in DOMAIN log : log[i].by = u => log[i].at < now
    /\ sen > now => m = sen
    /\ m > 0 => PointsOf(log, u, (m - MuteTime - MuteWindow)..(m - MuteTime)) >= MuteThreshold
    /\ Spaced(OffenceTimes(log, u), now, s)
    /\ \A t \in Nat : Rested(OffenceTimes(log, u), t) /\ sen < t + MuteTime =>
          PointsOf(log, u, t..(t + MuteWindow)) <= MuteThreshold - 1

\* What becomes of the numbers of a chatter who commits an offence of q points.
OffenceCounted(now, q, s, p, m, sen, s2, p2, m2, sen2) ==
    /\ now - s > MuteWindow => s2 = now /\ p2 = q
    /\ now - s <= MuteWindow => s2 = s /\ p2 = p + q
    /\ p2 >= MuteThreshold => m2 = now + MuteTime /\ sen2 = now + MuteTime
    /\ p2 < MuteThreshold => m2 = m /\ sen2 = sen

\* An offence is booked: in the window that is open, or in a new one.
LEMMA OffenceBooked ==
    ASSUME ChatNumbers, NEW now \in Nat, NEW log, Logged(log, now), NEW u \in Chatters,
           NEW s, NEW p, NEW m, NEW sen, Booked(log, now, u, s, p, m, sen),
           NEW q \in Nat, NEW more,
           more = Append(log, [by |-> u, at |-> now, points |-> q]),
           NEW s2, NEW p2, NEW m2, NEW sen2,
           OffenceCounted(now, q, s, p, m, sen, s2, p2, m2, sen2)
    PROVE  Logged(more, now) /\ Booked(more, now, u, s2, p2, m2, sen2)
<1> DEFINE offence == [by |-> u, at |-> now, points |-> q]
           P(times) == PointsOf(log, u, times)
           Q(times) == PointsOf(more, u, times)
<1>0. /\ now - s > MuteWindow => s2 = now /\ p2 = q
      /\ now - s <= MuteWindow => s2 = s /\ p2 = p + q
      /\ p2 >= MuteThreshold => m2 = now + MuteTime /\ sen2 = now + MuteTime
      /\ p2 < MuteThreshold => m2 = m /\ sen2 = sen
  BY DEF OffenceCounted
<1>1. /\ offence \in Offence /\ offence.by = u /\ offence.at = now /\ offence.points = q
      /\ log \in Seq(Offence) /\ more \in Seq(Offence)
  BY PointsAdded DEF Offence, Logged
<1>2. ASSUME NEW times
      PROVE  /\ P(times) \in Nat
             /\ now \in times => Q(times) = P(times) + q
             /\ now \notin times => Q(times) = P(times)
             /\ Q(times) \in Nat
  <2>1. P(times) \in Nat /\ Q(times) \in Nat
    BY <1>1, PointsAreNat
  <2> QED
    BY <1>1, <2>1, PointsAdded
<1>3. ASSUME NEW wide, NEW times \in SUBSET wide
      PROVE  P(times) <= P(wide) /\ Q(times) <= Q(wide)
  BY <1>1, PointsGrow
<1>4. ASSUME NEW early, NEW late, early \cap late = {}
      PROVE  Q(early \cup late) = Q(early) + Q(late)
  <2>1. more \in Seq(Offence)
    BY <1>1
  <2>2. PointsOf(more, u, early \cup late) = PointsOf(more, u, early) + PointsOf(more, u, late)
    BY ONLY <1>4, <2>1, PointsSplit
  <2> QED
    BY <2>2
<1>5. Logged(more, now)
  <2>1. /\ Len(log) \in Nat /\ DOMAIN log = 1..Len(log) /\ DOMAIN more = 1..(Len(log) + 1)
        /\ \A i \in DOMAIN log : more[i] = log[i]
        /\ more[Len(log) + 1] = offence
    BY <1>1, LenProperties, AppendProperties
  <2> QED
    BY <1>1, <2>1 DEF Logged
<1>6. ASSUME NEW i \in DOMAIN log
      PROVE  log[i].at \in Nat /\ log[i].at <= now
  <2>1. DOMAIN log = 1..Len(log)
    BY <1>1, LenProperties
  <2>2. log[i] \in Offence
    BY <1>1, <2>1, ElementOfSeq
  <2> QED
    BY <2>2 DEF Offence, Logged
<1>7. ASSUME NEW i \in DOMAIN more
      PROVE  more[i].at \in Nat /\ more[i].at <= now
  <2>1. DOMAIN more = 1..Len(more)
    BY <1>1, LenProperties
  <2>2. more[i] \in Offence
    BY <1>1, <2>1, ElementOfSeq
  <2> QED
    BY <1>5, <2>2 DEF Offence, Logged
<1>8. \* The numbers of the chatter.
      /\ s \in Nat /\ p \in Nat /\ m \in Nat /\ sen \in Nat
      /\ s <= now /\ m <= now + MuteTime /\ sen <= now + MuteTime
      /\ s2 \in Nat /\ p2 \in Nat /\ m2 \in Nat /\ sen2 \in Nat
      /\ s2 <= now /\ m2 <= now + MuteTime /\ sen2 <= now + MuteTime
      /\ now - s2 <= MuteWindow /\ sen <= sen2
      /\ MuteThreshold \in Nat \ {0} /\ MuteWindow \in Nat /\ MuteTime \in Nat \ {0}
  <2>1. /\ s \in Nat /\ p \in Nat /\ m \in Nat /\ sen \in Nat
        /\ s <= now /\ m <= now + MuteTime /\ sen <= now + MuteTime
        /\ MuteThreshold \in Nat \ {0} /\ MuteWindow \in Nat /\ MuteTime \in Nat \ {0}
    BY DEF Booked, ChatNumbers
  <2>2. s2 \in Nat /\ p2 \in Nat /\ s2 <= now /\ now - s2 <= MuteWindow
    <3>1. CASE now - s > MuteWindow
      BY <1>0, <2>1, <3>1
    <3>2. CASE now - s <= MuteWindow
      BY <1>0, <2>1, <3>2
    <3> QED
      BY <2>1, <3>1, <3>2
  <2>3. /\ m2 \in Nat /\ m2 <= now + MuteTime
        /\ sen2 \in Nat /\ sen2 <= now + MuteTime /\ sen <= sen2
    <3>1. CASE p2 >= MuteThreshold
      BY <1>0, <2>1, <3>1
    <3>2. CASE p2 < MuteThreshold
      BY <1>0, <2>1, <3>2
    <3> QED
      BY <2>1, <2>2, <3>1, <3>2
  <2> QED
    BY <2>1, <2>2, <2>3
<1>9. now - s > MuteWindow => P(now..now) = 0
  <2> SUFFICES ASSUME now - s > MuteWindow PROVE P(now..now) = 0
    OBVIOUS
  <2>1. \A i \in DOMAIN log : ~(log[i].by = u /\ log[i].at \in now..now)
    BY <1>6 DEF Booked
  <2> QED
    BY <1>1, <2>1, PointsAreNat
<1>10. p2 = Q(s2..now)
  <2>1. now \in s2..now
    BY <1>0, <1>8
  <2>2. CASE now - s > MuteWindow
    BY <1>0, <1>2, <1>9, <2>1, <2>2
  <2>3. CASE now - s <= MuteWindow
    BY <1>0, <1>2, <2>1, <2>3 DEF Booked
  <2> QED
    BY <1>0, <1>8, <2>2, <2>3
<1>11. sen2 > now => m2 = sen2
  BY <1>0, <1>8 DEF Booked
<1>12. m2 > 0 => Q((m2 - MuteTime - MuteWindow)..(m2 - MuteTime)) >= MuteThreshold
  <2>1. CASE p2 >= MuteThreshold
    <3>1. m2 - MuteTime = now /\ s2..now \subseteq (m2 - MuteTime - MuteWindow)..(m2 - MuteTime)
      BY <1>0, <1>8, <2>1
    <3> DEFINE times == (m2 - MuteTime - MuteWindow)..(m2 - MuteTime)
    <3>2. Q(s2..now) <= Q(times) /\ Q(times) \in Nat
      BY <1>2, <1>3, <3>1
    <3> HIDE DEF times
    <3>3. Q(times) >= MuteThreshold
      BY <1>0, <1>8, <1>10, <2>1, <3>2
    <3> QED
      BY <3>3 DEF times
  <2>2. CASE p2 < MuteThreshold
    <3> SUFFICES ASSUME m2 > 0
                 PROVE  Q((m2 - MuteTime - MuteWindow)..(m2 - MuteTime)) >= MuteThreshold
      OBVIOUS
    <3>1. m2 = m
      BY <1>0, <2>2
    <3>2. P((m2 - MuteTime - MuteWindow)..(m2 - MuteTime)) >= MuteThreshold
      BY <3>1 DEF Booked
    <3> DEFINE times == (m2 - MuteTime - MuteWindow)..(m2 - MuteTime)
    <3>3. P(times) \in Nat /\ (Q(times) = P(times) + q \/ Q(times) = P(times))
      BY <1>2
    <3>4. PICK a \in Nat : a = P(times) /\ a >= MuteThreshold
      BY <3>2, <3>3
    <3>5. Q(times) = a + q \/ Q(times) = a
      BY <3>3, <3>4
    <3> HIDE DEF times, P, Q
    <3>6. Q(times) >= MuteThreshold
      BY <1>8, <3>4, <3>5
    <3> QED
      BY <3>6 DEF times
  <2> QED
    BY <1>0, <1>8, <2>1, <2>2
<1>13. OffenceTimes(more, u) = OffenceTimes(log, u) \cup {now}
  <2>1. /\ Len(log) \in Nat /\ DOMAIN log = 1..Len(log) /\ DOMAIN more = 1..(Len(log) + 1)
        /\ \A i \in DOMAIN log : more[i] = log[i]
        /\ more[Len(log) + 1].by = u /\ more[Len(log) + 1].at = now
    BY <1>1, LenProperties, AppendProperties
  <2> QED
    BY <2>1 DEF OffenceTimes
<1>14. Spaced(OffenceTimes(more, u), now, s2)
  <2>1. Spaced(OffenceTimes(log, u), now, s)
    BY DEF Booked
  <2> QED
    BY <1>0, <1>8, <1>13, <2>1, OffenceSpaced
<1>15. ASSUME NEW t \in Nat, Rested(OffenceTimes(more, u), t), sen2 < t + MuteTime
       PROVE  Q(t..(t + MuteWindow)) <= MuteThreshold - 1
  <2>1. CASE t > now
    <3>1. ASSUME NEW i \in DOMAIN more PROVE more[i].at \notin t..(t + MuteWindow)
      <4>1. PICK a \in Nat : a = more[i].at /\ a <= now
        BY <1>7
      <4> QED
        BY <2>1, <4>1
    <3>2. Q(t..(t + MuteWindow)) = 0
      BY <1>1, <3>1, PointsAreNat
    <3> QED
      BY <1>8, <3>2
  <2>2. CASE t + MuteWindow < now
    <3>1. now \notin t..(t + MuteWindow)
      BY <1>8, <2>2
    <3>2. Rested(OffenceTimes(log, u), t) /\ sen < t + MuteTime
      BY <1>8, <1>13, <1>15 DEF Rested
    <3>3. P(t..(t + MuteWindow)) <= MuteThreshold - 1
      BY <3>2 DEF Booked
    <3> QED
      BY <1>2, <3>1, <3>3
  <2>3. CASE t <= now /\ t + MuteWindow >= now
    <3>1. p2 < MuteThreshold
      BY <1>0, <1>8, <1>15, <2>3
    <3>2. PICK from \in Nat : /\ s2 <= from /\ from..now \subseteq s2..now
                             /\ from = IF s2 <= t THEN t ELSE s2
      BY <1>8
    <3>3. ASSUME NEW i \in DOMAIN more, more[i].by = u
          PROVE  more[i].at \in t..(t + MuteWindow) <=> more[i].at \in from..now
      <4>1. PICK a \in Nat : a = more[i].at /\ a <= now
        BY <1>7
      <4>2. a \in OffenceTimes(more, u)
        BY <3>3, <4>1 DEF OffenceTimes
      <4>n. a <= now /\ MuteWindow \in Nat /\ s2 \in Nat /\ s2 <= now
        BY <1>8, <4>1
      <4>3. CASE s2 <= t
        <5>1. from = t
          BY <3>2, <4>3
        <5>2. a \in t..(t + MuteWindow) <=> a \in t..now
          BY <2>3, <4>n
        <5> QED
          BY <4>1, <5>1, <5>2
      <4>4. CASE t < s2
        <5>1. from = s2
          BY <1>8, <3>2, <4>4
        <5>2. s2 - t <= MuteWindow
          BY <1>8, <2>3
        <5>3. t <= a => a >= s2
          BY <1>8, <1>14, <1>15, <4>2, <4>4, <5>2 DEF Spaced
        <5>4. a \in t..(t + MuteWindow) <=> a \in s2..now
          BY <2>3, <4>n, <4>4, <5>3
        <5> QED
          BY <4>1, <5>1, <5>4
      <4>5. s2 <= t \/ t < s2
        BY <4>n
      <4> QED
        BY <4>3, <4>4, <4>5
    <3> DEFINE wide == t..(t + MuteWindow)
               mine == from..now
    <3>4. \A i \in DOMAIN more :
             more[i].by = u => (more[i].at \in wide <=> more[i].at \in mine)
      BY <3>3
    <3>5. mine \subseteq s2..now
      BY <3>2
    <3> HIDE DEF wide, mine
    <3>6. PointsOf(more, u, wide) = PointsOf(more, u, mine)
      BY <3>4, PointsSame
    <3>7. Q(mine) <= Q(s2..now) /\ Q(mine) \in Nat
      BY <1>2, <1>3, <3>5
    <3>8. Q(wide) <= MuteThreshold - 1
      BY <1>8, <1>10, <3>1, <3>6, <3>7
    <3> QED
      BY <3>8 DEF wide
  <2> QED
    BY <1>8, <2>1, <2>2, <2>3
<1> HIDE DEF offence
<1>16. now - s2 <= MuteWindow /\ ~(now - s2 > MuteWindow)
  BY <1>8
<1> QED
  BY SMTT(30), <1>5, <1>8, <1>10, <1>11, <1>12, <1>14, <1>15, <1>16 DEF Booked

\* An offence of somebody else changes nothing for a chatter.
LEMMA OthersBooked ==
    ASSUME NEW now \in Nat, NEW log, Logged(log, now), NEW u \in Chatters,
           NEW s, NEW p, NEW m, NEW sen, Booked(log, now, u, s, p, m, sen),
           NEW offence \in Offence, offence.by # u
    PROVE  Booked(Append(log, offence), now, u, s, p, m, sen)
<1> DEFINE more == Append(log, offence)
<1>1. log \in Seq(Offence)
  BY DEF Logged
<1>2. \A times : PointsOf(more, u, times) = PointsOf(log, u, times)
  BY <1>1, PointsAdded
<1>3. /\ Len(log) \in Nat /\ DOMAIN log = 1..Len(log) /\ DOMAIN more = 1..(Len(log) + 1)
      /\ \A i \in DOMAIN log : more[i] = log[i]
      /\ more[Len(log) + 1] = offence
  BY <1>1, LenProperties, AppendProperties
<1>4. now - s > MuteWindow => \A i \in DOMAIN more : more[i].by = u => more[i].at < now
  BY <1>3 DEF Booked
<1> HIDE DEF more
<1>5. OffenceTimes(more, u) = OffenceTimes(log, u)
  BY <1>3 DEF OffenceTimes
<1>6. Booked(more, now, u, s, p, m, sen)
  BY <1>2, <1>4, <1>5 DEF Booked
<1> QED
  BY <1>6 DEF more

\* So does the sweep, which takes what is over and not served any more.
LEMMA ForgottenBooked ==
    ASSUME ChatNumbers, NEW now \in Nat, now > MuteWindow, NEW log, Logged(log, now),
           NEW u \in Chatters,
           NEW s, NEW p, NEW m, NEW sen, Booked(log, now, u, s, p, m, sen),
           m <= now, now - s > MuteWindow
    PROVE  Booked(log, now, u, 0, 0, 0, sen)
<1>1. /\ s \in Nat /\ sen \in Nat /\ sen <= now + MuteTime
      /\ MuteThreshold \in Nat \ {0} /\ MuteWindow \in Nat /\ MuteTime \in Nat \ {0}
      /\ ~(sen > now)
      /\ \A i \in DOMAIN log : log[i].by = u => log[i].at < now
  BY DEF Booked, ChatNumbers
<1>2. Spaced(OffenceTimes(log, u), now, 0)
  BY <1>1, ForgottenSpaced DEF Booked
<1> QED
  BY <1>1, <1>2 DEF Booked

\* Time alone changes nothing.
LEMMA TimeBooked ==
    ASSUME ChatNumbers, NEW now \in Nat, NEW log, Logged(log, now), NEW u \in Chatters,
           NEW s, NEW p, NEW m, NEW sen, Booked(log, now, u, s, p, m, sen)
    PROVE  Booked(log, now + 1, u, s, p, m, sen)
<1>1. /\ s \in Nat /\ sen \in Nat /\ m \in Nat /\ s <= now
      /\ MuteThreshold \in Nat \ {0} /\ MuteWindow \in Nat /\ MuteTime \in Nat \ {0}
  BY DEF Booked, ChatNumbers
<1>2. ASSUME NEW i \in DOMAIN log PROVE log[i].at \in Nat /\ log[i].at <= now
  <2>1. DOMAIN log = 1..Len(log) /\ log \in Seq(Offence)
    BY LenProperties DEF Logged
  <2>2. log[i] \in Offence
    BY <2>1, ElementOfSeq
  <2> QED
    BY <2>2 DEF Offence, Logged
<1>3. ASSUME NEW t \in Nat
      PROVE  PointsOf(log, u, t..(now + 1)) = PointsOf(log, u, t..now)
  <2> DEFINE wide == t..(now + 1)
             times == t..now
  <2>1. ASSUME NEW i \in DOMAIN log PROVE log[i].at \in wide <=> log[i].at \in times
    <3>1. PICK a \in Nat : a = log[i].at
      BY <1>2
    <3>2. a <= now
      BY <1>2, <3>1
    <3>3. a \in wide <=> a \in times
      BY <3>2
    <3> QED
      BY <3>1, <3>3
  <2> HIDE DEF wide, times
  <2>n. \A i \in DOMAIN log : log[i].by = u => (log[i].at \in wide <=> log[i].at \in times)
    BY <2>1
  <2>2. PointsOf(log, u, wide) = PointsOf(log, u, times)
    BY <2>n, PointsSame
  <2> QED
    BY <2>2 DEF wide, times
<1>4. ASSUME NEW i \in DOMAIN log PROVE log[i].at < now + 1
  BY <1>2
<1>5. Spaced(OffenceTimes(log, u), now + 1, s)
  BY <1>1, TimeSpaced DEF Booked
<1>6. now + 1 - s <= MuteWindow => p = PointsOf(log, u, s..(now + 1))
  <2> SUFFICES ASSUME now + 1 - s <= MuteWindow PROVE p = PointsOf(log, u, s..(now + 1))
    OBVIOUS
  <2>1. now - s <= MuteWindow
    BY <1>1
  <2> QED
    BY <1>1, <1>3, <2>1 DEF Booked
<1>7. /\ s <= now + 1 /\ m <= now + 1 + MuteTime /\ sen <= now + 1 + MuteTime
      /\ sen > now + 1 => m = sen
  <2>1. m <= now + MuteTime /\ sen <= now + MuteTime /\ (sen > now => m = sen)
    BY DEF Booked
  <2> QED
    BY <1>1, <2>1
<1> QED
  BY <1>4, <1>5, <1>6, <1>7 DEF Booked

-----------------------------------------------------------------------------
Entry == [points : Nat, started : Nat, muted : Nat]

ChatTypeOK ==
    /\ chatTick \in Nat /\ chatTick > MuteWindow
    /\ ledger \in [Chatters -> Entry]
    /\ sentence \in [Chatters -> Nat]
    /\ published \in Seq([by : Chatters, at : Nat, masked : BOOLEAN])
    /\ audits \subseteq DOMAIN published

LedgerBooked ==
    \A u \in Chatters :
        Booked(offences, chatTick, u, ledger[u].started, ledger[u].points, ledger[u].muted,
               sentence[u])

ChatInv == ChatTypeOK /\ Logged(offences, chatTick) /\ LedgerBooked

LEMMA ChatAssumed == ChatNumbers
BY ChatAssumption DEF ChatNumbers

\* The offence of one chatter, the sweep before it included.
LEMMA OffenceStep ==
    ASSUME ChatInv, NEW u \in Chatters, NEW q \in Nat, Offends(u, q), UNCHANGED chatTick
    PROVE  /\ ledger' \in [Chatters -> Entry] /\ sentence' \in [Chatters -> Nat]
           /\ Logged(offences, chatTick)' /\ LedgerBooked'
<1> DEFINE now == chatTick
           offence == [by |-> u, at |-> now, points |-> q]
           swept == Swept(u)
<1>1. /\ now \in Nat /\ now > MuteWindow /\ Logged(offences, now)
      /\ ledger \in [Chatters -> Entry] /\ sentence \in [Chatters -> Nat]
      /\ now' = now /\ offences' = Append(offences, offence) /\ offence \in Offence
  BY DEF ChatInv, ChatTypeOK, Offends, Offence
<1>2. Unknown \in Entry /\ Unknown.started = 0 /\ Unknown.points = 0 /\ Unknown.muted = 0
  BY DEF Unknown, Entry
<1>3. ASSUME NEW v \in Chatters
      PROVE  /\ swept[v] \in Entry
             /\ Booked(offences, now, v, swept[v].started, swept[v].points, swept[v].muted,
                       sentence[v])
  <2>1. Booked(offences, now, v, ledger[v].started, ledger[v].points, ledger[v].muted,
               sentence[v])
    BY DEF ChatInv, LedgerBooked
  <2>2. CASE swept[v] = ledger[v]
    BY <1>1, <2>1, <2>2
  <2>3. CASE swept[v] = Unknown /\ Forgotten(ledger[v])
    <3>1. ledger[v].muted <= now /\ now - ledger[v].started > MuteWindow
      BY <2>3 DEF Forgotten, WindowOver
    <3>2. Booked(offences, now, v, 0, 0, 0, sentence[v])
      BY <1>1, <2>1, <3>1, ChatAssumed, ForgottenBooked
    <3> QED
      BY <1>2, <2>3, <3>2
  <2>4. swept[v] = ledger[v] \/ (swept[v] = Unknown /\ Forgotten(ledger[v]))
    BY DEF Swept
  <2> QED
    BY <2>2, <2>3, <2>4
<1>4. swept = [v \in Chatters |-> swept[v]]
  BY <1>1 DEF Swept
<1> DEFINE old == swept[u]
           entry == [Fresh(old) EXCEPT !.points = @ + q]
           until == IF entry.muted > now + MuteTime THEN entry.muted ELSE now + MuteTime
           new == IF entry.points >= MuteThreshold THEN [entry EXCEPT !.muted = until] ELSE entry
<1>5. ledger' = [swept EXCEPT ![u] = new]
  BY Zenon DEF Offends, Recorded
<1>6. /\ old \in Entry /\ old.muted <= now + MuteTime /\ old.started \in Nat
      /\ old.points \in Nat /\ old.muted \in Nat
      /\ Booked(offences, now, u, old.started, old.points, old.muted, sentence[u])
  BY <1>3 DEF Booked, Entry
<1> HIDE DEF swept
<1>7. /\ now - old.started > MuteWindow =>
            entry = [points |-> q, started |-> now, muted |-> old.muted]
      /\ now - old.started <= MuteWindow =>
            entry = [points |-> old.points + q, started |-> old.started, muted |-> old.muted]
  <2>1. PICK op \in Nat, os \in Nat, om \in Nat :
          old = [points |-> op, started |-> os, muted |-> om]
    BY <1>6 DEF Entry
  <2>2. old.points = op /\ old.started = os /\ old.muted = om
    BY <2>1
  <2> HIDE DEF old
  <2>3. CASE now - os > MuteWindow
    <3>1. Fresh(old) = [points |-> 0, started |-> now, muted |-> om]
      BY <2>1, <2>2, <2>3 DEF Fresh, WindowOver
    <3>2. entry = [points |-> 0 + q, started |-> now, muted |-> om]
      BY <3>1
    <3>3. entry = [points |-> q, started |-> now, muted |-> old.muted]
      BY <2>2, <3>2
    <3>4. ~(now - os <= MuteWindow)
      BY <1>1, <2>3, ChatAssumption
    <3> HIDE DEF entry
    <3> QED
      BY <2>2, <3>3, <3>4
  <2>4. CASE now - os <= MuteWindow
    <3>1. Fresh(old) = old
      BY <1>1, <2>2, <2>4, ChatAssumption DEF Fresh, WindowOver
    <3>2. entry = [points |-> op + q, started |-> os, muted |-> om]
      BY <2>1, <3>1
    <3> QED
      BY <2>2, <2>4, <3>2, <1>1, ChatAssumption
  <2> QED
    BY <1>1, <2>3, <2>4, ChatAssumption
<1>8. /\ entry \in Entry
      /\ entry.started \in Nat /\ entry.points \in Nat /\ entry.muted = old.muted
      /\ now - old.started > MuteWindow => entry.started = now /\ entry.points = q
      /\ now - old.started <= MuteWindow =>
            entry.started = old.started /\ entry.points = old.points + q
  <2> HIDE DEF entry, old
  <2>1. now - old.started > MuteWindow \/ now - old.started <= MuteWindow
    BY <1>1, <1>6, ChatAssumption
  <2>2. CASE now - old.started > MuteWindow
    <3>1. ~(now - old.started <= MuteWindow)
      BY <1>1, <1>6, <2>2, ChatAssumption
    <3> QED
      BY <1>1, <1>6, <1>7, <2>2, <3>1 DEF Entry
  <2>3. CASE now - old.started <= MuteWindow
    <3>1. ~(now - old.started > MuteWindow)
      BY <1>1, <1>6, <2>3, ChatAssumption
    <3>2. old.points + q \in Nat
      BY <1>6
    <3> QED
      BY <1>1, <1>6, <1>7, <2>3, <3>1, <3>2 DEF Entry
  <2> QED
    BY <2>1, <2>2, <2>3
<1> HIDE DEF entry, old
<1>9. until = now + MuteTime /\ until \in Nat
  <2>1. PICK om \in Nat : om = old.muted /\ entry.muted = om
    BY <1>6, <1>8
  <2>2. om <= now + MuteTime
    BY <1>6, <2>1
  <2>3. until = IF om > now + MuteTime THEN om ELSE now + MuteTime
    BY <2>1
  <2> QED
    BY <1>1, <2>2, <2>3, ChatAssumption
<1>10. /\ new \in Entry /\ new.started = entry.started /\ new.points = entry.points
       /\ new.points >= MuteThreshold => new.muted = now + MuteTime
       /\ new.points < MuteThreshold => new.muted = old.muted
  BY <1>8, <1>9, ChatAssumption DEF Entry
<1> HIDE DEF new
<1>11. ledger' \in [Chatters -> Entry] /\ ledger'[u] = new
       /\ \A v \in Chatters \ {u} : ledger'[v] = swept[v]
  BY <1>3, <1>4, <1>5, <1>10
<1>12. /\ sentence' \in [Chatters -> Nat]
       /\ new.points >= MuteThreshold => sentence'[u] = now + MuteTime
       /\ new.points < MuteThreshold => sentence'[u] = sentence[u]
       /\ \A v \in Chatters \ {u} : sentence'[v] = sentence[v]
  <2>1. sentence' = [sentence EXCEPT ![u] =
                        IF new.points >= MuteThreshold THEN new.muted ELSE @]
    BY <1>11 DEF Offends
  <2>2. new.points \in Nat /\ MuteThreshold \in Nat /\ new.muted \in Nat
    BY <1>10, ChatAssumption DEF Entry
  <2> QED
    BY <1>1, <1>10, <2>1, <2>2
<1>13. /\ Logged(offences', now)
       /\ Booked(offences', now, u, new.started, new.points, new.muted, sentence'[u])
  <2> DEFINE s == old.started
             p == old.points
             m == old.muted
             s2 == new.started
             p2 == new.points
             m2 == new.muted
             sen == sentence[u]
             sen2 == sentence'[u]
             log == offences
             more == offences'
  <2>1. Logged(log, now) /\ Booked(log, now, u, s, p, m, sen)
    BY <1>1, <1>6
  <2>2. OffenceCounted(now, q, s, p, m, sen, s2, p2, m2, sen2)
    BY <1>8, <1>10, <1>12 DEF OffenceCounted
  <2>3. more = Append(log, [by |-> u, at |-> now, points |-> q]) /\ now \in Nat
    BY <1>1
  <2> HIDE DEF s, p, m, s2, p2, m2, sen, sen2, log, more, now
  <2>4. Logged(more, now) /\ Booked(more, now, u, s2, p2, m2, sen2)
    BY <2>1, <2>2, <2>3, ChatAssumed, OffenceBooked
  <2> QED
    BY <2>4 DEF s2, p2, m2, sen2, more, now
<1>14. ASSUME NEW v \in Chatters \ {u}
       PROVE  Booked(offences', now, v, swept[v].started, swept[v].points, swept[v].muted,
                     sentence[v])
  BY <1>1, <1>3, OthersBooked
<1> QED
  BY <1>1, <1>11, <1>12, <1>13, <1>14 DEF LedgerBooked

LEMMA ChatStarts == ChatInit => ChatInv
<1> SUFFICES ASSUME ChatInit PROVE ChatInv
  OBVIOUS
<1>1. \A u, times : PointsOf(<<>>, u, times) = 0
  <2>1. <<>> \in Seq(Offence) /\ DOMAIN <<>> = {}
    OBVIOUS
  <2> QED
    BY <2>1, PointsAreNat
<1>2. ChatTypeOK
  BY ChatAssumption DEF ChatInit, ChatTypeOK, Unknown, Entry
<1>3. Logged(offences, chatTick)
  BY DEF ChatInit, Logged
<1>4. LedgerBooked
  <2> SUFFICES ASSUME NEW u \in Chatters
               PROVE  Booked(<<>>, MuteWindow + 1, u, 0, 0, 0, 0)
    BY DEF LedgerBooked, ChatInit, Unknown
  <2>1. OffenceTimes(<<>>, u) = {}
    BY DEF OffenceTimes
  <2>2. Spaced({}, MuteWindow + 1, 0)
    BY ChatAssumption DEF Spaced
  <2>3. \A t \in Nat : PointsOf(<<>>, u, t..(t + MuteWindow)) <= MuteThreshold - 1
    BY <1>1, ChatAssumption
  <2>4. MuteWindow \in Nat /\ MuteTime \in Nat /\ DOMAIN <<>> = {}
    BY ChatAssumption
  <2>5. /\ 0 <= MuteWindow + 1 /\ 0 <= MuteWindow + 1 + MuteTime
        /\ ~(MuteWindow + 1 - 0 <= MuteWindow) /\ ~(0 > MuteWindow + 1)
    BY <2>4
  <2>6. ASSUME NEW log, OffenceTimes(log, u) = {}, DOMAIN log = {},
               \A t \in Nat : PointsOf(log, u, t..(t + MuteWindow)) <= MuteThreshold - 1
        PROVE  Booked(log, MuteWindow + 1, u, 0, 0, 0, 0)
    BY <2>2, <2>4, <2>5, <2>6 DEF Booked
  <2> QED
    BY <2>1, <2>3, <2>4, <2>6
<1> QED
  BY <1>2, <1>3, <1>4 DEF ChatInv

LEMMA ChatStep == ChatInv /\ [ChatNext]_chatVars => ChatInv'
<1> SUFFICES ASSUME ChatInv, [ChatNext]_chatVars PROVE ChatInv'
  OBVIOUS
<1> USE DEF ChatInv
<1>1. ASSUME NEW u \in Chatters, NEW text, Publish(u, text), UNCHANGED chatTick
      PROVE  /\ published' \in Seq([by : Chatters, at : Nat, masked : BOOLEAN])
             /\ audits' \subseteq DOMAIN published'
  <2> DEFINE message == [by |-> u, at |-> chatTick,
                         masked |-> Screened(text).severity # "none"]
  <2>1. message \in [by : Chatters, at : Nat, masked : BOOLEAN]
    BY DEF ChatTypeOK
  <2> HIDE DEF message
  <2>2. /\ published' = Append(published, message) /\ audits' = audits \cup {Len(published')}
        /\ published \in Seq([by : Chatters, at : Nat, masked : BOOLEAN])
    BY <1>1 DEF Publish, ChatTypeOK, message
  <2>3. /\ published' \in Seq([by : Chatters, at : Nat, masked : BOOLEAN])
        /\ Len(published) \in Nat /\ Len(published') = Len(published) + 1
        /\ DOMAIN published = 1..Len(published) /\ DOMAIN published' = 1..(Len(published) + 1)
    BY <2>1, <2>2, LenProperties, AppendProperties
  <2> QED
    BY <2>2, <2>3 DEF ChatTypeOK
<1>2. ASSUME NEW u \in Chatters, NEW text, Say(u, text)  PROVE ChatInv'
  <2>1. UNCHANGED chatTick
    BY <1>2 DEF Say
  <2>2. CASE Publish(u, text) /\ UNCHANGED <<ledger, offences, sentence>>
    BY <1>1, <2>1, <2>2 DEF ChatTypeOK, LedgerBooked
  <2>3. CASE \E q \in {1, 2} : Offends(u, q) /\ (Publish(u, text) \/ UNCHANGED <<published, audits>>)
    <3>1. PICK q \in {1, 2} : Offends(u, q) /\ (Publish(u, text) \/ UNCHANGED <<published, audits>>)
      BY <2>3
    <3>2. /\ ledger' \in [Chatters -> Entry] /\ sentence' \in [Chatters -> Nat]
          /\ Logged(offences, chatTick)' /\ LedgerBooked'
      BY <2>1, <3>1, OffenceStep
    <3>3. /\ published' \in Seq([by : Chatters, at : Nat, masked : BOOLEAN])
          /\ audits' \subseteq DOMAIN published'
      <4>1. CASE Publish(u, text)
        BY <1>1, <2>1, <4>1
      <4>2. CASE UNCHANGED <<published, audits>>
        BY <4>2 DEF ChatTypeOK
      <4> QED
        BY <3>1, <4>1, <4>2
    <3> QED
      BY <2>1, <3>2, <3>3 DEF ChatTypeOK
  <2> QED
    BY <1>2, <2>2, <2>3 DEF Say, Reviewed
<1>3. ASSUME NEW n \in audits, NEW answer \in Answers, Audited(n, answer)  PROVE ChatInv'
  <2>1. UNCHANGED <<chatTick, published>> /\ audits' \subseteq audits
    BY <1>3 DEF Audited
  <2>2. CASE UNCHANGED <<ledger, offences, sentence>>
    BY <2>1, <2>2 DEF ChatTypeOK, LedgerBooked
  <2>3. CASE Offends(published[n].by, 2)
    <3>1. published[n].by \in Chatters
      <4>1. n \in 1..Len(published)
        BY LenProperties DEF ChatTypeOK
      <4>2. published[n] \in [by : Chatters, at : Nat, masked : BOOLEAN]
        BY <4>1, ElementOfSeq DEF ChatTypeOK
      <4> QED
        BY <4>2
    <3>2. /\ ledger' \in [Chatters -> Entry] /\ sentence' \in [Chatters -> Nat]
          /\ Logged(offences, chatTick)' /\ LedgerBooked'
      BY <2>1, <2>3, <3>1, OffenceStep
    <3> QED
      BY <2>1, <3>2 DEF ChatTypeOK
  <2> QED
    BY <1>3, <2>2, <2>3 DEF Audited
<1>4. CASE ChatTimePasses
  <2>1. /\ chatTick' = chatTick + 1 /\ chatTick \in Nat
        /\ UNCHANGED <<ledger, published, audits, offences, sentence>>
    BY <1>4 DEF ChatTimePasses, ChatTypeOK
  <2>2. ChatTypeOK'
    BY <2>1, ChatAssumption DEF ChatTypeOK
  <2>3. Logged(offences, chatTick)'
    <3>1. ASSUME NEW i \in DOMAIN offences PROVE offences[i].at <= chatTick + 1
      <4>1. DOMAIN offences = 1..Len(offences) /\ offences \in Seq(Offence)
        BY LenProperties DEF Logged
      <4>2. offences[i] \in Offence
        BY <4>1, ElementOfSeq
      <4> QED
        BY <2>1, <4>2 DEF Offence, Logged
    <3> QED
      BY <2>1, <3>1 DEF Logged
  <2>4. LedgerBooked'
    <3>1. ASSUME NEW u \in Chatters
          PROVE  Booked(offences, chatTick + 1, u, ledger[u].started, ledger[u].points,
                        ledger[u].muted, sentence[u])
      BY <2>1, ChatAssumed, TimeBooked DEF LedgerBooked
    <3> QED
      BY <2>1, <3>1 DEF LedgerBooked
  <2> QED
    BY <2>2, <2>3, <2>4
<1>5. CASE UNCHANGED talkVars
  BY <1>5 DEF talkVars, ChatTypeOK, LedgerBooked
<1> QED
  BY <1>2, <1>3, <1>4, <1>5 DEF ChatNext, TypingNext, TalkNext, chatVars

LEMMA ChatSoundness == ChatInv => MutesSound
<1> SUFFICES ASSUME ChatInv PROVE MutesSound
  OBVIOUS
<1>1. ASSUME NEW u \in Chatters
      PROVE  Booked(offences, chatTick, u, ledger[u].started, ledger[u].points,
                    ledger[u].muted, sentence[u])
  BY DEF ChatInv, LedgerBooked
<1>2. MuteEarned
  BY <1>1 DEF MuteEarned, Booked
<1>3. MutesServed
  BY <1>1 DEF MutesServed, Booked
<1>4. RestedAreMuted
  <2> SUFFICES ASSUME NEW u \in Chatters, NEW t \in 0..LastChatTick,
                      Rested(OffenceTimes(offences, u), t), sentence[u] < t + MuteTime
               PROVE  ~(PointsOf(offences, u, t..(t + MuteWindow)) >= MuteThreshold)
    <3>1. \A u \in Chatters : sentence[u] \in Nat
      BY DEF ChatInv, ChatTypeOK
    <3> QED
      BY <3>1, ChatAssumption DEF RestedAreMuted
  <2>1. t \in Nat
    BY ChatAssumption
  <2>2. PointsOf(offences, u, t..(t + MuteWindow)) <= MuteThreshold - 1
    BY <1>1, <2>1 DEF Booked
  <2>3. PointsOf(offences, u, t..(t + MuteWindow)) \in Nat
    BY PointsAreNat DEF ChatInv, Logged
  <2> QED
    BY <2>2, <2>3, ChatAssumption
<1> QED
  BY <1>2, <1>3, <1>4 DEF MutesSound

\* Whoever is muted offended enough within a window and serves his time, and whoever offends
\* enough after a quiet window is muted, whatever was swept and however late the audits answer
\* (record and clear_expired, moderation.rs:403).
THEOREM MutesStaySound == ChatSpec => []MutesSound
<1>1. ChatInit => ChatInv
  BY ChatStarts
<1>2. ChatInv /\ [ChatNext]_chatVars => ChatInv'
  BY ChatStep
<1>3. ChatInv => MutesSound
  BY ChatSoundness
<1> QED
  BY <1>1, <1>2, <1>3, PTL DEF ChatSpec

-----------------------------------------------------------------------------
\* In the composite every step is one of the room, of the clock, of the comparison or of the
\* chat, or leaves them alone.
LEMMA TablesStep ==
    [Next]_vars => /\ [RoomNext]_roomVars /\ [ClocksNext]_clockVars
                   /\ [SyncNext]_syncVars /\ [ChatNext]_chatVars
<1> SUFFICES ASSUME [Next]_vars
             PROVE  /\ [RoomNext]_roomVars /\ [ClocksNext]_clockVars
                    /\ [SyncNext]_syncVars /\ [ChatNext]_chatVars
  OBVIOUS
<1>1. CASE UNCHANGED vars
  BY <1>1 DEF vars
<1>2. CASE Tracking \/ Streaming
  BY <1>2 DEF Tracking, TrackerOnly, Streaming
<1>6. CASE Chatting
  BY <1>6 DEF Chatting, ChatNext
<1>3. CASE PlayingInRooms
  BY <1>3 DEF PlayingInRooms
<1>4. CASE Timing
  BY <1>4 DEF Timing
<1>5. CASE Synchronising
  BY <1>5 DEF Synchronising
<1> QED
  BY <1>1, <1>2, <1>3, <1>4, <1>5, <1>6 DEF Next

\* Rooms keep to their seats, turns and times, takebacks and lost connections included; no
\* clock without periods loses time but what it ran, in any order of its calls; an estimate of a
\* client's clock keeps its error bound whatever is delayed, repeated or lost; and whoever is
\* muted in the chat earned it and serves it, and who offends enough after a quiet window is,
\* whatever is swept or reviewed late.
THEOREM TablesStaySound == Spec => []TablesSound
<1>1. Init => RoomInv /\ ClockInv /\ SyncInv /\ ChatInv
  BY RoomStarts, ClockStarts, SyncStarts, ChatStarts DEF Init
<1>2. RoomInv /\ ClockInv /\ SyncInv /\ ChatInv /\ [Next]_vars
        => (RoomInv /\ ClockInv /\ SyncInv /\ ChatInv)'
  BY TablesStep, RoomStep, ClockStep, SyncStep, ChatStep
<1>3. RoomInv /\ ClockInv /\ SyncInv /\ ChatInv => TablesSound
  BY RoomSound, ClockSound, SyncIsSound, ChatSoundness DEF TablesSound
<1> QED
  BY <1>1, <1>2, <1>3, PTL DEF Spec
==============================================================================
