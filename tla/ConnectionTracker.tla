-------------------------- MODULE ConnectionTracker --------------------------
(***************************************************************************)
(* Who is connected to a game                                              *)
(* (src/backend/modules/api/src/ws.rs).  Every web socket is an actor, a   *)
(* session; the ConnectionStateTracker is one more.  Sessions tell it that *)
(* they started or stopped, grace timers tell it that they ran out, and it *)
(* takes all these messages one at a time from one mailbox.                *)
(*                                                                         *)
(* The module follows one game.  Nothing keeps a user who does not play in *)
(* it from opening a player's session: the tracker treats such a visitor   *)
(* as a player, and only the database tells them apart.  A session is a    *)
(* pair of its user and a number; a user opens his sessions in the order   *)
(* of the numbers.  A grace timer has the name of the session whose end    *)
(* started it.  The row of the game is reduced to its players and result.  *)
(***************************************************************************)
EXTENDS Integers, Sequences, FiniteSets

CONSTANTS
    Players,       \* users who open a player's session for the game
    Participants,  \* those among them who play: white_player and black_player
    Sessions,      \* pairs <<player, number>>
    NoSession,     \* None
    MaxMail,       \* bound of the model: messages waiting in the mailbox
    MaxRestarts    \* bound of the model: restarts of the server

ASSUME TrackerAssumption ==
    /\ Participants \subseteq Players
    /\ Sessions \subseteq Players \X Nat
    /\ NoSession \notin Sessions
    /\ MaxMail \in Nat
    /\ MaxRestarts \in Nat

VARIABLES
    life,          \* of every session: "new", "open" or "stopped"
    active,        \* is_active of the game's session state
    status,        \* of every player; "absent" before the tracker knows him
    addr,          \* the session that gets the notices for a player
    handle,        \* the grace timer the tracker can still abort
    timer,         \* of every session: the task of its grace timer
    mailbox,       \* the tracker's mailbox
    told,          \* the last notice about the opponent that went to addr
    result,        \* the result in the database
    abandoning,    \* the task that abandons the game for a player
    overlapped,    \* history: players who had two sessions open at once
    restarts

trackerVars == <<life, active, status, addr, handle, timer, mailbox, told,
                 result, abandoning, overlapped, restarts>>

Owner(s) == s[1]

TrackerMessages == [type : {"reconnected", "disconnected", "expired"}, session : Sessions]

Message(type, s) == [type |-> type, session |-> s]

(***************************************************************************)
(* The sessions                                                            *)
(***************************************************************************)
TrackerInit ==
    /\ life = [s \in Sessions |-> "new"]
    /\ active = TRUE
    /\ status = [p \in Players |-> "absent"]
    /\ addr = [p \in Players |-> NoSession]
    /\ handle = [p \in Players |-> NoSession]
    /\ timer = [s \in Sessions |-> "none"]
    /\ mailbox = <<>>
    /\ told = [p \in Players |-> "nothing"]
    /\ result = "ongoing"
    /\ abandoning = [p \in Players |-> "no"]
    /\ overlapped = {}
    /\ restarts = 0

\* do_send, below the bound.
Send(m) == Len(mailbox) < MaxMail /\ mailbox' = Append(mailbox, m)

OpenSessions(p) == {s \in Sessions : Owner(s) = p /\ life[s] = "open"}

NextSession(s) ==
    /\ life[s] = "new"
    /\ \A r \in Sessions : Owner(r) = Owner(s) /\ r[2] < s[2] => life[r] # "new"

\* started: nothing keeps a player from opening a second web socket, and after a
\* broken connection the old one lives on until its heartbeat runs out.
SessionStarts(s) ==
    /\ NextSession(s)
    /\ life' = [life EXCEPT ![s] = "open"]
    /\ overlapped' = IF OpenSessions(Owner(s)) = {} THEN overlapped
                     ELSE overlapped \cup {Owner(s)}
    /\ Send(Message("reconnected", s))
    /\ UNCHANGED <<active, status, addr, handle, timer, told, result, abandoning, restarts>>

\* stopped: the client closed the connection, or its heartbeat ran out.
SessionStops(s) ==
    /\ life[s] = "open"
    /\ life' = [life EXCEPT ![s] = "stopped"]
    /\ Send(Message("disconnected", s))
    /\ UNCHANGED <<active, status, addr, handle, timer, told, result, abandoning,
                   overlapped, restarts>>

BadNotices(p, notice) ==
    [q \in Players |-> IF q = p THEN "nothing"
                       ELSE IF addr[q] # NoSession /\ notice = "lost" THEN notice ELSE told[q]]

(***************************************************************************)
(* The tracker                                                             *)
(***************************************************************************)
\* broadcast_to_other_players: to every address the tracker has.
Notices(p, notice) ==
    [q \in Players |-> IF q = p THEN "nothing"
                       ELSE IF addr[q] # NoSession THEN notice ELSE told[q]]

Receive(type) ==
    /\ mailbox # <<>>
    /\ Head(mailbox).type = type
    /\ mailbox' = Tail(mailbox)

Sender == Owner(Head(mailbox).session)

Tracked(p) == active /\ status[p] \in {"connected", "reconnecting"}

BadTimerStarted(p, s) ==
    IF handle[p] # NoSession THEN [timer EXCEPT ![handle[p]] = "over"]
    ELSE [timer EXCEPT ![s] = "running"]

TimerStarted(p, s) == [timer EXCEPT ![s] = "running"]

\* PlayerDisconnected: the session that stopped need not be the one that reported
\* last, and a timer that already runs is not aborted.
PlayerDisconnected ==
    /\ Receive("disconnected")
    /\ LET s == Head(mailbox).session
           p == Sender
       IN  /\ Tracked(p)
           /\ status' = [status EXCEPT ![p] = "reconnecting"]
           /\ addr' = [addr EXCEPT ![p] = NoSession]
           /\ told' = Notices(p, "lost")
           /\ timer' = TimerStarted(p, s)
           /\ handle' = [handle EXCEPT ![p] = s]
    /\ UNCHANGED <<life, active, result, abandoning, overlapped, restarts>>

Aborted(p) ==
    IF handle[p] # NoSession /\ timer[handle[p]] = "running"
    THEN [timer EXCEPT ![handle[p]] = "over"]
    ELSE timer

\* PlayerReconnected of a player the tracker knows: an abort comes too late for a
\* timer that has run out already.
PlayerReconnected ==
    /\ Receive("reconnected")
    /\ LET p == Sender
       IN  /\ active
           /\ status[p] # "absent"
           /\ timer' = Aborted(p)
           /\ handle' = [handle EXCEPT ![p] = NoSession]
           /\ status' = [status EXCEPT ![p] = "connected"]
           /\ addr' = [addr EXCEPT ![p] = Head(mailbox).session]
           /\ told' = Notices(p, "back")
    /\ UNCHANGED <<life, active, result, abandoning, overlapped, restarts>>

\* PlayerReconnected of a player it does not know yet.
PlayerArrives ==
    /\ Receive("reconnected")
    /\ LET p == Sender
       IN  /\ active
           /\ status[p] = "absent"
           /\ status' = [status EXCEPT ![p] = "connected"]
           /\ addr' = [addr EXCEPT ![p] = Head(mailbox).session]
    /\ UNCHANGED <<life, active, handle, timer, told, result, abandoning, overlapped, restarts>>

BadWaited(p) == active /\ status[p] # "disconnected"

Waited(p) == active /\ status[p] = "reconnecting"

\* GracePeriodExpired: the message names the player, not the timer.
GracePeriodExpired ==
    /\ Receive("expired")
    /\ LET p == Sender
       IN  /\ Waited(p)
           /\ status' = [status EXCEPT ![p] = "disconnected"]
           /\ handle' = [handle EXCEPT ![p] = NoSession]
           /\ active' = FALSE
           /\ abandoning' = [abandoning EXCEPT ![p] = "asked"]
    /\ UNCHANGED <<life, addr, timer, told, result, overlapped, restarts>>

Ignored(m) ==
    CASE m.type = "disconnected" -> ~Tracked(Owner(m.session))
      [] m.type = "reconnected"  -> ~active
      [] m.type = "expired"      -> ~Waited(Owner(m.session))

MessageIgnored ==
    /\ mailbox # <<>>
    /\ Ignored(Head(mailbox))
    /\ mailbox' = Tail(mailbox)
    /\ UNCHANGED <<life, active, status, addr, handle, timer, told, result, abandoning,
                   overlapped, restarts>>

TakeMessage ==
    PlayerDisconnected \/ PlayerReconnected \/ PlayerArrives \/ GracePeriodExpired
      \/ MessageIgnored

\* The sleep of a grace timer ends: 60 seconds after the disconnection was handled.
TimerRunsOut(s) ==
    /\ timer[s] = "running"
    /\ timer' = [timer EXCEPT ![s] = "over"]
    /\ Send(Message("expired", s))
    /\ UNCHANGED <<life, active, status, addr, handle, told, result, abandoning,
                   overlapped, restarts>>

(***************************************************************************)
(* The database: abandon_game_on reads the row and updates it with a       *)
(* second statement that looks at nothing.                                 *)
(***************************************************************************)
\* Mutant: "not white or not black" where "not white and not black" is meant.
BadPlaying(p) == \A q \in Participants : p = q

Playing(p) == p \in Participants

\* Forbidden for a visitor, and BadRequest for a game that is over.
AbandonReads(p) ==
    /\ abandoning[p] = "asked"
    /\ abandoning' = [abandoning EXCEPT ![p] = IF ~Playing(p) THEN "refused"
                                               ELSE IF result # "ongoing" THEN "failed"
                                               ELSE "read"]
    /\ UNCHANGED <<life, active, status, addr, handle, timer, mailbox, told, result,
                   overlapped, restarts>>

AbandonWrites(p) ==
    /\ abandoning[p] = "read"
    /\ abandoning' = [abandoning EXCEPT ![p] = "done"]
    /\ result' = "abandoned"
    /\ UNCHANGED <<life, active, status, addr, handle, timer, mailbox, told,
                   overlapped, restarts>>

\* A database error is logged; nobody asks again.
AbandonFails(p) ==
    /\ abandoning[p] \in {"asked", "read"}
    /\ abandoning' = [abandoning EXCEPT ![p] = "failed"]
    /\ UNCHANGED <<life, active, status, addr, handle, timer, mailbox, told, result,
                   overlapped, restarts>>

\* complete_game_on, over HTTP; the tracker does not hear of it.
GameEnds ==
    /\ result = "ongoing"
    /\ result' = "finished"
    /\ UNCHANGED <<life, active, status, addr, handle, timer, mailbox, told, abandoning,
                   overlapped, restarts>>

\* The server stops and starts again: sessions, timers, tasks and the tracker are
\* all in memory.
Restart ==
    /\ restarts < MaxRestarts
    /\ restarts' = restarts + 1
    /\ life' = [s \in Sessions |-> IF life[s] = "open" THEN "stopped" ELSE life[s]]
    /\ active' = TRUE
    /\ status' = [p \in Players |-> "absent"]
    /\ addr' = [p \in Players |-> NoSession]
    /\ handle' = [p \in Players |-> NoSession]
    /\ timer' = [s \in Sessions |-> IF timer[s] = "running" THEN "over" ELSE timer[s]]
    /\ mailbox' = <<>>
    /\ abandoning' = [p \in Players |-> IF abandoning[p] \in {"asked", "read"} THEN "failed"
                                        ELSE abandoning[p]]
    /\ overlapped' = {}
    /\ told' = [p \in Players |-> "nothing"]
    /\ UNCHANGED result

TrackerNext ==
    \/ \E s \in Sessions : SessionStarts(s) \/ SessionStops(s) \/ TimerRunsOut(s)
    \/ TakeMessage
    \/ \E p \in Players : AbandonReads(p) \/ AbandonWrites(p) \/ AbandonFails(p)
    \/ GameEnds
    \/ Restart

\* actix hands every message of a mailbox to its actor, tokio wakes every sleeper,
\* and the database answers.  Nobody has to connect, play or fail.
TrackerFairness ==
    /\ WF_trackerVars(TakeMessage)
    /\ \A s \in Sessions : WF_trackerVars(TimerRunsOut(s))
    /\ \A p \in Players : WF_trackerVars(AbandonReads(p) \/ AbandonWrites(p))

TrackerSpec == TrackerInit /\ [][TrackerNext]_trackerVars

(***************************************************************************)
(* Properties                                                              *)
(***************************************************************************)
\* Every variable keeps its type.
TrackerTypeOK ==
    /\ life \in [Sessions -> {"new", "open", "stopped"}]
    /\ active \in BOOLEAN
    /\ status \in [Players -> {"absent", "connected", "reconnecting", "disconnected"}]
    /\ addr \in [Players -> Sessions \cup {NoSession}]
    /\ handle \in [Players -> Sessions \cup {NoSession}]
    /\ timer \in [Sessions -> {"none", "running", "over"}]
    /\ mailbox \in Seq(TrackerMessages)
    /\ told \in [Players -> {"nothing", "lost", "back"}]
    /\ result \in {"ongoing", "finished", "abandoned"}
    /\ abandoning \in [Players -> {"no", "asked", "read", "done", "failed", "refused"}]
    /\ overlapped \subseteq Players
    /\ restarts \in 0..MaxRestarts

InMailbox(type, s) == \E i \in 1..Len(mailbox) : mailbox[i] = Message(type, s)

\* The tracker never waits for a player without a clock: as long as a player of an
\* active game is reconnecting, the timer whose handle it holds runs, or the end
\* of that timer is on its way (PlayerDisconnected, PlayerReconnected and
\* GracePeriodExpired all move status and handle together).
GraceIsTimed ==
    active => \A p \in Players :
        /\ status[p] = "reconnecting" =>
              /\ handle[p] # NoSession
              /\ timer[handle[p]] = "running" \/ InMailbox("expired", handle[p])
        /\ status[p] # "reconnecting" => handle[p] = NoSession

\* What a connected player was told last is true of somebody else the tracker knows: after
\* "lost" somebody is away whom it had, after "back" somebody is there, whatever sessions
\* came and went in between.  A notice has no name: it may be about a visitor.
NoticesTrue ==
    \A p \in Players : \A s \in OpenSessions(p) : addr[p] = s =>
        /\ told[p] = "lost" =>
              \E q \in Players \ {p} : status[q] \in {"reconnecting", "disconnected"}
        /\ told[p] = "back" => \E q \in Players \ {p} : status[q] = "connected"

Loses(p) == status[p] # "disconnected" /\ status'[p] = "disconnected"

\* A session the tracker has been told of.
Reported(s) == life[s] = "open" /\ ~InMailbox("reconnected", s)

\* The grace period ends the game only for a player who is away: unless he ever had
\* two sessions open at once, whoever is given up has no open session the tracker
\* was told of, whichever timers, cancelled or not, ran out in between.
OnlyTheAbsentLose ==
    [][\A p \in Players \ overlapped : Loses(p) =>
          \A s \in Sessions : Owner(s) = p => ~Reported(s)]_trackerVars

\* Neither player of a game is waited for for ever: one who leaves comes back, or the game
\* gets a result, unless the database fails, the server restarts, or a visitor used up the
\* one abandonment the tracker asks for (his grace period deactivates the game, ws.rs:495,
\* and the database refuses to abandon it for him, games.rs:402).
LeaversLose ==
    \A p \in Participants :
        status[p] = "reconnecting" ~>
            \/ status[p] \in {"connected", "absent"}
            \/ result # "ongoing"
            \/ \E q \in Players : abandoning[q] = "failed"
            \/ \E q \in Players \ Participants : abandoning[q] = "refused"

\* OnlyTheAbsentLose without the exception for players with two sessions.  The code breaks
\* this: a session that stops after its player has reconnected starts a grace
\* period that nothing cancels.
NobodyOusted ==
    [][\A p \in Players : Loses(p) =>
          \A s \in Sessions : Owner(s) = p => ~Reported(s)]_trackerVars
=============================================================================
