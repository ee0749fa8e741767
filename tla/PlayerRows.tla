------------------------------ MODULE PlayerRows ------------------------------
(***************************************************************************)
(* Rows of table player (src/backend/modules/service/src/players.rs,       *)
(* api/src/players.rs).  Profiles are read from a replica that lags behind *)
(* and written to the primary; preferences are read from and written back  *)
(* to the primary as a whole.  A request is a read, for a new name a second*)
(* read, and a write, and others run between them.  An update writes only  *)
(* the columns it sets.  A row is [name, enabled, settings]; e-mail        *)
(* addresses are unique like names and stand for the player himself.       *)
(* A moderator's ban (service/src/admin_audit.rs) deletes the player and   *)
(* then writes a row of the audit log.                                     *)
(***************************************************************************)
EXTENDS Naturals, FiniteSets

CONSTANTS
    Owners, Usernames,
    NoName,         \* the name of a player that has no row yet
    Settings,       \* keys of the preferences
    Visits,         \* slots for requests in flight
    MaxPlayerWrites \* bound of the model: writes to the primary

ASSUME PlayerRowsAssumption ==
    IsFiniteSet(Visits) /\ NoName \notin Usernames /\ MaxPlayerWrites \in Nat

VARIABLES
    primary, replica,
    visit,          \* of every slot: next step, player, what it wants to write
    writes,
    overlapped,     \* history: players for whom two updates of preferences overlapped
    wanted,         \* history: the settings a player was told are saved
    left,           \* history: deleted players, and the requests that read them before
    unaudited       \* bans that have no row in the audit log

playerVars == <<primary, replica, visit, writes, overlapped, wanted, left, unaudited>>

NoPlayer == [name |-> NoName, enabled |-> FALSE, settings |-> {}]

NoVisit == [step |-> "none", player |-> NoName, name |-> NoName, settings |-> {}]

PlayersInit ==
    /\ primary = [p \in Owners |-> NoPlayer]
    /\ replica = primary
    /\ visit = [v \in Visits |-> NoVisit]
    /\ writes = 0 /\ overlapped = {}
    /\ wanted = [p \in Owners |-> {}]
    /\ left = {}
    /\ unaudited = 0

Free(v) == visit[v].step = "none"

Goes(v, step, p, name, settings) ==
    visit' = [visit EXCEPT ![v] = [step |-> step, player |-> p, name |-> name,
                                   settings |-> settings]]

EndsVisit(v) == visit' = [visit EXCEPT ![v] = NoVisit]

\* find_player_by_id: deleted players are not found.
Found(table, p) == table[p].enabled

UsernameTaken(table, p, name) == \E q \in Owners \ {p} : table[q].name = name

CatchesUp ==
    /\ replica # primary
    /\ replica' = primary
    /\ UNCHANGED <<primary, visit, writes, overlapped, wanted, left, unaudited>>

Writes(p, row) ==
    /\ writes < MaxPlayerWrites
    /\ writes' = writes + 1
    /\ primary' = [primary EXCEPT ![p] = row]

\* Both lookups are made on the replica, and a failed one for the address counts as free.
AddPlayer(v, p, name) ==
    /\ Free(v)
    /\ ~UsernameTaken(replica, p, name) /\ replica[p].name = NoName
    /\ Goes(v, "insert", p, name, {})
    /\ UNCHANGED <<primary, replica, writes, overlapped, wanted, left, unaudited>>

\* The unique keys of the primary decide.
InsertPlayer(v) ==
    LET p == visit[v].player
    IN
    /\ visit[v].step = "insert"
    /\ EndsVisit(v)
    /\ IF primary[p].name = NoName /\ ~UsernameTaken(primary, p, visit[v].name)
       THEN Writes(p, [name |-> visit[v].name, enabled |-> TRUE, settings |-> {}])
       ELSE UNCHANGED <<primary, writes>>
    /\ UNCHANGED <<replica, overlapped, wanted, left, unaudited>>

UpdatePlayer(v, p, name) ==
    /\ Free(v) /\ Found(replica, p)
    /\ Goes(v, "look", p, name, {})
    /\ UNCHANGED <<primary, replica, writes, overlapped, wanted, left, unaudited>>

\* A name that another player has is left out and the rest is written all the same.
LookUpName(v) ==
    LET p == visit[v].player
    IN
    /\ visit[v].step = "look"
    /\ Goes(v, "update", p,
            IF UsernameTaken(replica, p, visit[v].name) THEN NoName ELSE visit[v].name, {})
    /\ UNCHANGED <<primary, replica, writes, overlapped, wanted, left, unaudited>>

WriteProfile(v) ==
    LET p == visit[v].player
    IN
    /\ visit[v].step = "update"
    /\ EndsVisit(v)
    /\ IF visit[v].name = NoName \/ UsernameTaken(primary, p, visit[v].name)
       THEN UNCHANGED <<primary, writes>>
       ELSE Writes(p, [primary[p] EXCEPT !.name = visit[v].name])
    /\ UNCHANGED <<replica, overlapped, wanted, left, unaudited>>

\* By the player himself, or as the first half of perform_admin_action.
DeletePlayer(v, p) ==
    /\ Free(v) /\ Found(replica, p)
    /\ \E step \in {"delete", "ban"} : Goes(v, step, p, NoName, {})
    /\ UNCHANGED <<primary, replica, writes, overlapped, wanted, left, unaudited>>

Saving(p) == {v \in Visits : visit[v].step = "save" /\ visit[v].player = p}

WriteDeletion(v) ==
    LET p == visit[v].player
    IN
    /\ \/ visit[v].step = "delete" /\ EndsVisit(v) /\ UNCHANGED unaudited
       \/ visit[v].step = "ban" /\ Goes(v, "record", p, NoName, {}) /\ unaudited' = unaudited + 1
    /\ Writes(p, [primary[p] EXCEPT !.enabled = FALSE])
    /\ left' = left \cup {[player |-> p, savers |-> Saving(p)]}
    /\ UNCHANGED <<replica, overlapped, wanted>>

RecordAdminAction(v) ==
    /\ visit[v].step = "record"
    /\ EndsVisit(v)
    /\ unaudited' = unaudited - 1
    /\ UNCHANGED <<primary, replica, writes, overlapped, wanted, left>>

\* Mutant: the preferences are read from the replica as the profile is.
BadSettings(p) == replica[p].settings

SettingsRead(p) == primary[p].settings

ReadPreferences(v, p, key) ==
    /\ Free(v) /\ Found(primary, p)
    /\ Goes(v, "save", p, NoName, SettingsRead(p) \cup {key})
    /\ overlapped' = IF Saving(p) # {} THEN overlapped \cup {p} ELSE overlapped
    /\ UNCHANGED <<primary, replica, writes, wanted, left, unaudited>>

WritePreferences(v) ==
    LET p == visit[v].player
    IN
    /\ visit[v].step = "save"
    /\ EndsVisit(v)
    /\ Writes(p, [primary[p] EXCEPT !.settings = visit[v].settings])
    /\ wanted' = [wanted EXCEPT ![p] = @ \cup visit[v].settings]
    /\ UNCHANGED <<replica, overlapped, left, unaudited>>

\* A ban that fails here cannot be repeated: its player is not found any more.
VisitFails(v) ==
    /\ ~Free(v)
    /\ EndsVisit(v)
    /\ UNCHANGED <<primary, replica, writes, overlapped, wanted, left, unaudited>>

PlayersNext ==
    \/ CatchesUp
    \/ \E v \in Visits :
        \/ InsertPlayer(v) \/ LookUpName(v) \/ WriteProfile(v) \/ WriteDeletion(v) \/ RecordAdminAction(v)
        \/ WritePreferences(v) \/ VisitFails(v)
        \/ \E p \in Owners :
            \/ DeletePlayer(v, p)
            \/ \E name \in Usernames : AddPlayer(v, p, name) \/ UpdatePlayer(v, p, name)
            \/ \E key \in Settings : ReadPreferences(v, p, key)

PlayersSpec == PlayersInit /\ [][PlayersNext]_playerVars

(***************************************************************************)
(* Conditions that hold                                                    *)
(***************************************************************************)
\* Names stay apart, a deleted player stays deleted and his preferences are saved only by
\* requests that had read them before; a preference that was saved is lost only if two
\* updates of that player overlapped.  A row of the audit log is
\* a ban that was made.
PlayersSound ==
    /\ \A p, q \in Owners : p # q => primary[p].name = NoName \/ primary[p].name # primary[q].name
    /\ \A d \in left : ~primary[d.player].enabled
    /\ \A d \in left : Saving(d.player) \subseteq UNION {e.savers : e \in left}
    /\ \A p \in Owners : p \in overlapped \/ wanted[p] \subseteq primary[p].settings
    /\ unaudited >= Cardinality({v \in Visits : visit[v].step = "record"})
=============================================================================
