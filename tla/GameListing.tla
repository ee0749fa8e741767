----------------------------- MODULE GameListing -----------------------------
(***************************************************************************)
(* The list of games (src/backend/modules/service/src/games.rs,            *)
(* list_games in api/src/games.rs).  A client walks through the games that *)
(* fit a filter, the newest first, a page at a time: by a cursor that      *)
(* names the last game it was given, or by numbers of pages.  A page is    *)
(* two queries on the replica, a count and a select, while games are       *)
(* created, joined and finished on the primary, which the replica follows. *)
(***************************************************************************)
EXTENDS Integers, Sequences, SequencesExt, FiniteSets

CONSTANTS
    Rows,           \* identifiers of games, random and ordered
    Stamps,         \* values of created_at, set by the server before it inserts
    Limits,         \* sizes of a page
    Filters,        \* what clients ask for
    MaxRowWrites    \* bound of the model: writes to the primary

\* A filter asks for the games of one player, or not, and for a status, or none.
Statuses == {"any", "waiting", "in_progress", "completed", "aborted"}

ASSUME ListingAssumption ==
    /\ IsFiniteSet(Rows) /\ Rows \subseteq Nat /\ Stamps \subseteq Nat /\ Limits \subseteq Nat
    /\ Filters \subseteq [mine : BOOLEAN, status : Statuses] /\ MaxRowWrites \in Nat

Absent == [stamp |-> 0, mine |-> FALSE, result |-> "absent"]

VARIABLES
    listed, copied,     \* table game on the primary and on the replica
    rowWrites,
    walk,               \* where the client stands
    throughout,         \* history: the games that fitted on the replica all along
    disturbed           \* history: whether the replica changed since the walk began

listingVars == <<listed, copied, rowWrites, walk, throughout, disturbed>>

NoWalk == [step |-> "none", by |-> "cursor", filter |-> [mine |-> FALSE, status |-> "any"],
           limit |-> 0, total |-> 0, seen |-> <<>>]

\* Some games were created before.
ListingInit ==
    /\ \E earlier \in SUBSET Rows, at \in [Rows -> Stamps] :
         listed = [r \in Rows |-> IF r \in earlier
                                  THEN [stamp |-> at[r], mine |-> TRUE, result |-> "null"]
                                  ELSE Absent]
    /\ copied = listed
    /\ rowWrites = 0
    /\ walk = NoWalk
    /\ throughout = {} /\ disturbed = FALSE

-----------------------------------------------------------------------------
\* What is listed.

HasStatus(row, status) ==
    CASE status = "any" -> TRUE
      [] status \in {"waiting", "in_progress"} -> row.result = "null"
      [] status \in {"completed", "aborted"} -> row.result # "null"

\* build_filter_condition: the player's condition is an "any", to which the status is added
\* as one more alternative.
Fits(row, filter) ==
    /\ row # Absent
    /\ IF filter.mine THEN row.mine \/ (filter.status # "any" /\ HasStatus(row, filter.status))
                      ELSE HasStatus(row, filter.status)

\* ORDER BY created_at DESC, id DESC.
Newer(table, r, q) ==
    \/ table[r].stamp > table[q].stamp
    \/ table[r].stamp = table[q].stamp /\ r > q

\* The cursor holds the time and the identifier of a row; neither ever changes.
AfterCursor(table, r, q) == Newer(table, q, r)

Fitting(table, filter) == {r \in Rows : Fits(table[r], filter)}

Wanted(table) ==
    {r \in Fitting(table, walk.filter) :
        walk.by = "cursor" /\ walk.seen # <<>> => AfterCursor(table, r, Last(walk.seen))}

Ordered(table, rows) ==
    CHOOSE s \in [1 .. Cardinality(rows) -> rows] :
        \A i, j \in DOMAIN s : i < j => Newer(table, s[i], s[j])

\* One row more than the page is asked for.
HasMore(found) == Len(found) > walk.limit

-----------------------------------------------------------------------------
\* The table.

RowChanges(r, row) ==
    /\ rowWrites < MaxRowWrites
    /\ rowWrites' = rowWrites + 1
    /\ listed' = [listed EXCEPT ![r] = row]
    /\ UNCHANGED <<copied, walk, throughout, disturbed>>

\* An imported game may have its result from the start.
RowCreated(r) ==
    /\ listed[r] = Absent
    /\ \E stamp \in Stamps, mine \in BOOLEAN, result \in {"null", "over"} :
         RowChanges(r, [stamp |-> stamp, mine |-> mine, result |-> result])

RowJoined(r) == listed[r].result = "null" /\ RowChanges(r, [listed[r] EXCEPT !.result = "ongoing"])

RowFinished(r) ==
    /\ listed[r].result \in {"null", "ongoing"}
    /\ RowChanges(r, [listed[r] EXCEPT !.result = "over"])

\* The replica follows a write behind or several.
RowsReplicated ==
    /\ copied # listed
    /\ copied' = listed
    /\ throughout' = throughout \cap Fitting(listed, walk.filter)
    /\ disturbed' = TRUE
    /\ UNCHANGED <<listed, rowWrites, walk>>

-----------------------------------------------------------------------------
\* The walk.

\* A cursor that cannot be decoded counts as none.
StartWalk ==
    /\ walk.step = "none"
    /\ \E filter \in Filters, limit \in Limits, by \in {"cursor", "page"} :
         /\ walk' = [NoWalk EXCEPT !.step = "count", !.filter = filter, !.limit = limit, !.by = by]
         /\ throughout' = Fitting(copied, filter)
    /\ disturbed' = FALSE
    /\ UNCHANGED <<listed, copied, rowWrites>>

CountRows ==
    /\ walk.step = "count"
    /\ walk' = [walk EXCEPT !.step = "select", !.total = Cardinality(Fitting(copied, walk.filter))]
    /\ UNCHANGED <<listed, copied, rowWrites, throughout, disturbed>>

\* A page number skips as many rows as the pages before it hold; the client goes on while
\* he is given a cursor.
SelectPage ==
    /\ walk.step = "select"
    /\ LET skipped == IF walk.by = "page" THEN Len(walk.seen) ELSE 0
           wanted == Ordered(copied, Wanted(copied))
           found == SubSeq(wanted, skipped + 1, Len(wanted))
           page == IF Len(found) > walk.limit THEN SubSeq(found, 1, walk.limit) ELSE found
       IN  walk' = [walk EXCEPT !.seen = @ \o page,
                                !.step = IF HasMore(found) /\ page # <<>> THEN "count" ELSE "done"]
    /\ UNCHANGED <<listed, copied, rowWrites, throughout, disturbed>>

ListingNext ==
    \/ \E r \in Rows : RowCreated(r) \/ RowJoined(r) \/ RowFinished(r)
    \/ RowsReplicated
    \/ StartWalk \/ CountRows \/ SelectPage

ListingSpec == ListingInit /\ [][ListingNext]_listingVars

-----------------------------------------------------------------------------

\* A walk by cursor gives no game twice, and none that fitted all the while is missing when
\* it ends, whatever is created, joined and finished meanwhile; a walk by pages promises as
\* much, and the number that was announced, only while nothing changes.
ListingSound ==
    LET given == Range(walk.seen) IN
    /\ walk.by = "cursor" \/ ~disturbed =>
        /\ Cardinality(given) = Len(walk.seen)
        /\ walk.step = "done" /\ walk.limit > 0 => throughout \subseteq given
    /\ ~disturbed => given \subseteq throughout
    /\ ~disturbed /\ walk.step = "done" /\ walk.limit > 0 =>
        given = throughout /\ walk.total = Len(walk.seen)
=============================================================================
