----------------------------- MODULE MoveStream -----------------------------
(***************************************************************************)
(* The moves of one player on their way to the opponent                    *)
(* (src/backend/modules/move_protocol/src/sequencer.rs,                    *)
(* api/src/move_order.rs, handle_player_message in api/src/ws.rs).         *)
(* The client stamps its moves 1, 2, 3, ...; packets reach the player's    *)
(* session late, twice and in any order.  The session's MoveOrderGuard     *)
(* holds early packets back until the gap in front of them is closed; what *)
(* it applies, the session fans out to the lobby and to Redis.  Moves      *)
(* without a stamp bypass all of this.                                     *)
(*                                                                         *)
(* Time is abstracted: with every packet that arrives, any gap that was    *)
(* open before may be due.  A deadline changes nothing else.               *)
(***************************************************************************)
EXTENDS Integers, FiniteSets

CONSTANTS
    MaxSeq,        \* bound of the model: stamped moves
    Capacity,      \* capacity of the reorder buffer
    MaxSessions    \* bound of the model: sessions of the player

ASSUME StreamAssumption ==
    /\ MaxSeq \in Nat
    /\ Capacity \in Nat
    /\ MaxSessions \in Nat

Seqs == 1..MaxSeq

VARIABLES
    stamped,       \* the last stamp of the client
    nextSeq,       \* next_seq, the stamp the sequencer waits for
    pending,       \* the stamps held in the reorder buffer
    gaps,          \* the stamps that have a deadline
    requested,     \* the stamps the last decision asked for again
    received,      \* history: the stamps that reached this session
    released,      \* history: how often each stamp was released by this session's guard
    relayed,       \* history: how often each stamp was fanned out by this session
    skipped,       \* history: the stamps given up by a flush of the full buffer
    sessions       \* the sessions of the player so far

streamVars == <<stamped, nextSeq, pending, gaps, requested, received, released, relayed,
                skipped, sessions>>

Never == [q \in Seqs |-> 0]

StreamInit ==
    /\ stamped = 0
    /\ nextSeq = 1
    /\ pending = {}
    /\ gaps = {}
    /\ requested = {}
    /\ received = {}
    /\ released = Never
    /\ relayed = Never
    /\ skipped = {}
    /\ sessions = 1

\* SeqAssigner::next_seq
StampMove ==
    /\ stamped < MaxSeq
    /\ stamped' = stamped + 1
    /\ UNCHANGED <<nextSeq, pending, gaps, requested, received, released, relayed, skipped,
                   sessions>>

Counted(times, S) == [q \in Seqs |-> IF q \in S THEN times[q] + 1 ELSE times[q]]

\* finish: any of the gaps that were open before the packet came may be due.
AsksAgain(q) == \E due \in SUBSET (gaps \cap gaps') : requested' = due

\* The guard's decision is Apply: the session fans out the packet that arrived, and
\* nothing else of what was released.
Applies(q, ready) ==
    /\ released' = Counted(released, ready)
    /\ relayed' = Counted(relayed, {q})
    /\ requested' = {}

\* Nothing is applied: the packet is buffered, or dropped as a duplicate, or stamps
\* are asked for again.
Holds(q) ==
    /\ AsksAgain(q)
    /\ UNCHANGED <<released, relayed>>

\* seq < next_seq, or a packet that is in the buffer already.
Duplicate(q) ==
    /\ q < nextSeq \/ q \in pending
    /\ UNCHANGED <<nextSeq, pending, gaps, skipped>>
    /\ Holds(q)

\* release and drain_contiguous: the packet and all that follows it without a gap.
InTurn(q) ==
    /\ q = nextSeq
    /\ \E n \in (q + 1)..(MaxSeq + 1) :
        /\ n \notin pending
        /\ (q + 1)..(n - 1) \subseteq pending
        /\ nextSeq' = n
        /\ pending' = pending \ (q..(n - 1))
        /\ gaps' = gaps \ (q..(n - 1))
        /\ Applies(q, q..(n - 1))
    /\ UNCHANGED skipped

BadGapsBefore(q) == gaps \cup ({nextSeq} \ pending)

\* Every stamp missing in front of the packet gets a deadline; the packet's own, if
\* it was asked for, stays.
GapsBefore(q) == gaps \cup {m \in nextSeq..(q - 1) : m \notin pending}

Early(q) == q > nextSeq /\ q \notin pending

BadOverfull(q) == Cardinality(pending) > Capacity

\* The packet is inserted before the length of the buffer is compared.
Overfull(q) == Cardinality(pending \cup {q}) > Capacity

Buffer(q) ==
    /\ Early(q)
    /\ ~Overfull(q)
    /\ pending' = pending \cup {q}
    /\ gaps' = GapsBefore(q)
    /\ Holds(q)
    /\ UNCHANGED <<nextSeq, skipped>>

Highest(S) == CHOOSE m \in S : \A n \in S : n <= m

BadAfterFlush(q) == q + 1

\* force_flush: everything held is released, every gap in front of it given up.
AfterFlush(q) == Highest(pending \cup {q}) + 1

Flush(q) ==
    /\ Early(q)
    /\ Overfull(q)
    /\ nextSeq' = AfterFlush(q)
    /\ pending' = {}
    /\ gaps' = {}
    /\ skipped' = skipped \cup
         {m \in Seqs : nextSeq <= m /\ m < nextSeq' /\ m \notin pending \cup {q}}
    /\ Applies(q, pending \cup {q})

\* A packet arrives, for the first time or again.
PacketArrives(q) ==
    /\ q <= stamped
    /\ received' = received \cup {q}
    /\ Duplicate(q) \/ InTurn(q) \/ Buffer(q) \/ Flush(q)
    /\ UNCHANGED <<stamped, sessions>>

\* The player connects anew: the new session has a guard of its own.  What the old
\* one held is gone; the client goes on with its stamps or starts again.
NewSession ==
    /\ sessions < MaxSessions
    /\ sessions' = sessions + 1
    /\ stamped' \in {stamped, 0}
    /\ nextSeq' = 1
    /\ pending' = {}
    /\ gaps' = {}
    /\ requested' = {}
    /\ received' = {}
    /\ released' = Never
    /\ relayed' = Never
    /\ skipped' = {}

StreamNext ==
    \/ StampMove
    \/ \E q \in Seqs : PacketArrives(q)
    \/ NewSession

StreamSpec == StreamInit /\ [][StreamNext]_streamVars

(***************************************************************************)
(* Properties                                                              *)
(***************************************************************************)
\* Every variable keeps its type, and the buffer never exceeds its capacity.
StreamTypeOK ==
    /\ stamped \in 0..MaxSeq
    /\ nextSeq \in 1..(MaxSeq + 1)
    /\ pending \subseteq Seqs
    /\ Cardinality(pending) <= Capacity
    /\ gaps \subseteq Seqs
    /\ requested \subseteq gaps
    /\ received \subseteq Seqs
    /\ released \in [Seqs -> Nat]
    /\ relayed \in [Seqs -> Nat]
    /\ skipped \subseteq Seqs
    /\ sessions \in 1..(MaxSessions + 1)

\* Every move a session received has exactly one place: released once, held in the
\* buffer, or given up when the full buffer was flushed before it arrived.  Nothing
\* is held whose turn it is, and without a flush nothing is passed over.
EveryMoveHasItsPlace ==
    /\ \A q \in Seqs : q < nextSeq => released[q] + (IF q \in skipped THEN 1 ELSE 0) = 1
    /\ \A q \in Seqs : q >= nextSeq => released[q] = 0 /\ q \notin skipped
    /\ \A q \in received : released[q] = 1 \/ q \in pending \/ q \in skipped
    /\ \A q \in pending : q > nextSeq /\ q \in received

\* Every stamp missing in front of a held packet has a deadline, so that it is asked
\* for again when it stays away.
EveryGapHasADeadline ==
    \A q \in pending : \A m \in Seqs : nextSeq <= m /\ m < q /\ m \notin pending => m \in gaps

\* Both: no move is lost or released twice, and nothing missing is forgotten.
MovesAccounted == EveryMoveHasItsPlace /\ EveryGapHasADeadline

\* No move is released or broadcast out of turn: whatever a session releases or fans
\* out comes after all it released or fanned out before, whatever order the packets
\* arrive in (handle_player_message holds early packets "instead of" broadcasting
\* them "out of turn").
OutInOrder ==
    [][sessions' = sessions =>
         \A q, r \in Seqs :
            /\ released'[q] > released[q] /\ released[r] > 0 => r < q
            /\ relayed'[q] > relayed[q] /\ relayed[r] > 0 => r < q]_streamVars

\* Whatever the guard releases is fanned out.  The code breaks this: of the moves in
\* the decision it fans out only the one whose packet arrived last.
ReleasedMovesBroadcast == \A q \in Seqs : relayed[q] = released[q]
=============================================================================
