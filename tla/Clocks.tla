-------------------------------- MODULE Clocks --------------------------------
(***************************************************************************)
(* Chess clocks (src/backend/modules/chess/src/time_control.rs): a         *)
(* PlayerClock that is started, stopped and settled under one of six time  *)
(* controls, and a DrillSession that times the moves of an exercise with   *)
(* it.  Nothing in the type keeps its calls in order: stop on a clock that *)
(* stands takes the time since the last start off once more. Instants and  *)
(* durations count ticks.  At the end, how a client's clock is compared    *)
(* with the server's.                                                      *)
(***************************************************************************)
EXTENDS Integers, Sequences, FiniteSets, SequencesExt

CONSTANTS
    Presets,        \* records kind, initial, increment, delay, periods, period
    EndOfDrill,     \* bound of the model: ticks
    MaxDrillMoves   \* bound of the model: moves and other calls

ASSUME ClocksAssumption ==
    /\ EndOfDrill \in Nat /\ MaxDrillMoves \in Nat
    /\ \A p \in Presets : {p.initial, p.increment, p.delay, p.periods, p.period} \subseteq Nat

VARIABLES
    preset,
    drilling,       \* a DrillSession owns the clock; otherwise anybody calls it
    instant,        \* now
    clock,          \* remaining_time, last_move_time (or never), is_running
    drill,          \* the number of moves, their total, finished
    granted,        \* history: increments, delays and periods added
    ran,            \* history: ticks during which the clock ran until it was read
    restopped       \* history: stop was called on a clock that stood

clockVars == <<preset, drilling, instant, clock, drill, granted, ran, restopped>>

NoInstant == EndOfDrill + 1

Least(a, b) == IF a < b THEN a ELSE b

Minus(a, b) == IF a > b THEN a - b ELSE 0

ClocksInit ==
    /\ preset \in Presets
    /\ drilling \in BOOLEAN
    /\ instant = 0
    /\ clock = [remaining |-> preset.initial, since |-> IF drilling THEN 0 ELSE NoInstant,
                running |-> drilling]
    /\ drill = [moves |-> 0, total |-> 0, finished |-> FALSE]
    /\ granted = 0 /\ ran = 0 /\ restopped = FALSE

Elapsed == IF clock.since = NoInstant THEN 0 ELSE instant - clock.since

ClockAdvances ==
    /\ instant < EndOfDrill
    /\ instant' = instant + 1
    /\ UNCHANGED <<preset, drilling, clock, drill, granted, ran, restopped>>

(***************************************************************************)
(* complete_move                                                           *)
(***************************************************************************)
Spent == IF clock.running THEN Elapsed ELSE 0

Refunded(elapsed) ==
    CASE preset.kind = "Bronstein" -> Least(elapsed, preset.delay)
      [] preset.kind = "UscfDelay" -> preset.delay
      [] OTHER -> 0

Before == IF preset.kind = "FischerBefore" THEN preset.increment ELSE 0

After == IF preset.kind = "FischerAfter" THEN preset.increment ELSE 0

\* What is left before an increment that is paid for a completed move only.
Settled(elapsed) == Minus(clock.remaining + Before + Refunded(elapsed), elapsed)

NewPeriod(elapsed) == Settled(elapsed) = 0 /\ preset.kind = "ByoYomi" /\ preset.periods > 0

\* Mutant: the increment for the completed move is paid before the flag is looked at.
BadFlagged(elapsed) == Settled(elapsed) + After = 0 /\ ~NewPeriod(elapsed)

Flagged(elapsed) == Settled(elapsed) = 0 /\ ~NewPeriod(elapsed)

\* The preset keeps the number of its periods: a period is never used up.
CompleteMove ==
    LET left == IF NewPeriod(Spent) THEN preset.period ELSE Settled(Spent)
    IN clock' = [remaining |-> left + After, since |-> NoInstant, running |-> FALSE]

Granted(elapsed) ==
    Before + Refunded(elapsed) + After + (IF NewPeriod(elapsed) THEN preset.period ELSE 0)

\* record_move: the flag ends the drill, any other move starts the clock again.
RecordMove ==
    /\ drilling /\ ~drill.finished /\ drill.moves < MaxDrillMoves
    /\ drill' = [moves |-> drill.moves + 1, total |-> drill.total + Elapsed,
                 finished |-> Flagged(Spent)]
    /\ granted' = granted + Granted(Spent)
    /\ ran' = ran + Spent
    /\ LET left == IF NewPeriod(Spent) THEN preset.period ELSE Settled(Spent)
       IN clock' = [remaining |-> left + After,
                    since |-> IF Flagged(Spent) THEN NoInstant ELSE instant,
                    running |-> ~Flagged(Spent)]
    /\ UNCHANGED <<preset, drilling, instant, restopped>>

(***************************************************************************)
(* The clock on its own                                                    *)
(***************************************************************************)
Called == ~drilling /\ drill.moves < MaxDrillMoves /\ drill' = [drill EXCEPT !.moves = @ + 1]

SettleMove ==
    /\ Called /\ CompleteMove
    /\ granted' = granted + Granted(Spent)
    /\ ran' = ran + Spent
    /\ UNCHANGED <<preset, drilling, instant, restopped>>

StartClock ==
    /\ Called /\ ~clock.running
    /\ clock' = [clock EXCEPT !.running = TRUE, !.since = instant]
    /\ UNCHANGED <<preset, drilling, instant, granted, ran, restopped>>

StopClock ==
    /\ Called
    /\ clock' = [clock EXCEPT !.remaining = Minus(@, Elapsed), !.running = FALSE]
    /\ ran' = ran + Spent
    /\ restopped' = (restopped \/ (~clock.running /\ Elapsed > 0))
    /\ UNCHANGED <<preset, drilling, instant, granted>>

ApplyIncrement ==
    /\ Called
    /\ clock' = [clock EXCEPT !.remaining = @ + preset.increment]
    /\ granted' = granted + preset.increment
    /\ UNCHANGED <<preset, drilling, instant, ran, restopped>>

\* The refund is measured from the start to now, also after the clock was stopped.
ApplyDelay ==
    /\ Called
    /\ clock' = [clock EXCEPT !.remaining = @ + Least(Elapsed, preset.delay)]
    /\ granted' = granted + Least(Elapsed, preset.delay)
    /\ UNCHANGED <<preset, drilling, instant, ran, restopped>>

ClocksNext ==
    \/ ClockAdvances \/ RecordMove
    \/ SettleMove \/ StartClock \/ StopClock \/ ApplyIncrement \/ ApplyDelay

ClocksSpec == ClocksInit /\ [][ClocksNext]_clockVars

(***************************************************************************)
(* Conditions that hold                                                    *)
(***************************************************************************)
\* Of every kind without periods: no time is lost but while the clock runs, unless it was
\* stopped twice, so what is left covers what was given and not yet used; a drill has counted
\* the time of its moves exactly, and ends just when it has used what it was given.  Periods
\* are left out: the code never uses them up, whatever the comment on `periods` says
\* (time_control.rs:166).
ClocksSound ==
    preset.kind # "ByoYomi" =>
        /\ ~restopped => clock.remaining + ran >= preset.initial + granted
        /\ drilling =>
            /\ drill.total = ran
            /\ drill.finished = ~clock.running
            /\ ~drill.finished => clock.remaining + drill.total = preset.initial + granted
            /\ drill.finished => drill.total >= preset.initial + granted - After
-----------------------------------------------------------------------------
(***************************************************************************)
(* Measuring how far a client's clock is off                               *)
(* (src/backend/modules/move_protocol/src/clock.rs).  Pings and pongs are  *)
(* delayed, lost, repeated and overtake each other; the client's clock is  *)
(* a constant Drift ahead of the server's.                                 *)
(***************************************************************************)
CONSTANTS
    Drift,
    PingIds,
    Window, MaxRtt, \* as in with_config, which raises them to at least 1
    LastMs,         \* bound of the model: how long a client is watched
    MaxPongs        \* bound of the model: different pongs that are sent

ASSUME ClockSyncAssumption ==
    /\ Drift \in Int /\ LastMs \in Nat /\ MaxPongs \in Nat
    /\ Window \in Nat \ {0} /\ MaxRtt \in Nat \ {0}

VARIABLES
    ms,             \* the server's clock
    inFlight,       \* in_flight: the pings that wait, with their send time
    samples,        \* the window, with the ping a sample came from
    pings,          \* history: every ping sent
    pongs,          \* every pong sent: its ping and the client's times
    sampled         \* history: pings of which a sample was taken

syncVars == <<ms, inFlight, samples, pings, pongs, sampled>>

Unsent == -1

SyncInit ==
    /\ ms = 0
    /\ inFlight = [id \in PingIds |-> Unsent]
    /\ samples = <<>>
    /\ pings = {} /\ pongs = {} /\ sampled = <<>>

MsPasses ==
    /\ ms < LastMs
    /\ ms' = ms + 1
    /\ UNCHANGED <<inFlight, samples, pings, pongs, sampled>>

\* The caller numbers the pings; a number is used once.
StartPing(id) ==
    /\ \A ping \in pings : ping.id # id
    /\ inFlight' = [inFlight EXCEPT ![id] = ms]
    /\ pings' = pings \cup {[id |-> id, sent |-> ms]}
    /\ UNCHANGED <<ms, samples, pongs, sampled>>

\* A ping that came at any time since it was sent is answered now, perhaps once more.
ClientPongs(ping, received) ==
    /\ received \in ping.sent..ms /\ Cardinality(pongs) < MaxPongs
    /\ pongs' = pongs \cup {[id |-> ping.id, received |-> received + Drift, sent |-> ms + Drift]}
    /\ UNCHANGED <<ms, inFlight, samples, pings, sampled>>

\* Division as Rust's: towards zero.
Half(n) == IF n >= 0 THEN n \div 2 ELSE -((-n) \div 2)

\* Mutant: the time the client held the ping back is not taken off.
BadRtt(t1, pong) == ms - t1 - 2 * (pong.sent - pong.received)

\* saturating_sub.
Rtt(t1, pong) ==
    LET rtt == ms - t1 - (pong.sent - pong.received)
    IN IF rtt > 0 THEN rtt ELSE 0

Offset(t1, pong) == Half((pong.received - t1) + (pong.sent - ms))

\* The first pong of a ping takes it from in_flight, whether it gives a sample or not.
OnPong(pong) ==
    LET t1 == inFlight[pong.id]
        sample == [ping |-> pong.id, offset |-> Offset(t1, pong), rtt |-> Rtt(t1, pong)]
    IN
    /\ t1 # Unsent
    /\ inFlight' = [inFlight EXCEPT ![pong.id] = Unsent]
    /\ IF ms < t1 \/ pong.sent < pong.received \/ sample.rtt > MaxRtt
       THEN UNCHANGED <<samples, sampled>>
       ELSE /\ samples' = LET all == Append(samples, sample)
                          IN IF Len(all) > Window THEN Tail(all) ELSE all
            /\ sampled' = Append(sampled, pong.id)
    /\ UNCHANGED <<ms, pings, pongs>>

ClearSync ==
    /\ samples # <<>>
    /\ inFlight' = [id \in PingIds |-> Unsent]
    /\ samples' = <<>>
    /\ UNCHANGED <<ms, pings, pongs, sampled>>

\* The first of the samples with the lowest delay.
BestSample ==
    samples[SelectInSeq(samples,
                LAMBDA s : \A i \in DOMAIN samples : s.rtt <= samples[i].rtt)]

SyncNext ==
    \/ MsPasses \/ ClearSync
    \/ \E id \in PingIds : StartPing(id)
    \/ \E ping \in pings, received \in 0..ms : ClientPongs(ping, received)
    \/ \E pong \in pongs : OnPong(pong)

SyncSpec == SyncInit /\ [][SyncNext]_syncVars

\* Whatever the delays each way, twice the error of the estimate is at most the smallest
\* delay in the window and one for the rounding; no ping gives two samples.
SyncSound ==
    /\ samples # <<>> =>
        /\ 2 * (BestSample.offset - Drift) <= BestSample.rtt + 1
        /\ 2 * (Drift - BestSample.offset) <= BestSample.rtt + 1
        /\ \A i \in DOMAIN samples : BestSample.rtt <= samples[i].rtt
    /\ IsInjective(sampled)
=============================================================================
