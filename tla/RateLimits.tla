------------------------------ MODULE RateLimits ------------------------------
(***************************************************************************)
(* The limiters of src/backend/modules/api/src/rate_limiter.rs and, at the *)
(* end, reports of players.  RedisRateLimiter counts the requests of an    *)
(* address in a key that expires: INCR and, for the first, EXPIRE, two     *)
(* commands.  SessionRateLimiter is a token bucket with a cooldown.        *)
(* SpectatorAdmission counts the spectators of a node, by game, and        *)
(* forgets the games nobody has joined for a while.  A tick is the time a  *)
(* bucket takes to earn Rate tokens; the clocks are one.                   *)
(***************************************************************************)
EXTENDS Integers, Sequences, FiniteSets, Functions

CONSTANTS
    HttpCalls,                          \* requests of one address
    HttpLimit, HttpWindow,
    Rate, Burst, MaxViolations, Cooldown,
    Watched,                            \* games with spectators
    MaxPerNode, MaxPerGame, IdleTtl,
    Now,                                \* bound of the model: how far the clock goes
    MaxEvents                           \* bound of the model: frames and joins

ASSUME LimitsAssumption ==
    /\ HttpLimit \in Nat \ {0} /\ HttpWindow \in Nat \ {0}
    /\ Rate \in Nat /\ Burst \in Nat \ {0} /\ MaxViolations \in Nat \ {0} /\ Cooldown \in Nat
    \* A served cooldown gives no more than waiting would have.
    /\ Rate * Cooldown >= Burst
    /\ MaxPerNode \in Nat /\ MaxPerGame \in Nat /\ IdleTtl \in Nat
    /\ Now \in Nat /\ MaxEvents \in Nat
    /\ IsFiniteSet(HttpCalls) /\ IsFiniteSet(Watched)

VARIABLES
    clock,
    httpKey,      \* the key in Redis: its count and the time it has to live, -1 for ever
    httpCall,     \* where each request stands
    expireLost,   \* whether a key was left without its EXPIRE: no code reads it
    limiter,      \* SessionRateLimiter; until is 0 without a cooldown
    accepted,     \* when each accepted frame was accepted: no code reads it
    entries,      \* SpectatorAdmission.games
    total,        \* SpectatorAdmission.total
    watching,     \* who was admitted and has not left, by game: no code reads it
    events        \* what the bound has used up

httpVars == <<httpKey, httpCall, expireLost>>
frameVars == <<limiter, accepted>>
admissionVars == <<entries, total, watching>>
limitVars == <<clock, httpVars, frameVars, admissionVars, events>>

NoKey == [count |-> 0, ttl |-> -1]

FreshBudget == [tokens |-> Burst, refilled |-> clock, violations |-> 0, until |-> 0]

LimitsInit ==
    /\ clock = 1
    /\ httpKey = NoKey /\ httpCall = [c \in HttpCalls |-> "away"] /\ expireLost = FALSE
    /\ limiter = FreshBudget /\ accepted = <<>>
    /\ entries = [g \in Watched |-> [count |-> 0, seen |-> 0]]
    /\ total = 0 /\ watching = [g \in Watched |-> 0]
    /\ events = 0

Counted == events < MaxEvents /\ events' = events + 1

-----------------------------------------------------------------------------
\* RedisRateLimiter.

\* INCR: the first to find no key will set its time to live.
Increment(c) ==
    /\ httpCall[c] = "away"
    /\ httpKey' = [httpKey EXCEPT !.count = @ + 1]
    /\ httpCall' = [httpCall EXCEPT ![c] =
                       IF httpKey.count = 0 THEN "expire"
                       ELSE IF httpKey.count + 1 > HttpLimit THEN "refused" ELSE "passed"]
    /\ UNCHANGED <<clock, expireLost, frameVars, admissionVars, events>>

\* Without a connection, or when INCR fails, the request passes uncounted.  An INCR whose
\* answer was lost has still counted, and if it was the first its key stays.
PassesUncounted(c) ==
    /\ httpCall[c] = "away"
    /\ httpCall' = [httpCall EXCEPT ![c] = "uncounted"]
    /\ \/ UNCHANGED <<httpKey, expireLost>>
       \/ /\ httpKey' = [httpKey EXCEPT !.count = @ + 1]
          /\ expireLost' = (expireLost \/ httpKey.count = 0)
    /\ UNCHANGED <<clock, frameVars, admissionVars, events>>

\* EXPIRE; its failure is ignored and leaves a key that stays, as does a request dropped
\* before it.
Expire(c) ==
    /\ httpCall[c] = "expire"
    /\ httpCall' = [httpCall EXCEPT ![c] = "passed"]
    /\ \/ httpKey' = [httpKey EXCEPT !.ttl = HttpWindow] /\ UNCHANGED expireLost
       \/ expireLost' = TRUE /\ UNCHANGED httpKey
    /\ UNCHANGED <<clock, frameVars, admissionVars, events>>

-----------------------------------------------------------------------------
\* SessionRateLimiter.

Least(a, b) == IF a < b THEN a ELSE b

\* TokenBucket::refill.
Refilled(l) == [l EXCEPT !.tokens = Least(Burst, @ + Rate * (clock - l.refilled)),
                         !.refilled = clock]

\* A served cooldown gives a fresh budget.
Budget == Refilled(IF limiter.until > 0 THEN FreshBudget ELSE limiter)

\* SessionRateLimiter::check.
CheckFrame ==
    /\ Counted
    /\ \/ clock < limiter.until /\ UNCHANGED frameVars
       \/ /\ clock >= limiter.until /\ Budget.tokens > 0
          /\ limiter' = [Budget EXCEPT !.tokens = @ - 1, !.violations = 0]
          /\ accepted' = Append(accepted, clock)
       \/ /\ clock >= limiter.until /\ Budget.tokens = 0
          /\ limiter' = IF Budget.violations + 1 < MaxViolations
                        THEN [Budget EXCEPT !.violations = @ + 1]
                        ELSE [Budget EXCEPT !.violations = 0, !.until = clock + Cooldown]
          /\ UNCHANGED accepted
    /\ UNCHANGED <<clock, httpVars, admissionVars>>

-----------------------------------------------------------------------------
\* SpectatorAdmission.

Stale(g) == entries[g].count > 0 /\ clock - entries[g].seen > IdleTtl

\* evict_idle: a game nobody joined lately is forgotten, its spectators with it.
Kept == [g \in Watched |-> IF Stale(g) THEN [count |-> 0, seen |-> 0] ELSE entries[g]]

Attendance == [g \in Watched |-> entries[g].count]

TotalKept == total - SumFunctionOnSet(Attendance, {g \in Watched : Stale(g)})

\* admit.
AdmitSpectator(g) ==
    /\ Counted
    /\ \/ /\ Kept[g].count < MaxPerGame /\ TotalKept < MaxPerNode
          /\ entries' = [Kept EXCEPT ![g] = [count |-> @.count + 1, seen |-> clock]]
          /\ total' = TotalKept + 1
          /\ watching' = [watching EXCEPT ![g] = @ + 1]
       \/ /\ Kept[g].count >= MaxPerGame \/ TotalKept >= MaxPerNode
          /\ entries' = Kept /\ total' = TotalKept
          /\ UNCHANGED watching
    /\ UNCHANGED <<clock, httpVars, frameVars>>

\* release, when an admitted connection closes.
ReleaseSpectator(g) ==
    /\ watching[g] > 0
    /\ watching' = [watching EXCEPT ![g] = @ - 1]
    /\ \/ /\ \/ /\ entries[g].count = 1
                /\ entries' = [entries EXCEPT ![g] = [count |-> 0, seen |-> 0]]
             \/ entries[g].count > 1 /\ entries' = [entries EXCEPT ![g].count = @ - 1]
          /\ total' = total - 1
       \/ entries[g].count = 0 /\ UNCHANGED <<entries, total>>
    /\ UNCHANGED <<clock, httpVars, frameVars, events>>

-----------------------------------------------------------------------------

\* Time passes, and a key whose time has come is gone.
ClockTicks ==
    /\ clock < Now
    /\ clock' = clock + 1
    /\ httpKey' = IF httpKey.ttl = 1 THEN NoKey
                  ELSE [httpKey EXCEPT !.ttl = IF @ > 0 THEN @ - 1 ELSE @]
    /\ httpCall' = IF httpKey.ttl = 1 THEN [c \in HttpCalls |-> "away"] ELSE httpCall
    /\ UNCHANGED <<expireLost, frameVars, admissionVars, events>>

\* The limiters share nothing but the clock.
HttpNext ==
    (\E c \in HttpCalls : Increment(c) \/ PassesUncounted(c) \/ Expire(c)) \/ ClockTicks

FramesNext == CheckFrame \/ ClockTicks

AdmissionNext ==
    (\E g \in Watched : AdmitSpectator(g) \/ ReleaseSpectator(g)) \/ ClockTicks

LimitsNext == HttpNext \/ FramesNext \/ AdmissionNext

LimitsSpec == LimitsInit /\ [][LimitsNext]_limitVars

-----------------------------------------------------------------------------

\* Of the requests whose count was answered no more than HttpLimit pass in one life of the
\* key, whatever passes beside them because it could not be counted (rate_limiter.rs:116);
\* and the only key that stays for ever is one whose EXPIRE was lost.
WindowKept ==
    /\ Cardinality({c \in HttpCalls : httpCall[c] \in {"expire", "passed"}}) <= HttpLimit
    /\ httpKey.count > 0 /\ httpKey.ttl = -1 =>
        expireLost \/ \E c \in HttpCalls : httpCall[c] = "expire"

\* Between any two accepted frames, cooldowns or not, no more were accepted than the burst
\* and what was earned meanwhile (rate_limiter.rs:218), and none during a cooldown.
BudgetKept ==
    \A i, j \in DOMAIN accepted : i <= j =>
        j - i + 1 <= Burst + Rate * (accepted[j] - accepted[i])

\* The node's total is the sum over its games and within its limit, and no game is held to
\* have more spectators than it has.
AdmissionCounts ==
    /\ total = SumFunctionOnSet(Attendance, Watched)
    /\ total <= MaxPerNode
    /\ \A g \in Watched : entries[g].count \in 0..watching[g]

LimitsSound == WindowKept /\ BudgetKept /\ AdmissionCounts
-----------------------------------------------------------------------------
(***************************************************************************)
(* Reports of one player against another                                   *)
(* (src/backend/modules/service/src/reporting.rs): so many an hour, each   *)
(* game once, and a player with enough of them in a day may not report any *)
(* more.  One lock covers a call.  Nothing is forgotten of the reports     *)
(* received, so a duplicate stays one for ever.                            *)
(***************************************************************************)
CONSTANTS
    Reporters, Evidence,
    HourlyLimit, RateWindow, BanThreshold, BanWindow,
    LastReportTick  \* bound of the model

ASSUME ReportsAssumption ==
    /\ {HourlyLimit, BanThreshold} \subseteq Nat \ {0}
    /\ {RateWindow, BanWindow, LastReportTick} \subseteq Nat

VARIABLES
    reportTick,
    filed,          \* reports_filed: times still kept, as a function from time to number
    received,       \* reports_received: by whom, about which game, when
    shadowBanned,
    all             \* history: every report

reportVars == <<reportTick, filed, received, shadowBanned, all>>

ReportsInit ==
    /\ reportTick = 0
    /\ filed = [p \in Reporters |-> {}]
    /\ received = [p \in Reporters |-> {}]
    /\ shadowBanned = {}
    /\ all = {}

Within(time, window) == reportTick - time < window

Recent(reports) == {r \in reports : Within(r.at, RateWindow)}

\* A refused call that got as far as the limit has dropped the old reports.
FileReport(p, q, game) ==
    LET report == [by |-> p, against |-> q, game |-> game, at |-> reportTick]
        mine == Recent(filed[p])
        against == received[q] \cup {report}
    IN
    /\ p \notin shadowBanned
    /\ \A r \in received[q] : r.by # p \/ r.game # game
    /\ IF Cardinality(mine) >= HourlyLimit
       THEN filed' = [filed EXCEPT ![p] = mine] /\ UNCHANGED <<received, shadowBanned, all>>
       ELSE /\ filed' = [filed EXCEPT ![p] = mine \cup {report}]
            /\ received' = [received EXCEPT ![q] = against]
            /\ shadowBanned' =
                 IF Cardinality({r \in against : Within(r.at, BanWindow)}) >= BanThreshold
                 THEN shadowBanned \cup {q} ELSE shadowBanned
            /\ all' = all \cup {report}
    /\ UNCHANGED reportTick

ReportTimePasses ==
    /\ reportTick < LastReportTick
    /\ reportTick' = reportTick + 1
    /\ UNCHANGED <<filed, received, shadowBanned, all>>

ReportsNext ==
    \/ \E p, q \in Reporters, game \in Evidence : FileReport(p, q, game)
    \/ ReportTimePasses

ReportsSpec == ReportsInit /\ [][ReportsNext]_reportVars

\* No window of an hour holds more reports of one player than the limit, wherever it
\* begins, and a player is banned just when some window of a day held enough against him.
ReportsSound ==
    /\ \A p \in Reporters, t \in 0..LastReportTick :
        Cardinality({r \in all : r.by = p /\ r.at \in t..(t + RateWindow - 1)}) <= HourlyLimit
    /\ \A q \in Reporters :
        q \in shadowBanned <=>
            \E t \in 0..LastReportTick :
                Cardinality({r \in all : r.against = q /\ r.at \in t..(t + BanWindow - 1)})
                    >= BanThreshold
=============================================================================
