---------------------------- MODULE ChatModeration ----------------------------
(***************************************************************************)
(* Spectator chat (src/backend/modules/api/src/moderation.rs, and the      *)
(* handler in ws.rs that calls it): a word filter, a ledger of offences    *)
(* that mutes whoever collects enough points, and an audit of what was     *)
(* published by a service that may answer late or never.  A message is a   *)
(* sequence of characters; the filter is a function of it.  One process    *)
(* keeps one ledger; its lock covers a call, not a review.                 *)
(***************************************************************************)
EXTENDS Integers, Sequences, SequencesExt, FiniteSets, FiniteSetsExt

CONSTANTS
    Characters, SpaceChar,  \* what a message is typed with
    Letters,                \* fold: the letter a character stands for, by character
    Listed,                 \* the word list: [word, severity, prefix]
    MaxDraft,               \* bound of the model: length of a message
    Chatters,
    Sayings,                \* the messages they send
    MuteThreshold, MuteWindow, MuteTime,
    SweepAt,                \* OFFENDER_SWEEP_THRESHOLD
    MaxSaid, LastChatTick   \* bounds of the model

Severities == {"profanity", "slur"}

ASSUME ChatAssumption ==
    /\ SpaceChar \in Characters \ DOMAIN Letters
    /\ DOMAIN Letters \subseteq Characters
    /\ \A w \in Listed : w.severity \in Severities /\ w.prefix \in BOOLEAN /\ w.word # <<>>
    /\ MuteThreshold \in Nat \ {0} /\ MuteWindow \in Nat /\ MuteTime \in Nat \ {0}
    /\ {SweepAt, MaxSaid, LastChatTick, MaxDraft} \subseteq Nat

-----------------------------------------------------------------------------
\* The filter.

IsLetter(c) == c \in DOMAIN Letters

NoGap == [count |-> 0, space |-> FALSE]

\* Mutant: a space between two letters is a separator like any other.
BadContinues(gap) == gap.count <= 1

Continues(gap) == gap.count = 0 \/ (gap.count = 1 /\ ~gap.space)

\* tokenize: the words met so far, the last one open, and the separators since its end.
\* A word is the positions of its first and last letter and the letters between.
Scan(text) ==
    FoldLeftDomain(
        LAMBDA acc, i :
            LET words == acc.words  last == Len(words) IN
            IF ~IsLetter(text[i])
            THEN [acc EXCEPT !.gap = [count |-> @.count + 1,
                                      space |-> @.space \/ text[i] = SpaceChar]]
            ELSE [gap |-> NoGap,
                  words |-> IF last > 0 /\ Continues(acc.gap)
                            THEN [words EXCEPT ![last] =
                                    [@ EXCEPT !.end = i, !.folded = Append(@, Letters[text[i]])]]
                            ELSE Append(words, [start |-> i, end |-> i,
                                                folded |-> <<Letters[text[i]]>>])],
        [words |-> <<>>, gap |-> NoGap], text)

Tokens(text) == Scan(text).words

\* The rules the walk down the trie passes: all of the word, or its beginning.
Matches(folded) ==
    {w \in Listed : /\ IsPrefix(w.word, folded)
                    /\ w.prefix \/ Len(w.word) = Len(folded)}

Worst(rules) ==
    IF rules = {} THEN "none"
    ELSE IF \E w \in rules : w.severity = "slur" THEN "slur" ELSE "profanity"

Mask == <<"*", "*", "*">>

\* ProfanityFilter::review.
Screened(text) ==
    LET done == FoldLeft(
                  LAMBDA acc, token :
                      IF Matches(token.folded) = {} THEN acc
                      ELSE [message |-> acc.message
                                        \o SubSeq(text, acc.last + 1, token.start - 1) \o Mask,
                            last |-> token.end,
                            rules |-> acc.rules \cup Matches(token.folded)],
                  [message |-> <<>>, last |-> 0, rules |-> {}], Tokens(text))
    IN  [message |-> done.message \o SubSeq(text, done.last + 1, Len(text)),
         severity |-> Worst(done.rules)]

-----------------------------------------------------------------------------
VARIABLES draft     \* a message being typed, to go through them all

Type(c) == Len(draft) < MaxDraft /\ draft' = Append(draft, c)

-----------------------------------------------------------------------------
\* The chat.

VARIABLES
    chatTick,
    ledger,     \* MuteTracker.offenders: [points, started, muted], Unknown for none
    published,  \* history: [by, at, masked], in order
    audits,     \* the published messages the AI pass has not answered for
    offences,   \* history: [by, at, points]
    sentence    \* history: the latest end of a mute, by chatter

talkVars == <<chatTick, ledger, published, audits, offences, sentence>>
chatVars == <<draft, talkVars>>

Unknown == [points |-> 0, started |-> 0, muted |-> 0]

ChatInit ==
    /\ draft = <<>>
    /\ chatTick = MuteWindow + 1    \* long after the epoch
    /\ ledger = [u \in Chatters |-> Unknown]
    /\ published = <<>> /\ audits = {} /\ offences = <<>>
    /\ sentence = [u \in Chatters |-> 0]

Spoken == Len(published) + Len(offences)

MutedNow(u) == ledger[u].muted > chatTick

WindowOver(entry) == chatTick - entry.started > MuteWindow

Forgotten(entry) == entry.muted <= chatTick /\ WindowOver(entry)

\* clear_expired, when a newcomer finds the table full.
Swept(u) ==
    IF ledger[u] = Unknown /\ Cardinality({v \in Chatters : ledger[v] # Unknown}) >= SweepAt
    THEN [v \in Chatters |-> IF Forgotten(ledger[v]) THEN Unknown ELSE ledger[v]]
    ELSE ledger

\* The window is fixed from its first offence; it does not slide.
Fresh(entry) ==
    IF WindowOver(entry) THEN [entry EXCEPT !.points = 0, !.started = chatTick] ELSE entry

\* MuteTracker::record.
Recorded(u, points) ==
    LET table == Swept(u)
        entry == [Fresh(table[u]) EXCEPT !.points = @ + points]
        until == IF entry.muted > chatTick + MuteTime THEN entry.muted ELSE chatTick + MuteTime
    IN  [table EXCEPT ![u] = IF entry.points >= MuteThreshold
                             THEN [entry EXCEPT !.muted = until] ELSE entry]

Offends(u, points) ==
    /\ ledger' = Recorded(u, points)
    /\ offences' = Append(offences, [by |-> u, at |-> chatTick, points |-> points])
    /\ sentence' = [sentence EXCEPT ![u] =
                       IF ledger'[u].points >= MuteThreshold THEN ledger'[u].muted ELSE @]

Publish(u, text) ==
    /\ published' = Append(published, [by |-> u, at |-> chatTick,
                                       masked |-> Screened(text).severity # "none"])
    /\ audits' = audits \cup {Len(published')}

\* ChatModerator::review: the message that earns the mute is itself dropped.
Reviewed(u, text) ==
    LET severity == Screened(text).severity
        muted == ledger'[u].points >= MuteThreshold
    IN  IF severity = "none"
        THEN Publish(u, text) /\ UNCHANGED <<ledger, offences, sentence>>
        ELSE /\ Offends(u, IF severity = "slur" THEN 2 ELSE 1)
             /\ IF severity = "slur" \/ muted THEN UNCHANGED <<published, audits>>
                                             ELSE Publish(u, text)

\* handle_spectator_message: a muted chatter is not heard.
Say(u, text) ==
    /\ Spoken < MaxSaid /\ ~MutedNow(u)
    /\ Reviewed(u, text)
    /\ UNCHANGED chatTick

\* audit: only a well-formed answer that flags the message counts, at the time it comes and
\* whether its sender is muted by then or not.
Failures == {"none", "refused", "not_json"}

Verdicts == {"no_result", "unflagged", "flagged"}

Answers == Failures \cup Verdicts

Audited(n, answer) ==
    /\ n \in audits /\ answer \in Answers
    /\ answer = "flagged" => Spoken < MaxSaid
    /\ audits' = audits \ {n}
    /\ IF answer = "flagged" THEN Offends(published[n].by, 2)
                             ELSE UNCHANGED <<ledger, offences, sentence>>
    /\ UNCHANGED <<chatTick, published>>

ChatTimePasses ==
    /\ chatTick < LastChatTick
    /\ chatTick' = chatTick + 1
    /\ UNCHANGED <<ledger, published, audits, offences, sentence>>

\* Typing goes through the messages; talking uses those of Sayings.
TypingNext == (\E c \in Characters : Type(c)) /\ UNCHANGED talkVars

TalkNext ==
    /\ \/ \E u \in Chatters, text \in Sayings : Say(u, text)
       \/ \E n \in audits, answer \in Answers : Audited(n, answer)
       \/ ChatTimePasses
    /\ UNCHANGED draft

ChatNext == TypingNext \/ TalkNext

ChatSpec == ChatInit /\ [][ChatNext]_chatVars

(***************************************************************************)
(* Properties                                                              *)
(***************************************************************************)

\* The words as a reader would find them: two letters belong together when nothing, or one
\* separator that is no space, stands between them and all letters on the way do.
Adjacent(text, i, j) ==
    /\ i < j /\ IsLetter(text[i]) /\ IsLetter(text[j])
    /\ \/ j = i + 1
       \/ j = i + 2 /\ ~IsLetter(text[i + 1]) /\ text[i + 1] # SpaceChar

WordAt(text, i, j) ==
    LET on == {k \in i..j : IsLetter(text[k])}
    IN  /\ {i, j} \subseteq on
        /\ \A k \in on \ {j} : \E l \in on : Adjacent(text, k, l)
        /\ ~\E k \in DOMAIN text : Adjacent(text, k, i) \/ Adjacent(text, j, k)

LettersOf(text, i, j) ==
    LET on == SelectSeq([k \in 1..(j - i + 1) |-> text[i + k - 1]], IsLetter)
    IN  [k \in DOMAIN on |-> Letters[on[k]]]

\* What is masked is the words that match, whole and nothing else; a message without one is
\* passed on as it was; and what is published would pass the filter, so that masking one
\* word never makes another.
FilterSound ==
    LET words == {w \in (DOMAIN draft) \X (DOMAIN draft) : WordAt(draft, w[1], w[2])}
        bad == {w \in words : Matches(LettersOf(draft, w[1], w[2])) # {}}
        hidden == UNION {w[1]..w[2] : w \in bad}
        kept == SelectSeq([i \in DOMAIN draft |-> i], LAMBDA i : i \notin hidden)
        result == Screened(draft)
    IN  /\ {<<t.start, t.end, t.folded>> : t \in Range(Tokens(draft))}
             = {<<w[1], w[2], LettersOf(draft, w[1], w[2])>> : w \in words}
        /\ SelectSeq(result.message, LAMBDA c : c # "*") = [i \in DOMAIN kept |-> draft[kept[i]]]
        /\ Len(result.message) = Len(kept) + 3 * Cardinality(bad)
        /\ result.severity = Worst(UNION {Matches(LettersOf(draft, w[1], w[2])) : w \in bad})
        /\ Screened(result.message) = [message |-> result.message, severity |-> "none"]

\* What the offences a chatter committed at these times add up to.
PointsOf(log, u, times) ==
    SumFunctionOnSet([i \in DOMAIN log |-> log[i].points],
                     {i \in DOMAIN log : log[i].by = u /\ log[i].at \in times})

\* Whoever is muted offended enough within one window before the mute began.
MuteEarned ==
    \A u \in Chatters : ledger[u].muted > 0 =>
        LET began == ledger[u].muted - MuteTime
        IN  PointsOf(offences, u, (began - MuteWindow)..began) >= MuteThreshold

\* No sweep lets a muted chatter off: the ledger knows of every mute that is not over.
MutesServed ==
    \A u \in Chatters : sentence[u] > chatTick => ledger[u].muted = sentence[u]

OffenceTimes(log, u) == {log[i].at : i \in {j \in DOMAIN log : log[j].by = u}}

\* No offence at these times lies in the window before t.
Rested(times, t) == times \cap ((t - MuteWindow)..(t - 1)) = {}

\* Whoever was quiet for a window and then offends enough within one is muted, whatever was
\* swept before and however late the audits answer.
RestedAreMuted ==
    \A u \in Chatters, t \in 0..LastChatTick :
        /\ Rested(OffenceTimes(offences, u), t)
        /\ PointsOf(offences, u, t..(t + MuteWindow)) >= MuteThreshold
        => sentence[u] >= t + MuteTime

MutesSound == MuteEarned /\ MutesServed /\ RestedAreMuted
=============================================================================
