------------------------------ MODULE MCSessions ------------------------------
\* The socket sessions and their chat, the rooms of the stand-alone socket server and the
\* clocks for TLC.  The modules share no variable: a behaviour picks one part and the
\* others stay as they are.
EXTENDS ConnectionTracker, MoveStream, Rooms, Clocks, ChatModeration, TLC

CONSTANTS white, black, visitor

VARIABLE component

vars == <<trackerVars, streamVars, roomVars, clockVars, syncVars, chatVars, component>>

MCSessionSet == {<<white, 1>>, <<white, 2>>, <<black, 1>>, <<visitor, 1>>}

\* One preset of each kind.
MCPresets ==
    {[kind |-> k, initial |-> 2, increment |-> 1, delay |-> 1, periods |-> 1, period |-> 2] :
        k \in {"Standard", "FischerAfter", "FischerBefore", "Bronstein", "UscfDelay", "ByoYomi"}}

MCDrift == -3

\* Two characters for one letter, and a word that begins another.
MCLetters == [c \in {"a", "b", "4"} |-> IF c = "b" THEN "b" ELSE "a"]

MCListed ==
    {[word |-> <<"a", "b">>, severity |-> "profanity", prefix |-> FALSE],
     [word |-> <<"a", "b", "a">>, severity |-> "slur", prefix |-> FALSE],
     [word |-> <<"b", "b">>, severity |-> "slur", prefix |-> TRUE]}

MCSayings == {<<"b">>, <<"a", ".", "b">>, <<"b", "b", "a">>}

Init ==
    /\ TrackerInit /\ StreamInit /\ RoomInit /\ ClocksInit /\ SyncInit
    /\ ChatInit
    /\ component \in {"tracker", "stream", "rooms", "clocks", "sync", "typing", "chat"}
    \* What a behaviour does not use starts in one way only.
    /\ component # "rooms" => increment = 0
    /\ component # "clocks" => preset.kind = "Bronstein" /\ drilling

TrackerOnly ==
    /\ component = "tracker"
    /\ UNCHANGED <<streamVars, roomVars, clockVars, syncVars, chatVars, component>>

Tracking == TrackerOnly /\ TrackerNext

Streaming ==
    /\ component = "stream" /\ StreamNext
    /\ UNCHANGED <<trackerVars, roomVars, clockVars, syncVars, chatVars, component>>

PlayingInRooms ==
    /\ component = "rooms" /\ RoomNext
    /\ UNCHANGED <<trackerVars, streamVars, clockVars, syncVars, chatVars, component>>

Timing ==
    /\ component = "clocks" /\ ClocksNext
    /\ UNCHANGED <<trackerVars, streamVars, roomVars, syncVars, chatVars, component>>

Synchronising ==
    /\ component = "sync" /\ SyncNext
    /\ UNCHANGED <<trackerVars, streamVars, roomVars, clockVars, chatVars, component>>

Chatting ==
    /\ \/ component = "typing" /\ TypingNext
       \/ component = "chat" /\ TalkNext
    /\ UNCHANGED <<trackerVars, streamVars, roomVars, clockVars, syncVars, component>>

Next == Tracking \/ Streaming \/ PlayingInRooms \/ Timing \/ Synchronising \/ Chatting

Spec == Init /\ [][Next]_vars

FairSpec ==
    /\ Spec
    /\ WF_vars(TrackerOnly /\ TakeMessage)
    /\ \A s \in Sessions : WF_vars(TrackerOnly /\ TimerRunsOut(s))
    /\ \A p \in Players : WF_vars(TrackerOnly /\ (AbandonReads(p) \/ AbandonWrites(p)))

\* Rooms keep to their seats and turns, clocks keep their time and estimates of a client's
\* clock their error bound, and mutes are earned and served: the conditions of Rooms, Clocks
\* and of the ledger of ChatModeration.
TablesSound == RoomsSound /\ ClocksSound /\ SyncSound /\ MutesSound

\* The filter masks what it should and nothing else, whatever is typed: the condition of the
\* filter of ChatModeration.
MessagesFiltered == component = "typing" => FilterSound
=============================================================================
