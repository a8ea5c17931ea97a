-------------------------------- MODULE Inbox --------------------------------
(***************************************************************************)
(* Unread state of one conversation (src/app.rs: ReadTrack and the         *)
(* handlers that move it), between three sources that race each other: the *)
(* answers of the command pump, the live feeds of the WebSocket pump, and  *)
(* the keys of the reader.                                                 *)
(*                                                                         *)
(* The interface is the record ui: each handler of App is an operator from *)
(* record to record, and the commands it pushes collect in ui.out until    *)
(* the step ends.  The command pump takes commands in order and answers    *)
(* over one queue, the WebSocket pump reports over another, and the        *)
(* interface takes from either.                                            *)
(*                                                                         *)
(* Abstractions.  Messages are 1, 2, ... in the order the relay admits     *)
(* them, which is also the order of the rows; two of them may share a      *)
(* second.  A history page holds every message: HISTORY_LIMIT is above     *)
(* MaxMessage; so the loaded rows are also the ids entry.seen holds.  The  *)
(* roster is this conversation and another one, of which only being        *)
(* selected, and being read (OtherClaim), matters here.  Edits, deletions, *)
(* mentions, own sends, replies of the thread on screen, and a roster that *)
(* loses a conversation are left out.  The publish protocol is             *)
(* ReadMarker's: here one publish is one step of the command pump.         *)
(***************************************************************************)
EXTENDS Integers, Sequences, FiniteSets

CONSTANTS
    At,             \* the second each message was created in
    Mine,           \* the messages this identity wrote on another terminal
    MaxDrops,       \* bound: connections lost
    MaxFaults,      \* bound: queries that fail or are truncated, feeds refused
    MaxMoves,       \* bound: keys that open, leave, move, cover or refresh
    MaxClaims,      \* bound: reads of another conversation
    MaxOthers,      \* bound: markers another terminal writes
    MaxEvents       \* bound: all of these together

MaxMessage == Len(At)
Message    == 1 .. MaxMessage

ASSUME AtAssumption ==
    /\ At \in Seq(Nat \ {0}) /\ MaxMessage > 0
    /\ \A m, n \in Message : m < n => At[m] <= At[n]
ASSUME MineAssumption == Mine \subseteq Message
ASSUME InboxBounds ==
    /\ MaxDrops \in Nat /\ MaxFaults \in Nat /\ MaxMoves \in Nat
    /\ MaxClaims \in Nat /\ MaxOthers \in Nat /\ MaxEvents \in Nat

VARIABLES
    ui,         \* App, as far as this conversation is concerned
    commands,   \* interface to command pump
    answers,    \* command pump to interface
    feed,       \* WebSocket pump to interface
    link,       \* the connection: "off", "up", "down"
    inbox,      \* the Inbox feed: "none", "kept" (retained), "ended" (refused)
    timeline,   \* the Timeline feed is retained
    pending,    \* pending_read: the frontier to publish, NoRead when none
    posted,     \* the relay's log is 1 .. posted
    marker,     \* the relay's marker for this conversation, 0 when none
    shown,      \* messages that were on screen with the cursor on the newest row
    vouched,    \* messages a marker or a seed spoke for
    adopted,    \* a marker answer met a seed that reached further than it
    heads,      \* this conversation is the first of the roster
    elsewhere,  \* how far earlier sessions and other terminals had read
    drops, faults, moves, claims, others    \* counters for the bounds

pump   == <<commands, answers, inbox, timeline, pending, marker>>
ghosts == <<shown, vouched, adopted>>
rigid  == <<heads, elsewhere>>
counters == <<drops, faults, moves, claims, others>>
vars   == <<ui, pump, feed, link, posted, ghosts, rigid, counters>>

NoRead == -1
Room   == drops + faults + moves + claims + others < MaxEvents
-----------------------------------------------------------------------------
(* The read state of the conversation.                                     *)

LatestOf(S) == CHOOSE t \in {At[m] : m \in S} : \A m \in S : At[m] <= t
Position(S, m) == Cardinality({n \in S : n < m})
AtPosition(S, i) == CHOOSE m \in S : Position(S, m) = i
Earlier(a, b) == IF a <= b THEN a ELSE b
Later(a, b)   == IF a >= b THEN a ELSE b

AtBottom(u) == u.focus + 1 = Cardinality(u.rows)
Push(u, c)  == [u EXCEPT !.out = Append(@, c)]
Broken(u)   == u.inboxFailed \/ u.historyFailed

\* ReadTrack::unread_at
UnreadAt(u, m) == At[m] >= u.frontier /\ m \notin u.presented

\* A message becomes unread work unless it is this identity's, already in the
\* list, already counted, or already presented.
Candidates(u, S) ==
    {m \in S : m \notin Mine /\ m \notin u.rows /\ UnreadAt(u, m)}
Count(u, S) == [u EXCEPT !.unread = @ \cup Candidates(u, S)]

\* Mutant: a conversation known only by its seed is uploaded as well.
RequestPublishSeeds(u) == Push(u, [type |-> "ReadProgress", at |-> u.frontier])

\* request_publish: a frontier that is only a seed stays out of it.
RequestPublish(u) ==
    Push(u, [type |-> "ReadProgress",
             at |-> IF u.marked THEN u.frontier ELSE 0])

\* What note_presented may claim: the newest loaded message is on screen and the
\* state of the conversation is known.
MayClaim(u) ==
    /\ u.selected /\ u.cover = "none"
    /\ u.markerRead /\ u.known /\ u.coverage = "complete"
    /\ ~u.loading /\ u.rows # {} /\ AtBottom(u)

\* A claim that starts from a seed reaches only as far as the newest row.
ClaimedFrontier(u, latest) ==
    IF latest > u.frontier THEN latest
    ELSE IF ~u.marked THEN Earlier(u.frontier, latest)
    ELSE u.frontier

NotePresented(u) ==
    LET latest == LatestOf(u.rows)
        moved  == ClaimedFrontier(u, latest)
        kept   == IF latest > u.frontier THEN {} ELSE u.presented
        now    == [u EXCEPT !.frontier = moved, !.presented = kept, !.marked = TRUE]
        newest == {m \in u.rows : At[m] = latest /\ UnreadAt(now, m)}
        claim  == [now EXCEPT !.presented = kept \cup newest]
    IN  IF MayClaim(u) /\ ( \/ latest > u.frontier \/ ~u.marked
                            \/ \E m \in u.unread : At[m] >= u.frontier )
          THEN RequestPublish([claim EXCEPT
                 !.unread = {m \in @ : UnreadAt(claim, m)}])
          ELSE u

SetFocus(u, index) ==
    IF ~u.selected \/ u.cover = "thread" THEN u
    ELSE NotePresented([u EXCEPT
           !.focus = IF u.rows = {} THEN 0 ELSE Earlier(Cardinality(u.rows) - 1, index),
           !.fallback = FALSE])

Newest == MaxMessage + 1    \* usize::MAX

\* restore_position: the saved row, or the newest one as a fallback.
RestorePosition(u) ==
    LET v == [u EXCEPT !.saved = 0]
    IN  IF u.saved \in u.rows THEN SetFocus(v, Position(u.rows, u.saved))
        ELSE [SetFocus(v, Newest) EXCEPT !.fallback = TRUE]

\* focused_row_id; 0 is none.
FocusedRow(u) ==
    IF u.fallback \/ u.focus >= Cardinality(u.rows) THEN 0
    ELSE AtPosition(u.rows, u.focus)

\* land_on
LandOn(u, row) ==
    IF row \in u.rows THEN SetFocus(u, Position(u.rows, row)) ELSE RestorePosition(u)

\* Mutant: the conversation is struck off before it is asked for.
RequestCatchUpForgets(u) == IF u.markerRead THEN [u EXCEPT !.waiting = FALSE] ELSE u

\* request_catch_up: an unknown marker keeps the conversation waiting.
RequestCatchUp(u) ==
    IF ~u.markerRead \/ ~u.waiting \/ u.coverage = "unknown" THEN u
    ELSE Push([u EXCEPT !.waiting = FALSE],
              IF u.known THEN [type |-> "CatchUp", since |-> u.frontier]
                         ELSE [type |-> "Newest"])
-----------------------------------------------------------------------------
(* App::apply, event by event.                                             *)

\* Mutant: a reconnect does not ask what it missed.
ApplyConnectedTrusting(u) ==
    LET v == [u EXCEPT !.inboxFailed = FALSE]
    IN  IF ~u.openedOnce THEN Push(v, [type |-> "LoadChannels"])
        ELSE LET w == Push(v, [type |-> "LoadChannels"])
             IN  IF w.selected THEN Push(w, [type |-> "OpenChannel"]) ELSE w

ApplyConnected(u) ==
    LET v == [u EXCEPT !.inboxFailed = FALSE]
    IN  IF ~u.openedOnce THEN Push(v, [type |-> "LoadChannels"])
        ELSE LET w == Push([v EXCEPT !.waiting = u.listed], [type |-> "LoadChannels"])
             IN  IF w.selected THEN Push(w, [type |-> "OpenChannel"]) ELSE w

ApplyDisconnected(u) == IF u.listed THEN [u EXCEPT !.coverage = "failed"] ELSE u

\* merge_channels, then the choice of the first conversation.
ApplyChannels(u) ==
    IF u.listed THEN SetFocus(u, u.focus)
    ELSE LET v == [u EXCEPT
                     !.listed = TRUE, !.waiting = TRUE, !.loading = TRUE,
                     !.openedOnce = TRUE, !.selected = heads,
                     !.coverage = IF Broken(u) THEN "failed"
                                  ELSE IF ~u.markerRead THEN "complete"
                                  ELSE IF u.markerComplete THEN "pending"
                                  ELSE "unknown"]
         IN  IF heads THEN Push(SetFocus(v, 0), [type |-> "OpenChannel"]) ELSE v

\* A marker only ever moves the frontier on.
MarkerFrontier(u, at) == Later(u.frontier, at)

\* The marker answer for this conversation, before what follows it.
TakeMarker(u, complete, at) ==
    LET checked == IF u.waiting THEN "pending" ELSE "complete"
    IN  IF ~u.listed \/ Broken(u) THEN u
        ELSE IF ~complete THEN [u EXCEPT !.coverage = "unknown"]
        ELSE IF at = 0
          THEN IF u.waiting \/ u.coverage = "unknown"
                 THEN [u EXCEPT !.coverage = checked] ELSE u
        ELSE LET f == MarkerFrontier(u, at)
             IN  [u EXCEPT !.frontier = f, !.marked = TRUE, !.known = TRUE,
                           !.coverage = checked, !.presented = {},
                           !.unread = {m \in @ : At[m] >= f}]

\* The answer marks a conversation whose frontier is only a seed, and leaves the
\* frontier where the seed put it.
AdoptsSeed(u, complete, at) ==
    /\ u.listed /\ ~Broken(u) /\ complete /\ at # 0
    /\ ~u.marked /\ u.frontier > at

ApplyReadState(u, complete, at) ==
    NotePresented(RequestCatchUp(
        TakeMarker([u EXCEPT !.markerRead = TRUE, !.markerComplete = complete],
                   complete, at)))

ApplyCatchUp(u, events, complete) ==
    IF ~u.listed THEN u
    ELSE NotePresented(Count([u EXCEPT !.known = TRUE,
           !.coverage = IF complete /\ ~Broken(u) THEN "complete" ELSE "failed"], events))

\* latest is the newest message the answer named, 0 for an empty conversation.
ApplySeed(u, latest, complete) ==
    LET unsure == ~u.markerRead \/ ~u.markerComplete
        v == [u EXCEPT !.coverage = IF Broken(u) THEN "failed"
                                    ELSE IF unsure THEN "unknown"
                                    ELSE IF complete THEN "complete" ELSE "failed"]
        w == [v EXCEPT !.known = TRUE, !.marked = FALSE]
        f == Later(u.frontier, At[latest])
        s == [w EXCEPT !.frontier = f, !.presented = {latest}]
    IN  IF ~u.listed THEN u
        ELSE IF ~complete \/ Broken(u) \/ unsure THEN v
        ELSE IF latest = 0 THEN w
        ELSE NotePresented([s EXCEPT !.unread = {m \in @ : UnreadAt(s, m)}])

\* load_history: the fetched rows and the live ones they do not hold.
ApplyHistory(u, last) ==
    LET fetched == 1 .. last
        retry   == u.historyFailed
        loaded  == [u EXCEPT !.rows = fetched \cup u.live, !.live = @ \ fetched,
                             !.loading = FALSE,
                             !.historyFailed = FALSE]
        asked   == IF ~retry THEN loaded
                   ELSE RequestCatchUp([loaded EXCEPT !.waiting = TRUE,
                          !.coverage = IF u.markerRead /\ u.markerComplete
                                         THEN "pending" ELSE "unknown"])
    IN  IF u.selected THEN LandOn(asked, FocusedRow(u)) ELSE asked

ApplyHistoryFailed(u) ==
    [u EXCEPT !.historyFailed = TRUE, !.loading = FALSE, !.coverage = "failed"]

\* The conversation on screen is its Timeline feed's.
ApplyInboxTimeline(u, m) == IF u.selected \/ ~u.listed THEN u ELSE Count(u, {m})

\* A message on the selected conversation joins its rows, and the cursor follows
\* it from the bottom.  Behind a thread it is counted first.
ApplyTimeline(u, m) ==
    LET v == IF u.cover = "thread" THEN Count(u, {m}) ELSE u
    IN  IF ~u.selected THEN ApplyInboxTimeline(u, m)
        ELSE IF m \in u.rows THEN v
        ELSE [v EXCEPT !.rows = @ \cup {m}, !.live = @ \cup {m},
                       !.focus = IF u.rows = {} \/ AtBottom(u)
                                   THEN Cardinality(u.rows) ELSE @]

ApplyInboxClosed(u) ==
    [u EXCEPT !.inboxFailed = TRUE, !.coverage = IF u.listed THEN "failed" ELSE @]
-----------------------------------------------------------------------------
(* Keys.                                                                   *)

\* switch_channel to this conversation.
Open(u) ==
    Push(RestorePosition([u EXCEPT !.selected = TRUE, !.loading = TRUE]),
         [type |-> "OpenChannel"])

\* switch_channel away from it: save_position keeps the row under the cursor.
Leave(u) ==
    [u EXCEPT !.selected = FALSE, !.cover = "none", !.focus = 0, !.fallback = FALSE,
              !.saved = IF u.focus < Cardinality(u.rows)
                          THEN AtPosition(u.rows, u.focus) ELSE 0]

\* Help, the switcher and the palette cover the timeline; search, context and the
\* reader, and a thread, are entered from a row and left to it.
Cover(u, view) == [u EXCEPT !.cover = view, !.origin = FocusedRow(u)]

Return(u) ==
    LET back == [u EXCEPT !.cover = "none", !.origin = 0,
                   !.focus = IF u.cover # "help" /\ u.origin \in u.rows
                               THEN Position(u.rows, u.origin) ELSE @]
    IN  CASE u.cover = "help"   -> NotePresented(back)
          [] u.cover = "reader" -> [back EXCEPT !.fallback = FALSE]
          [] u.cover = "thread" -> SetFocus(back, back.focus)
-----------------------------------------------------------------------------
Init ==
    /\ ui = [ listed |-> FALSE, openedOnce |-> FALSE, selected |-> FALSE,
              cover |-> "none", origin |-> 0,
              markerRead |-> FALSE, markerComplete |-> FALSE,
              inboxFailed |-> FALSE, historyFailed |-> FALSE,
              waiting |-> FALSE, coverage |-> "complete", known |-> FALSE,
              frontier |-> 0, marked |-> FALSE, presented |-> {}, unread |-> {},
              loading |-> FALSE, rows |-> {}, live |-> {},
              focus |-> 0, saved |-> 0, fallback |-> FALSE, out |-> <<>> ]
    /\ commands = <<>> /\ answers = <<>> /\ feed = <<>>
    /\ link = "off" /\ inbox = "none" /\ timeline = FALSE /\ pending = NoRead
    \* What the log held, and how far earlier sessions had read it.
    /\ posted \in 0 .. 1
    /\ elsewhere \in {0} \cup {At[m] : m \in 1 .. posted}
    /\ marker = elsewhere /\ vouched = {m \in 1 .. posted : At[m] < elsewhere}
    /\ heads \in BOOLEAN
    /\ shown = {} /\ adopted = FALSE
    /\ drops = 0 /\ faults = 0 /\ moves = 0 /\ claims = 0 /\ others = 0

\* The interface moves to u: what it pushed goes to the command pump, and what
\* it now shows at the bottom of the conversation has been shown.
Visible(u) == u.selected /\ u.cover = "none" /\ ~u.loading /\ u.rows # {} /\ AtBottom(u)
Show(u) ==
    /\ ui' = [u EXCEPT !.out = <<>>]
    /\ commands' = commands \o u.out
    /\ shown' = IF Visible(u) THEN shown \cup u.rows ELSE shown
-----------------------------------------------------------------------------
(* The interface takes one event.                                          *)

HandleAnswer ==
    /\ answers # <<>>
    /\ LET a == Head(answers)
       IN  /\ Show(CASE a.type = "Channels"  -> ApplyChannels(ui)
                     [] a.type = "ReadState" -> ApplyReadState(ui, a.complete, a.at)
                     [] a.type = "CatchUp"   -> ApplyCatchUp(ui, a.events, a.complete)
                     [] a.type = "Seed"      -> ApplySeed(ui, a.latest, a.complete)
                     [] a.type = "History"   -> ApplyHistory(ui, a.last)
                     [] a.type = "HistoryFailed" -> ApplyHistoryFailed(ui))
           /\ vouched' = IF a.type = "Seed" /\ a.complete
                           THEN vouched \cup 1 .. a.latest ELSE vouched
           /\ adopted' = \/ adopted
                         \/ a.type = "ReadState" /\ AdoptsSeed(ui, a.complete, a.at)
    /\ answers' = Tail(answers)
    /\ UNCHANGED <<inbox, timeline, pending, marker, feed, link, posted,
                   rigid, counters>>

HandleFeed ==
    /\ feed # <<>>
    /\ LET e == Head(feed)
       IN  /\ Show(CASE e.type = "Connected"     -> ApplyConnected(ui)
                     [] e.type = "Disconnected"  -> ApplyDisconnected(ui)
                     [] e.type = "InboxTimeline" -> ApplyInboxTimeline(ui, e.id)
                     [] e.type = "Timeline"      -> ApplyTimeline(ui, e.id)
                     [] e.type = "InboxClosed"   -> ApplyInboxClosed(ui))
    /\ feed' = Tail(feed)
    /\ UNCHANGED <<answers, inbox, timeline, pending, marker, link, posted, vouched,
                   adopted, rigid, counters>>

Key(u) ==
    /\ moves < MaxMoves /\ Room /\ moves' = moves + 1
    /\ Show(u)
    /\ UNCHANGED <<answers, inbox, timeline, pending, marker, feed, link, posted,
                   vouched, adopted, rigid, drops, faults, claims, others>>

OpenKey  == ui.listed /\ ~ui.selected /\ Key(Open(ui))
LeaveKey == ui.selected /\ ui.cover \in {"none", "help"} /\ Key(Leave(ui))
MoveKey  == /\ ui.selected /\ ui.cover = "none"
            /\ \E i \in {0, Newest} : Key(SetFocus(ui, i))
CoverKey == /\ ui.selected /\ ui.cover = "none"
            /\ \/ Key(Cover(ui, "help"))
               \/ /\ FocusedRow(ui) # 0
                  /\ \E view \in {"reader", "thread"} : Key(Cover(ui, view))
ReturnKey == ui.cover # "none" /\ Key(Return(ui))

\* A channel created, edited, archived or left refreshes the roster.
Refresh == ui.openedOnce /\ Key(Push(ui, [type |-> "LoadChannels"]))

\* The reader is shown something newer elsewhere: a claim publishes every
\* frontier, this conversation's included.
OtherClaim ==
    /\ ui.markerRead /\ ~ui.selected /\ claims < MaxClaims /\ Room
    /\ claims' = claims + 1
    /\ Show(RequestPublish(ui))
    /\ UNCHANGED <<answers, inbox, timeline, pending, marker, feed, link, posted,
                   vouched, adopted, rigid, drops, faults, moves, others>>
-----------------------------------------------------------------------------
(* The command pump: one command at a time, each with its subscription     *)
(* requests and its answer.                                                *)

Answer(a)  == answers' = answers \o a
Take(type) == /\ commands # <<>> /\ Head(commands).type = type
              /\ commands' = Tail(commands)
Succeeds   == UNCHANGED faults
Fails      == faults < MaxFaults /\ Room /\ faults' = faults + 1

\* The events after message from.
Since(type, from) ==
    [i \in 1 .. posted - from |-> [type |-> type, id |-> from + i]]

\* A new subscription replays what is within LIVE_OVERLAP_SECS: of a log this
\* short, all of it or nothing.
Overlap == {0, posted}
Replay(type) ==
    IF link = "up"
      THEN \E from \in Overlap : feed' = feed \o Since(type, from)
      ELSE UNCHANGED feed

PumpElse == UNCHANGED <<ui, link, posted, ghosts, rigid, drops, moves, claims, others>>

LoadChannels ==
    /\ Take("LoadChannels")
    /\ inbox' = "kept" /\ Replay("InboxTimeline")
    /\ \/ Succeeds /\ Answer(<<[type |-> "Channels"],
                              [type |-> "ReadState", complete |-> TRUE, at |-> marker]>>)
       \/ Fails /\ Answer(<<[type |-> "Channels"],
                           [type |-> "ReadState", complete |-> FALSE, at |-> 0]>>)
    /\ UNCHANGED <<timeline, pending, marker>> /\ PumpElse

\* The roster query failed: a status line, and nothing else.
LoadChannelsFails ==
    /\ Take("LoadChannels") /\ Fails
    /\ UNCHANGED <<answers, inbox, timeline, pending, marker, feed>> /\ PumpElse

OpenChannel ==
    /\ Take("OpenChannel")
    /\ timeline' = TRUE
    /\ IF timeline THEN UNCHANGED feed ELSE Replay("Timeline")
    /\ \/ Succeeds /\ Answer(<<[type |-> "History", last |-> posted]>>)
       \/ Fails    /\ Answer(<<[type |-> "HistoryFailed"]>>)
    /\ UNCHANGED <<inbox, pending, marker>> /\ PumpElse

\* A truncated answer holds the newest part of the page, a failed one nothing.
CatchUp ==
    /\ Take("CatchUp")
    /\ LET missed == {m \in 1 .. posted : At[m] >= Head(commands).since}
       IN  \/ Succeeds /\ Answer(<<[type |-> "CatchUp", events |-> missed, complete |-> TRUE]>>)
           \/ /\ Fails
              /\ \E last \in missed \cup {0} :
                   Answer(<<[type |-> "CatchUp", complete |-> FALSE,
                             events |-> {m \in missed : last # 0 /\ m >= last}]>>)
    /\ UNCHANGED <<inbox, timeline, pending, marker, feed>> /\ PumpElse

CatchUpNewest ==
    /\ Take("Newest")
    /\ \/ Succeeds /\ Answer(<<[type |-> "Seed", latest |-> posted, complete |-> TRUE]>>)
       \/ Fails    /\ Answer(<<[type |-> "Seed", latest |-> 0, complete |-> FALSE]>>)
    /\ UNCHANGED <<inbox, timeline, pending, marker, feed>> /\ PumpElse

ReadProgress ==
    /\ Take("ReadProgress")
    /\ pending' = Head(commands).at
    /\ UNCHANGED <<answers, inbox, timeline, marker, feed, faults>> /\ PumpElse

\* READ_PUBLISH_WINDOW ended.  The merged contexts come back as a complete
\* answer; of a failed publish this conversation learns nothing.
PublishRead ==
    /\ pending # NoRead /\ pending' = NoRead
    /\ \/ /\ Succeeds
          /\ marker' = Later(marker, pending)
          /\ Answer(<<[type |-> "ReadState", complete |-> TRUE, at |-> marker']>>)
       \/ Fails /\ UNCHANGED <<marker, answers>>
    /\ UNCHANGED <<commands, inbox, timeline, feed>> /\ PumpElse
-----------------------------------------------------------------------------
(* The relay and the connection.                                           *)

FeedElse == UNCHANGED <<ui, commands, answers, timeline, pending, marker, ghosts,
                        rigid, moves, claims, others>>

\* The two feeds of a message that both carry it arrive in either order.
Deliver(m) ==
    LET one == IF inbox = "kept" THEN <<[type |-> "InboxTimeline", id |-> m]>> ELSE <<>>
        two == IF timeline THEN <<[type |-> "Timeline", id |-> m]>> ELSE <<>>
    IN  feed' = feed \o one \o two \/ feed' = feed \o two \o one

Post ==
    /\ posted < MaxMessage
    /\ posted' = posted + 1
    /\ IF link = "up" THEN Deliver(posted + 1) ELSE UNCHANGED feed
    /\ UNCHANGED <<inbox, link, drops, faults>> /\ FeedElse

\* A new connection rebuilds every feed the session retains, with the overlap.
Connect ==
    /\ link # "up" /\ link' = "up"
    /\ inbox' = IF inbox = "none" THEN "none" ELSE "kept"
    /\ \E from \in Overlap :
         feed' = feed \o <<[type |-> "Connected"]>>
                   \o Since("Timeline", IF timeline THEN from ELSE posted)
                   \o Since("InboxTimeline", IF inbox = "none" THEN posted ELSE from)
    /\ UNCHANGED <<posted, drops, faults>> /\ FeedElse

Drop ==
    /\ link = "up" /\ drops < MaxDrops /\ Room
    /\ link' = "down" /\ drops' = drops + 1
    /\ feed' = Append(feed, [type |-> "Disconnected"])
    /\ UNCHANGED <<inbox, posted, faults>> /\ FeedElse

CloseInbox ==
    /\ link = "up" /\ inbox = "kept" /\ Fails
    /\ inbox' = "ended"
    /\ feed' = Append(feed, [type |-> "InboxClosed"])
    /\ UNCHANGED <<link, posted, drops>> /\ FeedElse
\* Another terminal of this identity, where the reader saw the conversation up
\* to some message, publishes that.
OtherTerminal ==
    /\ others < MaxOthers /\ Room /\ others' = others + 1
    /\ \E m \in 1 .. posted :
         /\ At[m] > marker /\ marker' = At[m]
         /\ elsewhere' = At[m]
         /\ vouched' = vouched \cup {n \in 1 .. posted : At[n] < At[m]}
    /\ UNCHANGED <<ui, commands, answers, feed, link, inbox, timeline, pending, posted,
                   shown, adopted, heads, drops, faults, moves, claims>>
-----------------------------------------------------------------------------
InterfaceStep == \/ HandleAnswer \/ HandleFeed
                 \/ OpenKey \/ LeaveKey \/ MoveKey \/ CoverKey \/ ReturnKey
                 \/ Refresh \/ OtherClaim
CommandStep   == \/ LoadChannels \/ LoadChannelsFails \/ OpenChannel \/ CatchUp
                 \/ CatchUpNewest \/ ReadProgress \/ PublishRead
FeedStep      == Post \/ Connect \/ Drop \/ CloseInbox \/ OtherTerminal

Next == InterfaceStep \/ CommandStep \/ FeedStep

Spec == Init /\ [][Next]_vars
-----------------------------------------------------------------------------
(* Properties.                                                             *)

Second == {0} \cup {At[m] : m \in Message}

\* Every variable holds a value of the kind the code holds, and a step of the
\* interface leaves no command behind.
TypeOK ==
    /\ ui.cover \in {"none", "help", "reader", "thread"}
    /\ ui.coverage \in {"complete", "pending", "unknown", "failed"}
    /\ ui.frontier \in Second /\ ui.out = <<>>
    /\ ui.rows \subseteq 1 .. posted /\ ui.live \subseteq ui.rows
    /\ ui.unread \subseteq (1 .. posted) \ Mine
    /\ ui.presented \subseteq 1 .. posted
    /\ ui.focus \in 0 .. Cardinality(ui.rows) /\ ui.saved \in {0} \cup ui.rows
    /\ link \in {"off", "up", "down"} /\ inbox \in {"none", "kept", "ended"}
    /\ timeline \in BOOLEAN /\ pending \in {NoRead} \cup Second /\ marker \in Second

\* Nothing is on its way and the connection is up.
Quiescent ==
    /\ link = "up" /\ ui.listed
    /\ commands = <<>> /\ answers = <<>> /\ feed = <<>> /\ pending = NoRead

\* "A live feed alone would only see what it was connected for" (App::apply,
\* Connected): once everything has been answered, a conversation whose queries
\* all succeeded is known, and every message of others in it is either loaded,
\* or counted as unread, or below a marker or a seed.  No interleaving of drops,
\* reconnects, stale answers, feeds and keys loses one in between.
NothingMissed ==
    (Quiescent /\ faults = 0) =>
      /\ ui.coverage = "complete" /\ ui.known
      /\ \A m \in (1 .. posted) \ Mine : m \in ui.rows \cup ui.unread \cup vouched

\* The state is well formed, and "checking" is not shown for ever: a conversation is pending only as long as
\* its catch-up is on its way out or its answer on its way back.
PendingIsOutstanding ==
    /\ TypeOK
    /\ ui.coverage = "pending" =>
         \/ ui.waiting
         \/ \E i \in 1 .. Len(commands) : commands[i].type \in {"CatchUp", "Newest"}
         \/ \E i \in 1 .. Len(answers) : answers[i].type \in {"CatchUp", "Seed"}

\* "The seed is never uploaded" (docs/tui-use.md), but for the one way it is: a
\* marker answer that finds a seed beyond it marks the conversation and keeps the
\* seed's frontier (App::apply_read_state).  As long as none did, the relay's
\* marker was presented elsewhere, or reaches no further than what was on screen
\* here with the cursor at the bottom.
OnlyShownIsUploaded ==
    ~adopted => (marker <= elsewhere \/ \E m \in shown : At[m] >= marker)

=============================================================================
