# Formal models of buzzx

buzzx is a terminal client for a Buzz community: one process that signs in to a
relay, reads conversations over HTTP queries and a WebSocket, and shows them.
This directory holds TLA+ modules of the parts whose correctness depends on the
order in which tasks, answers, frames and keys fall, the TLC configurations that
check them, and TLAPS proofs of what holds for every value of the constants.

Source paths are relative to the repository (`src/sub.rs` is the crate's file).

## 1. The system

### Tasks and what passes between them

```
   keys, frames                 SessionCommand (64)            HTTP
  reader <----> App (app.rs) ----------------------> command pump ----> relay
                 ^   run_tui_session (main.rs)        (session.rs)       ^
                 |                                    |  SubControl (64) |
                 |            ChatEvent (256)         v                  | WebSocket
                 +----------------------------- WebSocket pump <---------+
                                                  (sub.rs)
```

The interface is one task: it takes keys and events, changes `App`, draws, and
sends the commands that collected in `App.outbox`. The command pump takes one
command at a time, queries or writes over HTTP, tells the WebSocket pump what to
subscribe to, and answers with events. The WebSocket pump owns the connection
and rebuilds every subscription after a drop. Nothing else shares state; the
relay is shared with the identity's other terminals.

### Components

| Component | State | What is hard | What makes it correct | Module |
| --- | --- | --- | --- | --- |
| WebSocket pump, `sub.rs` | ids routed on this connection, retained feeds, requests held during a backoff | CLOSED crossing a REQ, requests during a backoff, ids reused by replacement | no wanted feed is silently missing; the pump ends when told to | `SubPump` |
| Shared read marker, `session.rs`, `client.rs`, `read_state.rs`, `main.rs` | one replaceable event per identity, frontiers, `pending_read`, the outbox | two terminals, unknown outcomes, the query window, quitting | nothing is invented, nothing claimed is lost | `ReadMarker` |
| Inbox and unread state, `app.rs` | `ReadTrack` per conversation, catch-up list, coverage, rows and cursor | three sources in any order, stale answers, reconnects | nothing missed, what is claimed was shown | `Inbox` |
| Command pump, `session.rs` | client, transport generation, pending read and its timer, member batch | a switch with commands queued, a batch that reads ahead in the queue | no answer of one community in another, each batch target reported once | `SessionTasks` |
| Session tasks and interface loop, `session.rs`, `main.rs` | four bounded queues, two generations of pump and forwarder during a switch | every sender waits on a full queue | messages in order, what is waited for is under way | `SessionTasks` |
| Channel lifecycle and members, `app.rs`, `session.rs`, `client.rs` | one record per kind of unsettled write, forms, request numbers | an unknown outcome followed by a refresh | an uncertain write is never offered twice, and settled only by evidence | `Lifecycle` |
| Timeline and overlays, `app.rs`, `content.rs` | rows, applied overlays, optimistic changes, pending writes | echo, answer and page in any order | no row twice; at rest the screen shows what the relay holds | `Timeline` |
| Threads, contexts, search, reader, `app.rs` | rows, cursors and request number of each view | pages that answer late, views that hide one another, deletions | no hole, no view loading for ever, what is deleted stays gone | `Views` |
| Composer, drafts and surfaces, `app.rs`, `keys.rs`, `main.rs`, `ui.rs` | one composer, kept drafts, search journey, overlays, mode | drawing, key tables and handlers each have an order of their own; events move drafts | keys go to what is shown; a text is sent where it was begun | `Desk` |
| Agents overlay, `agents.rs`, `app.rs` | turns, tombstones, typing, whether the observer feed is backed | late and repeated frames, silence without evidence | nothing is said without evidence; what ended stays ended | `AgentWork` |
| Web terminal, `web.rs` | an App per tab under one lock, commands sent outside it | numbers unique to one App, pages that lag, switches of several tabs | a tab's write is answered once; what is marked was drawn | `Web` |
| Configuration, profiles and login, `config.rs`, `account.rs`, `login.rs`, `cli.rs` | one file | read, wait, write without a lock; a wrap that may not be written | the file stays usable, a logout stays a logout | `Profiles` |
| Update, `update/source.rs` | the checkout, the installed binary | edits, commits and pushes between any two steps | "updated" is true; committed work is kept | `SourceUpdate` |
| Relay client and HTTP, `client.rs`, `http.rs`, `failure.rs` | none across calls | unknown outcomes, truncated pages | incomplete is never taken for complete | with the caller |
| Content, layout, thread tree, rendering, other command-line commands | none | | | left out |

## 2. Modules

| Module | Models | Role |
| --- | --- | --- |
| `FeedRequests` | `SubControl` and its effect on the wanted feeds | shared definitions |
| `FeedRegistry` | the pump's promise: the wanted feeds are what the requests ask for | abstract specification |
| `SubPump` | `run_ws_pump`, `PumpState`, the relay and the socket | detailed specification |
| `MaxRegister` | the marker's promise: a register of maxima | abstract specification |
| `ReadMarker` | claim, outbox, window, read-back, merge, write, flush, quit | detailed specification |
| `Inbox` | `ReadTrack` and its handlers, between the two pumps and the reader | specification |
| `SessionTasks` | the tasks of a session, their bounded queues, community switch, member batch | specification |
| `Lifecycle` | forms, unsettled writes and rosters of channel administration | specification |
| `Timeline` | rows, overlays and the writes of the open conversation | specification |
| `Views` | channel window, search, context, thread, reader and their pages | specification |
| `Desk` | composer, drafts, surfaces, overlays, key tables, drawing order | specification |
| `AgentWork` | the table of agents' work, the observer feed, typing | specification |
| `Web` | tabs, the lock, the tasks that send, the event task | specification |
| `Profiles` | the commands that rewrite the configuration file | specification |
| `SourceUpdate` | `buzzx update` of a source checkout | specification |
| `SubPumpProofs`, `ReadingProofs` (of `ReadMarker` and `Views`), `InboxProofs`, `SessionTasksProofs`, `LifecycleProofs`, `AgentWorkProofs`, `WebProofs`, `CommandLineProofs` (of `Profiles` and `SourceUpdate`) | the theorems of section 4 about these modules | proofs |
| `MC...` | one small instance of each specification; `MCSubPump` also has the refinement of `FeedRegistry` | model checking |

Operators whose comment begins with "A mutant" (or "Mutant") are wrong variants of
the definition that follows. They show that each property notices the bug it is
there for; no specification uses them. Each module checks its type invariant as a
part of one of its other properties.

### SubPump

`phase` is where `run_ws_pump` stands: connecting, applying the requests held
during the backoff, serving, backing off, done. `subIds`, `timeline`, `auxIds`,
`typing` and `inbox` are the fields of `PumpState`. `queued` and `control` are
the requests held and on the channel. The socket is two FIFO queues, `toRelay`
and `toClient`; the relay's side is `served`. One action per step of the code:
`ConnectOk` contains `resubscribe_all`, `DrainControl` takes one request and
applies it (`Subscribe...`, `AddAux`), `HandleClosed` contains
`close_subscription` and the report, `ReadError` ends a connection. `told` and
`observed` are what the interface was told.

An id is `<<feed, channel, part>>`. How many chunks an auxiliary feed has is
kept, since a shrinking list must close the chunks it no longer has; which
event ids a chunk names is not.

### ReadMarker

`slot` is the newest read-state event on the relay, `wire` the writes whose
sender gave up waiting, `aged` that the slot has fallen out of the one-week
query window. Per terminal: `frontier` (`App`), `outbox` (the thread claim that
waits for the next turn of the loop), `pending` (`pending_read` together with the
`ReadProgress` on the channel), `job` (the publish under way, at its read-back or
its write). `presented` and `owed` record what was shown, to state the properties.

A conversation's claim is sent before anything else can happen, so `Present` is
one step; a thread's claim is made after the frame is drawn, so it sits in
`outbox` until `SendOutbox`, and `Quit` may come first. This is the order of
`run_tui_session`.

### Inbox

`ui` is one record with the fields of `App` and `ReadTrack` that concern one
conversation. Every handler is an operator from record to record, composed as
the code calls them: `ApplyHistory` ends in `LandOn`, which ends in `SetFocus`,
which ends in `NotePresented`, which may end in `RequestPublish`. Commands pushed
on the way collect in `ui.out`, and `Show` hands them to the command pump at the
end of the step. The command pump answers in order on one queue and the
WebSocket pump reports on another; the interface takes from either, and keys
fall in between. `LoadChannels`, `OpenChannel`, `CatchUp`, `CatchUpNewest`,
`ReadProgress` and `PublishRead` are the command pump's handlers with their
failures; `Connect`, `Drop`, `CloseInbox`, `Deliver` are what `SubPump` models in
detail, reduced to what one conversation sees; the publish is `ReadMarker`'s,
reduced to one step.

Messages are numbered in the order the relay admits them. Two of them may share
a second, because a marker has a resolution of one second and everything in that
second must be decided by id.

### SessionTasks

The other modules look inside one task; this one is about the order in which the
tasks' messages meet. `loop` is where `run_tui_session` stands: applying events,
sending its outbox (then taking a key), sending the shutdown, waiting for the
flush. `ui` keeps of `App` the transport generation, the community shown,
`pending`, and the record of an unsettled member batch (`locked`, the targets
`left` without a result, whether a result is `unknown`). `pump` is the command pump:
`gen` stands for its client, transport and queue to the WebSocket pump, `batch`
for `member_batch`, `read` for `pending_read` (the claim itself), `due` for
its timer, and `queued` is the second queue a running batch fills. `ws[g]`,
`subs[g]` and `feed[g]` are the WebSocket pump of generation g, its control queue
and its events on the way to the forwarder.

A command carries two fields of history the program's does not have: `home`, the community
on screen when it was asked for, and `amid`, whether a switch was under way then, that is
asked for and not yet announced on screen (`SwitchUnderWay`). The pump publishes a waiting
read with whichever client it has (`Switch`, `PublishDue`), so that `ReadDoesNotCross` is
about the order of claim and switch in three queues, and its exception is `amid`.

A command is a sequence of sends (`work`), each of which waits for room, so that
everything else can happen between two of them. `Course` lists these sequences
per command, one for each way the queries may end. `Switch` is flush,
announcement, start; `BatchTurn` is one turn of the batch with its cancellation.
`ApplyEvent` has one disjunct per kind of event that changes what is followed
here.

What is abstracted: one conversation per community, and when it goes another one
takes its place; answers that change nothing here are one kind, `Answer`; a
stored, refused or uncertain message is `Written`, since each removes the row
from `pending`; a batch carries no request number, as there is at most one; the
event a forwarder holds counts as still in the queue before it; frames that are
only shown (typing, overlays, profiles) fill the same queues and are left out. After
the shutdown is sent the behaviour may end at any point: the timeout
`QUIT_FLUSH` is the end of the process.

### Lifecycle

`ui` has the roster, one record for each kind of unsettled write (`create`, `edit`,
`archive`, `member`), the form on screen and the request numbers; handlers are
operators from record to record, as in `Inbox`. `commands` is executed in order,
one at a time; `batch` is the member batch under way. The relay accepts, refuses
or does not answer a write, and what it accepted may become readable later
(`settling`), so that a refresh may come between acceptance and effect. A `Channels`
or `Members` answer carries, for the properties, the writes that preceded its read.

One record per kind is what the code has: its lock names a channel, and a write
begun in another channel takes the place of the record (`displaced`).
Abstractions: roles are owner and member, a form's fields are one label, one form is
open at a time. Generations are left to `SessionTasks`.

### Timeline

The three streams of section 1 meet in `rows`: `answer` and `commands` are the
command pump's, `wire` the socket's, `aux` what the relay holds and sends again when
`subbed` changes. Events get their number when the relay stores them; a row not
yet confirmed has the negative number of its write. `TakeFrame` is `apply_timeline`
and `apply_overlay`; `TakeAnswer` is `complete_write`, `fail_write` and the unknown
outcome; `TakeHistory` is a reload with what it keeps. `excused` names the messages
of the crossings in which the code does lose track (listed in the module's header
and in section 3): the property is about all others.

### Views

A message is its place in time, so rows are sets and a page is a set of numbers.
Each view is the record the code keeps for it, `request` the number that
tells a stale answer. `queue` and `answers` are the command pump's, in order; `feed` is
the live stream, which reaches only the views that are open. `TakeThread`,
`TakeContext`, `TakeSearch` and `TakeChannel` are the answers' handlers with every
early return. `missed` and `strayed` are history: what came for a view while another
hid it, and windows in which the code leaves a hole.

### Desk

`desk` is the list, the selection, the one composer and the drafts put away; `view`
the thread, context, search and reader with the way back (`journey`); `over` the
overlays and forms. `Drawn`, `KeyOwner` and `HandledBy` are three translations, of
`draw`, of the key maps and of `handle`, each in the order its own code asks. `Press`
takes any action that the table in charge may yield and gives it to its handler;
there is one action for every event that moves a text. A text is a number, so that
"the same text" can be said of two places; `home`, `unkept` and `known` are history.
`unkept` gathers the texts of which nothing more is promised: erased, replaced or
answered; cut off, moved or lost by an event (`Displaced`, `Dropped`, `Stranded`); or passed
over by a composer that was cut off (`PassedOver`).

### AgentWork

`work` is the bounded table of `Work`, with tombstones (`ended`) in order; `feed` and
`told` are the relay's side of the observer subscription, as `SubPump` has it in
detail. Frames are lost, late, repeated and out of order, so on a served feed any frame
of any turn may be heard at any time; `heard` and `ends` record what was. The list
of agents is asked for at every connection, the first one included, where asking
changes nothing. `swept` says that `expire` ran since the clock last moved.

### Web

`base` and `views` are the Apps; a request runs its handler under the lock and leaves
its commands in `carry`, whose elements are sent in any order, by the task of the
request or by the event task. An event is applied to the base and to all views in
one step, as `apply_event` does under the lock. A page is what a tab drew last and
may be arbitrarily old when it reports what it presented.

### Profiles

Each command is a process: read, perhaps wait, write. `copy` is what it read, `behind`
whether the file has changed since, and every save replaces the whole file. The wrap
of an older file is made by every read and written if that works (`wrap`). A crash
leaves the file as it is, since it is replaced by a rename. `lost`, `removed` and `out`
are history.

### SourceUpdate

`runAt` is the next process that the command starts: fetch, compare, inspect again, merge,
install, verify, roll back. Cargo is three: the build script asks Git for HEAD
(`Install`), then for changes (`ProbeStatus`; `build.rs`, `GitFacts::probe`), and only
then the sources are read and the binary replaced (`Compile`). `probe` is what the script
found, `binary` what the installed binary says of itself, `built` what it was compiled
from, and `touched` whether the checkout changed in between. Between any two steps the owner
edits, commits or pulls, the remote moves, and the command may be killed. Commits are numbers with a parent, so
that "fast-forward" and "diverged" are what Git takes them for. The names of its
specification have a prefix (`UpdateSpec`, `UpdateNext`), since one module proves theorems about
it and `Profiles`; those of `Views` (`ViewsSpec`, `ViewsTypeOK`) for the same reason, with `ReadMarker`.

## 3. Runs

One run for each specification. Properties are described at their definitions.
`CHECK_DEADLOCK FALSE` is set everywhere: a program that was told to end, or has
nothing left to do within the bounds, stops.

| Run | Checks | Bounds | States |
| --- | --- | --- | --- |
| `pump` | `TypeOK`, `RetainedIsRoutedOrTold`, `FeedsAgree`, `PumpEnds`, `FeedsSettle`, `ImplementsRegistry` | one channel, two messages in chunks of one, two requests, two failed connections, two refusals; fairness | 159 thousand |
| `marker` | `TypeOK`, `NothingInvented`, `NoReadIsDropped`, `SessionsSettle`, `ImplementsRegister` | two terminals, a conversation and a thread message, two sessions, one second, one fault, one late write, one week; fairness | 134 thousand |
| `inbox` | `NothingMissed`, `PendingIsOutstanding`, `OnlyShownIsUploaded` | two messages in two seconds; any two of: a drop, a failed or truncated query or refused feed, two keys, a claim elsewhere, another terminal's marker | 2.0 million |
| `session` | `CommunitiesStayApart`, `SendsInOrder`, `NothingIsForgotten` | one switch, two messages, a batch of two targets (symmetric), queues of one; keys and network events at most three, two of them network events | 3.0 million |
| `lifecycle` | `NothingWaitsInVain`, `CreationAccounted`, `SettledByLaterRead` | one channel and one to create, two people, two writes, three reads, four disturbances | 1.1 million |
| `timeline` | `NoRowTwice`, `ShowsTheRelay`, `SendingIsOwed` | one message to start with; any four of: two writes, two events of others, a fault, a reload | 0.7 million |
| `views` | `NothingWaitsForever`, `NoHoles`, `DeletedStaysGoneInView` | three messages in one thread, pages of two, four commands, one deletion, failure or lost connection | 2.5 million |
| `profiles` | `FileStaysUsable`, `LoggedOutIsOut`, `OnlyWhatItNames` | two commands at a time and two in all, two relays, two fresh ids, one turn of a session, two faults | 0.5 million |
| `update` | `UpdatedIsTheTarget`, `CommittedWorkIsKept` | three remote commits, two local ones, two edits, any pulls, three runs | 228 thousand |
| `web` | `AwaitedIsUnderWay`, `SwitchesAreOrderly`, `MarkedWasShown` | two tabs (symmetric) and the cookie's session, two conversations, three requests, one switch, one message of others | 1.2 million |
| `desk` | `DetoursComeHome`, `KeysFollowTheScreen`, `KeptByKeys` | two conversations, one text, one event, any number of keys | 1.8 million |
| `agents` | `SaidOnEvidence`, `FinishedStaysFinished`, `LiveTurnIsShown` | two agents, four turns, room for two and one ended, three seconds, four inputs | 2.6 million |

Why these bounds are enough to be interesting. In `pump`, two requests are the
fewest that replace a feed by another with the same ids; the second failure kills
the connection that repaired the first, and the second refusal allows a CLOSED to
cross the REQ that follows an earlier CLOSED. In `marker` the two sessions are of
one terminal, one after the other, or of two at once; every kind of interference
happens once. In `inbox`, two messages are the fewest that distinguish "the newest
row", "a row that arrived since the page was read" and "the row the reader was on".
In `session` queues of one make every sender wait at every place where it can; one
switch gives the two generations whose tasks overlap. In `lifecycle` two writes
are the fewest of which one displaces, or precedes the answer of, another, and three
reads put one before, between and after. `timeline` and the others limit the
disturbances together, so that each pair (in `timeline`, each four) is explored in
every order. In `views` the windows hold one message and the pages two, so that every
window has an end on both sides. In `profiles` two processes overlap at every point of
their read, wait and write, on a file of either shape. `update` lets the remote
move and the owner edit, commit and pull within the same run, and a later run find what an earlier
one left. `web` has a request of each kind in the same lock order, with its commands in
any; its bound of one switch is for the run's time (two were checked once, 2.0 million
states), and the theorems hold for any number. `desk` has no bound on keys: every sequence of them, with one event
anywhere. `agents` has one turn more than the table holds, and ends more than are
remembered.

Fairness. `SubPump`: the pump is a task the runtime keeps scheduling and each of
its waits ends, a connection attempt by its timeout, a read by `SOCKET_POLL`, a
backoff by its deadline; the relay answers what it received on a live socket.
That the network fails finitely often is a bound, not fairness. Nothing is
assumed of the session: it need not ask or shut down. `ReadMarker`: the timer
fires and requests end (each has a timeout); a terminal need not start, present
anything or quit, and the relay need not admit a late write. The other modules state
no liveness. What should eventually happen is there a property of what is outstanding
("what is waited for is under way": `PendingIsOutstanding`, `NothingIsForgotten`,
`NothingWaitsInVain`, `SendingIsOwed`, `NothingWaitsForever`, `AwaitedIsUnderWay`) or of
states at rest (`NothingMissed`, `ShowsTheRelay`): with the circular wait below,
"every command is answered" does not hold.

### Where code and documentation disagree

Met while modelling. Where a property would be broken by one of these, its comment or
the module's header names the exception. No run is kept for them.

Pump, marker and inbox:

- auxiliary ids are reused by their replacement; a CLOSED of the old feed that
  crosses the new REQ removes the id of the new feed, whose events are then dropped
  (`sub.rs`, `close_subscription`); the end of an auxiliary feed is not reported;
- a shutdown reports a disconnect and enters the backoff before it ends, though the
  comment at `pump_connection` promises `Ok`;
- two terminals that both read back before either writes: the second write puts an
  older frontier back, which decision 0006 says cannot happen;
- a thread message claimed after the last frame is never sent when the next key quits;
- a failed catch-up becomes "complete" when another conversation's publish is
  answered;
- a conversation that starts from a seed becomes "marked" by a marker answer older than
  the seed, keeps the seed as its frontier and uploads it with the next claim
  (`adopted`). The older marker is another terminal's, or this one's own claim, when a
  reconnect had the seed asked for a second time;
- a message that arrives behind the reader, search or context view of the selected
  conversation joins its rows without being counted;
- a conversation whose marker answer fails between its seed request and the answer has
  no baseline until the next reconnect.

Session:

- a message sent between the switch key and `CommunitySwitching` waits behind the
  switch and is written by the client of the new community;
- so does a read claimed then: it waits behind the switch, its contexts are the old
  community's, and the new community's client publishes them; the old one never gets that
  claim. `docs/interactive.md:169` has a reader verify that the communities' "timeline,
  unread, drafts and write destinations never mix". `ReadDoesNotCross` excepts these
  claims (`amid`) and no others;
- the interface waits for room among the commands outside its drain of the events, the
  command pump for room among the events before it takes the next command: with both
  full neither moves again, and `Shutdown` is sent before the quit timeout starts. With
  the real capacities it takes one slow query during which more than 64 messages arrive
  in the open conversation, and 256 further events behind them;
- an uncertain write leaves `pending`, so it does not refuse a switch;
- two connections are open for a moment during a switch, where
  `docs/configuration.md` says that switching "never opens a second".

Lifecycle:

- one slot per kind of unsettled write, whose lock names a channel: a write in another
  channel replaces the record and the lock;
- adding from a member panel that was not read yet may demote the last owner
  (`docs/channel-lifecycle.md`);
- `ChannelGone` with the panel open clears the record of a batch in any channel;
- an edit whose fields already match may be confirmed by a roster read before it;
- an unknown write that never shows keeps its channel locked and the switch refused.

Timeline (the crossings `excused` names):

- the echo of a reaction before its answer is counted on top of the optimistic count;
- a reaction or edit answered while its row is hidden by a deletion that is refused
  later is remembered in `seen_aux` only (`complete_write`, when `channel_for_row` finds
  no row): the next reload starts the row anew, and what the relay sends again is dropped
  for good;
- an own message answered before its echo is never subscribed for overlays;
- a failed send overwrites what is in the composer, a second failure the first
  returned draft; removing any known 👍 clears `my_reaction`;
- two unanswered edits undo each other when refused; edits have no order in time;
- a reaction removed while the connection was down is not told again, so that a failed
  reload leaves its count;
- a deletion of unknown outcome hides its message for the session; a deletion of the
  echo of a send before the send's answer brings the message back.

Views:

- a page asked for with `[` during a reload leaves a hole that nothing fills, and
  `older_complete` may be claimed over it;
- an answer for a context or search that a thread hides is dropped with its loading
  flag set; a deletion while it is hidden comes back with it;
- a context whose target is deleted while a page is under way is refilled by it;
- the reader opened on a deleted thread root shows its text; a thread read over HTTP
  while the socket is down clears `stale`;
- `merge_rows` at its cap drops the newest rows while `newer_complete` stays set; an
  outage longer than `HISTORY_LIMIT` leaves a gap; a failed history read of a
  conversation that is not selected leaves its loading flag set;
- rows that came live stay when the conversation is left and opened again, so that more
  than a window's messages meanwhile leave a gap behind them (`load_history`, `live_ids`);
- the search for a thread's target repeats for ever on a full page with nothing new.

Desk:

- the list that follows every connection adopts the kept draft of the selected
  conversation over the text being typed, and a text sent or erased long ago may come
  back; a refused send, a lost conversation and a confirmed creation move texts too,
  the last one into another conversation's composer when a thread or search is open;
- a refused send and a lost conversation put the composer in charge of the keys
  under whatever is in front (`docs/tui-use.md`: "Overlay keys do not reach the
  background"); the community picker raised over a form leaves the keys to the form;
- `fail_write` leaves `composer.edit` set, so a returned message may replace the
  message being edited;
- a reply target without a text is kept as a draft of another conversation and may
  be used there;
- `ChannelGone` of a channel that is not selected moves the selection to its place, and
  `draft_blocked` with a switch saves the text as another conversation's draft;
- a composer that was cut off (`draft_blocked`) does not adopt the draft of the
  conversation that the user visits with it, and is put away over that draft
  (`switch_channel`; `adopt_draft`: "A draft must never follow the user into another
  conversation");
- a search origin survives its search, so losing that conversation later blocks an
  unrelated draft; an origin lost under a thread leaves `journey` behind, and takes the
  place of what is typed next at the channel when a later search is left;
- losing the conversation that a search came from closes the context but not a reader
  opened over it, and a reply from that reader goes to the conversation that is
  selected by then (`reader_reply`), with a target in the other one;
- what is typed during a search into a composer that a refused send or a lost conversation
  opened, or that a list emptied, is not protected as a reply of the detour is
  (`detour_draft`), and is lost when the search is left;
- `e` overwrites a kept draft; a composer in a terminal too small for it still types.

Agents:

- the detail cursor is an index into a list ordered by activity, so that live frames
  move what Enter opens; a reload of the list keeps the index, not the identity;
- frames without a turn id are one turn each; a bare panic clears turns without a
  tombstone, so that a late frame revives them;
- a full table may drop a running turn; the number of tombstones is bounded, and an end
  that is repeated does not renew its tombstone (`agents.rs:317`), so that a turn may
  be revived after fewer further ends than are remembered;
- a typing claim that arrives after its author's later message is shown until it expires.

Web:

- creation, edit, archive, member and search requests are numbered per view, and
  their answers reach all views: two tabs may take each other's;
- a message or creation sent between a switch's acceptance and its
  `CommunitySwitching` loses its `pending` mark when that event is applied, so that a
  further switch may be accepted and the message is written in the new community, where
  the comment at `app.rs:1811` says that "the write belongs to the community it was
  aimed at";
- of two tabs' read claims within one publish window the later replaces the earlier;
- a page clears its text before the POST is handled, so that a refused write loses it;
- the view of a closed tab with an unsettled write refuses every later switch.

Profiles:

- `community add` and `verify` hold the copy read before the relay answered: a
  concurrent logout's credentials come back; `init` may overwrite a file made meanwhile;
- a relay typed at the login prompt gets the tag of the selected profile; an older
  file with a tag but no relay loses the tag.

Update:

- what is edited, committed or pulled after the build script has asked and before rustc
  reads it is compiled into a binary that reports, and verifies as, the clean target
  (`docs/versioning-and-updates.md`: "must report the target commit ... and a clean
  source identity. Only after that verification does the command report success");
- a commit made while Cargo runs is dropped from HEAD by the rollback, and so is one
  made on a target that was pulled between the second inspection and the merge; an edit
  between these two is merged over;
- killed between merge and install, the next run says `up_to_date` over an old binary.

## 4. Proofs

| Theorem | Module | Says, for every value of the constants |
| --- | --- | --- |
| `TypeCorrect` | `SubPumpProofs` | `Spec => []TypeOK` |
| `NoFeedSilentlyMissing` | `SubPumpProofs` | `Spec => []RetainedIsRoutedOrTold` |
| `FeedsStayAgreed` | `SubPumpProofs` | `Spec => []FeedsAgree`, however frames cross |
| `TypeCorrect` | `ReadingProofs` | `Spec => []TypeOK` |
| `NothingIsInvented` | `ReadingProofs` | `Spec => []NothingInvented` |
| `UndisturbedImplementsRegister` | `ReadingProofs` | `Spec => ImplementsRegister`, for any number of terminals, late writes and weeks |
| `ReadsAreKept` | `ReadingProofs` | `Spec => []NoReadIsDropped`, for any number of terminals, sessions and faults |
| `ViewsInvariant` | `ReadingProofs` | `ViewsSpec => []IInv`, the inductive invariant of the next two |
| `ViewsNeverHang` | `ReadingProofs` | `ViewsSpec => []NothingWaitsForever`, for any messages, threads, searches and number of requests |
| `DeletionsAreShown` | `ReadingProofs` | `ViewsSpec => []DeletedStaysGoneInView`, likewise |
| `InboxStaysInOrder` | `InboxProofs` | `Spec => []IInv`, the inductive invariant of the next three |
| `PendingStaysOutstanding` | `InboxProofs` | `Spec => []PendingIsOutstanding`, for any log, number of faults, drops, keys and claims |
| `OnlyShownStaysUploaded` | `InboxProofs` | `Spec => []OnlyShownIsUploaded`, likewise |
| `NothingStaysMissed` | `InboxProofs` | `Spec => []NothingMissed`, for any log, number of drops, keys and claims |
| `CommunitiesKeepApart` | `SessionTasksProofs` | `Spec => []CommunitiesStayApart`, for any number of switches and any capacities |
| `MessagesKeepTheirOrder` | `SessionTasksProofs` | `Spec => []SendsInOrder`, for any number of messages |
| `NoWriteOrTargetIsForgotten` | `SessionTasksProofs` | `Spec => []NothingIsForgotten`, for any number of messages and targets |
| `Invariant` | `LifecycleProofs` | `Spec => []IInv`, the inductive invariant of the next three |
| `NothingWaits` | `LifecycleProofs` | `Spec => []NothingWaitsInVain`, for any channels, people and number of writes |
| `CreationsAccounted` | `LifecycleProofs` | `Spec => []CreationAccounted`, likewise |
| `SettledByReads` | `LifecycleProofs` | `Spec => SettledByLaterRead`, an action property |
| `EvidenceHolds` | `AgentWorkProofs` | `Spec => []SaidOnEvidence` |
| `FinishedStays` | `AgentWorkProofs` | `Spec => []FinishedStaysFinished`, for any number of tombstones |
| `LiveIsShown` | `AgentWorkProofs` | `Spec => []LiveTurnIsShown`, for any size of the table |
| `InvHolds` | `WebProofs` | `Spec => []Inv`, the inductive invariant of the next three |
| `MarkedIsShown` | `WebProofs` | `Spec => []MarkedWasShown` |
| `SwitchesStayOrderly` | `WebProofs` | `Spec => []SwitchesAreOrderly`, for any number of switches |
| `AwaitedStaysUnderWay` | `WebProofs` | `Spec => []AwaitedIsUnderWay` |
| `FileStaysUsableHolds` | `CommandLineProofs` | `Spec => []FileStaysUsable`, for any number of commands at a time |
| `LoggedOutIsOutHolds` | `CommandLineProofs` | `Spec => []LoggedOutIsOut` |
| `OnlyWhatItNamesHolds` | `CommandLineProofs` | `Spec => OnlyWhatItNames`, an action property |
| `UpdatedIsTrue` | `CommandLineProofs` | `UpdateSpec => []UpdatedIsTheTarget` |
| `CommittedWorkStays` | `CommandLineProofs` | `UpdateSpec => []CommittedWorkIsKept` |

Assumptions are the named ones of the modules: the observer's "channel" is none of
the channels, messages are finitely many, a chunk holds at least one id, the bounds
are naturals, threads are contexts; in `Inbox` the log may hold at least one message and
later messages are of no earlier second; in `Web` the cookie is no tab and
the conversations are finitely many, at least one; in `AgentWork` a frame without a turn
id names a conversation unless it is a bare panic, and capacities and times are positive;
in `SessionTasks` queues have room for one item and at most one member batch is
submitted; in `Lifecycle` a new channel is none of the old ones, this identity is none of
the others, who are finitely many, and there is a label to give. The bounds are constants, so the theorems hold for any number of failures,
refusals, requests, terminals, sessions, tabs, switches, agents, turns, commands and
commits.

`SubPump`. Type correctness needs that the number of chunks of a set of ids is at
most the size of the set (`ChunkBound`), since an id carries its chunk's index.
`RetainedIsRoutedOrTold` is not inductive: it is conditional on being connected, and
says nothing of the connection that is about to be made. The strengthening
`Retained` states the same four facts without the condition; `OwedRetains` shows
that a new connection establishes it from `Owed`, `ApplyControlRetains` that each of
the five requests preserves it, and `HandleClosedRetains` that a CLOSED either
unretains a timeline or tells the interface. The step lemma has one case per
action.

`FeedsAgree` is about the pump, the relay and two queues of frames that cross, so its
invariant (`Agreed`) is about all four. Of the frames that name an id only the last
one counts: a `Req` means that the relay will answer, a `Close` that it will end.
A timeline or observer feed, whose id is never reused for other contents, is in one
place only: asked for, served, or refused with the CLOSED on its way. Requests that
change several ids at once (`ConnectOk`, auxiliary feeds) append a sequence of frames,
about which `ConcatNames` and `FramesName` say who is named last. One lemma per action
shows that `Agreed` is kept; `AgreedMeans` draws the four conclusions of the property.

`ReadMarker`. `NothingInvented` is inductive relative to `TypeOK`: the order `Covers`
is transitive, every merge is covered by what covers its arguments
(`MergeCovered`), and a claim raises `presented` with the frontier
(`ClaimCovered`).

The other two theorems are about a slot that is `Undisturbed`: so far one terminal
alone had sessions, no write went unanswered, and the slot did not age. Without the
condition both fail, since two read-backs that precede both writes put an older
frontier back. The condition can only end, never begin (`UndisturbedBefore`), so it
may be assumed of the state before a step when it holds after. `Resting` says what
is empty while a terminal is off or no publish is under way; with it,
`OnlyWriter` says that a terminal other than the one that writes never had a session.
The refinement of `MaxRegister` maps a write to `Merge`, which needs that the contexts
it carries cover the slot: `ReadBackIsCurrent` (`CurrentStep`). Every other step leaves
slot and `presented` alone, or is `Present` (`RegisterStep`).

That no read is dropped is not inductive either: a claim puts the whole frontier
in `pending` in place of what was there, and keeps the earlier reads only if the
frontier reaches as far as they do. `ClaimsCover` states that, of the frontier and of
the claim in the outbox. `ReadsAccounted` is what becomes of a read, step by step,
also between quitting and the end, which `NoReadIsDropped` says nothing about;
`AccountedMeansKept` draws the conclusion. The case that needs most is the write,
which replaces the slot: a read the relay holds already stays there because the
write covers the slot (`ReadBackIsCurrent` again).

`Views`. That a view which loads is owed its answer speaks of the view, the commands
and the answers; what makes it inductive is what a remembered number stands for
(`Numbers`). A number of the context or the thread is given out once, so no answer can fit but
to the request the view waits for: a page of the right side, or the whole. Without
that, an answer that fits could clear one flag and leave another waiting for nothing.
`Waiting` is the property without its exceptions of time, so it also says that what
is hidden is owed. For deletions, `Gone` is the property with the views that are not
shown, since a hidden one is shown again, and `FeedOrder` that no message is told of after its
deletion and every deletion that is told was made: else a late live row would bring it back.
Whatever answer is applied, the views filter it by what is known then (`Kept`), so the
answers themselves need only hold messages that were posted, and for a thread its own
(`Results`). There is one lemma per action, whose parts are the parts of the invariant;
the lemmas about what is under way (`Pushed`, `Ran`, `Took`) serve all of them. `NoHoles` stays
model-checked: it would need, of each page under way, that it joins what the view shows
when it is applied.

`Inbox`. The invariant `IInv` is stated of a record `u`, a log, the messages shown and the
second read elsewhere, so that each handler has one lemma about its result (`Good`) and the
lemmas compose as the handlers do: `HistoryKeeps` uses `Lands`, which uses `Restores`,
`Focuses` and `Presents`. `WellFormed` needs that the cursor stays among the rows, which for
`load_history` needs that a page holds every row but the live ones, and that pages arrive in
the order of the log (`HistoriesGrow`). Which row is at a place is a `CHOOSE`; that there is
one follows from the least number (`PlaceIsTaken`). `PendingAsks` is what makes
`PendingIsOutstanding` inductive: it also counts what the handler has pushed but not sent.
That a `CatchUp` or `Seed` answer is never the last one of a conversation still pending
holds because both handlers leave `pending` whatever they find.
`ClaimsAreHonest` says of every place on the way of a claim (a marked frontier, the commands
pushed and sent, `pending_read`, the relay's marker and the answers that name it) that its
second was shown here or read elsewhere; a claim adds the newest row of the screen
(`Presents`), a claim from a seed reaches no further than that row. The one step that breaks
it marks a seed, which is what `adopted` records. An earlier form of the property, which
excused other terminals' markers only, held within the bounds of the run and failed in the
proof: after a `Refresh` and a reconnect the seed is asked for twice, the second answer takes
`marked` from a claimed conversation, and the answer to its own publish gives it back with the
frontier of the seed. A run with four disturbances then showed it.

`NothingMissed` speaks of states at rest only; its invariant (`Caught`, as long as no query
has failed) says where each message is meanwhile. A message is *spoken for* when it is a
row, was vouched for by a marker or a seed, or is of a history page on its way (`Spoken`); it
is *owed* when a feed brings it, a catch-up or seed answer names it, a question on its way asks for
it, or a new connection is to come (`OwedBy`). `Accounts` says that every message of others is
counted, spoken for, owed, or of a conversation that waits to ask; that nothing a row or the
frontier passes over is left unspoken for; and `Words` that such a conversation will be
let ask, and one that is not complete will be. Each handler has one lemma again (`Sure`), over any set K that is
spoken for and X that is owed, so that a message can pass from X to Y as the event is taken. The hardest case is
a message on the Timeline feed, which becomes a row whatever came before it: `Steady`
says that what a later message overtakes on that feed (`Ahead`), or nothing on it tells, is
loaded or in a page to come, which holds because the session subscribes before it asks for
the page, and asks for one after every `Connected`. `Ordered` has what the handlers take on trust from the
order of the queues: the markers follow the list of channels, a reconnect follows every
`Disconnected`, and nothing is asked before the markers were read.

`SessionTasks`. Two generations of pumps, forwarders and watchers write to one queue of
the interface, so what keeps communities apart is the order of that queue (`Ordered`):
from the community shown to the one announced last, each is announced once and in turn;
what is not tagged with a generation stands between its own announcement and the next
one; what is tagged is of a generation announced before, and if it is an older one
`App::apply` drops it (`HeadInOrder`). An announcement is the last thing the command pump says
before it starts the next generation (`Working`), whose feed is empty until then (`Fed`,
`Started`). That generations stay within their bound needs that no more switches are on
their way, in the three queues or the pump's work, than were asked for
(`SwitchesCounted`). For the reads (`AtHome`): a claim made with no switch under way names
the community of the pump's client (`ShownIsServed`, from `Ordered`), no switch is ahead
of it in its queue or in one the pump empties first, and while a switch's work is under way none
such is left in any queue; so that the pump takes it with that client, and flushes it
before the next. These facts are one invariant, `Apart`.

For the order of messages (`Flowing`), each of the five places a message passes through is
a set, and the five sets form a chain in which every message of one is below every
message of the next; one lemma per kind of move says that a chain stays one
(`ChainSends`, `ChainTurns`, `ChainTakes`, `ChainTells`, `ChainGrows`). A batch that moves the command
queue behind what it took off earlier joins two neighbouring links, which keeps the
chain; the other way round would not. `UnderWayIs` joins the five places into the sequence the
property is about.

For the batch (`Accounted`), what is on its way for each target is counted over the same places
(`ToCome`), with lemmas about counts of joined, extended and shortened sequences; it is
none before a batch and, while the batch is locked, one exactly for a target that has no
result (`EventAccounts`, `KeyAccounts`, `AccountedElsewhere`). The test of the generation in
`apply_member_write` never fails while a batch is locked, because a switch unlocks it.

`Lifecycle`. `IInv` has three parts: types, what is known of channels that were created
(`Accounts`), and `Flow`, about the interface, the commands, the batch, the answers and the
writes that were run. `Flow` says of each kind of write that it is numbered, run and
answered in order, that no read precedes in the queue an answer it may settle
(`InCourse`), and that a record says where its write is: queued, answered, or known to be run
(`Recorded`). A read on its way names the writes that preceded it, so it names every write
run by then (`Fresh`); this is why a record left by a lost answer is not
settled by a read of before. For writes to members, `ToCome` counts what each target of
the newest write still has to hear, none twice: a batch writes each target once because
`SetToSeq` is injective. `PanelReads` says that the panel's two numbers are those of
a read that is queued or whose answer is.
Some forty handlers would each need all of this. They are classified by what they leave
alone (`Idle`, `Calm`, `WroteCreate`, `AsksMembers`, `RosterRead`, `CreationAnswered`, ...), and
each class has one lemma that `Flow` is kept, as has each step of the command pump. The
action property uses two more: what one answer does to the records (`SettledBy`), and
that a key replaces a record only by one of a later number, and notes it
(`Leaves`).

`AgentWork`. The three properties share one invariant. A shown turn was heard
(`Backed`), which is also why the table has room: it holds nothing that was not heard,
so a turn heard of that nothing ended stays in it while what was heard fits (`Kept`).
A tombstone is at most as deep in its queue as other ends were heard since
(`Remembered`), since an end appends at most one and drops the oldest only when full
(`BuriesIs`); that the first end of a turn does bury it needs that no tombstone was
there before, which holds if all ends heard named their turn (`BuriedByName`). An
agent is forgotten only for room among those heard of (`KnownWereHeard`, `HearWork`).
Which turn has to go, and which is the newest of its conversation, is a `CHOOSE`; that
it is of the table follows from the least element of a set of naturals
(`LeastNumber`). The proof found two flaws that the run's capacity of one tombstone
hid: frames without a turn id are numbered per agent, so that in the history one agent's
replaced another's, and a repeated end does not renew its tombstone, so that the
property has to count from the first end.

`Web`. The queue to the event task is first in, first out, and the pump announces a switch
in the same queue as everything else (`Ordered`), so an event at its head is of the
community that all Apps are on, or of one they left. From this follow `Marked` (each
place where a read claim may be, from a stale page to the relay's slot, holds
what was drawn) and `Connected`. `OneCopy` says that a message is in exactly one of the
commands carried, the queue, the written ones and the answers; `MessagesMove` says
of each step how the copy moves. What is under way keeps its view waiting (`Awaited`),
and a view that waits refuses every switch (`Home`). An attempt with more than one
switch failed at the divergence listed above for `Web`, which a run with two switches
then showed; the property is about messages sent while no switch was under way.

`Profiles`. Per command, whatever the age of its copy, the copy and what will be written
are files that every command accepts (`Settled`); and while nobody wrote since it was
read, what it will write is the file, wrapped, or differs in what the command names only
(`Fits`). An id that was ever offered is in the file, removed by a command or lost to an
older write (`Remembered`). The step lemma is split by what a command may do to its
own process (one lemma per kind of change) and what a write does to the others.

`SourceUpdate`. `History` is the least set that contains a commit and is closed under
parents, so that facts about it follow from closure and leastness (`HistoryIsClosed`,
`HistoryIsLeast`) without induction; a new commit changes no history but its own
(`CommitKeepsHistory`). The invariants say, of each stage of the command, what is known of
HEAD, the recorded commit and the target. While Cargo has asked and not compiled
(`Building`), either the checkout is still what the script found, or `touched`: with it,
what verifies as the target was compiled from it unless somebody changed it meanwhile.

Only model-checked: `Timeline`, `Desk` and `NoHoles` of `Views`; and the refinement of `FeedRegistry`, whose mapping folds a function over a
sequence: what a fold computes needs induction over data, and the library's induction
theorems take an operator, which no installed prover can instantiate. The same would
hold for filtered sequences, so `SendsInOrder` and `NothingIsForgotten` look at every
place of a queue and give those of other kinds nothing to say. Where only
a least counterexample on the naturals is needed, `LeastNumber` (from the library's
`WFMin`) serves. Liveness (`PumpEnds`, `FeedsSettle`, `SessionsSettle`) depends
on fairness and `ENABLED`, which the prover does not handle.

## 5. What is left out

### Within the modules

- `SubPump`: EVENT, NOTICE and OK frames, filters, `since`, authentication.
- `ReadMarker`: encryption and decoding of the slot (`read_state.rs` beyond the
  merge); a slot that does not decode is a failed read-back.
- `Inbox`: mentions, own sends, edits and deletions, replies of the thread on screen,
  a roster that loses a conversation, conversations beyond one and "another".
- `SessionTasks`: lifecycle writes, searches, threads and pages, all of which are one
  command with one answer; frames that are only shown; the closing of the command
  queue, which the interface outlives.
- `Lifecycle`: roles other than owner and member, what the fields of a form hold.
- `Timeline`: reactions other than one emoji, and rows in other than arrival order.
- `Views`: several messages in one second, pages read in several queries, branches of
  a thread, a search over more than one conversation, search filters.
- `Desk`: cursors, filters, the digit keys of the switcher, the mention list and the spans of a text, the sidebar,
  communities beyond one, a terminal below the minimum size.
- `AgentWork`: signatures, decryption and parsing of frames.
- `Web`: parsing of requests, page drawing, requests that change one view only, the
  reads that follow a connection, the limits of the queues.
- `Profiles`: the text of keys and names, files that do not parse or that another
  user may read.
- `SourceUpdate`: how the checkout is found, what the processes print.

### Not modelled

- HTTP transport and relay client beyond their outcomes (stored, refused, unknown,
  truncated): they keep no state between calls, and their callers' models take every
  outcome.
- Content, layout, thread tree, event classification: pure functions from events to
  rows and cells. They have unit tests with exact expectations; a model would repeat
  string handling.
- Rendering: `ui.rs` reads `App` and writes cells. What it draws first matters for
  the keys, and that order is in `Desk`.
- The remaining commands of the command line: one query or write each, without state.

## 6. Plan

In order of what a mistake would cost and a test would not find:

1. Proofs of what is only model-checked: `DetoursComeHome` of `Desk`;
   `NoRowTwice` of `Timeline`; `NoHoles` of `Views`.
2. The pure parts as operators checked against reference definitions: thread tree and
   branch order, mention spans, chunking.
3. Mentions and own sends in `Inbox`, more than one followed conversation, and its
   composition with `ReadMarker` in place of the one-step publish.
