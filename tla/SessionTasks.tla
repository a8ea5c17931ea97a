---------------------------- MODULE SessionTasks ----------------------------
(***************************************************************************)
(* The tasks of one session of the terminal and the bounded queues between *)
(* them (session.rs, main.rs):                                             *)
(*                                                                         *)
(*   interface --commands--> command pump --subs[g]--> WebSocket pump g    *)
(*       ^                        |                          |             *)
(*       |                        v                        feed[g]         *)
(*       +------- events <--------+------ forwarder g <------+             *)
(*                                                                         *)
(* A community switch starts a new generation g: a new HTTP client, a new  *)
(* WebSocket pump and a new forwarder, while those of the generation       *)
(* before it are still running.  Every sender waits while its queue is     *)
(* full.  The interface applies events only between two rounds of sending. *)
(*                                                                         *)
(* The modules SubPump, ReadMarker and Inbox look inside these tasks; here *)
(* the subject is the order in which their messages meet.                  *)
(***************************************************************************)
EXTENDS Naturals, Sequences, FiniteSets

CONSTANTS
  Targets,     \* the identities one member batch adds
  CommandCap,  \* capacity of the command queue (64)
  SubCap,      \* capacity of a WebSocket pump's control queue (64)
  FeedCap,     \* capacity of a WebSocket pump's event queue (256)
  EventCap,    \* capacity of the interface's event queue (256)
  MaxSwitches, \* bound: community switches in the run
  MaxSends,    \* bound: messages written
  MaxBatches,  \* bound: member batches, at most one
  MaxNet,      \* bound: frames delivered and connections lost or refused
  MaxInputs    \* bound: those and the keys that ask for something, together

ASSUME Capacities ==
  /\ {CommandCap, SubCap, FeedCap, EventCap} \subseteq Nat \ {0}
  /\ {MaxSwitches, MaxSends, MaxBatches, MaxNet, MaxInputs} \subseteq Nat
  /\ Targets # {}
  /\ MaxBatches <= 1

VARIABLES
  loop,     \* where the interface's loop is
  ui,       \* the interface's picture of the session
  outbox,   \* commands the interface has decided on and not sent
  commands, \* the command queue
  pump,     \* the command pump: its generation, its batch, its read, its work
  queued,   \* commands a running member batch took off the queue
  subs,     \* per generation, the control queue of its WebSocket pump
  feed,     \* per generation, the events of its WebSocket pump
  events,   \* the interface's event queue
  ws,       \* per generation, its WebSocket pump
  net       \* how many frames were delivered and connections lost or refused

vars == <<loop, ui, outbox, commands, pump, queued, subs, feed, events, ws,
          net>>

Gens == 0 .. MaxSwitches
Messages == 1 .. MaxSends

\* The bounds on keys and on what the network does.
KeyLeft == ui.keys + net < MaxInputs
NetLeft == net < MaxNet /\ ui.keys + net < MaxInputs

-----------------------------------------------------------------------------
(* What travels.                                                            *)

\* A switch was asked for that has not both begun in the pump and arrived on
\* screen.
HoldsSwitch(q) == \E i \in DOMAIN q : q[i].kind = "SwitchCommunity"
Spawning == \E i \in DOMAIN pump.work : pump.work[i].do = "spawn"
SwitchUnderWay ==
  \/ HoldsSwitch(outbox) \/ HoldsSwitch(commands) \/ HoldsSwitch(queued)
  \/ Spawning
  \/ \E i \in DOMAIN events : events[i].kind = "CommunitySwitching"

\* History, for the properties: `home` is the community the interface showed
\* when it asked, `amid` whether a switch was under way.  The program's command
\* carries neither.
Command(kind, about) ==
  [kind |-> kind, about |-> about, home |-> ui.community, amid |-> SwitchUnderWay]

CommandKinds ==
  {"LoadChannels", "OpenChannel", "AddAux", "LoadMembers", "Send",
   "ReadProgress", "AddMembers", "SwitchCommunity", "Shutdown"}

\* `gen` is the generation of the client or of the pump that produced the
\* event; only a WebSocket pump's events carry it to the interface (`tagged`).
Event(kind, about, g, tagged) ==
  [kind |-> kind, about |-> about, gen |-> g, tagged |-> tagged]

\* Answers that change nothing this module follows are one kind, Answer.
EventKinds ==
  {"Connected", "Disconnected", "Timeline", "ChannelGone",
   "CommunitySwitching",
   "Channels", "Members", "Written", "MemberResult", "MemberUnknown",
   "MemberBatchCancelled", "Answer"}

\* One step of the pump's current work: a control sent to the WebSocket pump,
\* an event sent to the interface, the start of a generation, the end.
Control(kind) == [do |-> "control", kind |-> kind]
Tell(kind, about) ==
  [do |-> "tell", event |-> Event(kind, about, pump.gen, FALSE)]
Spawn == [do |-> "spawn"]
End   == [do |-> "end"]

Init ==
  /\ loop = "drain"
  /\ ui = [generation |-> 0, community |-> 0, opened |-> FALSE, pending |-> {},
           locked |-> FALSE, left |-> {}, unknown |-> FALSE, lockedAt |-> 0,
           quit |-> FALSE, keys |-> 0, sends |-> 0, batches |-> 0,
           switches |-> 0]
  /\ outbox = <<>> /\ commands = <<>> /\ queued = <<>> /\ events = <<>>
  /\ pump = [gen |-> 0, work |-> <<>>, batch |-> {}, read |-> {},
             due |-> FALSE, over |-> FALSE]
  /\ subs = [g \in Gens |-> <<>>]
  /\ feed = [g \in Gens |-> <<>>]
  /\ ws = [g \in Gens |-> [at |-> IF g = 0 THEN "connecting" ELSE "off",
                           first |-> TRUE, served |-> FALSE]]
  /\ net = 0

-----------------------------------------------------------------------------
(* The interface: apply every queued event, send the outbox, take a key.    *)

\* An event of a generation the interface has left.
Stale(e) == e.tagged /\ e.gen < ui.generation

\* The interface after the generation an event carries is taken note of.
Seen(e) == IF e.tagged THEN [ui EXCEPT !.generation = e.gen] ELSE ui

Ask(requests) == outbox' = outbox \o requests

\* A connection: read the roster, and on a reconnect the open conversation.
ApplyConnected(e) ==
  /\ e.kind = "Connected"
  /\ ui' = Seen(e)
  /\ Ask(<<Command("LoadChannels", {})>>
           \o IF ui.opened THEN <<Command("OpenChannel", {})>> ELSE <<>>)

\* The first roster of a community opens its first conversation.
ApplyChannels(e) ==
  /\ e.kind = "Channels"
  /\ ui' = [Seen(e) EXCEPT !.opened = TRUE]
  /\ Ask(IF ui.opened THEN <<>> ELSE <<Command("OpenChannel", {})>>)

\* A message of the open conversation: ask for its overlays, once per row.
ApplyTimeline(e) ==
  /\ e.kind = "Timeline"
  /\ ui' = Seen(e)
  /\ Ask(IF ui.opened THEN <<Command("AddAux", {})>> ELSE <<>>)

\* The open conversation is gone: its members panel closes, when one is open,
\* and with it the record of its batch; the next conversation is opened.
ApplyGone(e) ==
  /\ e.kind = "ChannelGone"
  /\ \/ ui' = Seen(e)
     \/ ui' = [Seen(e) EXCEPT !.locked = FALSE, !.left = {}, !.unknown = FALSE]
  /\ Ask(IF ui.opened THEN <<Command("OpenChannel", {})>> ELSE <<>>)

\* The interface moves to another community and starts from nothing there.
ApplySwitching(e) ==
  /\ e.kind = "CommunitySwitching"
  /\ ui' = [ui EXCEPT !.generation = e.gen, !.community = e.gen,
                      !.opened = FALSE, !.pending = {},
                      !.locked = FALSE, !.left = {}, !.unknown = FALSE]
  /\ outbox' = <<>>

\* A write's answer settles its row: stored, refused and uncertain alike.
ApplyWritten(e) ==
  /\ e.kind = "Written"
  /\ ui' = [ui EXCEPT !.pending = @ \ e.about]
  /\ UNCHANGED outbox

\* With the last target's result the batch is settled, and its lock goes
\* unless a result is unknown; a members panel still open is read again.
Settle(left, unknown) ==
  /\ ui' = [ui EXCEPT !.left = left, !.unknown = unknown,
                      !.locked = left # {} \/ unknown]
  /\ \/ Ask(<<>>)
     \/ left = {} /\ Ask(<<Command("LoadMembers", {})>>)

ApplyMemberWrite(e) ==
  /\ e.kind \in {"MemberResult", "MemberUnknown"}
  /\ IF ui.locked /\ ui.lockedAt = ui.generation /\ e.about \subseteq ui.left
     THEN Settle(ui.left \ e.about, ui.unknown \/ e.kind = "MemberUnknown")
     ELSE UNCHANGED <<ui, outbox>>

\* The rest of a batch was stopped: its targets are settled as cancelled.
ApplyMemberCancelled(e) ==
  /\ e.kind = "MemberBatchCancelled"
  /\ IF ui.locked THEN Settle(ui.left \ e.about, ui.unknown)
     ELSE UNCHANGED <<ui, outbox>>

\* A membership read releases a settled batch with unknown results when it
\* shows what the batch expected.
ApplyMembers(e) ==
  /\ e.kind = "Members"
  /\ \/ UNCHANGED ui
     \/ /\ ui.locked /\ ui.left = {} /\ ui.unknown
        /\ ui' = [ui EXCEPT !.locked = FALSE, !.unknown = FALSE]
  /\ UNCHANGED outbox

ApplyOther(e) ==
  /\ e.kind \in {"Disconnected", "Answer"}
  /\ ui' = Seen(e)
  /\ UNCHANGED outbox

ApplyEvent ==
  /\ loop = "drain" /\ events # <<>>
  /\ events' = Tail(events)
  /\ LET e == Head(events) IN
       IF Stale(e) THEN UNCHANGED <<ui, outbox>>
       ELSE \/ ApplyConnected(e) \/ ApplyChannels(e) \/ ApplyTimeline(e)
            \/ ApplyGone(e) \/ ApplySwitching(e) \/ ApplyWritten(e)
            \/ ApplyMemberWrite(e) \/ ApplyMemberCancelled(e)
            \/ ApplyMembers(e) \/ ApplyOther(e)
  /\ UNCHANGED <<loop, commands, pump, queued, subs, feed, ws, net>>

\* The queue is empty: on to the outbox.  A first connection that failed ends
\* the session, after the frame and the key of this pass.
Drained ==
  /\ loop = "drain" /\ events = <<>>
  /\ loop' = "send"
  /\ ui' = [ui EXCEPT !.quit = @ \/ ws[0].at = "failed"]
  /\ UNCHANGED <<outbox, commands, pump, queued, subs, feed, events, ws, net>>

SendOutbox ==
  /\ loop = "send" /\ outbox # <<>>
  /\ Len(commands) < CommandCap
  /\ commands' = Append(commands, Head(outbox))
  /\ outbox' = Tail(outbox)
  /\ UNCHANGED <<loop, ui, pump, queued, subs, feed, events, ws, net>>

\* What one key may do, as the interface it leaves and what it asks.  A
\* pending write or an unsettled batch refuses a switch, not a message.
WriteMessage ==
  /\ ui.opened /\ ui.sends < MaxSends
  /\ ui' = [ui EXCEPT !.keys = @ + 1, !.sends = @ + 1,
                      !.pending = @ \cup {ui.sends + 1}]
  /\ outbox' = <<Command("Send", {ui.sends + 1})>>

ClaimRead ==
  /\ ui.opened
  /\ ui' = [ui EXCEPT !.keys = @ + 1]
  /\ outbox' = <<Command("ReadProgress", {})>>

SubmitMembers ==
  /\ ui.opened /\ ~ui.locked /\ ui.batches < MaxBatches
  /\ ui' = [ui EXCEPT !.keys = @ + 1, !.batches = @ + 1,
                      !.locked = TRUE, !.left = Targets,
                      !.unknown = FALSE, !.lockedAt = ui.generation]
  /\ outbox' = <<Command("AddMembers", Targets)>>

ConfirmCommunity ==
  /\ ui.switches < MaxSwitches
  /\ ui.pending = {} /\ ~ui.locked
  /\ ui' = [ui EXCEPT !.keys = @ + 1, !.switches = @ + 1]
  /\ outbox' = <<Command("SwitchCommunity", {})>>

QuitKey ==
  /\ ui' = [ui EXCEPT !.quit = TRUE]
  /\ UNCHANGED outbox

NoKey == UNCHANGED <<ui, outbox>>

\* The key of this pass; the loop starts again, or ends when it quits.
TakeKey ==
  /\ loop = "send" /\ outbox = <<>>
  /\ \/ /\ KeyLeft
        /\ WriteMessage \/ ClaimRead \/ SubmitMembers \/ ConfirmCommunity
     \/ QuitKey \/ NoKey
  /\ loop' = IF ui'.quit THEN "quit" ELSE "drain"
  /\ UNCHANGED <<commands, pump, queued, subs, feed, events, ws, net>>

\* A quitting interface asks for the shutdown, and waits for room to do so.
\* From then on it applies nothing; it leaves, and every task with it, when the
\* pump has finished or QUIT_FLUSH has passed: the behaviour may end anywhere.
SendShutdown ==
  /\ loop = "quit"
  /\ Len(commands) < CommandCap
  /\ commands' = Append(commands, Command("Shutdown", {}))
  /\ loop' = "flush"
  /\ UNCHANGED <<ui, outbox, pump, queued, subs, feed, events, ws, net>>


-----------------------------------------------------------------------------
(* The command pump: one command at a time, each a sequence of sends that   *)
(* waits wherever a queue is full.                                          *)

PumpIdle == ~pump.over /\ pump.work = <<>>

\* Publishing the pending read, when there is one, and what it answers.
Flush == IF pump.read = {} THEN <<>> ELSE <<Tell("Answer", {})>>

\* The commands that are a series of queries and answers, and how each may
\* end: a query of theirs answers or fails, and the profile may not be writable.
Course(c) ==
  CASE c.kind = "LoadChannels" ->
         {<<Control("Typing"), Control("Inbox"), Tell("Channels", {}),
            Tell("Answer", {})>>,
          <<Tell("Answer", {})>>}
    [] c.kind = "OpenChannel" ->
         {unrecorded \o <<Control("Timeline"), Tell("Answer", {})>> \o aux :
            unrecorded \in {<<>>, <<Tell("Answer", {})>>},
            aux \in {<<>>, <<Control("Aux")>>}}
    [] c.kind = "AddAux"      -> {<<Control("AuxAdd")>>}
    [] c.kind = "LoadMembers" -> {<<Tell("Members", {})>>}
    [] c.kind = "Send"        -> {<<Tell("Written", c.about)>>}
    [] OTHER                  -> {}

Answered(c) ==
  \E steps \in Course(c) : pump' = [pump EXCEPT !.work = steps]

\* The newest read replaces the one inside the window; the window is set once.
\* What waits is the claim: whichever client the pump has when it is published,
\* that client publishes it.
TakeRead(c) ==
  /\ c.kind = "ReadProgress"
  /\ pump' = [pump EXCEPT !.read = {c}, !.due = TRUE]

TakeBatch(c) ==
  /\ c.kind = "AddMembers"
  /\ pump' = [pump EXCEPT !.batch = c.about]

Announce == [do |-> "tell",
             event |-> Event("CommunitySwitching", {}, pump.gen + 1, FALSE)]

\* Mutant: the new generation starts before it is announced.
SwitchSpawnsFirst(c) ==
  /\ c.kind = "SwitchCommunity"
  /\ pump' = [pump EXCEPT !.read = {}, !.work = Flush \o <<Spawn, Announce>>]

\* The read the old community is owed, the announcement, then the tasks of the
\* new generation.
Switch(c) ==
  /\ c.kind = "SwitchCommunity"
  /\ pump' = [pump EXCEPT !.read = {}, !.work = Flush \o <<Announce, Spawn>>]

Shutdown(c) ==
  /\ c.kind = "Shutdown"
  /\ pump' = [pump EXCEPT !.read = {}, !.work = Flush \o <<End>>]

Execute(c) ==
  Answered(c) \/ TakeRead(c) \/ TakeBatch(c) \/ Switch(c) \/ Shutdown(c)

\* The next command: what a batch took off the queue comes first.
TakeCommand ==
  /\ PumpIdle /\ pump.batch = {}
  /\ \/ /\ queued # <<>>
        /\ Execute(Head(queued))
        /\ queued' = Tail(queued) /\ UNCHANGED commands
     \/ /\ queued = <<>> /\ commands # <<>>
        /\ Execute(Head(commands))
        /\ commands' = Tail(commands) /\ UNCHANGED queued
  /\ UNCHANGED <<loop, ui, outbox, subs, feed, events, ws, net>>

\* The publish window has passed.
PublishDue ==
  /\ PumpIdle /\ pump.batch = {} /\ queued = <<>> /\ pump.due
  /\ pump' = [pump EXCEPT !.due = FALSE, !.read = {}, !.work = Flush]
  /\ UNCHANGED <<loop, ui, outbox, commands, queued, subs, feed, events, ws,
                 net>>

\* Mutant: what the queue holds now goes before what was taken off it earlier.
LineNewestFirst == commands \o queued

\* What a running batch finds on the queue, behind what it found before.
Line == queued \o commands

Stops(c) == c.kind \in {"SwitchCommunity", "Shutdown"}

\* Mutant: a cancelled batch is dropped without a report.
BatchTurnSilent ==
  /\ PumpIdle /\ pump.batch # {}
  /\ queued' = Line
  /\ commands' = <<>>
  /\ IF \E i \in DOMAIN Line : Stops(Line[i])
     THEN pump' = [pump EXCEPT !.batch = {}]
     ELSE \E t \in pump.batch, outcome \in {"MemberResult", "MemberUnknown"} :
            pump' = [pump EXCEPT !.batch = @ \ {t},
                                 !.work = <<Tell(outcome, {t})>>]
  /\ UNCHANGED <<loop, ui, outbox, subs, feed, events, ws, net>>

\* One turn of a batch: everything waiting is taken off the queue; a switch or
\* a shutdown among it cancels the rest, otherwise one more target is written.
BatchTurn ==
  /\ PumpIdle /\ pump.batch # {}
  /\ queued' = Line
  /\ commands' = <<>>
  /\ IF \E i \in DOMAIN Line : Stops(Line[i])
     THEN pump' = [pump EXCEPT !.batch = {},
                     !.work = <<Tell("MemberBatchCancelled", pump.batch)>>]
     ELSE \E t \in pump.batch, outcome \in {"MemberResult", "MemberUnknown"} :
            pump' = [pump EXCEPT !.batch = @ \ {t},
                                 !.work = <<Tell(outcome, {t})>>]
  /\ UNCHANGED <<loop, ui, outbox, subs, feed, events, ws, net>>

\* The control queue of an ended WebSocket pump takes everything at once.
Ended(g) == ws[g].at \in {"failed", "over"}

NextStep == Head(pump.work)
Done == [pump EXCEPT !.work = Tail(@)]

PumpControl ==
  /\ pump.work # <<>> /\ NextStep.do = "control"
  /\ IF Ended(pump.gen) THEN UNCHANGED subs
     ELSE /\ Len(subs[pump.gen]) < SubCap
          /\ subs' = [subs EXCEPT ![pump.gen] = Append(@, NextStep.kind)]
  /\ pump' = Done
  /\ UNCHANGED <<loop, ui, outbox, commands, queued, feed, events, ws, net>>

PumpTell ==
  /\ pump.work # <<>> /\ NextStep.do = "tell"
  /\ Len(events) < EventCap
  /\ events' = Append(events, NextStep.event)
  /\ pump' = Done
  /\ UNCHANGED <<loop, ui, outbox, commands, queued, subs, feed, ws, net>>

\* The new generation: the old control queue loses its sender, and the new
\* WebSocket pump, forwarder and client start.
PumpSpawn ==
  /\ pump.work # <<>> /\ NextStep.do = "spawn"
  /\ pump' = [Done EXCEPT !.gen = @ + 1]
  /\ ws' = [ws EXCEPT ![pump.gen + 1].at = "connecting"]
  /\ UNCHANGED <<loop, ui, outbox, commands, queued, subs, feed, events, net>>

PumpEnd ==
  /\ pump.work # <<>> /\ NextStep.do = "end"
  /\ pump' = [Done EXCEPT !.over = TRUE]
  /\ UNCHANGED <<loop, ui, outbox, commands, queued, subs, feed, events, ws,
                 net>>

-----------------------------------------------------------------------------
(* A WebSocket pump, as far as its queues are concerned.  While its event   *)
(* queue is full it waits, with the event it has to send.                   *)

Room(g) == Len(feed[g]) < FeedCap

Deliver(g, kind) ==
  feed' = [feed EXCEPT ![g] = Append(@, Event(kind, {}, g, TRUE))]

\* The control queue has lost its sender.
Dropped(g) == g < pump.gen \/ pump.over

Connect(g) ==
  /\ ws[g].at = "connecting" /\ Room(g)
  /\ ws' = [ws EXCEPT ![g].at = "up", ![g].first = FALSE]
  /\ Deliver(g, "Connected")
  /\ UNCHANGED <<loop, ui, outbox, commands, pump, queued, subs, events, net>>

\* A first connection that fails ends the pump; a later one is tried again.
ConnectFails(g) ==
  /\ ws[g].at = "connecting" /\ NetLeft
  /\ net' = net + 1
  /\ \/ /\ ws[g].first
        /\ ws' = [ws EXCEPT ![g].at = "failed"]
        /\ UNCHANGED feed
     \/ /\ ~ws[g].first /\ Room(g)
        /\ ws' = [ws EXCEPT ![g].at = "backoff"]
        /\ Deliver(g, "Disconnected")
  /\ UNCHANGED <<loop, ui, outbox, commands, pump, queued, subs, events>>

\* The watcher of a later generation's start reports its failure.
ReportFailedStart(g) ==
  /\ g > 0 /\ ws[g].at = "failed"
  /\ Len(events) < EventCap
  /\ events' = Append(events, Event("Disconnected", {}, g, TRUE))
  /\ ws' = [ws EXCEPT ![g].at = "over"]
  /\ UNCHANGED <<loop, ui, outbox, commands, pump, queued, subs, feed, net>>

\* Every queued control is applied before the next frame is read; during a
\* backoff it is kept for the next connection.
TakeControls(g) ==
  /\ ws[g].at \in {"up", "backoff"} /\ subs[g] # <<>>
  /\ subs' = [subs EXCEPT ![g] = <<>>]
  /\ ws' = [ws EXCEPT ![g].served =
               @ \/ \E i \in DOMAIN subs[g] : subs[g][i] = "Timeline"]
  /\ UNCHANGED <<loop, ui, outbox, commands, pump, queued, feed, events, net>>

\* A served feed delivers a message or the end of its conversation.  The
\* events the interface only shows are left out: they fill the same queues.
Frame(g) ==
  /\ ws[g].at = "up" /\ ws[g].served /\ Room(g) /\ NetLeft
  /\ net' = net + 1
  /\ \E kind \in {"Timeline", "ChannelGone"} : Deliver(g, kind)
  /\ UNCHANGED <<loop, ui, outbox, commands, pump, queued, subs, events, ws>>

\* A socket that dies, or a control queue found closed, ends the connection.
ConnectionEnds(g) ==
  /\ ws[g].at = "up" /\ Room(g)
  /\ \/ Dropped(g) /\ subs[g] = <<>> /\ UNCHANGED net
     \/ NetLeft /\ net' = net + 1
  /\ ws' = [ws EXCEPT ![g].at = "backoff"]
  /\ Deliver(g, "Disconnected")
  /\ UNCHANGED <<loop, ui, outbox, commands, pump, queued, subs, events>>

\* The backoff ends: the pump reconnects, or finds its queue closed and stops.
BackoffEnds(g) ==
  /\ ws[g].at = "backoff"
  /\ \/ ~Dropped(g) /\ ws' = [ws EXCEPT ![g].at = "connecting"]
     \/ /\ Dropped(g) /\ subs[g] = <<>>
        /\ ws' = [ws EXCEPT ![g].at = "over"]
  /\ UNCHANGED <<loop, ui, outbox, commands, pump, queued, subs, feed, events,
                 net>>

\* The forwarder: what it holds between its two queues counts as still in the
\* first one.
Forward(g) ==
  /\ feed[g] # <<>>
  /\ Len(events) < EventCap
  /\ events' = Append(events, Head(feed[g]))
  /\ feed' = [feed EXCEPT ![g] = Tail(@)]
  /\ UNCHANGED <<loop, ui, outbox, commands, pump, queued, subs, ws, net>>

Interface == ApplyEvent \/ Drained \/ SendOutbox \/ TakeKey \/ SendShutdown
CommandPump == TakeCommand \/ PublishDue \/ BatchTurn \/ PumpControl
                 \/ PumpTell \/ PumpSpawn \/ PumpEnd
WebSocketPump(g) ==
  \/ Connect(g) \/ ConnectFails(g) \/ ReportFailedStart(g) \/ TakeControls(g)
  \/ Frame(g) \/ ConnectionEnds(g) \/ BackoffEnds(g)
  \/ Forward(g)

Next == Interface \/ CommandPump \/ \E g \in Gens : WebSocketPump(g)

Spec == Init /\ [][Next]_vars

-----------------------------------------------------------------------------
(* Properties.                                                              *)

\* TypeOK: every variable keeps its type and no bounded queue ever holds more
\* than its capacity (the channels made in session::spawn and run_tui_session).
Commands == [kind : CommandKinds, home : Gens, amid : BOOLEAN,
             about : (SUBSET Messages) \cup SUBSET Targets]
Events == [kind : EventKinds, gen : Gens, tagged : BOOLEAN,
           about : (SUBSET Messages) \cup SUBSET Targets]
Within(q, S, cap) == Len(q) <= cap /\ \A i \in DOMAIN q : q[i] \in S

TypeOK ==
  /\ loop \in {"drain", "send", "quit", "flush"}
  /\ ui.generation \in Gens /\ ui.community \in Gens
  /\ ui.pending \subseteq Messages /\ ui.left \subseteq Targets
  /\ ui.left # {} \/ ui.unknown <=> ui.locked
  /\ \A q \in {outbox, queued} : Within(q, Commands, Len(q))
  /\ Within(commands, Commands, CommandCap)
  /\ Within(events, Events, EventCap)
  /\ pump.gen \in Gens /\ pump.batch \subseteq Targets
  /\ \A g \in Gens :
       /\ Len(subs[g]) <= SubCap
       /\ Within(feed[g], Events, FeedCap)
       /\ ws[g].at \in {"off", "connecting", "up", "backoff", "failed", "over"}

\* Nothing of one community reaches another: what the interface is about to
\* apply was read by the client or the connection of the community it shows,
\* though two generations' pumps, forwarders and watchers share its queue
\* (App::apply drops the older generation's, and the announcement is queued
\* before the newer one's tasks exist).
OwnCommunityOnly ==
  loop = "drain" /\ events # <<>> =>
    LET e == Head(events) IN
      Stale(e) \/ e.kind = "CommunitySwitching" \/ e.gen = ui.community

\* What the elements of a sequence that are of one kind are about, in order; the
\* others are about nothing.
About(q, kind) == [i \in DOMAIN q |-> IF q[i].kind = kind THEN q[i].about ELSE {}]

\* The events the pump's current work has still to send, in order; in the place
\* of a step that is not an event stands an answer about nothing.
Telling ==
  [i \in DOMAIN pump.work |->
     IF pump.work[i].do = "tell" THEN pump.work[i].event
     ELSE Event("Answer", {}, pump.gen, FALSE)]

\* The messages on their way, from the answers the interface has not read back
\* to the drafts it has not sent.
MessagesUnderWay ==
  About(events, "Written") \o About(Telling, "Written")
    \o About(queued, "Send") \o About(commands, "Send")
    \o About(outbox, "Send")

\* Messages are written in the order the user sent them, also when a member
\* batch moves the commands behind it into a second queue.
SendsInOrder ==
  LET under == MessagesUnderWay IN
    \A i, j \in DOMAIN under : i < j =>
      \A m \in under[i], n \in under[j] : m < n

\* A message shown as pending is on its way to being answered: it would
\* otherwise stay pending and refuse every community switch from then on.
PendingIsOwed ==
  \A m \in ui.pending :
    \E i \in DOMAIN MessagesUnderWay : m \in MessagesUnderWay[i]

\* The events that report targets of a batch.
ResultKinds == {"MemberResult", "MemberUnknown", "MemberBatchCancelled"}

\* What will still report a target of the batch.
ReportsOf(t) ==
  LET asked == Line \o outbox
      told == events \o Telling
  IN  {<<"request", i>> : i \in {j \in DOMAIN asked :
             asked[j].kind = "AddMembers" /\ t \in asked[j].about}}
        \cup (IF t \in pump.batch THEN {<<"batch", 0>>} ELSE {})
        \cup {<<"report", i>> : i \in {j \in DOMAIN told :
             told[j].kind \in ResultKinds /\ t \in told[j].about}}

\* Every target of an unsettled batch is reported exactly once, written or
\* cancelled: a target without a result is owed one report, one with a result
\* none (run_command_pump's batch turn and its cancellation).
BatchAccounted ==
  ui.locked => \A t \in Targets :
    Cardinality(ReportsOf(t)) = IF t \in ui.left THEN 1 ELSE 0

\* The read that waits for its window is of the community whose client the pump
\* has, which is the one that publishes it: a claim made before a switch key is
\* flushed before the switch.  Except for what is claimed between the switch key
\* and the announcement on screen: that claim stands behind the switch in the
\* queue, and the next community's client publishes it (run_command_pump,
\* flush_read).
ReadDoesNotCross == \A c \in pump.read : c.amid \/ c.home = pump.gen

\* Nothing of one community is taken for another's, neither a read that waits
\* nor an event that arrives; and the queues keep their bounds.
CommunitiesStayApart == TypeOK /\ OwnCommunityOnly /\ ReadDoesNotCross

\* No write and no target of a batch is forgotten between the tasks.
NothingIsForgotten == PendingIsOwed /\ BatchAccounted
=============================================================================
