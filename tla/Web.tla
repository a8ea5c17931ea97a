--------------------------------- MODULE Web ---------------------------------
(* The browser surface, web.rs: one process, one connection, several tabs.   *)
(*                                                                           *)
(* The process keeps one App that no tab shows (`base`) and one App per tab  *)
(* (`views`), forked from it on the tab's first request and never removed.   *)
(* One lock guards them all.  Under it a request's handler runs to its end   *)
(* and takes the commands it made, and the event task applies an event to    *)
(* the base and to every view; the commands are sent after the lock is       *)
(* given up, by as many tasks as there are requests, so they may reach the   *)
(* queue in another order than the handlers ran.  The command pump           *)
(* (session.rs, module SessionTasks) takes them one at a time.               *)
(*                                                                           *)
(* Of the handlers a request may call, those with a meaning across tabs are  *)
(* here: selecting, sending, creating a channel, presenting, and switching   *)
(* the community.  The others change one view and are in Timeline, Views,    *)
(* Inbox and Lifecycle.  Rows are those of other people: a conversation's    *)
(* newest row is a number.  The reads that follow a connection are left      *)
(* out: it brings the list of conversations with it.  The queues have no     *)
(* limit here (see SessionTasks).                                            *)
EXTENDS Naturals, Sequences, FiniteSets

CONSTANTS
  Tabs,         \* pages that may be opened
  Cookie,       \* the session the access link starts
  Channels,     \* conversations, the same names in each community
  MaxRequests,  \* bound: requests that change a view, of all tabs
  MaxSwitches,  \* bound: switches of the community among them
  MaxLive       \* bound: messages of other people

ASSUME WebAssumption == /\ {MaxRequests, MaxSwitches, MaxLive} \subseteq Nat
                        /\ Cookie \notin Tabs /\ Channels # {} /\ IsFiniteSet(Channels)

VARIABLES
  base,     \* the App every view is forked from
  views,    \* the App of the cookie and of each tab that made a request
  page,     \* what each tab drew last
  closed,   \* tabs that were closed: their views stay
  active,   \* the community marked active in the list of profiles
  carry,    \* the commands taken under the lock and not yet sent
  commands, \* the queue to the command pump
  pump,     \* its generation and the read it holds
  events,   \* the queue to the event task
  feeds,    \* per generation, whether its feed has connected
  slot,     \* the relay's read marker, per community
  posted,   \* the newest message of each conversation, per community
  sent,     \* history: per message its community, the switches asked before it, its tab
  written,  \* history: the messages written, with the generation that wrote them
  asked,    \* history: switches accepted
  handled,  \* requests handled
  shown     \* history: the newest row a visible page drew, per community

vars == <<base, views, page, closed, active, carry, commands, pump, events,
          feeds, slot, posted, sent, written, asked, handled, shown>>

Gens == 0..MaxSwitches
Rows == 0..MaxLive
NoRows == [c \in Channels |-> 0]
Messages == 1..MaxRequests
Creations == MaxRequests + 1..2 * MaxRequests
NoRead == [gen |-> 0, rows |-> NoRows]
None == [request |-> 0, op |-> 0]

\* The later of two markers, conversation by conversation.
Raise(a, b) == [c \in Channels |-> IF a[c] < b[c] THEN b[c] ELSE a[c]]

\* The part of an App that is about several tabs: what it shows of the relay,
\* and the writes it waits for.
App(g, listed, latest, marked, sel, pending, creating, requests) ==
  [gen |-> g, listed |-> listed, latest |-> latest, marked |-> marked, sel |-> sel,
   pending |-> pending, creating |-> creating, requests |-> requests]

NoApp == App(0, FALSE, NoRows, NoRows, CHOOSE c \in Channels : TRUE, {}, None, 0)

\* web_fork: relay knowledge is copied, navigation and writes are not.
Fork(a) == [a EXCEPT !.pending = {}, !.creating = None]

\* pending_write_summary: the creation's record, or a message without answer.
WritePending(a) == a.creating # None \/ a.pending # {}

\* Mutant: only the tab that asks is looked at.
OwnWritePending(t) == WritePending(views[t])

AnyWritePending(t) == WritePending(base) \/ \E s \in DOMAIN views : WritePending(views[s])

Do(kind, op) == [kind |-> kind, op |-> op, request |-> 0, reads |-> NoRead]
Event(kind, gen) == [kind |-> kind, gen |-> gen, op |-> 0, request |-> 0,
                     known |-> TRUE, reads |-> NoRows, row |-> <<>>]
Hidden == [visible |-> FALSE, row |-> <<>>]

Init ==
  /\ base = NoApp
  /\ views = [s \in {} |-> NoApp]
  /\ page = [t \in Tabs |-> Hidden]
  /\ closed = {} /\ active = {}
  /\ carry = {}
  /\ commands = <<>> /\ events = <<>>
  /\ pump = [gen |-> 0, read |-> NoRead]
  /\ feeds = [g \in Gens |-> FALSE]
  /\ slot = [g \in Gens |-> NoRows] /\ posted = [g \in Gens |-> NoRows]
  /\ sent = [o \in {} |-> 0] /\ written = {} /\ asked = 0 /\ handled = 0
  /\ shown = [g \in Gens |-> NoRows]

server == <<base, views, active>>
session == <<commands, pump, feeds, slot, posted, written>>
-----------------------------------------------------------------------------
(* Requests.  A page may have several under way.  The view the link makes    *)
(* under the cookie is never the subject of one.                             *)

\* bootstrap: the link the process printed.
Bootstrap ==
  /\ Cookie \notin DOMAIN views
  /\ views' = [s \in {Cookie} |-> Fork(base)]
  /\ UNCHANGED <<base, active, page, closed, carry, events, sent, asked, handled, shown, session>>

\* ensure_view: a tab's first request, under a cookie the process knows.
FirstRequest(t) ==
  /\ Cookie \in DOMAIN views /\ t \notin DOMAIN views
  /\ views' = [s \in DOMAIN views \union {t} |-> IF s = t THEN Fork(base) ELSE views[s]]
  /\ UNCHANGED <<base, active, page, closed, carry, events, sent, asked, handled, shown, session>>

\* authenticated, from a page that is open.
Requests(t) == t \in DOMAIN views \ closed

\* A request changes its own view; its task takes the commands, and sends them
\* once the lock is given up.
Handled(t, view, cmds) ==
  /\ views' = [views EXCEPT ![t] = view]
  /\ carry' = carry \union cmds
  /\ handled < MaxRequests /\ handled' = handled + 1
  /\ UNCHANGED <<base, active, page, closed, events, shown, session>>

\* /api/state, drawn by the page: the selected conversation's newest row, on a
\* page that is visible and at its end, or not.
Refresh(t) ==
  /\ Requests(t)
  /\ LET v == views[t]
         row == IF v.latest[v.sel] = 0 THEN <<>> ELSE <<v.gen, v.sel, v.latest[v.sel]>>
     IN  \/ page' = [page EXCEPT ![t] = Hidden] /\ UNCHANGED shown
        \/ /\ page' = [page EXCEPT ![t] = [visible |-> TRUE, row |-> row]]
           /\ shown' = [g \in Gens |-> IF g = v.gen THEN Raise(shown[g], [NoRows EXCEPT ![v.sel] = v.latest[v.sel]])
                                      ELSE shown[g]]
  /\ UNCHANGED <<server, closed, carry, events, sent, asked, handled, session>>

\* A tab that waits for nothing and closes is one that makes no more requests.
Close(t) ==
  /\ t \in DOMAIN views \ closed /\ WritePending(views[t])
  /\ closed' = closed \union {t} /\ page' = [page EXCEPT ![t] = Hidden]
  /\ UNCHANGED <<server, carry, events, sent, asked, handled, shown, session>>

Select(t) ==
  /\ Requests(t) /\ views[t].listed
  /\ \E c \in Channels \ {views[t].sel} : Handled(t, [views[t] EXCEPT !.sel = c], {})
  /\ UNCHANGED <<sent, asked>>

\* Mutant: messages numbered by each view.
NextOfView(t) == 1 + Cardinality({o \in DOMAIN sent \intersect Messages : sent[o].tab = t})

\* A message's identity is random: no other tab has it.
NextMessage(t) == 1 + Cardinality(DOMAIN sent \intersect Messages)

\* ComposerSend, in the conversation the view has selected.
Send(t) ==
  /\ Requests(t) /\ views[t].listed
  /\ \E o \in Messages :
       /\ o = NextMessage(t)
       /\ Handled(t, [views[t] EXCEPT !.pending = @ \union {o}], {Do("Send", o)})
       /\ sent' = [k \in DOMAIN sent \union {o} |->
                     IF k = o THEN [home |-> views[t].gen, after |-> asked, tab |-> t] ELSE sent[k]]
  /\ UNCHANGED asked

\* create_channel_submit: the write's number is the view's own, and every view
\* starts counting where the base is.
SubmitCreation(t) ==
  /\ Requests(t) /\ views[t].creating = None
  /\ \E o \in Creations :
       /\ o = MaxRequests + 1 + Cardinality(DOMAIN sent \intersect Creations)
       /\ LET n == views[t].requests + 1
          IN  Handled(t, [views[t] EXCEPT !.creating = [request |-> n, op |-> o], !.requests = n],
                      {[Do("Create", o) EXCEPT !.request = n]})
       /\ sent' = [k \in DOMAIN sent \union {o} |->
                     IF k = o THEN [home |-> views[t].gen, after |-> asked, tab |-> t] ELSE sent[k]]
  /\ UNCHANGED asked

\* Mutant: the newest row of the view counts, whatever the page drew.
PresentedAnything(t) ==
  /\ Requests(t) /\ page[t].visible
  /\ LET v == views[t]
     IN  /\ v.latest[v.sel] > v.marked[v.sel]
         /\ LET marked == [v.marked EXCEPT ![v.sel] = v.latest[v.sel]]
            IN  Handled(t, [v EXCEPT !.marked = marked], {[Do("Read", 0) EXCEPT !.reads = [gen |-> v.gen, rows |-> marked]]})
  /\ UNCHANGED <<sent, asked>>

\* presented: by a visible page, if what it drew is still the newest row; the
\* claim carries all this view has read.
Presented(t) ==
  /\ Requests(t) /\ page[t].visible
  /\ LET v == views[t]
     IN  /\ v.latest[v.sel] > v.marked[v.sel]
         /\ page[t].row = <<v.gen, v.sel, v.latest[v.sel]>>
         /\ LET marked == [v.marked EXCEPT ![v.sel] = v.latest[v.sel]]
            IN  Handled(t, [v EXCEPT !.marked = marked], {[Do("Read", 0) EXCEPT !.reads = [gen |-> v.gen, rows |-> marked]]})
  /\ UNCHANGED <<sent, asked>>

\* community: refused while any view has a write without an answer.
SwitchProfile(t) ==
  /\ Requests(t) /\ asked < MaxSwitches
  /\ ~AnyWritePending(t)
  /\ Handled(t, views[t], {Do("Switch", asked)})
  /\ asked' = asked + 1
  /\ UNCHANGED sent

\* send_commands, by any of the tasks that have one.
SendCommand ==
  /\ \E c \in carry : carry' = carry \ {c} /\ commands' = Append(commands, c)
  /\ UNCHANGED <<server, page, closed, events, sent, asked, handled, shown, pump, feeds, slot, posted, written>>

-----------------------------------------------------------------------------
(* The event task.                                                           *)

\* App::apply, one event on one App.
Apply(a, e) ==
  CASE e.kind = "Switching" ->
         App(e.gen, FALSE, NoRows, NoRows, NoApp.sel, {}, None, a.requests)
    [] e.kind = "Live" /\ e.gen = a.gen /\ a.listed -> [a EXCEPT !.latest[e.row[1]] = e.row[2]]
    [] e.kind = "Connected" /\ e.gen = a.gen -> [a EXCEPT !.listed = TRUE]
    [] e.kind = "ReadState" -> [a EXCEPT !.marked = Raise(@, e.reads)]
    [] e.kind = "Written" -> [a EXCEPT !.pending = @ \ {e.op}]
    [] e.kind = "Created" /\ a.creating.request = e.request ->
         IF e.known THEN [a EXCEPT !.creating = None] ELSE a
    [] OTHER -> a

\* current_connected_event: a connection of the present generation.
CurrentConnected(e) == e.kind = "Connected" /\ e.gen >= base.gen

\* One event, applied to the base and to every view under one lock.
Deliver ==
  /\ events # <<>>
  /\ LET e == Head(events)
     IN  /\ base' = Apply(base, e)
         /\ views' = [s \in DOMAIN views |-> Apply(views[s], e)]
         /\ active' = IF CurrentConnected(e) THEN {base.gen} ELSE active
  /\ events' = Tail(events)
  /\ UNCHANGED <<page, closed, carry, sent, asked, handled, shown, session>>

-----------------------------------------------------------------------------
(* The session: the pump, the relay and its feeds.                           *)

Tell(es) == events' = events \o es
Pump == UNCHANGED <<server, page, closed, carry, sent, asked, handled, shown>>

\* publish_read, if a read is held: the marker only rises, or the publish fails
\* and its read is dropped.  A claim of another community names none of this one's
\* conversations.
Publish(then) ==
  LET risen == [slot EXCEPT ![pump.gen] = IF pump.read.gen = pump.gen THEN Raise(@, pump.read.rows) ELSE @]
  IN  \/ slot' = slot /\ Tell(then)
      \/ /\ pump.read.rows # NoRows
         /\ slot' = risen
         /\ Tell(<<[Event("ReadState", pump.gen) EXCEPT !.reads = risen[pump.gen]]>> \o then)

PublishRead ==
  /\ pump.read.rows # NoRows
  /\ Publish(<<>>)
  /\ pump' = [pump EXCEPT !.read = NoRead]
  /\ UNCHANGED <<commands, feeds, posted, written>> /\ Pump

Take(kind) ==
  /\ commands # <<>> /\ Head(commands).kind = kind
  /\ commands' = Tail(commands)

\* The newest claim replaces the one that waits.
TakeRead ==
  /\ Take("Read")
  /\ pump' = [pump EXCEPT !.read = Head(commands).reads]
  /\ UNCHANGED <<events, feeds, slot, posted, written>> /\ Pump

\* Stored, refused, or neither is known: the view hears one of them.
TakeSend ==
  /\ Take("Send")
  /\ written' \in {written, written \union {[op |-> Head(commands).op, gen |-> pump.gen]}}
  /\ Tell(<<[Event("Written", pump.gen) EXCEPT !.op = Head(commands).op]>>)
  /\ UNCHANGED <<pump, feeds, slot, posted>> /\ Pump

TakeCreate ==
  /\ Take("Create")
  /\ \E known \in BOOLEAN :
       Tell(<<[Event("Created", pump.gen) EXCEPT !.request = Head(commands).request, !.known = known]>>)
  /\ UNCHANGED <<pump, feeds, slot, posted, written>> /\ Pump

\* The read is published in the community left, then the new one begins.
TakeSwitch ==
  /\ Take("Switch")
  /\ Publish(<<Event("Switching", pump.gen + 1)>>)
  /\ pump' = [pump EXCEPT !.gen = @ + 1, !.read = NoRead]
  /\ UNCHANGED <<feeds, posted, written>> /\ Pump

\* A feed, that of a community already left too, connects and delivers.
Connect(g) ==
  /\ g <= pump.gen /\ ~feeds[g]
  /\ feeds' = [feeds EXCEPT ![g] = TRUE]
  /\ Tell(<<Event("Connected", g)>>)
  /\ UNCHANGED <<commands, pump, slot, posted, written>> /\ Pump

\* The messages of other people, all conversations together.
Posted == {m \in (Gens \X Channels) \X Rows : m[2] \in 1..posted[m[1][1]][m[1][2]]}

Live(g) ==
  /\ g <= pump.gen /\ feeds[g]
  /\ \E c \in Channels :
       /\ Cardinality(Posted) < MaxLive
       /\ posted' = [posted EXCEPT ![g][c] = @ + 1]
       /\ Tell(<<[Event("Live", g) EXCEPT !.row = <<c, posted[g][c] + 1>>]>>)
  /\ UNCHANGED <<commands, pump, feeds, slot, written>> /\ Pump

Next ==
  \/ Bootstrap \/ Deliver
  \/ \E t \in Tabs : \/ FirstRequest(t) \/ Refresh(t) \/ Close(t) \/ Select(t) \/ Send(t)
                     \/ SubmitCreation(t) \/ Presented(t) \/ SwitchProfile(t)
  \/ SendCommand \/ PublishRead \/ TakeRead \/ TakeSend \/ TakeCreate \/ TakeSwitch
  \/ \E g \in Gens : Connect(g) \/ Live(g)

Spec == Init /\ [][Next]_vars
-----------------------------------------------------------------------------
(* Properties.                                                               *)

AppType(a) ==
  /\ a.gen \in Gens /\ a.listed \in BOOLEAN
  /\ a.latest \in [Channels -> Rows] /\ a.marked \in [Channels -> Rows]
  /\ a.sel \in Channels /\ a.pending \subseteq Messages
  /\ a.creating \in [request : Nat, op : {0} \union Creations] /\ a.requests \in Nat

\* Every App is well formed, and views other than the base start as forks: the
\* base itself never waits for a write, because no request reaches it.
TypeOK ==
  /\ AppType(base) /\ ~WritePending(base)
  /\ DOMAIN views \subseteq Tabs \union {Cookie}
  /\ \A s \in DOMAIN views : AppType(views[s])
  /\ closed \subseteq DOMAIN views /\ active \in SUBSET Gens

\* Where message o still is, between its handler and its answer's.
UnderWay(o) ==
  {<<"carried", d>> : d \in {d \in carry : d.kind = "Send" /\ d.op = o}}
    \union {<<"queued", i>> : i \in {i \in DOMAIN commands : commands[i].kind = "Send" /\ commands[i].op = o}}
    \union {<<"answered", i>> : i \in {i \in DOMAIN events : events[i].kind = "Written" /\ events[i].op = o}}

\* A message a tab waits for, a closed tab too, is under way exactly once and no
\* other tab waits for it: it is answered or the process ends, and never repeated
\* (action's outbox under the lock, send_commands after it, Written to all views).
AwaitedIsUnderWay ==
  \A s \in DOMAIN views : \A o \in views[s].pending :
    /\ Cardinality(UnderWay(o)) = 1
    /\ sent[o].tab = s

\* A message sent when no switch was under way, so that its view showed the last
\* community asked for, is written in that community and in no other, whichever
\* tabs ask for a switch meanwhile and in whatever order the commands reach the
\* queue (action's any_write_pending).  One sent between a switch and its event
\* may be written in any later community.
WrittenAtHome ==
  \A w \in written : sent[w.op].home = sent[w.op].after => w.gen = sent[w.op].home

\* A published marker covers only rows that a visible page has drawn, however old
\* the page was when it said so (action's "presented").
MarkedWasShown ==
  /\ \A g \in Gens, c \in Channels : slot[g][c] <= shown[g][c]
  /\ \A s \in DOMAIN views : \A c \in Channels : views[s].marked[c] <= shown[views[s].gen][c]

\* The profile marked active is one whose own feed has connected, also while the
\* feed of the community left is still delivering (current_connected_event).
ActiveIsConnected == \A g \in active : feeds[g]

\* A switch leaves what was sent before it where it was sent, and only the feed it
\* opened makes its profile the active one; every App and every view is well formed.
SwitchesAreOrderly == TypeOK /\ WrittenAtHome /\ ActiveIsConnected
=============================================================================
