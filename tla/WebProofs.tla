----------------------------- MODULE WebProofs -----------------------------
(* Proofs about Web, for any tabs, conversations and bounds.                 *)
(*                                                                           *)
(* The argument rests on the order of the queue to the event task: a switch  *)
(* is told after everything the pump told before it, so an event at the head *)
(* is of the community every App is on, or of one left (Ordered).  From it   *)
(* follow that a read marker never crosses communities (Marked) and that a   *)
(* connection only makes its own profile active (Connected).  A message has  *)
(* one copy under way (OneCopy), which keeps its view waiting (Awaited) and  *)
(* so keeps any switch from being accepted (Home).                           *)
EXTENDS Web, FiniteSetTheorems, TLAPS

Apps ==
  [gen : Gens, listed : BOOLEAN, latest : [Channels -> Rows], marked : [Channels -> Rows],
   sel : Channels, pending : SUBSET Messages, creating : [request : Nat, op : {0} \union Creations],
   requests : Nat]

Claim == [gen : Gens, rows : [Channels -> Rows]]

Command == [kind : {"Send", "Create", "Read", "Switch"}, op : Nat, request : Nat, reads : Claim]

Events ==
  [kind : {"Switching", "Live", "Connected", "ReadState", "Written", "Created"},
   gen : Gens, known : BOOLEAN, op : Nat, request : Nat, reads : [Channels -> Rows],
   row : {<<>>} \union (Channels \X Rows)]

Pages == [visible : BOOLEAN, row : {<<>>} \union (Gens \X Channels \X Rows)]

SentType == [home : Gens, after : Gens, tab : Tabs]

\* What the queues, the pump, the relay and the histories hold.
QueuesTyped ==
  /\ carry \subseteq Command /\ commands \in Seq(Command) /\ events \in Seq(Events)
  /\ \A i \in DOMAIN events : events[i].kind = "Live" => events[i].row # <<>>
  /\ pump.gen \in Gens /\ pump.read \in Claim
  /\ pump = [gen |-> pump.gen, read |-> pump.read]
  /\ feeds \in [Gens -> BOOLEAN]

HistoriesTyped ==
  /\ slot \in [Gens -> [Channels -> Rows]] /\ posted \in [Gens -> [Channels -> Rows]]
  /\ shown \in [Gens -> [Channels -> Rows]]
  /\ page \in [Tabs -> Pages]
  /\ asked \in Gens
  /\ sent = [o \in DOMAIN sent |-> sent[o]]
  /\ \A o \in DOMAIN sent : sent[o] \in SentType
  /\ \A w \in written : w.op \in DOMAIN sent /\ w.gen \in Gens

\* Messages are numbered as they are sent.
Numbered == \E n \in 0..MaxRequests : DOMAIN sent \intersect Messages = 1..n

ViewsTyped ==
  /\ base \in Apps /\ ~WritePending(base)
  /\ \A s \in DOMAIN views : views[s] \in Apps
  /\ DOMAIN views \subseteq Tabs \union {Cookie}
  /\ closed \subseteq DOMAIN views /\ active \in SUBSET Gens
  /\ \A s \in DOMAIN views : views[s].gen = base.gen
  /\ Cookie \notin DOMAIN views => DOMAIN views = {}
  /\ closed \subseteq Tabs
  /\ views = [s \in DOMAIN views |-> views[s]]

\* The switches accepted are those the pump made and those on their way to it.
SwitchesCarried == {c.op : c \in {c \in carry : c.kind = "Switch"}}
SwitchesQueued == {commands[i].op : i \in {i \in DOMAIN commands : commands[i].kind = "Switch"}}
SwitchesAhead == SwitchesCarried \union SwitchesQueued

Counted ==
  /\ \A d \in carry : d.kind = "Switch" => d = Do("Switch", d.op)
  /\ SwitchesAhead \subseteq 0..asked - 1
  /\ SwitchesCarried \intersect SwitchesQueued = {}
  /\ \A i, j \in DOMAIN commands :
       commands[i].kind = "Switch" /\ commands[j].kind = "Switch" /\ commands[i].op = commands[j].op => i = j
  /\ Cardinality(SwitchesAhead) + pump.gen = asked

Typed == ViewsTyped /\ QueuesTyped /\ HistoriesTyped /\ Numbered /\ Counted

\* The events of a queue q tell the communities from b to p in order, none is left
\* out, and a marker is told between the switches its community lies between.
InOrder(b, p, q) ==
  /\ b <= p
  /\ \A i \in DOMAIN q : q[i].gen <= p
  /\ \A i \in DOMAIN q : q[i].kind = "Switching" => b < q[i].gen
  /\ \A i, j \in DOMAIN q : i < j /\ q[j].kind = "Switching" => q[i].gen < q[j].gen
  /\ \A g \in Gens : b < g /\ g <= p => \E i \in DOMAIN q : q[i].kind = "Switching" /\ q[i].gen = g
  /\ \A i \in DOMAIN q : q[i].kind = "ReadState" =>
       /\ b <= q[i].gen
       /\ \A j \in DOMAIN q : j < i /\ q[j].kind = "Switching" => q[j].gen <= q[i].gen

Ordered == InOrder(base.gen, pump.gen, events)

Connected ==
  /\ \A i \in DOMAIN events : events[i].kind = "Connected" => feeds[events[i].gen]
  /\ ActiveIsConnected

Below(rows, g) == \A c \in Channels : rows[c] <= shown[g][c]

\* Whatever claims that something was read, wherever it is, was drawn.
Marked ==
  /\ \A t \in Tabs : page[t].row # <<>> => page[t].row[3] <= shown[page[t].row[1]][page[t].row[2]]
  /\ \A d \in carry : Below(d.reads.rows, d.reads.gen)
  /\ \A i \in DOMAIN commands : Below(commands[i].reads.rows, commands[i].reads.gen)
  /\ Below(pump.read.rows, pump.read.gen)
  /\ \A i \in DOMAIN events : events[i].kind = "ReadState" => Below(events[i].reads, events[i].gen)
  /\ \A g \in Gens : Below(slot[g], g)
  /\ Below(base.marked, base.gen)
  /\ \A s \in DOMAIN views : Below(views[s].marked, base.gen)

\* A queue q holds something of kind k about message o, and about each at most one.
Holds(q, k, o) == \E i \in DOMAIN q : q[i].kind = k /\ q[i].op = o
Single(q, k) == \A i, j \in DOMAIN q : q[i].kind = k /\ q[j].kind = k /\ q[i].op = q[j].op => i = j

CarriedSend(o) == \E d \in carry : d.kind = "Send" /\ d.op = o
QueuedSend(o) == Holds(commands, "Send", o)
Answer(o) == Holds(events, "Written", o)

\* A message is under way once, if at all.
OneCopy ==
  /\ \A d \in carry : d.kind = "Send" => d = Do("Send", d.op) /\ d.op \in Messages \intersect DOMAIN sent
  /\ \A i \in DOMAIN commands : commands[i].kind = "Send" => commands[i].op \in Messages \intersect DOMAIN sent
  /\ \A i \in DOMAIN events : events[i].kind = "Written" => events[i].op \in Messages \intersect DOMAIN sent
  /\ Single(commands, "Send") /\ Single(events, "Written")
  /\ \A o \in Messages : /\ ~(CarriedSend(o) /\ QueuedSend(o))
                         /\ ~(CarriedSend(o) /\ Answer(o))
                         /\ ~(QueuedSend(o) /\ Answer(o))

\* What a view waits for is its own, and is under way.
Awaited ==
  \A s \in DOMAIN views : \A o \in views[s].pending :
    /\ o \in DOMAIN sent /\ sent[o].tab = s
    /\ CarriedSend(o) \/ QueuedSend(o) \/ Answer(o)

\* A message sent while no switch was under way and not yet written keeps its view
\* waiting, so that no switch was accepted since.
Home ==
  /\ \A o \in Messages : CarriedSend(o) \/ QueuedSend(o) =>
       (sent[o].home = sent[o].after =>
          /\ asked = sent[o].after /\ base.gen = sent[o].home
          /\ sent[o].tab \in DOMAIN views /\ o \in views[sent[o].tab].pending)
  /\ \A w \in written : w.op \in Messages
  /\ WrittenAtHome

Inv == Typed /\ Ordered /\ Connected /\ Marked /\ OneCopy /\ Awaited /\ Home

-----------------------------------------------------------------------------
(* The operators.                                                            *)

LEMMA Bounds == MaxRequests \in Nat /\ MaxSwitches \in Nat /\ MaxLive \in Nat
  BY WebAssumption

LEMMA AppsTyped ==
  ASSUME NEW a \in Apps
  PROVE  AppType(a)
  BY DEF Apps, AppType

LEMMA NoAppTyped == NoApp \in Apps /\ ~WritePending(NoApp) /\ NoApp.marked = NoRows /\ NoApp.gen = 0
                    /\ NoApp.sel \in Channels
  <1> DEFINE sel == CHOOSE c \in Channels : TRUE
  <1>1. sel \in Channels
    BY WebAssumption
  <1>2. NoApp = App(0, FALSE, NoRows, NoRows, sel, {}, None, 0)
    BY DEF NoApp
  <1> HIDE DEF sel
  <1> QED
    BY <1>1, <1>2, Bounds DEF App, Apps, WritePending, None, NoRows, Rows, Gens

LEMMA ForkTyped ==
  ASSUME NEW a \in Apps
  PROVE  /\ Fork(a) \in Apps /\ Fork(a).gen = a.gen /\ Fork(a).marked = a.marked
         /\ Fork(a).pending = {}
  BY Bounds DEF Apps, Fork, None

\* What an event does to an App, in the fields the arguments below are about.
LEMMA ApplyDoes ==
  ASSUME NEW a \in Apps, NEW e \in Events, e.kind = "Live" => e.row # <<>>
  PROVE  /\ Apply(a, e) \in Apps
         /\ Apply(a, e).gen = IF e.kind = "Switching" THEN e.gen ELSE a.gen
         /\ Apply(a, e).marked = CASE e.kind = "Switching" -> NoRows
                                   [] e.kind = "ReadState" -> Raise(a.marked, e.reads)
                                   [] OTHER -> a.marked
         /\ Apply(a, e).pending = CASE e.kind = "Switching" -> {}
                                    [] e.kind = "Written" -> a.pending \ {e.op}
                                    [] OTHER -> a.pending
         /\ ~WritePending(a) => ~WritePending(Apply(a, e))
  <1>1. CASE e.kind = "Switching"
    BY <1>1, NoAppTyped, Bounds DEF Apply, Apps, App, WritePending, Events, None, NoRows, Rows
  <1>2. CASE e.kind = "Live"
    BY <1>2, Bounds DEF Apply, Apps, App, WritePending, Events, Rows
  <1>3. CASE e.kind = "Connected"
    BY <1>3, Bounds DEF Apply, Apps, App, WritePending, Events
  <1>4. CASE e.kind = "ReadState"
    BY <1>4, Bounds DEF Apply, Apps, App, WritePending, Events, Raise, Rows
  <1>5. CASE e.kind = "Written"
    BY <1>5, Bounds DEF Apply, Apps, App, WritePending, Events
  <1>6. CASE e.kind = "Created"
    BY <1>6, Bounds DEF Apply, Apps, App, WritePending, Events, None
  <1> QED
    BY <1>1, <1>2, <1>3, <1>4, <1>5, <1>6 DEF Events

-----------------------------------------------------------------------------
(* Types.                                                                    *)

LEMMA Constants == /\ NoRows \in [Channels -> Rows] /\ NoRead \in Claim /\ 0 \in Gens
                   /\ Gens \subseteq Nat /\ Rows \subseteq Nat
  BY Bounds DEF NoRows, NoRead, Claim, Rows, Gens

LEMMA InitTyped == Init => ViewsTyped /\ QueuesTyped /\ HistoriesTyped /\ Numbered /\ Counted
  <1> SUFFICES ASSUME Init
               PROVE  ViewsTyped /\ QueuesTyped /\ HistoriesTyped /\ Numbered /\ Counted
    OBVIOUS
  <1> USE DEF Init
  <1>1. ViewsTyped
    BY NoAppTyped DEF ViewsTyped
  <1>2. QueuesTyped
    BY Constants DEF QueuesTyped
  <1>3. HistoriesTyped
    <2>1. page \in [Tabs -> Pages]
      BY DEF Hidden, Pages
    <2> QED
      BY <2>1, Constants DEF HistoriesTyped
  <1>4. Numbered
    <2>1. DOMAIN sent = {}
      <3>1. sent = [o \in {} |-> 0]
        OBVIOUS
      <3> QED
        BY <3>1, Zenon
    <2>2. 1..0 = {}
      OBVIOUS
    <2>3. DOMAIN sent \intersect Messages = 1..0
      BY <2>1, <2>2
    <2> QED
      BY <2>3, Bounds DEF Numbered
  <1>5. Counted
    <2>1. SwitchesAhead = {} /\ SwitchesCarried = {}
      BY DEF SwitchesAhead, SwitchesCarried, SwitchesQueued
    <2>2. Cardinality({}) = 0
      BY FS_EmptySet
    <2>3. Cardinality(SwitchesAhead) + pump.gen = asked
      BY <2>1, <2>2
    <2> QED
      BY <2>1, <2>3 DEF Counted
  <1> QED
    BY <1>1, <1>2, <1>3, <1>4, <1>5

Handler(t) == Select(t) \/ Send(t) \/ SubmitCreation(t) \/ Presented(t) \/ SwitchProfile(t)

\* A handler leaves its own view well formed, in its community, and makes commands.
LEMMA HandlersTyped ==
  ASSUME ViewsTyped, QueuesTyped, HistoriesTyped, NEW t \in Tabs, Handler(t)
  PROVE  /\ t \in DOMAIN views
         /\ views' = [views EXCEPT ![t] = views'[t]]
         /\ views'[t] \in Apps /\ views'[t].gen = base.gen
         /\ carry \subseteq carry' /\ carry' \subseteq Command
         /\ UNCHANGED <<base, active, page, closed, events, shown, session>>
  <1> USE DEF Handled
  <1>0. /\ t \in DOMAIN views /\ views[t] \in Apps /\ views[t].gen = base.gen
        /\ carry \subseteq Command /\ views = [s \in DOMAIN views |-> views[s]]
    BY DEF QueuesTyped, Handler, Select, Send, SubmitCreation, Presented, SwitchProfile, Requests, ViewsTyped
  <1>1. CASE Select(t)
    <2>1. PICK c \in Channels : Handled(t, [views[t] EXCEPT !.sel = c], {})
      BY <1>1 DEF Select
    <2>2. [views[t] EXCEPT !.sel = c] \in Apps /\ [views[t] EXCEPT !.sel = c].gen = base.gen
      BY <1>0 DEF Apps
    <2> QED
      BY <1>0, <2>1, <2>2
  <1>2. CASE Send(t)
    <2>1. PICK o \in Messages : Handled(t, [views[t] EXCEPT !.pending = @ \union {o}], {Do("Send", o)})
      BY <1>2 DEF Send
    <2>2. /\ [views[t] EXCEPT !.pending = @ \union {o}] \in Apps
          /\ [views[t] EXCEPT !.pending = @ \union {o}].gen = base.gen
      BY <1>0 DEF Apps
    <2>3. Do("Send", o) \in Command
      BY Constants, Bounds DEF Do, Command, Messages
    <2> QED
      BY <1>0, <2>1, <2>2, <2>3
  <1>3. CASE SubmitCreation(t)
    <2> DEFINE n == views[t].requests + 1
    <2>1. PICK o \in Creations :
            Handled(t, [views[t] EXCEPT !.creating = [request |-> n, op |-> o], !.requests = n],
                    {[Do("Create", o) EXCEPT !.request = n]})
      BY <1>3 DEF SubmitCreation
    <2> HIDE DEF n
    <2>n. n \in Nat
      BY <1>0 DEF n, Apps
    <2>2. /\ [views[t] EXCEPT !.creating = [request |-> n, op |-> o], !.requests = n] \in Apps
          /\ [views[t] EXCEPT !.creating = [request |-> n, op |-> o], !.requests = n].gen = base.gen
      BY <1>0, <2>n DEF Apps
    <2>3. [Do("Create", o) EXCEPT !.request = n] \in Command
      BY <2>n, Constants, Bounds DEF Do, Command, Creations, Apps
    <2> QED
      BY <1>0, <2>1, <2>2, <2>3
  <1>4. CASE Presented(t)
    <2> DEFINE marked == [views[t].marked EXCEPT ![views[t].sel] = views[t].latest[views[t].sel]]
    <2>1. Handled(t, [views[t] EXCEPT !.marked = marked],
                  {[Do("Read", 0) EXCEPT !.reads = [gen |-> views[t].gen, rows |-> marked]]})
      BY <1>4 DEF Presented
    <2>2. marked \in [Channels -> Rows]
      BY <1>0 DEF Apps
    <2>3. /\ [views[t] EXCEPT !.marked = marked] \in Apps
          /\ [views[t] EXCEPT !.marked = marked].gen = base.gen
      BY <1>0, <2>2 DEF Apps
    <2>4. [Do("Read", 0) EXCEPT !.reads = [gen |-> views[t].gen, rows |-> marked]] \in Command
      BY <1>0, <2>2 DEF Do, Command, Claim, Apps
    <2> QED
      BY <1>0, <2>1, <2>3, <2>4
  <1>5. CASE SwitchProfile(t)
    <2>1. Do("Switch", asked) \in Command
      BY Constants DEF Do, Command, HistoriesTyped
    <2> QED
      BY <1>0, <1>5, <2>1 DEF SwitchProfile
  <1> QED
    BY <1>1, <1>2, <1>3, <1>4, <1>5 DEF Handler

\* The steps that leave the Apps alone, those of the session among them.
Elsewhere == \/ SendCommand \/ PublishRead \/ TakeRead \/ TakeSend \/ TakeCreate \/ TakeSwitch
             \/ \E g \in Gens : Connect(g) \/ Live(g)

LEMMA ElsewhereKeeps ==
  ASSUME Elsewhere
  PROVE  UNCHANGED <<server, page, closed, sent, asked, handled, shown>>
  BY DEF Elsewhere, SendCommand, PublishRead, TakeRead, TakeSend, TakeCreate, TakeSwitch, Connect, Live, Pump

LEMMA ViewsStep ==
  ASSUME ViewsTyped, QueuesTyped, HistoriesTyped, [Next]_vars
  PROVE  ViewsTyped'
  <1> USE DEF ViewsTyped
  <1>1. CASE Bootstrap
    <2>1. UNCHANGED <<base, active, closed>> /\ views' = [s \in {Cookie} |-> Fork(base)] /\ DOMAIN views = {}
      BY <1>1 DEF Bootstrap
    <2>2. DOMAIN views' = {Cookie} /\ views'[Cookie] = Fork(base)
      BY <2>1
    <2>3. Fork(base) \in Apps /\ Fork(base).gen = base.gen
      BY ForkTyped
    <2>4. (\A s \in DOMAIN views : views[s] \in Apps /\ views[s].gen = base.gen)'
      BY <2>1, <2>2, <2>3
    <2>5. ~WritePending(base)' /\ (closed = {})'
      BY <2>1 DEF WritePending
    <2> QED
      BY <2>1, <2>2, <2>4, <2>5
  <1>2. ASSUME NEW t \in Tabs, FirstRequest(t)
        PROVE  ViewsTyped'
    <2>1. /\ UNCHANGED <<base, active, closed>> /\ Cookie \in DOMAIN views
          /\ views' = [s \in DOMAIN views \union {t} |-> IF s = t THEN Fork(base) ELSE views[s]]
      BY <1>2 DEF FirstRequest
    <2> QED
      BY <2>1, ForkTyped
  <1>3. ASSUME NEW t \in Tabs, Refresh(t)
        PROVE  ViewsTyped'
    BY <1>3 DEF Refresh, server
  <1>4. ASSUME NEW t \in Tabs, Close(t)
        PROVE  ViewsTyped'
    BY <1>4 DEF Close, server
  <1>5. ASSUME NEW t \in Tabs, Handler(t)
        PROVE  ViewsTyped'
    BY <1>5, HandlersTyped
  <1>6. CASE Deliver
    <2>1. Head(events) \in Events /\ (Head(events).kind = "Live" => Head(events).row # <<>>)
      BY <1>6 DEF Deliver, QueuesTyped
    <2>2. PICK e \in Events : e = Head(events) /\ (e.kind = "Live" => e.row # <<>>)
      BY <2>1
    <2>3. /\ base' = Apply(base, e)
          /\ views' = [s \in DOMAIN views |-> Apply(views[s], e)]
          /\ active' \in {{base.gen}, active} /\ UNCHANGED closed
      BY <1>6, <2>2 DEF Deliver
    <2>4. Apply(base, e) \in Apps /\ ~WritePending(Apply(base, e))
      BY <2>2, ApplyDoes
    <2>5. \A s \in DOMAIN views : Apply(views[s], e) \in Apps /\ Apply(views[s], e).gen = Apply(base, e).gen
      <3>1. Apply(base, e).gen = IF e.kind = "Switching" THEN e.gen ELSE base.gen
        BY <2>2, ApplyDoes
      <3> SUFFICES ASSUME NEW s \in DOMAIN views
                   PROVE  Apply(views[s], e) \in Apps /\ Apply(views[s], e).gen = Apply(base, e).gen
        OBVIOUS
      <3>2. views[s] \in Apps /\ views[s].gen = base.gen
        OBVIOUS
      <3>3. /\ Apply(views[s], e) \in Apps
            /\ Apply(views[s], e).gen = IF e.kind = "Switching" THEN e.gen ELSE views[s].gen
        BY <2>2, <3>2, ApplyDoes
      <3> QED
        BY <3>1, <3>2, <3>3
    <2>6. base.gen \in Gens
      BY DEF Apps
    <2>7. ~WritePending(base)'
      BY <2>3, <2>4 DEF WritePending
    <2> QED
      BY <2>3, <2>4, <2>5, <2>6, <2>7
  <1>7. CASE Elsewhere
    BY <1>7, ElsewhereKeeps DEF server, WritePending
  <1>8. CASE UNCHANGED vars
    BY <1>8 DEF vars, WritePending
  <1> QED
    BY <1>1, <1>2, <1>3, <1>4, <1>5, <1>6, <1>7, <1>8 DEF Next, Handler, Elsewhere

LEMMA ToldOne ==
  ASSUME NEW S, NEW q \in Seq(S), NEW e \in S
  PROVE  /\ q \o <<e>> \in Seq(S) /\ DOMAIN (q \o <<e>>) = 1..Len(q) + 1
         /\ \A i \in DOMAIN q : (q \o <<e>>)[i] = q[i]
         /\ (q \o <<e>>)[Len(q) + 1] = e
  OBVIOUS

LEMMA ToldTwo ==
  ASSUME NEW S, NEW q \in Seq(S), NEW d \in S, NEW e \in S
  PROVE  /\ q \o (<<d>> \o <<e>>) \in Seq(S) /\ DOMAIN (q \o (<<d>> \o <<e>>)) = 1..Len(q) + 2
         /\ \A i \in DOMAIN q : (q \o (<<d>> \o <<e>>))[i] = q[i]
         /\ (q \o (<<d>> \o <<e>>))[Len(q) + 1] = d
         /\ (q \o (<<d>> \o <<e>>))[Len(q) + 2] = e
  OBVIOUS

LEMMA TailOf ==
  ASSUME NEW S, NEW q \in Seq(S), q # <<>>
  PROVE  /\ Tail(q) \in Seq(S) /\ Head(q) = q[1] /\ 1 \in DOMAIN q /\ Head(q) \in S
         /\ DOMAIN Tail(q) = 1..Len(q) - 1 /\ DOMAIN q = 1..Len(q) /\ Len(q) \in Nat
         /\ \A i \in DOMAIN Tail(q) : Tail(q)[i] = q[i + 1]
  OBVIOUS

\* There are no more switches ahead of the pump than were accepted.
LEMMA SwitchFits ==
  ASSUME Counted, QueuesTyped, HistoriesTyped
  PROVE  /\ IsFiniteSet(SwitchesAhead) /\ Cardinality(SwitchesAhead) \in Nat
         /\ pump.gen <= asked
         /\ SwitchesAhead # {} => pump.gen + 1 \in Gens
  <1>1. IsFiniteSet(0..asked - 1)
    <2>1. 0 \in Int /\ asked - 1 \in Int
      BY Bounds DEF HistoriesTyped, Gens
    <2> QED
      BY <2>1, FS_Interval
  <1>2. IsFiniteSet(SwitchesAhead)
    BY <1>1, FS_Subset DEF Counted
  <1>3. Cardinality(SwitchesAhead) \in Nat
    BY <1>2, FS_CardinalityType
  <1>4. SwitchesAhead # {} => Cardinality(SwitchesAhead) # 0
    BY <1>2, FS_EmptySet
  <1> QED
    BY <1>2, <1>3, <1>4, Bounds DEF Counted, QueuesTyped, HistoriesTyped, Gens

LEMMA TakeSwitchFits ==
  ASSUME Counted, QueuesTyped, HistoriesTyped, Take("Switch")
  PROVE  pump.gen + 1 \in Gens
  <1>1. 1 \in DOMAIN commands /\ commands[1].kind = "Switch"
    BY TailOf DEF Take, QueuesTyped
  <1>2. commands[1].op \in SwitchesAhead
    BY <1>1 DEF SwitchesAhead, SwitchesQueued
  <1> QED
    BY <1>2, SwitchFits

\* A new row has a number below the bound.
LEMMA RowFits ==
  ASSUME HistoriesTyped, NEW g \in Gens, NEW c \in Channels, Cardinality(Posted) < MaxLive
  PROVE  posted[g][c] + 1 \in Rows
  <1> DEFINE n == posted[g][c]
             F == {<<g, c>>} \X (1..n)
  <1>1. n \in Nat /\ n \in Rows /\ n <= MaxLive
    BY Constants DEF HistoriesTyped, Rows
  <1>2. IsFiniteSet(Posted)
    <2>1. IsFiniteSet(Gens) /\ IsFiniteSet(Rows)
      <3>1. 0 \in Int /\ MaxSwitches \in Int /\ MaxLive \in Int
        BY Bounds
      <3> QED
        BY <3>1, FS_Interval DEF Gens, Rows
    <2>2. IsFiniteSet(Gens \X Channels)
      BY <2>1, WebAssumption, FS_Product
    <2>3. IsFiniteSet((Gens \X Channels) \X Rows)
      BY <2>1, <2>2, FS_Product
    <2>4. Posted \subseteq (Gens \X Channels) \X Rows
      BY DEF Posted
    <2> QED
      BY <2>3, <2>4, FS_Subset
  <1>3. F \subseteq Posted
    BY <1>1, Bounds DEF Posted, Rows
  <1>4. Cardinality(F) = n
    <2>1. IsFiniteSet({<<g, c>>}) /\ Cardinality({<<g, c>>}) = 1
      BY FS_Singleton
    <2>2. IsFiniteSet(1..n) /\ Cardinality(1..n) = n
      <3> HIDE DEF n
      <3>1. 1 \in Int /\ n \in Int
        BY <1>1
      <3>2. IsFiniteSet(1..n) /\ Cardinality(1..n) = IF 1 > n THEN 0 ELSE n - 1 + 1
        BY <3>1, FS_Interval
      <3> QED
        BY <3>2, <1>1
    <2>3. Cardinality(F) = Cardinality({<<g, c>>}) * Cardinality(1..n)
      BY <2>1, <2>2, FS_Product
    <2> HIDE DEF n
    <2> QED
      BY <2>1, <2>2, <2>3, <1>1
  <1>5. Cardinality(F) <= Cardinality(Posted) /\ Cardinality(Posted) \in Nat
    BY <1>2, <1>3, FS_Subset, FS_CardinalityType
  <1> HIDE DEF n, F
  <1>6. n + 1 \in Rows
    BY <1>1, <1>4, <1>5, Bounds DEF Rows
  <1> QED
    BY <1>6 DEF n

\* What the pump may tell in one step, after what the queue holds.
LEMMA PublishTells ==
  ASSUME QueuesTyped, HistoriesTyped, NEW then, Publish(then)
  PROVE  \/ slot' = slot /\ events' = events \o then
         \/ \E r \in Events :
              /\ r.kind = "ReadState" /\ r.gen = pump.gen
              /\ r.reads = slot'[pump.gen]
              /\ events' = events \o (<<r>> \o then)
              /\ slot' = [slot EXCEPT ![pump.gen] = slot'[pump.gen]]
              /\ slot'[pump.gen] = IF pump.read.gen = pump.gen THEN Raise(slot[pump.gen], pump.read.rows)
                                   ELSE slot[pump.gen]
              /\ slot' \in [Gens -> [Channels -> Rows]]
  <1> DEFINE rows == IF pump.read.gen = pump.gen THEN Raise(slot[pump.gen], pump.read.rows) ELSE slot[pump.gen]
             risen == [slot EXCEPT ![pump.gen] = IF pump.read.gen = pump.gen THEN Raise(@, pump.read.rows) ELSE @]
             r == [Event("ReadState", pump.gen) EXCEPT !.reads = risen[pump.gen]]
  <1>1. rows \in [Channels -> Rows]
    <2>1. slot[pump.gen] \in [Channels -> Rows] /\ pump.read.rows \in [Channels -> Rows]
      BY DEF QueuesTyped, HistoriesTyped, Claim
    <2> QED
      BY <2>1 DEF Raise
  <1>2. risen = [slot EXCEPT ![pump.gen] = rows] /\ risen[pump.gen] = rows /\ risen \in [Gens -> [Channels -> Rows]]
    BY <1>1 DEF HistoriesTyped, QueuesTyped
  <1>3. r \in Events /\ r.kind = "ReadState" /\ r.gen = pump.gen /\ r.reads = rows
    BY <1>1, <1>2 DEF Event, Events, QueuesTyped
  <1>4. \/ slot' = slot /\ events' = events \o then
        \/ slot' = risen /\ events' = events \o (<<r>> \o then)
    BY DEF Publish, Tell
  <1> HIDE DEF rows, risen, r
  <1>5. CASE slot' = risen /\ events' = events \o (<<r>> \o then)
    <2>1. slot'[pump.gen] = rows /\ slot' = [slot EXCEPT ![pump.gen] = slot'[pump.gen]]
      BY <1>2, <1>5
    <2> QED
      BY <1>2, <1>3, <1>5, <2>1 DEF rows
  <1> QED
    BY <1>4, <1>5

\* The steps of the tabs that hand nothing over, and stuttering.
Quiet == \/ Bootstrap \/ \E t \in Tabs : FirstRequest(t) \/ Refresh(t) \/ Close(t)
         \/ UNCHANGED vars

LEMMA QuietKeeps ==
  ASSUME Quiet
  PROVE  UNCHANGED <<base, carry, events, sent, asked, handled, session>>
  BY DEF Quiet, Bootstrap, FirstRequest, Refresh, Close, vars, session, server

LEMMA StepsAre ==
  ASSUME [Next]_vars
  PROVE  Quiet \/ Deliver \/ Elsewhere \/ \E t \in Tabs : Handler(t)
  BY DEF Quiet, Next, Handler, Elsewhere

\* What each step of the session takes and tells.
LEMMA PublishReadTells ==
  ASSUME QueuesTyped, HistoriesTyped, PublishRead
  PROVE  /\ UNCHANGED <<base, views, carry, commands, feeds, shown, sent, asked, written>>
         /\ pump' = [gen |-> pump.gen, read |-> NoRead]
         /\ \/ slot' = slot /\ events' = events
            \/ \E r \in Events :
                 /\ r.kind = "ReadState" /\ r.gen = pump.gen /\ r.reads = slot'[pump.gen]
                 /\ events' = events \o <<r>>
                 /\ slot' = [slot EXCEPT ![pump.gen] = slot'[pump.gen]]
                 /\ slot'[pump.gen] = IF pump.read.gen = pump.gen THEN Raise(slot[pump.gen], pump.read.rows)
                                      ELSE slot[pump.gen]
                 /\ slot' \in [Gens -> [Channels -> Rows]]
  <1>1. Publish(<<>>) /\ pump' = [pump EXCEPT !.read = NoRead]
    BY DEF PublishRead
  <1>2. events \o <<>> = events
    BY DEF QueuesTyped
  <1>3. ASSUME NEW r \in Events
        PROVE  <<r>> \o <<>> = <<r>>
    OBVIOUS
  <1>4. UNCHANGED <<base, views, carry, commands, feeds, shown, sent, asked, written>>
    BY DEF PublishRead, Pump, server
  <1>5. pump' = [gen |-> pump.gen, read |-> NoRead]
    <2>1. pump = [gen |-> pump.gen, read |-> pump.read]
      BY DEF QueuesTyped
    <2> QED
      BY <1>1, <2>1
  <1>6. \/ slot' = slot /\ events' = events \o <<>>
        \/ \E r \in Events :
              /\ r.kind = "ReadState" /\ r.gen = pump.gen
              /\ r.reads = slot'[pump.gen]
              /\ events' = events \o (<<r>> \o <<>>)
              /\ slot' = [slot EXCEPT ![pump.gen] = slot'[pump.gen]]
              /\ slot'[pump.gen] = IF pump.read.gen = pump.gen THEN Raise(slot[pump.gen], pump.read.rows)
                                   ELSE slot[pump.gen]
              /\ slot' \in [Gens -> [Channels -> Rows]]
    BY <1>1, PublishTells
  <1> QED
    BY <1>2, <1>3, <1>4, <1>5, <1>6

LEMMA TakeSendTells ==
  ASSUME QueuesTyped, HistoriesTyped, TakeSend
  PROVE  /\ UNCHANGED <<base, views, carry, pump, feeds, shown, slot, sent, asked>>
         /\ commands # <<>> /\ commands' = Tail(commands) /\ commands[1].kind = "Send"
         /\ written' \in {written, written \union {[op |-> commands[1].op, gen |-> pump.gen]}}
         /\ \E e \in Events : /\ e.kind = "Written" /\ e.gen = pump.gen /\ e.op = commands[1].op
                              /\ events' = events \o <<e>>
  <1> DEFINE e == [Event("Written", pump.gen) EXCEPT !.op = commands[1].op]
  <1>1. commands # <<>> /\ commands' = Tail(commands) /\ Head(commands).kind = "Send"
    BY DEF TakeSend, Take
  <1>2. Head(commands) = commands[1] /\ commands[1] \in Command
    BY <1>1, TailOf DEF QueuesTyped
  <1>3. commands[1].op \in Nat
    BY <1>2 DEF Command
  <1>4. e \in Events /\ e.kind = "Written" /\ e.gen = pump.gen /\ e.op = commands[1].op
    BY <1>3, Constants DEF Event, Events, QueuesTyped
  <1>5. events' = events \o <<e>>
    BY <1>2 DEF TakeSend, Tell
  <1>6. written' \in {written, written \union {[op |-> commands[1].op, gen |-> pump.gen]}}
    BY <1>2 DEF TakeSend
  <1>7. UNCHANGED <<base, views, carry, pump, feeds, shown, slot, sent, asked>>
    BY DEF TakeSend, Pump, server
  <1> HIDE DEF e
  <1> QED
    BY <1>1, <1>2, <1>4, <1>5, <1>6, <1>7

LEMMA TakeCreateTells ==
  ASSUME QueuesTyped, HistoriesTyped, TakeCreate
  PROVE  /\ UNCHANGED <<base, views, carry, pump, feeds, shown, slot, sent, asked, written>>
         /\ commands # <<>> /\ commands' = Tail(commands) /\ commands[1].kind = "Create"
         /\ \E e \in Events : e.kind = "Created" /\ e.gen = pump.gen /\ events' = events \o <<e>>
  <1>1. commands # <<>> /\ commands' = Tail(commands) /\ Head(commands).kind = "Create"
    BY DEF TakeCreate, Take
  <1>2. Head(commands) = commands[1] /\ commands[1] \in Command
    BY <1>1, TailOf DEF QueuesTyped
  <1>3. commands[1].request \in Nat
    BY <1>2 DEF Command
  <1>4. PICK known \in BOOLEAN :
          events' = events \o <<[Event("Created", pump.gen) EXCEPT !.request = commands[1].request, !.known = known]>>
    BY <1>2 DEF TakeCreate, Tell
  <1> DEFINE e == [Event("Created", pump.gen) EXCEPT !.request = commands[1].request, !.known = known]
  <1>5. e \in Events /\ e.kind = "Created" /\ e.gen = pump.gen
    BY <1>3, Constants DEF Event, Events, QueuesTyped
  <1>6. UNCHANGED <<base, views, carry, pump, feeds, shown, slot, sent, asked, written>>
    BY DEF TakeCreate, Pump, server
  <1>7. events' = events \o <<e>>
    BY <1>4
  <1> HIDE DEF e
  <1> QED
    BY <1>1, <1>2, <1>5, <1>6, <1>7

LEMMA TakeSwitchTells ==
  ASSUME QueuesTyped, HistoriesTyped, Counted, TakeSwitch
  PROVE  /\ UNCHANGED <<base, views, carry, feeds, shown, sent, asked, written>>
         /\ commands # <<>> /\ commands' = Tail(commands) /\ commands[1].kind = "Switch"
         /\ pump.gen + 1 \in Gens /\ pump' = [gen |-> pump.gen + 1, read |-> NoRead]
         /\ \E e \in Events :
              /\ e.kind = "Switching" /\ e.gen = pump.gen + 1
              /\ \/ slot' = slot /\ events' = events \o <<e>>
                 \/ \E r \in Events :
                      /\ r.kind = "ReadState" /\ r.gen = pump.gen /\ r.reads = slot'[pump.gen]
                      /\ events' = (events \o <<r>>) \o <<e>>
                      /\ slot' = [slot EXCEPT ![pump.gen] = slot'[pump.gen]]
                      /\ slot'[pump.gen] = IF pump.read.gen = pump.gen THEN Raise(slot[pump.gen], pump.read.rows)
                                           ELSE slot[pump.gen]
                      /\ slot' \in [Gens -> [Channels -> Rows]]
  <1> DEFINE e == Event("Switching", pump.gen + 1)
  <1>1. Publish(<<e>>) /\ Take("Switch") /\ pump' = [pump EXCEPT !.gen = @ + 1, !.read = NoRead]
    BY DEF TakeSwitch
  <1>2. commands # <<>> /\ commands' = Tail(commands) /\ commands[1].kind = "Switch"
    BY <1>1, TailOf DEF Take, QueuesTyped
  <1>3. pump.gen + 1 \in Gens
    BY <1>1, TakeSwitchFits
  <1>4. e \in Events /\ e.kind = "Switching" /\ e.gen = pump.gen + 1
    BY <1>3, Constants DEF Event, Events, NoRows
  <1>5. pump' = [gen |-> pump.gen + 1, read |-> NoRead]
    <2>1. pump = [gen |-> pump.gen, read |-> pump.read]
      BY DEF QueuesTyped
    <2> QED
      BY <1>1, <2>1
  <1>6. UNCHANGED <<base, views, carry, feeds, shown, sent, asked, written>>
    BY DEF TakeSwitch, Pump, server
  <1> HIDE DEF e
  <1>7. ASSUME NEW r \in Events
        PROVE  events \o (<<r>> \o <<e>>) = (events \o <<r>>) \o <<e>>
    BY <1>4 DEF QueuesTyped
  <1>8. \/ slot' = slot /\ events' = events \o <<e>>
        \/ \E r \in Events :
              /\ r.kind = "ReadState" /\ r.gen = pump.gen
              /\ r.reads = slot'[pump.gen]
              /\ events' = events \o (<<r>> \o <<e>>)
              /\ slot' = [slot EXCEPT ![pump.gen] = slot'[pump.gen]]
              /\ slot'[pump.gen] = IF pump.read.gen = pump.gen THEN Raise(slot[pump.gen], pump.read.rows)
                                   ELSE slot[pump.gen]
              /\ slot' \in [Gens -> [Channels -> Rows]]
    BY <1>1, PublishTells
  <1> QED
    BY <1>2, <1>3, <1>4, <1>5, <1>6, <1>7, <1>8

LEMMA ConnectTells ==
  ASSUME QueuesTyped, NEW g \in Gens, Connect(g)
  PROVE  /\ UNCHANGED <<base, views, carry, commands, pump, shown, slot, sent, asked, written>>
         /\ feeds' = [feeds EXCEPT ![g] = TRUE] /\ g <= pump.gen
         /\ \E e \in Events : e.kind = "Connected" /\ e.gen = g /\ events' = events \o <<e>>
  <1> DEFINE e == Event("Connected", g)
  <1>1. events' = events \o <<e>>
    BY DEF Connect, Tell
  <1>2. e \in Events /\ e.kind = "Connected" /\ e.gen = g
    BY Constants DEF Event, Events
  <1>3. /\ UNCHANGED <<base, views, carry, commands, pump, shown, slot, sent, asked, written>>
        /\ feeds' = [feeds EXCEPT ![g] = TRUE] /\ g <= pump.gen
    BY DEF Connect, Pump, server
  <1> HIDE DEF e
  <1> QED
    BY <1>1, <1>2, <1>3

LEMMA LiveTells ==
  ASSUME QueuesTyped, HistoriesTyped, NEW g \in Gens, Live(g)
  PROVE  /\ UNCHANGED <<base, views, carry, commands, pump, feeds, shown, slot, sent, asked, written>>
         /\ g <= pump.gen
         /\ \E e \in Events : e.kind = "Live" /\ e.gen = g /\ e.row # <<>> /\ events' = events \o <<e>>
  <1>1. PICK c \in Channels : /\ Cardinality(Posted) < MaxLive
                              /\ events' = events \o <<[Event("Live", g) EXCEPT !.row = <<c, posted[g][c] + 1>>]>>
    BY DEF Live, Tell
  <1> DEFINE e == [Event("Live", g) EXCEPT !.row = <<c, posted[g][c] + 1>>]
  <1>2. e \in Events /\ e.kind = "Live" /\ e.gen = g /\ e.row # <<>>
    <2>1. posted[g][c] + 1 \in Rows
      BY <1>1, RowFits
    <2> QED
      BY <2>1, Constants DEF Event, Events
  <1>3. events' = events \o <<e>>
    BY <1>1
  <1>4. /\ UNCHANGED <<base, views, carry, commands, pump, feeds, shown, slot, sent, asked, written>>
        /\ g <= pump.gen
    BY DEF Live, Pump, server
  <1> HIDE DEF e
  <1> QED
    BY <1>2, <1>3, <1>4

LEMMA QueuesStep ==
  ASSUME Typed, [Next]_vars
  PROVE  QueuesTyped'
  <1>0. QueuesTyped /\ HistoriesTyped /\ ViewsTyped /\ Counted
    BY DEF Typed
  <1>1. CASE Quiet
    BY <1>0, <1>1, QuietKeeps DEF session, QueuesTyped
  <1>2. CASE \E t \in Tabs : Handler(t)
    BY <1>0, <1>2, HandlersTyped DEF session, QueuesTyped
  <1>3. CASE Deliver
    <2>1. UNCHANGED <<carry, commands, pump, feeds>> /\ events # <<>> /\ events' = Tail(events)
      BY <1>3 DEF Deliver, session
    <2> QED
      BY <1>0, <2>1 DEF QueuesTyped
  <1>4. CASE SendCommand
    <2>1. PICK c \in carry : carry' = carry \ {c} /\ commands' = Append(commands, c)
      BY <1>4 DEF SendCommand
    <2>2. UNCHANGED <<events, pump, feeds>>
      BY <1>4 DEF SendCommand
    <2> QED
      BY <1>0, <2>1, <2>2 DEF QueuesTyped
  <1>5. ASSUME UNCHANGED carry, commands' \in Seq(Command), feeds' \in [Gens -> BOOLEAN],
               pump'.gen \in Gens, pump'.read \in Claim, pump' = [gen |-> pump'.gen, read |-> pump'.read],
               \/ events' = events
               \/ \E e \in Events : (e.kind = "Live" => e.row # <<>>) /\ events' = events \o <<e>>
        PROVE  QueuesTyped'
    <2>1. CASE events' = events
      BY <1>0, <1>5, <2>1 DEF QueuesTyped
    <2>2. ASSUME NEW e \in Events, e.kind = "Live" => e.row # <<>>, events' = events \o <<e>>
          PROVE  QueuesTyped'
      <3>1. events' \in Seq(Events) /\ \A i \in DOMAIN events' : events'[i].kind = "Live" => events'[i].row # <<>>
        BY <1>0, <2>2, ToldOne DEF QueuesTyped
      <3> QED
        BY <1>0, <1>5, <3>1 DEF QueuesTyped
    <2> QED
      BY <1>5, <2>1, <2>2
  <1>6. /\ pump.gen \in Gens /\ pump.read \in Claim /\ pump = [gen |-> pump.gen, read |-> pump.read]
        /\ commands \in Seq(Command) /\ feeds \in [Gens -> BOOLEAN] /\ events \in Seq(Events)
        /\ commands # <<>> => Tail(commands) \in Seq(Command) /\ Head(commands) \in Command
    BY <1>0 DEF QueuesTyped
  <1>7. CASE PublishRead
    <2>1. /\ UNCHANGED <<carry, commands, feeds>> /\ pump' = [gen |-> pump.gen, read |-> NoRead]
          /\ events' = events \/ \E r \in Events : r.kind = "ReadState" /\ events' = events \o <<r>>
      BY <1>0, <1>7, PublishReadTells
    <2> QED
      BY <1>5, <1>6, <2>1, Constants
  <1>8. CASE TakeRead
    <2>1. /\ commands # <<>> /\ commands' = Tail(commands)
          /\ pump' = [pump EXCEPT !.read = Head(commands).reads] /\ UNCHANGED <<carry, events, feeds>>
      BY <1>8 DEF TakeRead, Take, Pump
    <2>2. Head(commands).reads \in Claim
      BY <1>6, <2>1 DEF Command
    <2>3. pump' = [gen |-> pump.gen, read |-> Head(commands).reads]
      BY <1>6, <2>1
    <2> QED
      BY <1>5, <1>6, <2>1, <2>2, <2>3
  <1>9. CASE TakeSend
    BY <1>0, <1>5, <1>6, <1>9, TakeSendTells
  <1>10. CASE TakeCreate
    BY <1>0, <1>5, <1>6, <1>10, TakeCreateTells
  <1>11. CASE TakeSwitch
    <2>1. /\ UNCHANGED <<carry, feeds>> /\ commands # <<>> /\ commands' = Tail(commands)
          /\ pump.gen + 1 \in Gens /\ pump' = [gen |-> pump.gen + 1, read |-> NoRead]
      BY <1>0, <1>11, TakeSwitchTells
    <2>2. PICK e \in Events :
            /\ e.kind = "Switching"
            /\ \/ events' = events \o <<e>>
               \/ \E r \in Events : r.kind = "ReadState" /\ events' = (events \o <<r>>) \o <<e>>
      BY <1>0, <1>11, TakeSwitchTells
    <2>3. CASE events' = events \o <<e>>
      BY <1>5, <1>6, <2>1, <2>2, <2>3, Constants
    <2>4. ASSUME NEW r \in Events, r.kind = "ReadState", events' = (events \o <<r>>) \o <<e>>
          PROVE  QueuesTyped'
      <3>1. /\ events \o <<r>> \in Seq(Events)
            /\ \A i \in DOMAIN (events \o <<r>>) : (events \o <<r>>)[i].kind = "Live" => (events \o <<r>>)[i].row # <<>>
        BY <1>0, <2>4, ToldOne DEF QueuesTyped
      <3>2. events' \in Seq(Events) /\ \A i \in DOMAIN events' : events'[i].kind = "Live" => events'[i].row # <<>>
        BY <2>2, <2>4, <3>1, ToldOne
      <3> QED
        BY <1>0, <1>6, <2>1, <3>2, Constants DEF QueuesTyped
    <2> QED
      BY <2>2, <2>3, <2>4
  <1>12. ASSUME NEW g \in Gens, Connect(g)
         PROVE  QueuesTyped'
    BY <1>0, <1>5, <1>6, <1>12, ConnectTells
  <1>13. ASSUME NEW g \in Gens, Live(g)
         PROVE  QueuesTyped'
    BY <1>0, <1>5, <1>6, <1>13, LiveTells
  <1> QED
    BY StepsAre, <1>1, <1>2, <1>3, <1>4, <1>7, <1>8, <1>9, <1>10, <1>11, <1>12, <1>13 DEF Elsewhere

\* A message is a new one.
LEMMA Fresh ==
  ASSUME Numbered, NEW n \in 0..MaxRequests, DOMAIN sent \intersect Messages = 1..n, NEW t \in Tabs
  PROVE  NextMessage(t) = n + 1 /\ NextMessage(t) \notin DOMAIN sent \intersect Messages
  <1>1. n \in Nat
    BY Bounds
  <1>2. Cardinality(1..n) = n
    <2>1. 1 \in Int /\ n \in Int
      BY <1>1
    <2>2. Cardinality(1..n) = IF 1 > n THEN 0 ELSE n - 1 + 1
      BY <2>1, FS_Interval
    <2> QED
      BY <1>1, <2>2
  <1>3. Cardinality(DOMAIN sent \intersect Messages) = n
    BY <1>2, Zenon
  <1>4. NextMessage(t) = n + 1
    BY <1>1, <1>3 DEF NextMessage
  <1>5. n + 1 \notin 1..n
    BY <1>1
  <1> QED
    BY <1>4, <1>5, Zenon

\* The history of a message, once made, stays.
LEMMA SentGrows ==
  ASSUME Typed, [Next]_vars
  PROVE  /\ DOMAIN sent \subseteq DOMAIN sent'
         /\ \A o \in DOMAIN sent \intersect Messages : sent'[o] = sent[o]
         /\ \A o \in DOMAIN sent' : sent'[o] \in SentType
         /\ sent' = [o \in DOMAIN sent' |-> sent'[o]]
         /\ Numbered'
  <1>0. ViewsTyped /\ QueuesTyped /\ HistoriesTyped /\ Numbered
    BY DEF Typed
  <1>1. CASE UNCHANGED sent
    BY <1>0, <1>1 DEF Numbered, HistoriesTyped
  <1> DEFINE Rec(t) == [home |-> views[t].gen, after |-> asked, tab |-> t]
  <1>2. ASSUME NEW t \in Tabs, Handler(t)
        PROVE  Rec(t) \in SentType
    <2>1. t \in DOMAIN views
      BY <1>0, <1>2, HandlersTyped
    <2> QED
      BY <1>0, <2>1 DEF SentType, ViewsTyped, HistoriesTyped, Apps
  <1>3. ASSUME NEW t \in Tabs, Send(t)
        PROVE  /\ DOMAIN sent \subseteq DOMAIN sent'
               /\ \A o \in DOMAIN sent \intersect Messages : sent'[o] = sent[o]
               /\ \A o \in DOMAIN sent' : sent'[o] \in SentType
               /\ sent' = [o \in DOMAIN sent' |-> sent'[o]]
               /\ Numbered'
    <2>1. PICK o \in Messages : /\ o = NextMessage(t)
                                /\ sent' = [k \in DOMAIN sent \union {o} |-> IF k = o THEN Rec(t) ELSE sent[k]]
      BY <1>3 DEF Send
    <2>2. PICK n \in 0..MaxRequests : DOMAIN sent \intersect Messages = 1..n
      BY <1>0 DEF Numbered
    <2>3. o = n + 1 /\ o \notin DOMAIN sent \intersect Messages
      BY <1>0, <2>1, <2>2, Fresh
    <2>4. Rec(t) \in SentType
      BY <1>2, <1>3 DEF Handler
    <2> HIDE DEF Rec
    <2>5. DOMAIN sent' = DOMAIN sent \union {o}
      BY <2>1
    <2>6. n + 1 \in 0..MaxRequests /\ DOMAIN sent' \intersect Messages = 1..n + 1
      BY <2>2, <2>3, <2>5, Bounds DEF Messages
    <2> QED
      BY <1>0, <2>1, <2>3, <2>4, <2>5, <2>6 DEF HistoriesTyped, Numbered
  <1>4. ASSUME NEW t \in Tabs, SubmitCreation(t)
        PROVE  /\ DOMAIN sent \subseteq DOMAIN sent'
               /\ \A o \in DOMAIN sent \intersect Messages : sent'[o] = sent[o]
               /\ \A o \in DOMAIN sent' : sent'[o] \in SentType
               /\ sent' = [o \in DOMAIN sent' |-> sent'[o]]
               /\ Numbered'
    <2>1. PICK o \in Creations : sent' = [k \in DOMAIN sent \union {o} |-> IF k = o THEN Rec(t) ELSE sent[k]]
      BY <1>4 DEF SubmitCreation
    <2>2. o \notin Messages
      BY Bounds DEF Creations, Messages
    <2>4. Rec(t) \in SentType
      BY <1>2, <1>4 DEF Handler
    <2> HIDE DEF Rec
    <2>5. DOMAIN sent' = DOMAIN sent \union {o}
      BY <2>1
    <2>6. DOMAIN sent' \intersect Messages = DOMAIN sent \intersect Messages
      BY <2>2, <2>5
    <2> QED
      BY <1>0, <2>1, <2>2, <2>4, <2>5, <2>6 DEF HistoriesTyped, Numbered
  <1>5. ASSUME NEW t \in Tabs, Select(t) \/ Presented(t) \/ SwitchProfile(t)
        PROVE  UNCHANGED sent
    BY <1>5 DEF Select, Presented, SwitchProfile
  <1>6. CASE Deliver
    BY <1>1, <1>6 DEF Deliver
  <1>7. CASE Quiet \/ Elsewhere
    BY <1>1, <1>7, QuietKeeps, ElsewhereKeeps
  <1>8. Quiet \/ Deliver \/ Elsewhere \/ \E t \in Tabs : Handler(t)
    BY StepsAre
  <1>9. ASSUME NEW t \in Tabs, Handler(t)
        PROVE  Send(t) \/ SubmitCreation(t) \/ UNCHANGED sent
    BY <1>5, <1>9 DEF Handler
  <1> HIDE DEF Rec
  <1> QED
    BY <1>8, <1>1, <1>3, <1>4, <1>6, <1>7, <1>9

LEMMA AskedGrows ==
  ASSUME Typed, [Next]_vars
  PROVE  /\ asked' \in Gens
         /\ asked' = asked \/ \E t \in Tabs : SwitchProfile(t) /\ asked' = asked + 1
  <1>1. asked \in Gens
    BY DEF Typed, HistoriesTyped
  <1>2. ASSUME NEW t \in Tabs, SwitchProfile(t)
        PROVE  asked' = asked + 1 /\ asked' \in Gens
    BY <1>1, <1>2, Bounds DEF SwitchProfile, Gens
  <1>3. ASSUME NEW t \in Tabs, Select(t) \/ Presented(t) \/ Send(t) \/ SubmitCreation(t)
        PROVE  asked' = asked
    BY <1>3 DEF Select, Presented, Send, SubmitCreation
  <1>4. CASE Deliver
    BY <1>1, <1>4 DEF Deliver
  <1> QED
    BY StepsAre, QuietKeeps, ElsewhereKeeps, <1>1, <1>2, <1>3, <1>4 DEF Handler

LEMMA HistoriesStep ==
  ASSUME Typed, OneCopy, [Next]_vars
  PROVE  HistoriesTyped'
  <1>0. ViewsTyped /\ QueuesTyped /\ HistoriesTyped
    BY DEF Typed
  <1>1. /\ asked' \in Gens /\ DOMAIN sent \subseteq DOMAIN sent'
        /\ sent' = [o \in DOMAIN sent' |-> sent'[o]] /\ \A o \in DOMAIN sent' : sent'[o] \in SentType
    BY SentGrows, AskedGrows
  <1>2. slot' \in [Gens -> [Channels -> Rows]]
    <2>1. CASE UNCHANGED slot
      BY <1>0, <2>1 DEF HistoriesTyped
    <2>2. ASSUME NEW then, Publish(then)
          PROVE  slot' \in [Gens -> [Channels -> Rows]]
      BY <1>0, <2>2, PublishTells DEF HistoriesTyped
    <2>3. CASE PublishRead \/ TakeSwitch
      BY <2>2, <2>3 DEF PublishRead, TakeSwitch
    <2>4. CASE SendCommand \/ TakeRead \/ TakeSend \/ TakeCreate \/ \E g \in Gens : Connect(g) \/ Live(g)
      BY <2>1, <2>4 DEF SendCommand, TakeRead, TakeSend, TakeCreate, Connect, Live
    <2>5. CASE Quiet \/ Deliver
      BY <2>1, <2>5, QuietKeeps DEF Deliver, session
    <2>6. CASE \E t \in Tabs : Handler(t)
      BY <1>0, <2>1, <2>6, HandlersTyped DEF session
    <2> QED
      BY StepsAre, <2>3, <2>4, <2>5, <2>6 DEF Elsewhere
  <1>3. posted' \in [Gens -> [Channels -> Rows]]
    <2>1. CASE UNCHANGED posted
      BY <1>0, <2>1 DEF HistoriesTyped
    <2>2. ASSUME NEW g \in Gens, Live(g)
          PROVE  posted' \in [Gens -> [Channels -> Rows]]
      <3>1. PICK c \in Channels : Cardinality(Posted) < MaxLive /\ posted' = [posted EXCEPT ![g][c] = @ + 1]
        BY <2>2 DEF Live
      <3>2. posted[g][c] + 1 \in Rows
        BY <1>0, <3>1, RowFits
      <3> QED
        BY <1>0, <3>1, <3>2 DEF HistoriesTyped
    <2>4. CASE SendCommand \/ PublishRead \/ TakeRead \/ TakeSend \/ TakeCreate \/ TakeSwitch \/ \E g \in Gens : Connect(g)
      BY <2>1, <2>4 DEF SendCommand, PublishRead, TakeRead, TakeSend, TakeCreate, TakeSwitch, Connect
    <2>5. CASE Quiet \/ Deliver
      BY <2>1, <2>5, QuietKeeps DEF Deliver, session
    <2>6. CASE \E t \in Tabs : Handler(t)
      BY <1>0, <2>1, <2>6, HandlersTyped DEF session
    <2> QED
      BY StepsAre, <2>2, <2>4, <2>5, <2>6 DEF Elsewhere
  <1>4. page' \in [Tabs -> Pages] /\ shown' \in [Gens -> [Channels -> Rows]]
    <2>1. CASE UNCHANGED <<page, shown>>
      BY <1>0, <2>1 DEF HistoriesTyped
    <2>2. ASSUME NEW t \in Tabs, Refresh(t)
          PROVE  page' \in [Tabs -> Pages] /\ shown' \in [Gens -> [Channels -> Rows]]
      <3> DEFINE v == views[t]
                 row == IF v.latest[v.sel] = 0 THEN <<>> ELSE <<v.gen, v.sel, v.latest[v.sel]>>
      <3>1. v \in Apps
        BY <1>0, <2>2 DEF Refresh, Requests, ViewsTyped
      <3>2. v.latest[v.sel] \in Rows /\ v.gen \in Gens /\ v.sel \in Channels
        BY <3>1 DEF Apps
      <3>3. row \in {<<>>} \union (Gens \X Channels \X Rows)
        BY <3>2
      <3>4. Hidden \in Pages /\ [visible |-> TRUE, row |-> row] \in Pages
        BY <3>3 DEF Hidden, Pages
      <3>5. [NoRows EXCEPT ![v.sel] = v.latest[v.sel]] \in [Channels -> Rows]
        BY <3>2, Constants
      <3>6. \/ page' = [page EXCEPT ![t] = Hidden] /\ UNCHANGED shown
            \/ /\ page' = [page EXCEPT ![t] = [visible |-> TRUE, row |-> row]]
               /\ shown' = [g \in Gens |-> IF g = v.gen THEN Raise(shown[g], [NoRows EXCEPT ![v.sel] = v.latest[v.sel]])
                                          ELSE shown[g]]
        BY <2>2 DEF Refresh
      <3> HIDE DEF v, row
      <3> DEFINE drawn == [NoRows EXCEPT ![v.sel] = v.latest[v.sel]]
      <3>7. \A g \in Gens : Raise(shown[g], drawn) \in [Channels -> Rows]
        <4> SUFFICES ASSUME NEW g \in Gens
                     PROVE  Raise(shown[g], drawn) \in [Channels -> Rows]
          OBVIOUS
        <4>1. shown[g] \in [Channels -> Rows] /\ drawn \in [Channels -> Rows]
          BY <1>0, <3>5 DEF HistoriesTyped
        <4> HIDE DEF drawn
        <4> QED
          BY <4>1 DEF Raise
      <3>8. \/ page' = [page EXCEPT ![t] = Hidden] /\ UNCHANGED shown
            \/ /\ page' = [page EXCEPT ![t] = [visible |-> TRUE, row |-> row]]
               /\ shown' = [g \in Gens |-> IF g = v.gen THEN Raise(shown[g], drawn) ELSE shown[g]]
        BY <3>6
      <3> HIDE DEF drawn
      <3>9. page' \in [Tabs -> Pages]
        BY <1>0, <3>4, <3>8 DEF HistoriesTyped
      <3>10. shown \in [Gens -> [Channels -> Rows]]
        BY <1>0 DEF HistoriesTyped
      <3>11. shown' \in [Gens -> [Channels -> Rows]]
        BY <3>7, <3>8, <3>10
      <3> QED
        BY <3>9, <3>11
    <2>3. ASSUME NEW t \in Tabs, Close(t)
          PROVE  page' \in [Tabs -> Pages] /\ shown' \in [Gens -> [Channels -> Rows]]
      <3>1. Hidden \in Pages
        BY DEF Hidden, Pages
      <3> QED
        BY <1>0, <2>3, <3>1 DEF Close, HistoriesTyped
    <2>4. CASE Bootstrap \/ (\E t \in Tabs : FirstRequest(t)) \/ UNCHANGED vars \/ Deliver
      BY <2>1, <2>4 DEF Bootstrap, FirstRequest, vars, Deliver
    <2>5. CASE Elsewhere
      BY <2>1, <2>5, ElsewhereKeeps
    <2>6. CASE \E t \in Tabs : Handler(t)
      BY <1>0, <2>1, <2>6, HandlersTyped
    <2> QED
      BY StepsAre, <2>2, <2>3, <2>4, <2>5, <2>6 DEF Quiet
  <1>5. \A w \in written' : w.op \in DOMAIN sent /\ w.gen \in Gens
    <2>1. CASE UNCHANGED written
      BY <1>0, <2>1 DEF HistoriesTyped
    <2>2. CASE TakeSend
      <3>1. /\ commands # <<>> /\ Head(commands).kind = "Send"
            /\ written' \in {written, written \union {[op |-> Head(commands).op, gen |-> pump.gen]}}
        BY <2>2 DEF TakeSend, Take
      <3>2. Head(commands).op \in DOMAIN sent
        BY <1>0, <3>1, TailOf DEF OneCopy, QueuesTyped
      <3> QED
        BY <1>0, <3>1, <3>2 DEF HistoriesTyped, QueuesTyped
    <2>4. CASE SendCommand \/ PublishRead \/ TakeRead \/ TakeCreate \/ TakeSwitch \/ \E g \in Gens : Connect(g) \/ Live(g)
      BY <2>1, <2>4 DEF SendCommand, PublishRead, TakeRead, TakeCreate, TakeSwitch, Connect, Live
    <2>5. CASE Quiet \/ Deliver
      BY <2>1, <2>5, QuietKeeps DEF Deliver, session
    <2>6. CASE \E t \in Tabs : Handler(t)
      BY <1>0, <2>1, <2>6, HandlersTyped DEF session
    <2> QED
      BY StepsAre, <2>2, <2>4, <2>5, <2>6 DEF Elsewhere
  <1> QED
    BY <1>1, <1>2, <1>3, <1>4, <1>5 DEF HistoriesTyped

\* Taking the first command takes its switch, if it is one, and no other.
LEMMA TakingSwitches ==
  ASSUME QueuesTyped, Counted, commands # <<>>, commands' = Tail(commands)
  PROVE  /\ commands[1].kind # "Switch" => SwitchesQueued' = SwitchesQueued
         /\ commands[1].kind = "Switch" =>
              commands[1].op \in SwitchesQueued /\ SwitchesQueued' = SwitchesQueued \ {commands[1].op}
         /\ \A i, j \in DOMAIN commands' :
              commands'[i].kind = "Switch" /\ commands'[j].kind = "Switch" /\ commands'[i].op = commands'[j].op => i = j
  <1>1. /\ 1 \in DOMAIN commands /\ DOMAIN commands = 1..Len(commands) /\ Len(commands) \in Nat
        /\ DOMAIN commands' = 1..Len(commands) - 1
        /\ \A i \in DOMAIN commands' : commands'[i] = commands[i + 1]
    BY TailOf DEF QueuesTyped
  <1>2. \A i, j \in DOMAIN commands :
          commands[i].kind = "Switch" /\ commands[j].kind = "Switch" /\ commands[i].op = commands[j].op => i = j
    BY DEF Counted
  <1>3. \A x : x \in SwitchesQueued <=> \E i \in DOMAIN commands : commands[i].kind = "Switch" /\ commands[i].op = x
    BY DEF SwitchesQueued
  <1>4. \A x : x \in SwitchesQueued' <=> \E i \in DOMAIN commands' : commands'[i].kind = "Switch" /\ commands'[i].op = x
    BY DEF SwitchesQueued
  <1>5. \A i \in DOMAIN commands : i = 1 \/ (i - 1 \in DOMAIN commands' /\ commands'[i - 1] = commands[i])
    BY <1>1
  <1>6. \A i \in DOMAIN commands' : i + 1 \in DOMAIN commands /\ i + 1 # 1 /\ commands'[i] = commands[i + 1]
    BY <1>1
  <1>7. \A x : x \in SwitchesQueued' <=> \E i \in DOMAIN commands : i # 1 /\ commands[i].kind = "Switch" /\ commands[i].op = x
    BY <1>4, <1>5, <1>6
  <1>8. \A i, j \in DOMAIN commands' :
          commands'[i].kind = "Switch" /\ commands'[j].kind = "Switch" /\ commands'[i].op = commands'[j].op => i = j
    BY <1>1, <1>2, <1>6
  <1>9. commands[1].kind # "Switch" => SwitchesQueued' = SwitchesQueued
    <2> SUFFICES ASSUME commands[1].kind # "Switch"
                 PROVE  SwitchesQueued' = SwitchesQueued
      OBVIOUS
    <2>1. \A x : x \in SwitchesQueued' <=> x \in SwitchesQueued
      BY <1>3, <1>7
    <2> QED
      BY <2>1
  <1>10. commands[1].kind = "Switch" =>
              commands[1].op \in SwitchesQueued /\ SwitchesQueued' = SwitchesQueued \ {commands[1].op}
    BY <1>1, <1>2, <1>3, <1>7
  <1> QED
    BY <1>8, <1>9, <1>10

LEMMA CountedStep ==
  ASSUME Typed, [Next]_vars
  PROVE  Counted'
  <1>0. ViewsTyped /\ QueuesTyped /\ HistoriesTyped /\ Counted
    BY DEF Typed
  <1>1. ASSUME UNCHANGED <<commands, pump, asked>>,
               carry \subseteq carry', \A d \in carry' \ carry : d.kind # "Switch"
        PROVE  Counted'
    <2>1. SwitchesQueued' = SwitchesQueued /\ SwitchesCarried' = SwitchesCarried
      BY <1>1 DEF SwitchesQueued, SwitchesCarried
    <2>2. SwitchesAhead' = SwitchesAhead
      BY <2>1 DEF SwitchesAhead
    <2> QED
      BY <1>0, <1>1, <2>1, <2>2 DEF Counted
  <1>2. CASE Quiet \/ Deliver
    BY <1>1, <1>2, QuietKeeps DEF Deliver, session
  <1>3. ASSUME NEW t \in Tabs, Select(t) \/ Send(t) \/ SubmitCreation(t) \/ Presented(t)
        PROVE  Counted'
    <2>1. UNCHANGED <<commands, pump>> /\ carry \subseteq carry'
      BY <1>0, <1>3, HandlersTyped DEF Handler, session
    <2>2. asked' = asked
      BY <1>3 DEF Select, Send, SubmitCreation, Presented
    <2>3. \A d \in carry' \ carry : d.kind # "Switch"
      <3>1. CASE Select(t)
        BY <3>1 DEF Select, Handled
      <3>2. CASE Send(t)
        BY <3>2 DEF Send, Handled, Do
      <3>3. CASE SubmitCreation(t)
        <4>1. PICK o \in Creations, n \in {views[t].requests + 1} :
                carry' = carry \union {[Do("Create", o) EXCEPT !.request = n]}
          BY <3>3 DEF SubmitCreation, Handled
        <4> QED
          BY <4>1 DEF Do
      <3>4. CASE Presented(t)
        <4>1. PICK m : carry' = carry \union {[Do("Read", 0) EXCEPT !.reads = m]}
          BY <3>4 DEF Presented, Handled
        <4> QED
          BY <4>1 DEF Do
      <3> QED
        BY <1>3, <3>1, <3>2, <3>3, <3>4
    <2> QED
      BY <1>1, <2>1, <2>2, <2>3
  <1>4. ASSUME NEW t \in Tabs, SwitchProfile(t)
        PROVE  Counted'
    <2>1. /\ asked' = asked + 1 /\ UNCHANGED <<commands, pump>>
          /\ carry' = carry \union {Do("Switch", asked)}
      BY <1>4 DEF SwitchProfile, Handled, session
    <2>2. SwitchesQueued' = SwitchesQueued /\ SwitchesCarried' = SwitchesCarried \union {asked}
      <3>1. SwitchesQueued' = SwitchesQueued
        BY <2>1 DEF SwitchesQueued
      <3>2. Do("Switch", asked).kind = "Switch" /\ Do("Switch", asked).op = asked
        BY DEF Do
      <3>3. \A x : x \in SwitchesCarried <=> \E d \in carry : d.kind = "Switch" /\ d.op = x
        BY DEF SwitchesCarried
      <3>4. \A x : x \in SwitchesCarried' <=> \E d \in carry' : d.kind = "Switch" /\ d.op = x
        BY DEF SwitchesCarried
      <3>5. \A x : x \in SwitchesCarried' <=> x \in SwitchesCarried \union {asked}
        BY <2>1, <3>2, <3>3, <3>4
      <3>6. SwitchesCarried' = SwitchesCarried \union {asked}
        BY <3>5
      <3> QED
        BY <3>1, <3>6
    <2>3. SwitchesAhead' = SwitchesAhead \union {asked}
      BY <2>2 DEF SwitchesAhead
    <2>4. asked \in Nat /\ pump.gen \in Nat
      BY <1>0, Constants DEF HistoriesTyped, QueuesTyped
    <2>5. asked \notin SwitchesAhead /\ SwitchesAhead \subseteq 0..asked - 1
      BY <1>0, <2>4 DEF Counted
    <2>6. Cardinality(SwitchesAhead') = Cardinality(SwitchesAhead) + 1 /\ Cardinality(SwitchesAhead) \in Nat
      BY <1>0, <2>3, <2>5, SwitchFits, FS_AddElement
    <2>7. SwitchesAhead' \subseteq 0..asked' - 1
      BY <2>1, <2>3, <2>4, <2>5
    <2>8. Cardinality(SwitchesAhead') + pump'.gen = asked'
      BY <1>0, <2>1, <2>4, <2>6 DEF Counted
    <2>9. (SwitchesCarried \intersect SwitchesQueued = {})'
      BY <1>0, <2>2, <2>5 DEF Counted, SwitchesAhead
    <2>10. \A d \in carry' : d.kind = "Switch" => d = Do("Switch", d.op)
      BY <1>0, <2>1 DEF Counted, Do
    <2>11. \A i, j \in DOMAIN commands' :
             commands'[i].kind = "Switch" /\ commands'[j].kind = "Switch" /\ commands'[i].op = commands'[j].op => i = j
      BY <1>0, <2>1 DEF Counted
    <2> QED
      BY <2>7, <2>8, <2>9, <2>10, <2>11 DEF Counted
  <1>5. CASE SendCommand
    <2>1. PICK c \in carry : carry' = carry \ {c} /\ commands' = Append(commands, c)
      BY <1>5 DEF SendCommand
    <2>2. asked' = asked /\ pump' = pump
      BY <1>5 DEF SendCommand
    <2>3. /\ DOMAIN commands = 1..Len(commands) /\ Len(commands) \in Nat
          /\ DOMAIN commands' = 1..Len(commands) + 1 /\ commands'[Len(commands) + 1] = c
          /\ \A i \in DOMAIN commands : commands'[i] = commands[i]
      BY <1>0, <2>1 DEF QueuesTyped
    <2>4. \A i \in DOMAIN commands' : i \in DOMAIN commands \/ i = Len(commands) + 1
      BY <2>3
    <2>5. \A i \in DOMAIN commands : i \in DOMAIN commands' /\ i # Len(commands) + 1
      BY <2>3
    <2>6. Len(commands) + 1 \in DOMAIN commands'
      BY <2>3
    <2>7. CASE c.kind # "Switch"
      <3>1. SwitchesQueued' = SwitchesQueued
        BY <2>3, <2>4, <2>5, <2>7 DEF SwitchesQueued
      <3>2. SwitchesCarried' = SwitchesCarried
        BY <2>1, <2>7 DEF SwitchesCarried
      <3>3. SwitchesAhead' = SwitchesAhead
        BY <3>1, <3>2 DEF SwitchesAhead
      <3>4. \A i, j \in DOMAIN commands' :
             commands'[i].kind = "Switch" /\ commands'[j].kind = "Switch" /\ commands'[i].op = commands'[j].op => i = j
        BY <1>0, <2>3, <2>4, <2>7 DEF Counted
      <3> QED
        BY <1>0, <2>1, <2>2, <3>1, <3>2, <3>3, <3>4 DEF Counted
    <2>8. CASE c.kind = "Switch"
      <3>1. SwitchesQueued' = SwitchesQueued \union {c.op}
        <4>1. \A x : x \in SwitchesQueued <=> \E i \in DOMAIN commands : commands[i].kind = "Switch" /\ commands[i].op = x
          BY DEF SwitchesQueued
        <4>2. \A x : x \in SwitchesQueued' <=> \E i \in DOMAIN commands' : commands'[i].kind = "Switch" /\ commands'[i].op = x
          BY DEF SwitchesQueued
        <4> QED
          BY <4>1, <4>2, <2>3, <2>4, <2>5, <2>6, <2>8
      <3>2. c = Do("Switch", c.op) /\ c.op \in SwitchesCarried
        BY <1>0, <2>8 DEF Counted, SwitchesCarried
      <3>3. SwitchesCarried' = SwitchesCarried \ {c.op}
        <4>1. \A d \in carry : d.kind = "Switch" /\ d.op = c.op => d = c
          BY <1>0, <3>2 DEF Counted
        <4> QED
          BY <2>1, <2>8, <4>1 DEF SwitchesCarried
      <3>4. SwitchesAhead' = SwitchesAhead
        BY <3>1, <3>2, <3>3 DEF SwitchesAhead
      <3>5. (SwitchesCarried \intersect SwitchesQueued = {})'
        BY <1>0, <3>1, <3>3 DEF Counted
      <3>6. \A i \in DOMAIN commands : commands[i].kind = "Switch" => commands[i].op # c.op
        BY <1>0, <3>2 DEF Counted, SwitchesQueued
      <3>7. \A i, j \in DOMAIN commands' :
             commands'[i].kind = "Switch" /\ commands'[j].kind = "Switch" /\ commands'[i].op = commands'[j].op => i = j
        BY <1>0, <2>3, <2>4, <3>6 DEF Counted
      <3> QED
        BY <1>0, <2>1, <2>2, <3>4, <3>5, <3>7 DEF Counted
    <2> QED
      BY <2>7, <2>8
  <1>6. CASE TakeRead \/ TakeSend \/ TakeCreate
    <2>1. /\ carry' = carry /\ asked' = asked /\ pump'.gen = pump.gen
          /\ commands # <<>> /\ commands' = Tail(commands) /\ Head(commands).kind # "Switch"
      BY <1>0, <1>6 DEF TakeRead, TakeSend, TakeCreate, Take, Pump, QueuesTyped
    <2>2. commands[1].kind # "Switch"
      BY <1>0, <2>1, TailOf DEF QueuesTyped
    <2>3. SwitchesQueued' = SwitchesQueued /\ SwitchesCarried' = SwitchesCarried
      BY <1>0, <2>1, <2>2, TakingSwitches DEF SwitchesCarried
    <2>4. SwitchesAhead' = SwitchesAhead
      BY <2>3 DEF SwitchesAhead
    <2>5. \A i, j \in DOMAIN commands' :
            commands'[i].kind = "Switch" /\ commands'[j].kind = "Switch" /\ commands'[i].op = commands'[j].op => i = j
      BY <1>0, <2>1, TakingSwitches
    <2> QED
      BY <1>0, <2>1, <2>3, <2>4, <2>5 DEF Counted
  <1>7. CASE TakeSwitch
    <2>1. /\ carry' = carry /\ asked' = asked /\ pump' = [pump EXCEPT !.gen = @ + 1, !.read = NoRead]
          /\ commands # <<>> /\ commands' = Tail(commands) /\ Head(commands).kind = "Switch"
      BY <1>7 DEF TakeSwitch, Take, Pump
    <2>2. commands[1].kind = "Switch"
      BY <1>0, <2>1, TailOf DEF QueuesTyped
    <2>3. /\ commands[1].op \in SwitchesQueued /\ SwitchesQueued' = SwitchesQueued \ {commands[1].op}
          /\ SwitchesCarried' = SwitchesCarried
      BY <1>0, <2>1, <2>2, TakingSwitches DEF SwitchesCarried
    <2>4. commands[1].op \in SwitchesAhead /\ SwitchesAhead' = SwitchesAhead \ {commands[1].op}
      BY <1>0, <2>3 DEF SwitchesAhead, Counted
    <2>5. Cardinality(SwitchesAhead') = Cardinality(SwitchesAhead) - 1 /\ Cardinality(SwitchesAhead) \in Nat
      BY <1>0, <2>4, SwitchFits, FS_RemoveElement
    <2>6. pump'.gen = pump.gen + 1 /\ pump.gen \in Nat
      BY <1>0, <2>1, Constants DEF QueuesTyped
    <2>7. Cardinality(SwitchesAhead') + pump'.gen = asked'
      BY <1>0, <2>1, <2>5, <2>6 DEF Counted
    <2>8. \A i, j \in DOMAIN commands' :
            commands'[i].kind = "Switch" /\ commands'[j].kind = "Switch" /\ commands'[i].op = commands'[j].op => i = j
      BY <1>0, <2>1, TakingSwitches
    <2> QED
      BY <1>0, <2>1, <2>3, <2>4, <2>7, <2>8 DEF Counted
  <1>8. CASE PublishRead \/ \E g \in Gens : Connect(g) \/ Live(g)
    <2>1. UNCHANGED <<carry, commands, asked>> /\ pump'.gen = pump.gen
      BY <1>0, <1>8 DEF PublishRead, Connect, Live, Pump, QueuesTyped
    <2>2. SwitchesQueued' = SwitchesQueued /\ SwitchesCarried' = SwitchesCarried
      BY <2>1 DEF SwitchesQueued, SwitchesCarried
    <2>3. SwitchesAhead' = SwitchesAhead
      BY <2>2 DEF SwitchesAhead
    <2> QED
      BY <1>0, <2>1, <2>2, <2>3 DEF Counted
  <1> QED
    BY StepsAre, <1>2, <1>3, <1>4, <1>5, <1>6, <1>7, <1>8 DEF Handler, Elsewhere

LEMMA TypedStep ==
  ASSUME Typed, OneCopy, [Next]_vars
  PROVE  Typed'
  BY ViewsStep, QueuesStep, HistoriesStep, SentGrows, CountedStep DEF Typed

-----------------------------------------------------------------------------
(* The order of the events.                                                  *)

LEMMA EventGens ==
  ASSUME NEW q \in Seq(Events)
  PROVE  \A i \in DOMAIN q : q[i] \in Events /\ q[i].gen \in Gens /\ q[i].gen \in Nat
  <1>1. \A i \in DOMAIN q : q[i] \in Events
    OBVIOUS
  <1>2. \A e \in Events : e.gen \in Gens /\ e.gen \in Nat
    BY Constants DEF Events
  <1> QED
    BY <1>1, <1>2

LEMMA AppendInOrder ==
  ASSUME NEW b \in Gens, NEW p \in Gens, NEW q \in Seq(Events), NEW e \in Events, InOrder(b, p, q),
         e.kind # "Switching", e.gen <= p, e.kind = "ReadState" => e.gen = p
  PROVE  InOrder(b, p, q \o <<e>>)
  <1> DEFINE r == q \o <<e>>
  <1>1. /\ DOMAIN r = 1..Len(q) + 1 /\ DOMAIN q = 1..Len(q) /\ Len(q) \in Nat
        /\ \A i \in DOMAIN q : r[i] = q[i]
        /\ r[Len(q) + 1] = e
    BY ToldOne
  <1>2. \A i \in DOMAIN r : i \in DOMAIN q \/ i = Len(q) + 1
    BY <1>1
  <1>3. \A i \in DOMAIN q : i \in DOMAIN r /\ i < Len(q) + 1 /\ ~(Len(q) + 1 < i)
    BY <1>1
  <1>4. b \in Nat /\ p \in Nat /\ \A i \in DOMAIN q : q[i].gen \in Nat
    BY Constants, EventGens
  <1> HIDE DEF r
  <1>5. \A i, j \in DOMAIN r : i < j /\ r[j].kind = "Switching" => r[i].gen < r[j].gen
    BY <1>1, <1>2, <1>3 DEF InOrder
  <1>6. \A g \in Gens : b < g /\ g <= p => \E i \in DOMAIN r : r[i].kind = "Switching" /\ r[i].gen = g
    BY <1>1, <1>3 DEF InOrder
  <1>7. \A i \in DOMAIN r : r[i].kind = "ReadState" =>
          /\ b <= r[i].gen
          /\ \A j \in DOMAIN r : j < i /\ r[j].kind = "Switching" => r[j].gen <= r[i].gen
    BY <1>1, <1>2, <1>3 DEF InOrder
  <1>8. \A i \in DOMAIN r : r[i].gen <= p /\ (r[i].kind = "Switching" => b < r[i].gen)
    BY <1>1, <1>2 DEF InOrder
  <1>9. InOrder(b, p, r)
    BY <1>5, <1>6, <1>7, <1>8 DEF InOrder
  <1> QED
    BY <1>9 DEF r

LEMMA SwitchInOrder ==
  ASSUME NEW b \in Gens, NEW p \in Gens, NEW q \in Seq(Events), NEW e \in Events, InOrder(b, p, q),
         e.kind = "Switching", e.gen = p + 1
  PROVE  InOrder(b, p + 1, q \o <<e>>)
  <1> DEFINE r == q \o <<e>>
  <1>1. /\ DOMAIN r = 1..Len(q) + 1 /\ DOMAIN q = 1..Len(q) /\ Len(q) \in Nat
        /\ \A i \in DOMAIN q : r[i] = q[i]
        /\ r[Len(q) + 1] = e
    BY ToldOne
  <1>2. \A i \in DOMAIN r : i \in DOMAIN q \/ i = Len(q) + 1
    BY <1>1
  <1>3. \A i \in DOMAIN q : i \in DOMAIN r /\ i < Len(q) + 1 /\ ~(Len(q) + 1 < i)
    BY <1>1
  <1>4. b \in Nat /\ p \in Nat /\ \A i \in DOMAIN q : q[i].gen \in Nat
    BY Constants, EventGens
  <1>n. Len(q) + 1 \in DOMAIN r
    BY <1>1
  <1> HIDE DEF r
  <1>5. \A i, j \in DOMAIN r : i < j /\ r[j].kind = "Switching" => r[i].gen < r[j].gen
    <2> SUFFICES ASSUME NEW i \in DOMAIN r, NEW j \in DOMAIN r, i < j, r[j].kind = "Switching"
                 PROVE  r[i].gen < r[j].gen
      OBVIOUS
    <2>1. i \in DOMAIN q
      BY <1>1, <1>2, <1>3
    <2>2. CASE j \in DOMAIN q
      BY <1>1, <2>1, <2>2 DEF InOrder
    <2>3. CASE j = Len(q) + 1
      <3>1. r[j].gen = p + 1 /\ r[i].gen = q[i].gen /\ q[i].gen <= p /\ q[i].gen \in Nat
        BY <1>1, <1>4, <2>1, <2>3 DEF InOrder
      <3> QED
        BY <1>4, <3>1
    <2> QED
      BY <1>2, <2>2, <2>3
  <1>6. \A g \in Gens : b < g /\ g <= p + 1 => \E i \in DOMAIN r : r[i].kind = "Switching" /\ r[i].gen = g
    <2> SUFFICES ASSUME NEW g \in Gens, b < g, g <= p + 1
                 PROVE  \E i \in DOMAIN r : r[i].kind = "Switching" /\ r[i].gen = g
      OBVIOUS
    <2>1. CASE g = p + 1
      BY <1>1, <1>n, <2>1
    <2>2. CASE g # p + 1
      <3>1. g <= p
        BY <1>4, <2>2, Constants
      <3> QED
        BY <1>1, <1>3, <3>1 DEF InOrder
    <2> QED
      BY <2>1, <2>2
  <1>7. \A i \in DOMAIN r : r[i].kind = "ReadState" =>
          /\ b <= r[i].gen
          /\ \A j \in DOMAIN r : j < i /\ r[j].kind = "Switching" => r[j].gen <= r[i].gen
    BY <1>1, <1>2, <1>3 DEF InOrder
  <1>8. \A i \in DOMAIN r : r[i].gen <= p + 1 /\ (r[i].kind = "Switching" => b < r[i].gen)
    BY <1>1, <1>2, <1>4 DEF InOrder
  <1>9. InOrder(b, p + 1, r)
    BY <1>4, <1>5, <1>6, <1>7, <1>8 DEF InOrder
  <1> QED
    BY <1>9 DEF r

\* At the head of the queue the order says which community an event is of.
LEMMA HeadInOrder ==
  ASSUME NEW b \in Gens, NEW p \in Gens, NEW q \in Seq(Events), q # <<>>, InOrder(b, p, q),
         NEW e, e = Head(q), NEW c, c = IF e.kind = "Switching" THEN e.gen ELSE b
  PROVE  /\ InOrder(c, p, Tail(q))
         /\ e.kind = "ReadState" => e.gen = b
         /\ e.kind # "Switching" => e.gen <= b
         /\ e.kind = "Switching" => b < e.gen
  <1> DEFINE r == Tail(q)
  <1>1. /\ e = q[1] /\ 1 \in DOMAIN q /\ e \in Events
        /\ DOMAIN r = 1..Len(q) - 1 /\ DOMAIN q = 1..Len(q) /\ Len(q) \in Nat
        /\ \A i \in DOMAIN r : r[i] = q[i + 1]
    BY TailOf
  <1>2. \A i \in DOMAIN r : i + 1 \in DOMAIN q /\ i \in Nat /\ 1 < i + 1
    BY <1>1
  <1>3. \A i \in DOMAIN q : i = 1 \/ (i - 1 \in DOMAIN r /\ r[i - 1] = q[i] /\ 1 < i)
    BY <1>1
  <1>4. b \in Nat /\ p \in Nat /\ e.gen \in Gens /\ e.gen \in Nat /\ \A i \in DOMAIN q : q[i].gen \in Nat
    BY <1>1, Constants, EventGens
  <1> HIDE DEF r
  <1>5. \A i \in DOMAIN q : e.kind = "Switching" /\ q[i].kind = "Switching" /\ i # 1 => e.gen < q[i].gen
    BY <1>1, <1>3 DEF InOrder
  <1>6. e.kind = "Switching" => b < e.gen
    BY <1>1 DEF InOrder
  <1>7. e.kind # "Switching" => e.gen <= b
    <2> SUFFICES ASSUME e.kind # "Switching", ~(e.gen <= b)
                 PROVE  FALSE
      OBVIOUS
    <2>1. b < e.gen /\ e.gen <= p
      BY <1>1, <1>4 DEF InOrder
    <2>2. PICK i \in DOMAIN q : q[i].kind = "Switching" /\ q[i].gen = e.gen
      BY <1>4, <2>1 DEF InOrder
    <2>3. 1 < i
      BY <1>1, <1>3, <2>2
    <2>4. e.gen < e.gen
      BY <1>1, <2>2, <2>3 DEF InOrder
    <2> QED
      BY <1>4, <2>4
  <1>8. e.kind = "ReadState" => e.gen = b
    BY <1>1, <1>4, <1>7 DEF InOrder
  <1>9. \A i, j \in DOMAIN r : i < j /\ r[j].kind = "Switching" => r[i].gen < r[j].gen
    <2> SUFFICES ASSUME NEW i \in DOMAIN r, NEW j \in DOMAIN r, i < j, r[j].kind = "Switching"
                 PROVE  r[i].gen < r[j].gen
      OBVIOUS
    <2>1. i + 1 < j + 1 /\ i + 1 \in DOMAIN q /\ j + 1 \in DOMAIN q
      BY <1>2
    <2> QED
      BY <1>1, <2>1 DEF InOrder
  <1>10. \A g \in Gens : c < g /\ g <= p => \E i \in DOMAIN r : r[i].kind = "Switching" /\ r[i].gen = g
    <2> SUFFICES ASSUME NEW g \in Gens, c < g, g <= p
                 PROVE  \E i \in DOMAIN r : r[i].kind = "Switching" /\ r[i].gen = g
      OBVIOUS
    <2>1. b < g
      BY <1>4, <1>6, Constants
    <2>2. PICK i \in DOMAIN q : q[i].kind = "Switching" /\ q[i].gen = g
      BY <2>1 DEF InOrder
    <2>3. i # 1
      BY <1>1, <1>4, <2>2, Constants
    <2> QED
      BY <1>3, <2>2, <2>3
  <1>11. \A i \in DOMAIN r : r[i].kind = "ReadState" =>
          /\ c <= r[i].gen
          /\ \A j \in DOMAIN r : j < i /\ r[j].kind = "Switching" => r[j].gen <= r[i].gen
    <2> SUFFICES ASSUME NEW i \in DOMAIN r, r[i].kind = "ReadState"
                 PROVE  /\ c <= r[i].gen
                        /\ \A j \in DOMAIN r : j < i /\ r[j].kind = "Switching" => r[j].gen <= r[i].gen
      OBVIOUS
    <2>1. i + 1 \in DOMAIN q /\ r[i] = q[i + 1] /\ 1 < i + 1
      BY <1>1, <1>2
    <2>2. c <= r[i].gen
      BY <1>1, <2>1 DEF InOrder
    <2>3. ASSUME NEW j \in DOMAIN r, j < i, r[j].kind = "Switching"
          PROVE  r[j].gen <= r[i].gen
      <3>1. j + 1 < i + 1 /\ j + 1 \in DOMAIN q /\ r[j] = q[j + 1]
        BY <1>1, <1>2, <2>3
      <3> QED
        BY <2>1, <2>3, <3>1 DEF InOrder
    <2> QED
      BY <2>2, <2>3
  <1>12. \A i \in DOMAIN r : r[i].gen <= p /\ (r[i].kind = "Switching" => c < r[i].gen)
    <2> SUFFICES ASSUME NEW i \in DOMAIN r
                 PROVE  r[i].gen <= p /\ (r[i].kind = "Switching" => c < r[i].gen)
      OBVIOUS
    <2>1. i + 1 \in DOMAIN q /\ r[i] = q[i + 1] /\ i + 1 # 1
      BY <1>1, <1>2
    <2> QED
      BY <1>5, <2>1 DEF InOrder
  <1>13. c <= p
    BY <1>1 DEF InOrder
  <1>14. InOrder(c, p, r)
    BY <1>9, <1>10, <1>11, <1>12, <1>13 DEF InOrder
  <1> QED
    BY <1>6, <1>7, <1>8, <1>14 DEF r

LEMMA BaseGen ==
  ASSUME Typed
  PROVE  base.gen \in Gens /\ pump.gen \in Gens /\ events \in Seq(Events)
  BY DEF Typed, ViewsTyped, QueuesTyped, Apps

\* What a step of the pump or of a feed tells, besides switches and markers.

\* What the event task does to every App.
LEMMA Delivered ==
  ASSUME Typed, Deliver
  PROVE  /\ UNCHANGED <<page, closed, carry, sent, asked, shown, commands, pump, feeds, slot, posted, written>>
         /\ events # <<>> /\ events' = Tail(events) /\ DOMAIN views' = DOMAIN views
         /\ \E e \in Events :
              /\ e = Head(events) /\ e = events[1] /\ 1 \in DOMAIN events
              /\ base'.gen = IF e.kind = "Switching" THEN e.gen ELSE base.gen
              /\ active' = IF CurrentConnected(e) THEN {base.gen} ELSE active
              /\ base'.marked = CASE e.kind = "Switching" -> NoRows
                                  [] e.kind = "ReadState" -> Raise(base.marked, e.reads)
                                  [] OTHER -> base.marked
              /\ \A s \in DOMAIN views :
                   /\ views'[s].marked = CASE e.kind = "Switching" -> NoRows
                                           [] e.kind = "ReadState" -> Raise(views[s].marked, e.reads)
                                           [] OTHER -> views[s].marked
                   /\ views'[s].pending = CASE e.kind = "Switching" -> {}
                                            [] e.kind = "Written" -> views[s].pending \ {e.op}
                                            [] OTHER -> views[s].pending
  <1>0. ViewsTyped /\ QueuesTyped
    BY DEF Typed
  <1>1. UNCHANGED <<page, closed, carry, sent, asked, shown, commands, pump, feeds, slot, posted, written>>
    BY DEF Deliver, session
  <1>2. events # <<>> /\ events' = Tail(events) /\ events \in Seq(Events)
    BY <1>0 DEF Deliver, QueuesTyped
  <1>3. PICK e \in Events : e = Head(events) /\ e = events[1] /\ 1 \in DOMAIN events
    BY <1>2, TailOf
  <1>4. e.kind = "Live" => e.row # <<>>
    BY <1>0, <1>3 DEF QueuesTyped
  <1>5. /\ base' = Apply(base, e)
        /\ views' = [s \in DOMAIN views |-> Apply(views[s], e)]
        /\ active' = IF CurrentConnected(e) THEN {base.gen} ELSE active
    BY <1>3 DEF Deliver
  <1>6. base \in Apps /\ \A s \in DOMAIN views : views[s] \in Apps
    BY <1>0 DEF ViewsTyped
  <1>7. /\ base'.gen = IF e.kind = "Switching" THEN e.gen ELSE base.gen
        /\ base'.marked = CASE e.kind = "Switching" -> NoRows
                            [] e.kind = "ReadState" -> Raise(base.marked, e.reads)
                            [] OTHER -> base.marked
    BY <1>4, <1>5, <1>6, ApplyDoes
  <1>8. ASSUME NEW s \in DOMAIN views
        PROVE  /\ views'[s].marked = CASE e.kind = "Switching" -> NoRows
                                       [] e.kind = "ReadState" -> Raise(views[s].marked, e.reads)
                                       [] OTHER -> views[s].marked
               /\ views'[s].pending = CASE e.kind = "Switching" -> {}
                                        [] e.kind = "Written" -> views[s].pending \ {e.op}
                                        [] OTHER -> views[s].pending
    <2>1. views'[s] = Apply(views[s], e) /\ views[s] \in Apps
      BY <1>5, <1>6
    <2> QED
      BY <1>4, <2>1, ApplyDoes
  <1>9. DOMAIN views' = DOMAIN views
    BY <1>5
  <1> QED
    BY <1>1, <1>2, <1>3, <1>5, <1>7, <1>8, <1>9

LEMMA OrderedStep ==
  ASSUME Typed, Ordered, [Next]_vars
  PROVE  Ordered'
  <1>0. ViewsTyped /\ QueuesTyped /\ HistoriesTyped /\ Counted
    BY DEF Typed
  <1>1. base.gen \in Gens /\ pump.gen \in Gens /\ events \in Seq(Events) /\ InOrder(base.gen, pump.gen, events)
    BY <1>0 DEF ViewsTyped, QueuesTyped, Apps, Ordered
  <1>2. CASE UNCHANGED <<base, events>> /\ pump'.gen = pump.gen
    BY <1>1, <1>2 DEF Ordered
  <1>3. ASSUME base' = base, pump'.gen = pump.gen, NEW e \in Events, e.kind # "Switching",
               e.gen <= pump.gen, e.kind = "ReadState" => e.gen = pump.gen, events' = events \o <<e>>
        PROVE  Ordered'
    BY <1>1, <1>3, AppendInOrder DEF Ordered
  <1>4. pump.gen <= pump.gen
    <2>1. pump.gen \in Nat
      BY <1>1, Constants
    <2> QED
      BY <2>1
  <1>5. CASE Quiet
    BY <1>2, <1>5, QuietKeeps DEF session
  <1>6. CASE \E t \in Tabs : Handler(t)
    BY <1>0, <1>2, <1>6, HandlersTyped DEF session
  <1>7. CASE Deliver
    <2>1. PICK e \in Events : /\ e = Head(events) /\ pump' = pump /\ events # <<>> /\ events' = Tail(events)
                              /\ base'.gen = IF e.kind = "Switching" THEN e.gen ELSE base.gen
      BY <1>7, Delivered
    <2> QED
      BY <1>1, <2>1, HeadInOrder DEF Ordered
  <1>8. CASE SendCommand
    BY <1>2, <1>8 DEF SendCommand, server
  <1>9. CASE TakeRead
    <2>1. UNCHANGED <<base, events>> /\ pump'.gen = pump.gen
      BY <1>0, <1>9 DEF TakeRead, Pump, server, QueuesTyped
    <2> QED
      BY <1>2, <2>1
  <1>10. CASE PublishRead
    <2>1. base' = base /\ pump'.gen = pump.gen
      BY <1>0, <1>10, PublishReadTells
    <2>2. events' = events \/ \E r \in Events : r.kind = "ReadState" /\ r.gen = pump.gen /\ events' = events \o <<r>>
      BY <1>0, <1>10, PublishReadTells
    <2> QED
      BY <1>2, <1>3, <1>4, <2>1, <2>2
  <1>11. CASE TakeSend
    <2>1. /\ base' = base /\ pump' = pump
          /\ \E r \in Events : r.kind = "Written" /\ r.gen = pump.gen /\ events' = events \o <<r>>
      BY <1>0, <1>11, TakeSendTells
    <2> QED
      BY <1>3, <1>4, <2>1
  <1>12. CASE TakeCreate
    <2>1. /\ base' = base /\ pump' = pump
          /\ \E r \in Events : r.kind = "Created" /\ r.gen = pump.gen /\ events' = events \o <<r>>
      BY <1>0, <1>12, TakeCreateTells
    <2> QED
      BY <1>3, <1>4, <2>1
  <1>13. CASE TakeSwitch
    <2>1. base' = base /\ pump.gen + 1 \in Gens /\ pump'.gen = pump.gen + 1
      BY <1>0, <1>13, TakeSwitchTells
    <2>2. PICK e \in Events :
            /\ e.kind = "Switching" /\ e.gen = pump.gen + 1
            /\ \/ events' = events \o <<e>>
               \/ \E r \in Events : /\ r.kind = "ReadState" /\ r.gen = pump.gen
                                    /\ events' = (events \o <<r>>) \o <<e>>
      BY <1>0, <1>13, TakeSwitchTells
    <2>3. CASE events' = events \o <<e>>
      BY <1>1, <2>1, <2>2, <2>3, SwitchInOrder DEF Ordered
    <2>4. ASSUME NEW r \in Events, r.kind = "ReadState", r.gen = pump.gen, events' = (events \o <<r>>) \o <<e>>
          PROVE  Ordered'
      <3>1. InOrder(base.gen, pump.gen, events \o <<r>>)
        BY <1>1, <1>4, <2>4, AppendInOrder
      <3>2. events \o <<r>> \in Seq(Events)
        BY <1>1, ToldOne
      <3>3. InOrder(base.gen, pump.gen + 1, (events \o <<r>>) \o <<e>>)
        BY <1>1, <2>2, <3>1, <3>2, SwitchInOrder
      <3> QED
        BY <2>1, <2>4, <3>3 DEF Ordered
    <2> QED
      BY <2>2, <2>3, <2>4
  <1>14. ASSUME NEW g \in Gens, Connect(g)
         PROVE  Ordered'
    <2>1. /\ base' = base /\ pump' = pump /\ g <= pump.gen
          /\ \E r \in Events : r.kind = "Connected" /\ r.gen = g /\ events' = events \o <<r>>
      BY <1>0, <1>14, ConnectTells
    <2> QED
      BY <1>3, <2>1
  <1>15. ASSUME NEW g \in Gens, Live(g)
         PROVE  Ordered'
    <2>1. /\ base' = base /\ pump' = pump /\ g <= pump.gen
          /\ \E r \in Events : r.kind = "Live" /\ r.gen = g /\ events' = events \o <<r>>
      BY <1>0, <1>15, LiveTells
    <2> QED
      BY <1>3, <2>1
  <1> QED
    BY StepsAre, <1>5, <1>6, <1>7, <1>8, <1>9, <1>10, <1>11, <1>12, <1>13, <1>14, <1>15 DEF Elsewhere

-----------------------------------------------------------------------------
(* What an event says, and the connections.                                  *)

\* An event told in this step says what its own step made true.
Says(e) ==
  /\ e.kind = "Connected" => feeds'[e.gen]
  /\ e.kind = "ReadState" => e.reads = slot'[e.gen]

\* Every event of the queue was in it before, or is told in this step.
EventsAre == \A i \in DOMAIN events' : (\E j \in DOMAIN events : events'[i] = events[j]) \/ Says(events'[i])

LEMMA OneMore ==
  ASSUME NEW q \in Seq(Events), NEW e \in Events, Says(e),
         \A i \in DOMAIN q : (\E j \in DOMAIN events : q[i] = events[j]) \/ Says(q[i]),
         events' = q \o <<e>>
  PROVE  EventsAre
  <1>1. /\ DOMAIN events' = 1..Len(q) + 1 /\ DOMAIN q = 1..Len(q) /\ Len(q) \in Nat
        /\ events'[Len(q) + 1] = e /\ \A i \in DOMAIN q : events'[i] = q[i]
    BY ToldOne
  <1>2. \A i \in DOMAIN events' : i \in DOMAIN q \/ i = Len(q) + 1
    BY <1>1
  <1> QED
    BY <1>1, <1>2 DEF EventsAre

LEMMA EventsCome ==
  ASSUME Typed, [Next]_vars
  PROVE  EventsAre
  <1>0. ViewsTyped /\ QueuesTyped /\ HistoriesTyped /\ Counted /\ events \in Seq(Events)
        /\ feeds \in [Gens -> BOOLEAN]
    BY DEF Typed, QueuesTyped
  <1>1. CASE UNCHANGED events
    BY <1>1 DEF EventsAre
  <1>2. ASSUME NEW e \in Events, Says(e), events' = events \o <<e>>
        PROVE  EventsAre
    BY <1>0, <1>2, OneMore
  <1>3. CASE Quiet
    BY <1>1, <1>3, QuietKeeps
  <1>4. CASE \E t \in Tabs : Handler(t)
    BY <1>0, <1>1, <1>4, HandlersTyped
  <1>5. CASE Deliver
    <2>1. events # <<>> /\ events' = Tail(events)
      BY <1>5 DEF Deliver
    <2>2. \A i \in DOMAIN events' : events'[i] = events[i + 1] /\ i + 1 \in DOMAIN events
      BY <1>0, <2>1, TailOf
    <2> QED
      BY <2>2 DEF EventsAre
  <1>6. CASE SendCommand \/ TakeRead
    BY <1>1, <1>6 DEF SendCommand, TakeRead
  <1>7. CASE PublishRead
    <2>1. \/ events' = events
          \/ \E r \in Events : /\ r.kind = "ReadState" /\ r.gen = pump.gen /\ r.reads = slot'[pump.gen]
                               /\ events' = events \o <<r>>
      BY <1>0, <1>7, PublishReadTells
    <2> QED
      BY <1>1, <1>2, <2>1 DEF Says
  <1>8. CASE TakeSend
    <2>1. \E e \in Events : e.kind = "Written" /\ events' = events \o <<e>>
      BY <1>0, <1>8, TakeSendTells
    <2> QED
      BY <1>2, <2>1 DEF Says
  <1>9. CASE TakeCreate
    <2>1. \E e \in Events : e.kind = "Created" /\ events' = events \o <<e>>
      BY <1>0, <1>9, TakeCreateTells
    <2> QED
      BY <1>2, <2>1 DEF Says
  <1>10. CASE TakeSwitch
    <2>1. PICK e \in Events :
            /\ e.kind = "Switching"
            /\ \/ events' = events \o <<e>>
               \/ \E r \in Events : /\ r.kind = "ReadState" /\ r.gen = pump.gen /\ r.reads = slot'[pump.gen]
                                    /\ events' = (events \o <<r>>) \o <<e>>
      BY <1>0, <1>10, TakeSwitchTells
    <2>2. Says(e)
      BY <2>1 DEF Says
    <2>3. ASSUME NEW r \in Events, r.kind = "ReadState", r.gen = pump.gen, r.reads = slot'[pump.gen],
                 events' = (events \o <<r>>) \o <<e>>
          PROVE  EventsAre
      <3> DEFINE q == events \o <<r>>
      <3>1. Says(r)
        BY <2>3 DEF Says
      <3>2. /\ q \in Seq(Events) /\ DOMAIN q = 1..Len(events) + 1 /\ DOMAIN events = 1..Len(events)
            /\ Len(events) \in Nat /\ q[Len(events) + 1] = r /\ \A i \in DOMAIN events : q[i] = events[i]
        BY <1>0, ToldOne
      <3>3. \A i \in DOMAIN q : i \in DOMAIN events \/ i = Len(events) + 1
        BY <3>2
      <3>4. \A i \in DOMAIN q : (\E j \in DOMAIN events : q[i] = events[j]) \/ Says(q[i])
        BY <3>1, <3>2, <3>3
      <3>5. events' = q \o <<e>>
        BY <2>3
      <3> HIDE DEF q
      <3> QED
        BY <2>2, <3>2, <3>4, <3>5, OneMore
    <2> QED
      BY <1>2, <2>1, <2>2, <2>3
  <1>11. ASSUME NEW g \in Gens, Connect(g)
         PROVE  EventsAre
    <2>1. /\ feeds' = [feeds EXCEPT ![g] = TRUE]
          /\ \E e \in Events : e.kind = "Connected" /\ e.gen = g /\ events' = events \o <<e>>
      BY <1>0, <1>11, ConnectTells
    <2>2. feeds'[g] = TRUE
      BY <1>0, <2>1
    <2> QED
      BY <1>2, <2>1, <2>2 DEF Says
  <1>12. ASSUME NEW g \in Gens, Live(g)
         PROVE  EventsAre
    <2>1. \E e \in Events : e.kind = "Live" /\ e.gen = g /\ events' = events \o <<e>>
      BY <1>0, <1>12, LiveTells
    <2> QED
      BY <1>2, <2>1 DEF Says
  <1> QED
    BY StepsAre, <1>3, <1>4, <1>5, <1>6, <1>7, <1>8, <1>9, <1>10, <1>11, <1>12 DEF Elsewhere

\* A feed that connected stays so.
LEMMA FeedsStay ==
  ASSUME Typed, [Next]_vars, NEW g \in Gens, feeds[g]
  PROVE  feeds'[g]
  <1>0. ViewsTyped /\ QueuesTyped /\ HistoriesTyped /\ Counted /\ feeds \in [Gens -> BOOLEAN]
    BY DEF Typed, QueuesTyped
  <1>1. CASE Quiet \/ Deliver
    BY <1>1, QuietKeeps DEF session, Deliver
  <1>2. CASE \E t \in Tabs : Handler(t)
    BY <1>0, <1>2, HandlersTyped DEF session
  <1>3. CASE SendCommand \/ PublishRead \/ TakeRead \/ TakeSend \/ TakeCreate \/ TakeSwitch
    BY <1>3 DEF SendCommand, PublishRead, TakeRead, TakeSend, TakeCreate, TakeSwitch
  <1>4. CASE \E h \in Gens : Connect(h) \/ Live(h)
    BY <1>0, <1>4 DEF Connect, Live
  <1> QED
    BY StepsAre, <1>1, <1>2, <1>3, <1>4 DEF Elsewhere

LEMMA ConnectedStep ==
  ASSUME Typed, Ordered, Connected, [Next]_vars
  PROVE  Connected'
  <1>0. ViewsTyped /\ QueuesTyped /\ HistoriesTyped
    BY DEF Typed
  <1>1. /\ \A i \in DOMAIN events : events[i].kind = "Connected" => feeds[events[i].gen]
        /\ \A g \in active : feeds[g] /\ g \in Gens
    BY <1>0 DEF Connected, ActiveIsConnected, ViewsTyped
  <1>2. events \in Seq(Events) /\ \A i \in DOMAIN events : events[i].gen \in Gens
    BY <1>0, EventGens DEF QueuesTyped
  <1>3. \A i \in DOMAIN events' : events'[i].kind = "Connected" => feeds'[events'[i].gen]
    <2> SUFFICES ASSUME NEW i \in DOMAIN events', events'[i].kind = "Connected"
                 PROVE  feeds'[events'[i].gen]
      OBVIOUS
    <2>1. (\E j \in DOMAIN events : events'[i] = events[j]) \/ Says(events'[i])
      BY EventsCome DEF EventsAre
    <2>2. ASSUME NEW j \in DOMAIN events, events'[i] = events[j]
          PROVE  feeds'[events'[i].gen]
      <3>1. feeds[events[j].gen] /\ events[j].gen \in Gens
        BY <1>1, <1>2, <2>2
      <3> QED
        BY <2>2, <3>1, FeedsStay
    <2> QED
      BY <2>1, <2>2 DEF Says
  <1>4. CASE active' = active
    <2>1. \A g \in active' : feeds'[g]
      BY <1>1, <1>4, FeedsStay
    <2> QED
      BY <1>3, <2>1 DEF Connected, ActiveIsConnected
  <1>5. CASE Deliver
    <2>1. PICK e \in Events : /\ e = Head(events) /\ e = events[1] /\ 1 \in DOMAIN events /\ events # <<>>
                              /\ active' = IF CurrentConnected(e) THEN {base.gen} ELSE active
      BY <1>5, Delivered
    <2>2. CASE CurrentConnected(e)
      <3>1. base.gen \in Gens /\ pump.gen \in Gens
        BY BaseGen
      <3>2. e.kind = "Connected" /\ e.gen >= base.gen /\ e.gen \in Gens
        BY <2>2, <1>2, <2>1 DEF CurrentConnected
      <3> DEFINE c == IF e.kind = "Switching" THEN e.gen ELSE base.gen
      <3>3. e.kind # "Switching" => e.gen <= base.gen
        <4>1. c = IF e.kind = "Switching" THEN e.gen ELSE base.gen
          OBVIOUS
        <4> HIDE DEF c
        <4> QED
          BY <1>2, <2>1, <3>1, <4>1, HeadInOrder DEF Ordered
      <3>4. e.gen = base.gen
        <4>1. e.gen \in Nat /\ base.gen \in Nat
          BY <3>1, <3>2, Constants
        <4> QED
          BY <3>2, <3>3, <4>1
      <3>5. feeds[base.gen]
        BY <1>1, <2>1, <3>2, <3>4
      <3>6. feeds'[base.gen]
        BY <3>1, <3>5, FeedsStay
      <3> QED
        BY <1>3, <2>1, <2>2, <3>6 DEF Connected, ActiveIsConnected
    <2> QED
      BY <1>4, <2>1, <2>2
  <1>6. CASE Quiet
    BY <1>4, <1>6 DEF Quiet, Bootstrap, FirstRequest, Refresh, Close, vars, server
  <1>7. CASE Elsewhere
    BY <1>4, <1>7, ElsewhereKeeps DEF server
  <1>8. CASE \E t \in Tabs : Handler(t)
    BY <1>0, <1>4, <1>8, HandlersTyped
  <1> QED
    BY StepsAre, <1>5, <1>6, <1>7, <1>8

-----------------------------------------------------------------------------
(* Read markers.                                                             *)

\* The same as Below, after the step.
Drawn(rows, g) == \A c \in Channels : rows[c] <= shown'[g][c]

\* What was drawn stays drawn.
LEMMA ShownGrows ==
  ASSUME Typed, [Next]_vars, NEW g \in Gens, NEW c \in Channels
  PROVE  shown[g][c] \in Nat /\ shown'[g][c] \in Nat /\ shown[g][c] <= shown'[g][c]
  <1>0. ViewsTyped /\ QueuesTyped /\ HistoriesTyped
    BY DEF Typed
  <1>1. shown[g][c] \in Nat
    BY <1>0, Constants DEF HistoriesTyped
  <1>2. CASE UNCHANGED shown
    BY <1>1, <1>2
  <1>3. ASSUME NEW t \in Tabs, Refresh(t)
        PROVE  shown'[g][c] \in Nat /\ shown[g][c] <= shown'[g][c]
    <2> DEFINE v == views[t]
               drawn == [NoRows EXCEPT ![v.sel] = v.latest[v.sel]]
    <2>1. v \in Apps
      BY <1>0, <1>3 DEF Refresh, Requests, ViewsTyped
    <2>2. drawn \in [Channels -> Rows]
      BY <2>1, Constants DEF Apps
    <2>3. \/ UNCHANGED shown
          \/ shown' = [h \in Gens |-> IF h = v.gen THEN Raise(shown[h], drawn) ELSE shown[h]]
      BY <1>3 DEF Refresh
    <2> HIDE DEF v, drawn
    <2>4. drawn[c] \in Nat
      BY <2>2, Constants
    <2>5. Raise(shown[g], drawn)[c] \in Nat /\ shown[g][c] <= Raise(shown[g], drawn)[c]
      BY <1>1, <2>4 DEF Raise
    <2> QED
      BY <1>1, <2>3, <2>5
  <1>4. CASE Bootstrap \/ (\E t \in Tabs : FirstRequest(t) \/ Close(t)) \/ UNCHANGED vars \/ Deliver
    BY <1>2, <1>4 DEF Bootstrap, FirstRequest, Close, vars, Deliver
  <1>5. CASE Elsewhere
    BY <1>2, <1>5, ElsewhereKeeps
  <1>6. CASE \E t \in Tabs : Handler(t)
    BY <1>0, <1>2, <1>6, HandlersTyped
  <1> QED
    BY StepsAre, <1>1, <1>3, <1>4, <1>5, <1>6 DEF Quiet

LEMMA DrawnStays ==
  ASSUME Typed, [Next]_vars, NEW rows \in [Channels -> Rows], NEW g \in Gens, Below(rows, g)
  PROVE  Drawn(rows, g)
  <1> SUFFICES ASSUME NEW c \in Channels
               PROVE  rows[c] <= shown'[g][c]
    BY DEF Drawn
  <1>1. rows[c] \in Nat /\ rows[c] <= shown[g][c]
    BY Constants DEF Below
  <1>2. shown[g][c] \in Nat /\ shown'[g][c] \in Nat /\ shown[g][c] <= shown'[g][c]
    BY ShownGrows
  <1> QED
    BY <1>1, <1>2

\* Nothing was read of a community that was not looked at.
LEMMA NothingDrawn ==
  ASSUME Typed, [Next]_vars, NEW g \in Gens
  PROVE  Drawn(NoRows, g)
  <1>1. \A c \in Channels : NoRows[c] = 0 /\ shown'[g][c] \in Nat
    BY ShownGrows DEF NoRows
  <1>2. \A c \in Channels : NoRows[c] <= shown'[g][c]
    BY <1>1
  <1> QED
    BY <1>2 DEF Drawn

LEMMA RaiseDrawn ==
  ASSUME NEW a \in [Channels -> Rows], NEW b \in [Channels -> Rows], NEW g, Drawn(a, g), Drawn(b, g)
  PROVE  Drawn(Raise(a, b), g)
  BY DEF Drawn, Raise

\* A claim is of rows and of a community.
LEMMA ClaimOf ==
  ASSUME NEW d \in Command
  PROVE  d.reads \in Claim /\ d.reads.gen \in Gens /\ d.reads.rows \in [Channels -> Rows]
  BY DEF Command, Claim

\* What a handler claims to be read was drawn by its page, and its view knows it.
LEMMA HandlersClaim ==
  ASSUME Typed, Marked, NEW t \in Tabs, Handler(t)
  PROVE  /\ Below(views'[t].marked, base.gen)
         /\ \A d \in carry' : Below(d.reads.rows, d.reads.gen)
  <1> USE DEF Handled
  <1>0. ViewsTyped /\ QueuesTyped /\ HistoriesTyped
    BY DEF Typed
  <1>1. /\ t \in DOMAIN views /\ views[t] \in Apps /\ views[t].gen = base.gen
        /\ Below(views[t].marked, base.gen) /\ \A d \in carry : Below(d.reads.rows, d.reads.gen)
    BY <1>0, HandlersTyped DEF ViewsTyped, Marked
  <1>2. Below(NoRead.rows, NoRead.gen)
    <2>1. \A c \in Channels : shown[0][c] \in Nat
      BY <1>0, Constants DEF HistoriesTyped
    <2>2. \A c \in Channels : 0 <= shown[0][c]
      BY <2>1
    <2> QED
      BY <2>2 DEF Below, NoRead, NoRows
  <1>3. ASSUME NEW view, NEW d, Handled(t, view, {d}) \/ Handled(t, view, {}),
               view.marked = views[t].marked, d.reads = NoRead
        PROVE  /\ Below(views'[t].marked, base.gen)
               /\ \A e \in carry' : Below(e.reads.rows, e.reads.gen)
    <2>1. views'[t] = view /\ carry' \subseteq carry \union {d}
      BY <1>0, <1>1, <1>3 DEF ViewsTyped
    <2> QED
      BY <1>1, <1>2, <1>3, <2>1
  <1>4. CASE Select(t)
    <2>1. PICK c \in Channels : Handled(t, [views[t] EXCEPT !.sel = c], {})
      BY <1>4 DEF Select
    <2>2. [views[t] EXCEPT !.sel = c].marked = views[t].marked /\ Do("Send", 0).reads = NoRead
      BY <1>1 DEF Apps, Do
    <2> QED
      BY <1>3, <2>1, <2>2
  <1>5. CASE Send(t)
    <2>1. PICK o \in Messages : Handled(t, [views[t] EXCEPT !.pending = @ \union {o}], {Do("Send", o)})
      BY <1>5 DEF Send
    <2>2. [views[t] EXCEPT !.pending = @ \union {o}].marked = views[t].marked /\ Do("Send", o).reads = NoRead
      BY <1>1 DEF Apps, Do
    <2> QED
      BY <1>3, <2>1, <2>2
  <1>6. CASE SubmitCreation(t)
    <2> DEFINE n == views[t].requests + 1
    <2>1. PICK o \in Creations :
            Handled(t, [views[t] EXCEPT !.creating = [request |-> n, op |-> o], !.requests = n],
                    {[Do("Create", o) EXCEPT !.request = n]})
      BY <1>6 DEF SubmitCreation
    <2> HIDE DEF n
    <2>2. /\ [views[t] EXCEPT !.creating = [request |-> n, op |-> o], !.requests = n].marked = views[t].marked
          /\ [Do("Create", o) EXCEPT !.request = n].reads = NoRead
      BY <1>1 DEF Apps, Do
    <2> QED
      BY <1>3, <2>1, <2>2
  <1>7. CASE SwitchProfile(t)
    <2>1. Handled(t, views[t], {Do("Switch", asked)})
      BY <1>7 DEF SwitchProfile
    <2>2. Do("Switch", asked).reads = NoRead
      BY DEF Do
    <2> QED
      BY <1>3, <2>1, <2>2
  <1>8. CASE Presented(t)
    <2> DEFINE v == views[t]
               marked == [v.marked EXCEPT ![v.sel] = v.latest[v.sel]]
               d == [Do("Read", 0) EXCEPT !.reads = [gen |-> v.gen, rows |-> marked]]
    <2>1. Handled(t, [v EXCEPT !.marked = marked], {d}) /\ page[t].row = <<v.gen, v.sel, v.latest[v.sel]>>
      BY <1>8 DEF Presented
    <2>2. v.sel \in Channels /\ v.marked \in [Channels -> Rows]
      BY <1>1 DEF Apps
    <2>3. v.latest[v.sel] <= shown[base.gen][v.sel]
      <3>1. page[t].row # <<>> /\ page[t].row[1] = v.gen /\ page[t].row[2] = v.sel /\ page[t].row[3] = v.latest[v.sel]
        BY <2>1
      <3> QED
        BY <1>1, <3>1 DEF Marked
    <2>4. Below(marked, base.gen)
      BY <1>1, <2>2, <2>3 DEF Below
    <2>5. d.reads = [gen |-> v.gen, rows |-> marked]
      BY DEF Do
    <2>6. d.reads.gen = base.gen /\ d.reads.rows = marked
      BY <1>1, <2>5
    <2>7. [v EXCEPT !.marked = marked].marked = marked
      BY <1>1 DEF Apps
    <2>8. views'[t] = [v EXCEPT !.marked = marked] /\ carry' = carry \union {d}
      BY <1>0, <1>1, <2>1 DEF ViewsTyped
    <2> HIDE DEF v, marked, d
    <2> QED
      BY <1>1, <2>4, <2>6, <2>7, <2>8
  <1> QED
    BY <1>4, <1>5, <1>6, <1>7, <1>8 DEF Handler

\* What a page shows was drawn: by this refresh, or before.
LEMMA PagesStep ==
  ASSUME Typed, Marked, [Next]_vars, NEW t \in Tabs, page'[t].row # <<>>
  PROVE  page'[t].row[3] <= shown'[page'[t].row[1]][page'[t].row[2]]
  <1>0. ViewsTyped /\ QueuesTyped /\ HistoriesTyped
    BY DEF Typed
  <1>1. ASSUME page'[t] = page[t]
        PROVE  page'[t].row[3] <= shown'[page'[t].row[1]][page'[t].row[2]]
    <2>1. page[t].row # <<>> /\ page[t].row[3] <= shown[page[t].row[1]][page[t].row[2]]
      BY <1>1 DEF Marked
    <2>2. page[t] \in Pages
      BY <1>0 DEF HistoriesTyped
    <2>3. page[t].row \in Gens \X Channels \X Rows
      BY <2>1, <2>2 DEF Pages
    <2>4. page[t].row[1] \in Gens /\ page[t].row[2] \in Channels /\ page[t].row[3] \in Nat
      BY <2>3, Constants
    <2>5. /\ shown[page[t].row[1]][page[t].row[2]] <= shown'[page[t].row[1]][page[t].row[2]]
          /\ shown[page[t].row[1]][page[t].row[2]] \in Nat /\ shown'[page[t].row[1]][page[t].row[2]] \in Nat
      BY <2>4, ShownGrows
    <2> QED
      BY <1>1, <2>1, <2>4, <2>5
  <1>2. ASSUME NEW u \in Tabs, Refresh(u)
        PROVE  page'[t].row[3] <= shown'[page'[t].row[1]][page'[t].row[2]]
    <2> DEFINE v == views[u]
               row == IF v.latest[v.sel] = 0 THEN <<>> ELSE <<v.gen, v.sel, v.latest[v.sel]>>
               drawn == [NoRows EXCEPT ![v.sel] = v.latest[v.sel]]
    <2>1. v \in Apps
      BY <1>0, <1>2 DEF Refresh, Requests, ViewsTyped
    <2>2. \/ page' = [page EXCEPT ![u] = Hidden]
          \/ /\ page' = [page EXCEPT ![u] = [visible |-> TRUE, row |-> row]]
             /\ shown' = [g \in Gens |-> IF g = v.gen THEN Raise(shown[g], drawn) ELSE shown[g]]
      BY <1>2 DEF Refresh
    <2>3. v.gen \in Gens /\ v.sel \in Channels /\ v.latest[v.sel] \in Nat /\ drawn[v.sel] = v.latest[v.sel]
      BY <2>1, Constants DEF Apps, NoRows
    <2>4. row # <<>> => row[1] = v.gen /\ row[2] = v.sel /\ row[3] = v.latest[v.sel]
      OBVIOUS
    <2> HIDE DEF v, row, drawn
    <2>5. CASE t # u
      <3>1. page'[t] = page[t]
        BY <1>0, <2>2, <2>5 DEF HistoriesTyped
      <3> QED
        BY <1>1, <3>1
    <2>6. CASE t = u /\ page' = [page EXCEPT ![u] = Hidden]
      <3>1. page'[t].row = <<>>
        BY <1>0, <2>6 DEF HistoriesTyped, Hidden
      <3> QED
        BY <3>1
    <2>7. CASE /\ t = u /\ page' = [page EXCEPT ![u] = [visible |-> TRUE, row |-> row]]
               /\ shown' = [g \in Gens |-> IF g = v.gen THEN Raise(shown[g], drawn) ELSE shown[g]]
      <3>1. page'[t].row = row
        BY <1>0, <2>7 DEF HistoriesTyped
      <3>2. shown'[v.gen][v.sel] = Raise(shown[v.gen], drawn)[v.sel]
        BY <2>3, <2>7
      <3>3. shown[v.gen][v.sel] \in Nat
        BY <2>3, ShownGrows
      <3>4. v.latest[v.sel] <= Raise(shown[v.gen], drawn)[v.sel]
        BY <2>3, <3>3 DEF Raise
      <3> QED
        BY <2>4, <3>1, <3>2, <3>4
    <2> QED
      BY <2>2, <2>5, <2>6, <2>7
  <1>3. ASSUME NEW u \in Tabs, Close(u)
        PROVE  page'[t].row[3] <= shown'[page'[t].row[1]][page'[t].row[2]]
    <2>1. page' = [page EXCEPT ![u] = Hidden] /\ page \in [Tabs -> Pages]
      BY <1>0, <1>3 DEF Close, HistoriesTyped
    <2>2. t = u => page'[t].row = <<>>
      BY <2>1 DEF Hidden
    <2>3. t # u => page'[t] = page[t]
      BY <2>1
    <2> QED
      BY <1>1, <2>2, <2>3
  <1>4. CASE Bootstrap \/ (\E u \in Tabs : FirstRequest(u)) \/ UNCHANGED vars \/ Deliver
    BY <1>1, <1>4 DEF Bootstrap, FirstRequest, vars, Deliver
  <1>5. CASE Elsewhere
    BY <1>1, <1>5, ElsewhereKeeps
  <1>6. CASE \E u \in Tabs : Handler(u)
    BY <1>0, <1>1, <1>6, HandlersTyped
  <1> QED
    BY StepsAre, <1>2, <1>3, <1>4, <1>5, <1>6 DEF Quiet

\* The relay's marker takes a claim of its own community.
LEMMA SlotsStep ==
  ASSUME Typed, Marked, [Next]_vars, NEW g \in Gens
  PROVE  Drawn(slot'[g], g)
  <1>0. ViewsTyped /\ QueuesTyped /\ HistoriesTyped /\ Counted
    BY DEF Typed
  <1>1. slot[g] \in [Channels -> Rows] /\ Below(slot[g], g)
    BY <1>0 DEF HistoriesTyped, Marked
  <1>2. CASE UNCHANGED slot
    BY <1>1, <1>2, DrawnStays
  <1>3. ASSUME slot' = [slot EXCEPT ![pump.gen] = slot'[pump.gen]],
               slot'[pump.gen] = IF pump.read.gen = pump.gen THEN Raise(slot[pump.gen], pump.read.rows)
                                 ELSE slot[pump.gen]
        PROVE  Drawn(slot'[g], g)
    <2>1. pump.read.rows \in [Channels -> Rows] /\ pump.read.gen \in Gens /\ Below(pump.read.rows, pump.read.gen)
      BY <1>0 DEF QueuesTyped, Claim, Marked
    <2>2. CASE g = pump.gen /\ pump.read.gen = pump.gen
      <3>1. Drawn(slot[g], g) /\ Drawn(pump.read.rows, g)
        BY <1>1, <2>1, <2>2, DrawnStays
      <3>2. slot'[g] = Raise(slot[g], pump.read.rows)
        BY <1>3, <2>2
      <3> QED
        BY <1>1, <2>1, <3>1, <3>2, RaiseDrawn
    <2>3. CASE ~(g = pump.gen /\ pump.read.gen = pump.gen)
      <3>1. slot'[g] = slot[g]
        BY <1>0, <1>3, <2>3 DEF HistoriesTyped
      <3> QED
        BY <1>1, <3>1, DrawnStays
    <2> QED
      BY <2>2, <2>3
  <1>4. CASE PublishRead
    BY <1>0, <1>2, <1>3, <1>4, PublishReadTells
  <1>5. CASE TakeSwitch
    BY <1>0, <1>2, <1>3, <1>5, TakeSwitchTells
  <1>6. CASE SendCommand \/ TakeRead \/ TakeSend \/ TakeCreate \/ \E h \in Gens : Connect(h) \/ Live(h)
    BY <1>2, <1>6 DEF SendCommand, TakeRead, TakeSend, TakeCreate, Connect, Live
  <1>7. CASE Quiet \/ Deliver
    BY <1>2, <1>7, QuietKeeps DEF Deliver, session
  <1>8. CASE \E t \in Tabs : Handler(t)
    BY <1>0, <1>2, <1>8, HandlersTyped DEF session
  <1> QED
    BY StepsAre, <1>4, <1>5, <1>6, <1>7, <1>8 DEF Elsewhere

\* The claims on their way to the relay.
LEMMA ClaimsStep ==
  ASSUME Typed, Marked, [Next]_vars
  PROVE  /\ \A d \in carry' : Drawn(d.reads.rows, d.reads.gen)
         /\ \A i \in DOMAIN commands' : Drawn(commands'[i].reads.rows, commands'[i].reads.gen)
         /\ Drawn(pump'.read.rows, pump'.read.gen)
  <1>0. ViewsTyped /\ QueuesTyped /\ HistoriesTyped /\ Counted
    BY DEF Typed
  <1>1. \A d \in carry : Drawn(d.reads.rows, d.reads.gen)
    <2> SUFFICES ASSUME NEW d \in carry
                 PROVE  Drawn(d.reads.rows, d.reads.gen)
      OBVIOUS
    <2>1. d \in Command /\ Below(d.reads.rows, d.reads.gen)
      BY <1>0 DEF QueuesTyped, Marked
    <2> QED
      BY <2>1, ClaimOf, DrawnStays
  <1>2. \A i \in DOMAIN commands : Drawn(commands[i].reads.rows, commands[i].reads.gen)
    <2> SUFFICES ASSUME NEW i \in DOMAIN commands
                 PROVE  Drawn(commands[i].reads.rows, commands[i].reads.gen)
      OBVIOUS
    <2>1. commands \in Seq(Command) /\ Below(commands[i].reads.rows, commands[i].reads.gen)
      BY <1>0 DEF QueuesTyped, Marked
    <2>2. commands[i] \in Command
      BY <2>1
    <2> QED
      BY <2>1, <2>2, ClaimOf, DrawnStays
  <1>3. Drawn(pump.read.rows, pump.read.gen)
    <2>1. pump.read.rows \in [Channels -> Rows] /\ pump.read.gen \in Gens /\ Below(pump.read.rows, pump.read.gen)
      BY <1>0 DEF QueuesTyped, Claim, Marked
    <2> QED
      BY <2>1, DrawnStays
  <1>4. Drawn(NoRead.rows, NoRead.gen)
    BY Constants, NothingDrawn DEF NoRead
  <1>5. ASSUME commands # <<>>, commands' = Tail(commands)
        PROVE  /\ \A i \in DOMAIN commands' : Drawn(commands'[i].reads.rows, commands'[i].reads.gen)
               /\ 1 \in DOMAIN commands /\ Head(commands) = commands[1]
    <2>1. commands \in Seq(Command)
      BY <1>0 DEF QueuesTyped
    <2>2. /\ \A i \in DOMAIN commands' : commands'[i] = commands[i + 1] /\ i + 1 \in DOMAIN commands
          /\ 1 \in DOMAIN commands /\ Head(commands) = commands[1]
      BY <1>5, <2>1, TailOf
    <2> QED
      BY <1>2, <2>2
  <1>6. CASE UNCHANGED <<carry, commands, pump>>
    BY <1>1, <1>2, <1>3, <1>6
  <1>7. CASE Quiet \/ Deliver \/ \E g \in Gens : Connect(g) \/ Live(g)
    BY <1>6, <1>7, QuietKeeps DEF Deliver, session, Connect, Live, Pump
  <1>8. ASSUME NEW t \in Tabs, Handler(t)
        PROVE  /\ \A d \in carry' : Drawn(d.reads.rows, d.reads.gen)
               /\ UNCHANGED <<commands, pump>>
    <2>1. UNCHANGED <<shown, commands, pump>>
      BY <1>0, <1>8, HandlersTyped DEF session
    <2>2. \A d \in carry' : Below(d.reads.rows, d.reads.gen)
      BY <1>8, HandlersClaim
    <2> QED
      BY <2>1, <2>2 DEF Below, Drawn
  <1>9. CASE SendCommand
    <2>1. PICK c \in carry : carry' = carry \ {c} /\ commands' = Append(commands, c)
      BY <1>9 DEF SendCommand
    <2>2. pump' = pump
      BY <1>9 DEF SendCommand
    <2>3. commands \in Seq(Command)
      BY <1>0 DEF QueuesTyped
    <2>4. /\ DOMAIN commands' = 1..Len(commands) + 1 /\ DOMAIN commands = 1..Len(commands) /\ Len(commands) \in Nat
          /\ commands'[Len(commands) + 1] = c /\ \A i \in DOMAIN commands : commands'[i] = commands[i]
      BY <1>0, <2>1, <2>3 DEF QueuesTyped
    <2>5. \A i \in DOMAIN commands' : i \in DOMAIN commands \/ i = Len(commands) + 1
      BY <2>4
    <2>6. Drawn(c.reads.rows, c.reads.gen)
      BY <1>1, <2>1
    <2> QED
      BY <1>1, <1>2, <1>3, <2>1, <2>2, <2>4, <2>5, <2>6
  <1>10. CASE PublishRead
    <2>1. UNCHANGED <<carry, commands>> /\ pump'.read = NoRead
      BY <1>0, <1>10, PublishReadTells
    <2> QED
      BY <1>1, <1>2, <1>4, <2>1
  <1>11. CASE TakeRead
    <2>1. /\ commands # <<>> /\ commands' = Tail(commands) /\ carry' = carry
          /\ pump'.read = Head(commands).reads
      BY <1>0, <1>11 DEF TakeRead, Take, Pump, QueuesTyped
    <2>2. Drawn(pump'.read.rows, pump'.read.gen)
      BY <1>2, <1>5, <2>1
    <2> QED
      BY <1>1, <1>5, <2>1, <2>2
  <1>12. CASE TakeSend
    BY <1>0, <1>1, <1>3, <1>5, <1>12, TakeSendTells
  <1>13. CASE TakeCreate
    BY <1>0, <1>1, <1>3, <1>5, <1>13, TakeCreateTells
  <1>14. CASE TakeSwitch
    <2>1. carry' = carry /\ commands # <<>> /\ commands' = Tail(commands) /\ pump'.read = NoRead
      BY <1>0, <1>14, TakeSwitchTells
    <2> QED
      BY <1>1, <1>4, <1>5, <2>1
  <1>15. CASE \E t \in Tabs : Handler(t)
    BY <1>2, <1>3, <1>8, <1>15
  <1> QED
    BY StepsAre, <1>7, <1>9, <1>10, <1>11, <1>12, <1>13, <1>14, <1>15 DEF Elsewhere

\* What the events say was read.
LEMMA ReadStatesStep ==
  ASSUME Typed, Marked, [Next]_vars, NEW i \in DOMAIN events', events'[i].kind = "ReadState"
  PROVE  Drawn(events'[i].reads, events'[i].gen)
  <1>0. QueuesTyped' /\ QueuesTyped
    BY QueuesStep DEF Typed
  <1>1. events'[i] \in Events /\ events'[i].gen \in Gens
    <2>1. events' \in Seq(Events)
      BY <1>0 DEF QueuesTyped
    <2>2. events'[i] \in Events
      BY <2>1
    <2> QED
      BY <2>2 DEF Events
  <1>2. (\E j \in DOMAIN events : events'[i] = events[j]) \/ Says(events'[i])
    BY EventsCome DEF EventsAre
  <1>3. ASSUME NEW j \in DOMAIN events, events'[i] = events[j]
        PROVE  Drawn(events'[i].reads, events'[i].gen)
    <2>1. Below(events[j].reads, events[j].gen)
      BY <1>3 DEF Marked
    <2>2. events[j] \in Events
      BY <1>1, <1>3
    <2>3. events[j].gen \in Gens /\ events[j].reads \in [Channels -> Rows]
      BY <2>2 DEF Events
    <2> QED
      BY <1>3, <2>1, <2>3, DrawnStays
  <1>4. CASE Says(events'[i])
    <2>1. events'[i].reads = slot'[events'[i].gen]
      BY <1>4 DEF Says
    <2> QED
      BY <1>1, <2>1, SlotsStep
  <1> QED
    BY <1>2, <1>3, <1>4

\* What an App takes for read was drawn in its community.
LEMMA ViewsMarkedStep ==
  ASSUME Typed, Ordered, Marked, [Next]_vars
  PROVE  /\ Drawn(base'.marked, base'.gen)
         /\ \A s \in DOMAIN views' : Drawn(views'[s].marked, base'.gen)
  <1>0. ViewsTyped /\ QueuesTyped /\ HistoriesTyped
    BY DEF Typed
  <1>1. base \in Apps /\ base.gen \in Gens /\ base.marked \in [Channels -> Rows] /\ Drawn(base.marked, base.gen)
    <2>1. base \in Apps
      BY <1>0 DEF ViewsTyped
    <2>2. base.gen \in Gens /\ base.marked \in [Channels -> Rows] /\ Below(base.marked, base.gen)
      BY <2>1 DEF Apps, Marked
    <2> QED
      BY <2>1, <2>2, DrawnStays
  <1>2. ASSUME NEW s \in DOMAIN views
        PROVE  views[s].marked \in [Channels -> Rows] /\ Drawn(views[s].marked, base.gen)
    <2>1. views[s].marked \in [Channels -> Rows] /\ Below(views[s].marked, base.gen)
      BY <1>0, <1>2 DEF ViewsTyped, Apps, Marked
    <2> QED
      BY <1>1, <2>1, DrawnStays
  <1>3. CASE UNCHANGED <<base, views>>
    BY <1>1, <1>2, <1>3
  <1>4. CASE Bootstrap
    <2>1. base' = base /\ views' = [s \in {Cookie} |-> Fork(base)] /\ Fork(base).marked = base.marked
      BY <1>1, <1>4, ForkTyped DEF Bootstrap
    <2> QED
      BY <1>1, <2>1
  <1>5. ASSUME NEW t \in Tabs, FirstRequest(t)
        PROVE  /\ Drawn(base'.marked, base'.gen)
               /\ \A s \in DOMAIN views' : Drawn(views'[s].marked, base'.gen)
    <2>1. /\ base' = base /\ Fork(base).marked = base.marked
          /\ views' = [s \in DOMAIN views \union {t} |-> IF s = t THEN Fork(base) ELSE views[s]]
      BY <1>1, <1>5, ForkTyped DEF FirstRequest
    <2>2. \A s \in DOMAIN views' : views'[s] = Fork(base) \/ (s \in DOMAIN views /\ views'[s] = views[s])
      BY <2>1
    <2> QED
      BY <1>1, <1>2, <2>1, <2>2
  <1>6. ASSUME NEW t \in Tabs, Refresh(t) \/ Close(t)
        PROVE  UNCHANGED <<base, views>>
    BY <1>6 DEF Refresh, Close, server
  <1>7. ASSUME NEW t \in Tabs, Handler(t)
        PROVE  /\ Drawn(base'.marked, base'.gen)
               /\ \A s \in DOMAIN views' : Drawn(views'[s].marked, base'.gen)
    <2>1. /\ base' = base /\ shown' = shown /\ t \in DOMAIN views
          /\ views' = [views EXCEPT ![t] = views'[t]] /\ Below(views'[t].marked, base.gen)
      BY <1>0, <1>7, HandlersTyped, HandlersClaim
    <2>2. Drawn(views'[t].marked, base.gen)
      BY <2>1 DEF Drawn, Below
    <2>3. \A s \in DOMAIN views' : s = t \/ (s \in DOMAIN views /\ views'[s] = views[s])
      BY <2>1
    <2> QED
      BY <1>1, <1>2, <2>1, <2>2, <2>3
  <1>8. CASE Deliver
    <2>1. PICK e \in Events :
            /\ e = Head(events) /\ e = events[1] /\ 1 \in DOMAIN events /\ events # <<>>
            /\ base'.gen = IF e.kind = "Switching" THEN e.gen ELSE base.gen
            /\ base'.marked = CASE e.kind = "Switching" -> NoRows
                                [] e.kind = "ReadState" -> Raise(base.marked, e.reads)
                                [] OTHER -> base.marked
            /\ DOMAIN views' = DOMAIN views
            /\ \A s \in DOMAIN views :
                 views'[s].marked = CASE e.kind = "Switching" -> NoRows
                                      [] e.kind = "ReadState" -> Raise(views[s].marked, e.reads)
                                      [] OTHER -> views[s].marked
      BY <1>8, Delivered
    <2>2. e.gen \in Gens /\ e.reads \in [Channels -> Rows]
      BY DEF Events
    <2>3. CASE e.kind = "Switching"
      <3>1. base'.gen = e.gen /\ base'.marked = NoRows /\ \A s \in DOMAIN views' : views'[s].marked = NoRows
        BY <2>1, <2>3
      <3> QED
        BY <2>2, <3>1, NothingDrawn
    <2>4. CASE e.kind = "ReadState"
      <3> DEFINE c == IF e.kind = "Switching" THEN e.gen ELSE base.gen
      <3>1. e.gen = base.gen
        <4>1. c = IF e.kind = "Switching" THEN e.gen ELSE base.gen
          OBVIOUS
        <4> HIDE DEF c
        <4> QED
          BY <2>1, <2>4, <4>1, BaseGen, HeadInOrder DEF Ordered
      <3>2. Drawn(e.reads, base.gen)
        <4>1. Below(e.reads, e.gen)
          BY <2>1, <2>4 DEF Marked
        <4> QED
          BY <2>2, <3>1, <4>1, DrawnStays
      <3>3. base'.gen = base.gen /\ base'.marked = Raise(base.marked, e.reads)
        BY <2>1, <2>4
      <3>4. \A s \in DOMAIN views' : s \in DOMAIN views /\ views'[s].marked = Raise(views[s].marked, e.reads)
        BY <2>1, <2>4
      <3> QED
        BY <1>1, <1>2, <2>2, <3>2, <3>3, <3>4, RaiseDrawn
    <2>5. CASE e.kind # "Switching" /\ e.kind # "ReadState"
      <3>1. /\ base'.gen = base.gen /\ base'.marked = base.marked
            /\ \A s \in DOMAIN views' : s \in DOMAIN views /\ views'[s].marked = views[s].marked
        BY <2>1, <2>5
      <3> QED
        BY <1>1, <1>2, <3>1
    <2> QED
      BY <2>3, <2>4, <2>5
  <1>9. CASE Elsewhere \/ UNCHANGED vars
    BY <1>3, <1>9, ElsewhereKeeps DEF server, vars
  <1> QED
    BY StepsAre, <1>3, <1>4, <1>5, <1>6, <1>7, <1>8, <1>9 DEF Quiet

LEMMA MarkedStep ==
  ASSUME Typed, Ordered, Marked, [Next]_vars
  PROVE  Marked'
  <1>1. \A t \in Tabs : page'[t].row # <<>> => page'[t].row[3] <= shown'[page'[t].row[1]][page'[t].row[2]]
    BY PagesStep
  <1>2. \A g \in Gens : Drawn(slot'[g], g)
    BY SlotsStep
  <1>3. \A i \in DOMAIN events' : events'[i].kind = "ReadState" => Drawn(events'[i].reads, events'[i].gen)
    BY ReadStatesStep
  <1>4. /\ \A d \in carry' : Drawn(d.reads.rows, d.reads.gen)
        /\ \A i \in DOMAIN commands' : Drawn(commands'[i].reads.rows, commands'[i].reads.gen)
        /\ Drawn(pump'.read.rows, pump'.read.gen)
    BY ClaimsStep
  <1>5. Drawn(base'.marked, base'.gen) /\ \A s \in DOMAIN views' : Drawn(views'[s].marked, base'.gen)
    BY ViewsMarkedStep
  <1> QED
    BY <1>1, <1>2, <1>3, <1>4, <1>5 DEF Marked, Below, Drawn

-----------------------------------------------------------------------------
(* Messages.                                                                 *)

LEMMA HoldsAppended ==
  ASSUME NEW S, NEW q \in Seq(S), NEW e \in S, NEW k
  PROVE  /\ \A o : Holds(q \o <<e>>, k, o) <=> (Holds(q, k, o) \/ (e.kind = k /\ e.op = o))
         /\ Single(q, k) /\ (e.kind = k => ~Holds(q, k, e.op)) => Single(q \o <<e>>, k)
  <1> DEFINE r == q \o <<e>>
             n == Len(q) + 1
  <1>1. /\ DOMAIN r = 1..n /\ DOMAIN q = 1..Len(q) /\ Len(q) \in Nat /\ r[n] = e
        /\ \A i \in DOMAIN q : r[i] = q[i]
    BY ToldOne
  <1>2. /\ n \in DOMAIN r /\ n \notin DOMAIN q /\ DOMAIN q \subseteq DOMAIN r
        /\ \A i \in DOMAIN r : i \in DOMAIN q \/ i = n
    BY <1>1
  <1> HIDE DEF r, n
  <1>3. \A o : Holds(r, k, o) <=> (Holds(q, k, o) \/ (e.kind = k /\ e.op = o))
    BY <1>1, <1>2 DEF Holds
  <1>4. Single(q, k) /\ (e.kind = k => ~Holds(q, k, e.op)) => Single(r, k)
    BY <1>1, <1>2 DEF Holds, Single
  <1> QED
    BY <1>3, <1>4 DEF r

LEMMA HoldsTaken ==
  ASSUME NEW S, NEW q \in Seq(S), q # <<>>, NEW k, Single(q, k)
  PROVE  /\ \A o : Holds(Tail(q), k, o) <=> (Holds(q, k, o) /\ ~(q[1].kind = k /\ q[1].op = o))
         /\ Single(Tail(q), k)
  <1> DEFINE r == Tail(q)
  <1>1. /\ 1 \in DOMAIN q /\ DOMAIN r = 1..Len(q) - 1 /\ DOMAIN q = 1..Len(q) /\ Len(q) \in Nat
        /\ \A i \in DOMAIN r : r[i] = q[i + 1]
    BY TailOf
  <1>2. /\ \A i \in DOMAIN r : i + 1 \in DOMAIN q /\ i + 1 # 1 /\ i \in Nat
        /\ \A i \in DOMAIN q : i = 1 \/ (i - 1 \in DOMAIN r /\ (i - 1) + 1 = i)
    BY <1>1
  <1> HIDE DEF r
  <1>3. \A i \in DOMAIN q : i = 1 \/ (i - 1 \in DOMAIN r /\ r[i - 1] = q[i])
    BY <1>1, <1>2
  <1>4. Single(r, k)
    <2> SUFFICES ASSUME NEW i \in DOMAIN r, NEW j \in DOMAIN r, r[i].kind = k, r[j].kind = k, r[i].op = r[j].op
                 PROVE  i = j
      BY DEF Single
    <2>1. i + 1 = j + 1
      BY <1>1, <1>2 DEF Single
    <2> QED
      BY <1>2, <2>1
  <1>5. ASSUME NEW o
        PROVE  Holds(r, k, o) <=> (Holds(q, k, o) /\ ~(q[1].kind = k /\ q[1].op = o))
    <2>1. ASSUME Holds(r, k, o)
          PROVE  Holds(q, k, o) /\ ~(q[1].kind = k /\ q[1].op = o)
      <3>1. PICK i \in DOMAIN r : r[i].kind = k /\ r[i].op = o
        BY <2>1 DEF Holds
      <3>2. i + 1 \in DOMAIN q /\ q[i + 1].kind = k /\ q[i + 1].op = o /\ i + 1 # 1
        BY <1>1, <1>2, <3>1
      <3> QED
        BY <1>1, <3>2 DEF Holds, Single
    <2>2. ASSUME Holds(q, k, o), ~(q[1].kind = k /\ q[1].op = o)
          PROVE  Holds(r, k, o)
      BY <1>3, <2>2 DEF Holds
    <2> QED
      BY <2>1, <2>2
  <1> QED
    BY <1>4, <1>5 DEF r

\* A handler sends one new message, which its view waits for, or none.
LEMMA HandlersSend ==
  ASSUME Typed, NEW t \in Tabs, Handler(t)
  PROVE  \/ \E o \in Messages :
              /\ o \notin DOMAIN sent /\ o \in DOMAIN sent'
              /\ sent'[o] = [home |-> base.gen, after |-> asked, tab |-> t] /\ asked' = asked
              /\ carry' = carry \union {Do("Send", o)}
              /\ views'[t].pending = views[t].pending \union {o}
         \/ /\ \A d \in carry' : d.kind = "Send" => d \in carry
            /\ views'[t].pending = views[t].pending
            /\ asked' = asked \/ ~AnyWritePending(t)
  <1> USE DEF Handled
  <1>0. ViewsTyped /\ QueuesTyped /\ HistoriesTyped /\ Numbered
    BY DEF Typed
  <1>1. t \in DOMAIN views /\ views[t] \in Apps /\ views[t].gen = base.gen /\ views = [s \in DOMAIN views |-> views[s]]
    BY <1>0, HandlersTyped DEF ViewsTyped
  <1>2. ASSUME NEW view, Handled(t, view, {}), view.pending = views[t].pending, asked' = asked
        PROVE  /\ \A d \in carry' : d.kind = "Send" => d \in carry
               /\ views'[t].pending = views[t].pending
               /\ asked' = asked \/ ~AnyWritePending(t)
    BY <1>1, <1>2
  <1>3. ASSUME NEW view, NEW e, Handled(t, view, {e}), view.pending = views[t].pending, e.kind # "Send",
               asked' = asked \/ ~AnyWritePending(t)
        PROVE  /\ \A d \in carry' : d.kind = "Send" => d \in carry
               /\ views'[t].pending = views[t].pending
               /\ asked' = asked \/ ~AnyWritePending(t)
    <2>1. views'[t] = view /\ carry' = carry \union {e}
      BY <1>1, <1>3
    <2> QED
      BY <1>3, <2>1
  <1>4. CASE Select(t)
    <2>1. PICK c \in Channels : Handled(t, [views[t] EXCEPT !.sel = c], {})
      BY <1>4 DEF Select
    <2>2. [views[t] EXCEPT !.sel = c].pending = views[t].pending /\ asked' = asked
      BY <1>1, <1>4 DEF Apps, Select
    <2> QED
      BY <1>2, <2>1, <2>2
  <1>5. CASE Send(t)
    <2>1. PICK o \in Messages :
            /\ o = NextMessage(t)
            /\ Handled(t, [views[t] EXCEPT !.pending = @ \union {o}], {Do("Send", o)})
            /\ sent' = [k \in DOMAIN sent \union {o} |->
                          IF k = o THEN [home |-> views[t].gen, after |-> asked, tab |-> t] ELSE sent[k]]
            /\ asked' = asked
      BY <1>5 DEF Send
    <2>2. o \notin DOMAIN sent
      <3>1. PICK n \in 0..MaxRequests : DOMAIN sent \intersect Messages = 1..n
        BY <1>0 DEF Numbered
      <3>2. o \notin DOMAIN sent \intersect Messages
        BY <1>0, <2>1, <3>1, Fresh
      <3> QED
        BY <3>2
    <2>3. [views[t] EXCEPT !.pending = @ \union {o}].pending = views[t].pending \union {o}
      BY <1>1 DEF Apps
    <2>4. /\ views'[t] = [views[t] EXCEPT !.pending = @ \union {o}] /\ carry' = carry \union {Do("Send", o)}
          /\ o \in DOMAIN sent'
          /\ sent'[o] = [home |-> base.gen, after |-> asked, tab |-> t]
      BY <1>1, <2>1
    <2> QED
      BY <2>1, <2>2, <2>3, <2>4
  <1>6. CASE SubmitCreation(t)
    <2> DEFINE n == views[t].requests + 1
    <2>1. PICK o \in Creations :
            Handled(t, [views[t] EXCEPT !.creating = [request |-> n, op |-> o], !.requests = n],
                    {[Do("Create", o) EXCEPT !.request = n]})
      BY <1>6 DEF SubmitCreation
    <2> HIDE DEF n
    <2>2. /\ [views[t] EXCEPT !.creating = [request |-> n, op |-> o], !.requests = n].pending = views[t].pending
          /\ [Do("Create", o) EXCEPT !.request = n].kind = "Create" /\ asked' = asked
      BY <1>1, <1>6 DEF Apps, Do, SubmitCreation
    <2> QED
      BY <1>3, <2>1, <2>2
  <1>7. CASE SwitchProfile(t)
    <2>1. Handled(t, views[t], {Do("Switch", asked)}) /\ ~AnyWritePending(t) /\ Do("Switch", asked).kind = "Switch"
      BY <1>7 DEF SwitchProfile, Do
    <2> QED
      BY <1>3, <2>1
  <1>8. CASE Presented(t)
    <2> DEFINE v == views[t]
               marked == [v.marked EXCEPT ![v.sel] = v.latest[v.sel]]
               d == [Do("Read", 0) EXCEPT !.reads = [gen |-> v.gen, rows |-> marked]]
    <2>1. Handled(t, [v EXCEPT !.marked = marked], {d}) /\ asked' = asked
      BY <1>8 DEF Presented
    <2>2. [v EXCEPT !.marked = marked].pending = v.pending /\ d.kind = "Read"
      BY <1>1 DEF Apps, Do
    <2> HIDE DEF v, marked, d
    <2>3. v = views[t]
      BY DEF v
    <2> QED
      BY <1>3, <2>1, <2>2, <2>3
  <1> QED
    BY <1>4, <1>5, <1>6, <1>7, <1>8 DEF Handler

Nowhere(o) == ~CarriedSend(o) /\ ~QueuedSend(o) /\ ~Answer(o)
OnlyCarried(o) == CarriedSend(o) /\ ~QueuedSend(o) /\ ~Answer(o)
OnlyQueued(o) == ~CarriedSend(o) /\ QueuedSend(o) /\ ~Answer(o)
OnlyAnswer(o) == ~CarriedSend(o) /\ ~QueuedSend(o) /\ Answer(o)

Stays(o) ==
  /\ CarriedSend(o)' <=> CarriedSend(o)
  /\ QueuedSend(o)' <=> QueuedSend(o)
  /\ Answer(o)' <=> Answer(o)

\* The ways of one message: sent, handed over, written and heard.
Moves(o) ==
  \/ o \notin DOMAIN sent /\ o \in DOMAIN sent' /\ Nowhere(o) /\ OnlyCarried(o)'
  \/ OnlyCarried(o) /\ OnlyQueued(o)'
  \/ OnlyQueued(o) /\ OnlyAnswer(o)'
  \/ Deliver /\ events[1].kind = "Written" /\ events[1].op = o /\ OnlyAnswer(o) /\ Nowhere(o)'

Moved ==
  /\ Single(commands, "Send")' /\ Single(events, "Written")'
  /\ \/ \A p : Stays(p)
     \/ \E o \in Messages : Moves(o) /\ \A p : p # o => Stays(p)

\* A step moves one message one place on, if any.
LEMMA MessagesMove ==
  ASSUME Typed, OneCopy, [Next]_vars
  PROVE  Moved
  <1>0. ViewsTyped /\ QueuesTyped /\ HistoriesTyped /\ Counted
    BY DEF Typed
  <1>1. /\ commands \in Seq(Command) /\ events \in Seq(Events) /\ carry \subseteq Command
        /\ Single(commands, "Send") /\ Single(events, "Written")
    BY <1>0 DEF QueuesTyped, OneCopy
  <1>2. /\ \A d \in carry : d.kind = "Send" => d = Do("Send", d.op) /\ d.op \in Messages \intersect DOMAIN sent
        /\ \A i \in DOMAIN commands : commands[i].kind = "Send" => commands[i].op \in Messages \intersect DOMAIN sent
        /\ \A i \in DOMAIN events : events[i].kind = "Written" => events[i].op \in Messages \intersect DOMAIN sent
        /\ \A o \in Messages : /\ ~(CarriedSend(o) /\ QueuedSend(o))
                               /\ ~(CarriedSend(o) /\ Answer(o))
                               /\ ~(QueuedSend(o) /\ Answer(o))
    BY DEF OneCopy
  <1>3. ASSUME UNCHANGED carry
        PROVE  \A p : CarriedSend(p)' <=> CarriedSend(p)
    BY <1>3 DEF CarriedSend
  <1>4. ASSUME UNCHANGED commands
        PROVE  Single(commands, "Send")' /\ \A p : QueuedSend(p)' <=> QueuedSend(p)
    BY <1>1, <1>4 DEF QueuedSend
  <1>5. ASSUME UNCHANGED events
        PROVE  Single(events, "Written")' /\ \A p : Answer(p)' <=> Answer(p)
    BY <1>1, <1>5 DEF Answer
  <1>6. ASSUME commands # <<>>, commands' = Tail(commands)
        PROVE  /\ Single(commands, "Send")'
               /\ \A p : QueuedSend(p)' <=> (QueuedSend(p) /\ ~(commands[1].kind = "Send" /\ commands[1].op = p))
    BY <1>1, <1>6, HoldsTaken DEF QueuedSend
  <1>7. ASSUME NEW e \in Events, e.kind # "Written", events' = events \o <<e>>
        PROVE  Single(events, "Written")' /\ \A p : Answer(p)' <=> Answer(p)
    <2>1. Single(events \o <<e>>, "Written")
      BY <1>1, <1>7, HoldsAppended
    <2>2. \A p : Holds(events \o <<e>>, "Written", p) <=> Holds(events, "Written", p)
      BY <1>1, <1>7, HoldsAppended
    <2> QED
      BY <1>7, <2>1, <2>2 DEF Answer
  <1>8. CASE Quiet
    BY <1>3, <1>4, <1>5, <1>8, QuietKeeps DEF session, Moved, Stays
  <1>9. ASSUME NEW t \in Tabs, Handler(t)
        PROVE  Moved
    <2>1. UNCHANGED <<commands, events>> /\ carry \subseteq carry'
      BY <1>0, <1>9, HandlersTyped DEF session
    <2>2. /\ Single(commands, "Send")' /\ \A p : QueuedSend(p)' <=> QueuedSend(p)
          /\ Single(events, "Written")' /\ \A p : Answer(p)' <=> Answer(p)
      BY <1>4, <1>5, <2>1
    <2>3. CASE \A d \in carry' : d.kind = "Send" => d \in carry
      <3>1. \A p : CarriedSend(p)' <=> CarriedSend(p)
        BY <2>1, <2>3 DEF CarriedSend
      <3> QED
        BY <2>2, <3>1 DEF Moved, Stays
    <2>4. ASSUME NEW o \in Messages, o \notin DOMAIN sent, o \in DOMAIN sent', carry' = carry \union {Do("Send", o)}
          PROVE  Moved
      <3>1. Nowhere(o)
        BY <1>2, <2>4 DEF Nowhere, CarriedSend, QueuedSend, Answer, Holds
      <3>2. Do("Send", o).kind = "Send" /\ Do("Send", o).op = o
        BY DEF Do
      <3>3. CarriedSend(o)' /\ \A p : p # o => CarriedSend(p)' <=> CarriedSend(p)
        BY <2>4, <3>2 DEF CarriedSend
      <3>4. Moves(o)
        BY <2>2, <2>4, <3>1, <3>3 DEF Moves, Nowhere, OnlyCarried
      <3> QED
        BY <2>2, <3>3, <3>4 DEF Moved, Stays
    <2> QED
      BY <1>9, <2>3, <2>4, HandlersSend
  <1>10. CASE Deliver
    <2>1. UNCHANGED <<carry, commands>> /\ events # <<>> /\ events' = Tail(events)
      BY <1>10 DEF Deliver, session
    <2>2. /\ Single(events, "Written")'
          /\ \A p : Answer(p)' <=> (Answer(p) /\ ~(events[1].kind = "Written" /\ events[1].op = p))
      BY <1>1, <2>1, HoldsTaken DEF Answer
    <2>3. /\ Single(commands, "Send")' /\ \A p : QueuedSend(p)' <=> QueuedSend(p)
          /\ \A p : CarriedSend(p)' <=> CarriedSend(p)
      BY <1>3, <1>4, <2>1
    <2>4. CASE events[1].kind # "Written"
      BY <2>2, <2>3, <2>4 DEF Moved, Stays
    <2>5. CASE events[1].kind = "Written"
      <3>1. 1 \in DOMAIN events
        BY <1>1, <2>1
      <3>2. PICK o \in Messages : o = events[1].op
        BY <1>2, <2>5, <3>1
      <3>3. OnlyAnswer(o)
        BY <1>2, <2>5, <3>1, <3>2 DEF OnlyAnswer, Answer, Holds
      <3>4. Moves(o)
        BY <1>10, <2>2, <2>3, <2>5, <3>2, <3>3 DEF Moves, Nowhere, OnlyAnswer
      <3>5. \A p : p # o => Stays(p)
        BY <2>2, <2>3, <3>2 DEF Stays
      <3> QED
        BY <2>2, <2>3, <3>4, <3>5 DEF Moved
    <2> QED
      BY <2>4, <2>5
  <1>11. CASE SendCommand
    <2>1. PICK c \in carry : carry' = carry \ {c} /\ commands' = Append(commands, c)
      BY <1>11 DEF SendCommand
    <2>2. events' = events
      BY <1>11 DEF SendCommand
    <2>3. commands' = commands \o <<c>> /\ c \in Command
      BY <1>1, <2>1
    <2>4. /\ \A p : QueuedSend(p)' <=> (QueuedSend(p) \/ (c.kind = "Send" /\ c.op = p))
          /\ (c.kind = "Send" => ~QueuedSend(c.op)) => Single(commands, "Send")'
      BY <1>1, <2>3, HoldsAppended DEF QueuedSend
    <2>5. Single(events, "Written")' /\ \A p : Answer(p)' <=> Answer(p)
      BY <1>5, <2>2
    <2>6. CASE c.kind # "Send"
      <3>1. \A p : CarriedSend(p)' <=> CarriedSend(p)
        BY <2>1, <2>6 DEF CarriedSend
      <3> QED
        BY <2>4, <2>5, <2>6, <3>1 DEF Moved, Stays
    <2>7. CASE c.kind = "Send"
      <3>1. PICK o \in Messages : o = c.op /\ c = Do("Send", o)
        BY <1>2, <2>1, <2>7
      <3>2. ~CarriedSend(o)'
        BY <1>2, <2>1, <3>1 DEF CarriedSend
      <3>3. \A p : p # o => CarriedSend(p)' <=> CarriedSend(p)
        BY <2>1, <3>1 DEF CarriedSend
      <3>4. OnlyCarried(o)
        BY <1>2, <2>1, <2>7, <3>1 DEF OnlyCarried, CarriedSend
      <3>5. Moves(o)
        BY <2>4, <2>5, <2>7, <3>1, <3>2, <3>4 DEF Moves, OnlyCarried, OnlyQueued
      <3>6. \A p : p # o => Stays(p)
        BY <2>4, <2>5, <3>1, <3>3 DEF Stays
      <3> QED
        BY <2>4, <2>5, <3>1, <3>4, <3>5, <3>6 DEF Moved, OnlyCarried
    <2> QED
      BY <2>6, <2>7
  <1>12. CASE PublishRead
    <2>1. UNCHANGED <<carry, commands>> /\ (events' = events \/ \E r \in Events : r.kind = "ReadState" /\ events' = events \o <<r>>)
      BY <1>0, <1>12, PublishReadTells
    <2>2. Single(events, "Written")' /\ \A p : Answer(p)' <=> Answer(p)
      BY <1>5, <1>7, <2>1
    <2> QED
      BY <1>3, <1>4, <2>1, <2>2 DEF Moved, Stays
  <1>13. CASE TakeRead
    <2>1. UNCHANGED <<carry, events>> /\ commands # <<>> /\ commands' = Tail(commands) /\ Head(commands).kind = "Read"
      BY <1>13 DEF TakeRead, Take, Pump
    <2>2. commands[1].kind # "Send"
      BY <1>1, <2>1
    <2>3. Single(commands, "Send")' /\ \A p : QueuedSend(p)' <=> QueuedSend(p)
      BY <1>6, <2>1, <2>2
    <2> QED
      BY <1>3, <1>5, <2>1, <2>3 DEF Moved, Stays
  <1>14. CASE TakeSend
    <2>1. UNCHANGED carry /\ commands # <<>> /\ commands' = Tail(commands) /\ commands[1].kind = "Send"
      BY <1>0, <1>14, TakeSendTells
    <2>2. PICK e \in Events : e.kind = "Written" /\ e.op = commands[1].op /\ events' = events \o <<e>>
      BY <1>0, <1>14, TakeSendTells
    <2>3. 1 \in DOMAIN commands
      BY <1>1, <2>1
    <2>4. PICK o \in Messages : o = commands[1].op
      BY <1>2, <2>1, <2>3
    <2>5. OnlyQueued(o)
      BY <1>2, <2>1, <2>3, <2>4 DEF OnlyQueued, QueuedSend, Holds
    <2>6. Single(commands, "Send")' /\ \A p : QueuedSend(p)' <=> (QueuedSend(p) /\ p # o)
      BY <1>6, <2>1, <2>4
    <2>7. /\ Single(events, "Written")'
          /\ \A p : Answer(p)' <=> (Answer(p) \/ p = o)
      BY <1>1, <2>2, <2>4, <2>5, HoldsAppended DEF Answer, OnlyQueued
    <2>8. \A p : CarriedSend(p)' <=> CarriedSend(p)
      BY <1>3, <2>1
    <2>9. Moves(o)
      BY <2>5, <2>6, <2>7, <2>8 DEF Moves, OnlyQueued, OnlyAnswer
    <2>10. \A p : p # o => Stays(p)
      BY <2>6, <2>7, <2>8 DEF Stays
    <2> QED
      BY <2>6, <2>7, <2>9, <2>10 DEF Moved
  <1>15. CASE TakeCreate
    <2>1. /\ UNCHANGED carry /\ commands # <<>> /\ commands' = Tail(commands) /\ commands[1].kind = "Create"
          /\ \E e \in Events : e.kind = "Created" /\ events' = events \o <<e>>
      BY <1>0, <1>15, TakeCreateTells
    <2>2. Single(commands, "Send")' /\ \A p : QueuedSend(p)' <=> QueuedSend(p)
      BY <1>6, <2>1
    <2>3. Single(events, "Written")' /\ \A p : Answer(p)' <=> Answer(p)
      BY <1>7, <2>1
    <2> QED
      BY <1>3, <2>1, <2>2, <2>3 DEF Moved, Stays
  <1>16. CASE TakeSwitch
    <2>1. UNCHANGED carry /\ commands # <<>> /\ commands' = Tail(commands) /\ commands[1].kind = "Switch"
      BY <1>0, <1>16, TakeSwitchTells
    <2>2. PICK e \in Events :
            /\ e.kind = "Switching"
            /\ \/ events' = events \o <<e>>
               \/ \E r \in Events : r.kind = "ReadState" /\ events' = (events \o <<r>>) \o <<e>>
      BY <1>0, <1>16, TakeSwitchTells
    <2>3. Single(commands, "Send")' /\ \A p : QueuedSend(p)' <=> QueuedSend(p)
      BY <1>6, <2>1
    <2>4. ASSUME NEW r \in Events, r.kind = "ReadState", events' = (events \o <<r>>) \o <<e>>
          PROVE  Single(events, "Written")' /\ \A p : Answer(p)' <=> Answer(p)
      <3> DEFINE q == events \o <<r>>
      <3>1. q \in Seq(Events)
        BY <1>1
      <3>2. Single(q, "Written") /\ \A p : Holds(q, "Written", p) <=> Holds(events, "Written", p)
        BY <1>1, <2>4, HoldsAppended
      <3>3. events' = q \o <<e>>
        BY <2>4
      <3> HIDE DEF q
      <3>4. Single(q \o <<e>>, "Written") /\ \A p : Holds(q \o <<e>>, "Written", p) <=> Holds(q, "Written", p)
        BY <2>2, <3>1, <3>2, HoldsAppended
      <3> QED
        BY <3>2, <3>3, <3>4 DEF Answer
    <2>5. Single(events, "Written")' /\ \A p : Answer(p)' <=> Answer(p)
      BY <1>7, <2>2, <2>4
    <2> QED
      BY <1>3, <2>1, <2>3, <2>5 DEF Moved, Stays
  <1>17. ASSUME NEW g \in Gens, Connect(g) \/ Live(g)
         PROVE  Moved
    <2>1. /\ UNCHANGED <<carry, commands>>
          /\ \E e \in Events : e.kind # "Written" /\ events' = events \o <<e>>
      BY <1>0, <1>17, ConnectTells, LiveTells
    <2>2. Single(events, "Written")' /\ \A p : Answer(p)' <=> Answer(p)
      BY <1>7, <2>1
    <2> QED
      BY <1>3, <1>4, <2>1, <2>2 DEF Moved, Stays
  <1> QED
    BY StepsAre, <1>8, <1>9, <1>10, <1>11, <1>12, <1>13, <1>14, <1>15, <1>16, <1>17 DEF Elsewhere

\* Where a message is, it is known to have been sent.
LEMMA Known ==
  ASSUME OneCopy, NEW o, ~Nowhere(o)
  PROVE  o \in Messages /\ o \in DOMAIN sent
  BY DEF OneCopy, Nowhere, CarriedSend, QueuedSend, Answer, Holds

LEMMA OneCopyStep ==
  ASSUME Typed, OneCopy, [Next]_vars
  PROVE  OneCopy'
  <1>0. ViewsTyped /\ QueuesTyped /\ HistoriesTyped
    BY DEF Typed
  <1>1. Moved /\ DOMAIN sent \subseteq DOMAIN sent'
    BY MessagesMove, SentGrows
  <1>2. \A d \in carry' : d.kind = "Send" => d = Do("Send", d.op) /\ d.op \in Messages \intersect DOMAIN sent'
    <2>1. \A d \in carry : d.kind = "Send" => d = Do("Send", d.op) /\ d.op \in Messages \intersect DOMAIN sent'
      BY <1>1 DEF OneCopy
    <2>2. CASE carry' \subseteq carry
      BY <2>1, <2>2
    <2>3. CASE Quiet \/ Deliver
      BY <2>2, <2>3, QuietKeeps DEF Deliver
    <2>4. CASE Elsewhere
      BY <2>2, <2>4 DEF Elsewhere, SendCommand, PublishRead, TakeRead, TakeSend, TakeCreate, TakeSwitch,
                        Connect, Live, Pump
    <2>5. ASSUME NEW t \in Tabs, Handler(t)
          PROVE  \A d \in carry' : d.kind = "Send" => d = Do("Send", d.op) /\ d.op \in Messages \intersect DOMAIN sent'
      <3>1. CASE \A d \in carry' : d.kind = "Send" => d \in carry
        BY <2>1, <3>1
      <3>2. ASSUME NEW o \in Messages, o \in DOMAIN sent', carry' = carry \union {Do("Send", o)}
            PROVE  \A d \in carry' : d.kind = "Send" => d = Do("Send", d.op) /\ d.op \in Messages \intersect DOMAIN sent'
        <4>1. Do("Send", o).op = o
          BY DEF Do
        <4> QED
          BY <2>1, <3>2, <4>1
      <3> QED
        BY <2>5, <3>1, <3>2, HandlersSend
    <2> QED
      BY StepsAre, <2>3, <2>4, <2>5
  <1>3. ASSUME NEW p, QueuedSend(p)' \/ Answer(p)'
        PROVE  p \in Messages \intersect DOMAIN sent'
    <2>1. ~Nowhere(p)
      <3>1. CASE Stays(p)
        BY <1>3, <3>1 DEF Stays, Nowhere
      <3>2. CASE Moves(p)
        BY <1>3, <3>2 DEF Moves, Nowhere, OnlyCarried, OnlyQueued, OnlyAnswer
      <3> QED
        BY <1>1, <3>1, <3>2 DEF Moved
    <2> QED
      BY <1>1, <2>1, Known
  <1>4. \A i \in DOMAIN commands' : commands'[i].kind = "Send" => commands'[i].op \in Messages \intersect DOMAIN sent'
    BY <1>3 DEF QueuedSend, Holds
  <1>5. \A i \in DOMAIN events' : events'[i].kind = "Written" => events'[i].op \in Messages \intersect DOMAIN sent'
    BY <1>3 DEF Answer, Holds
  <1>6. ASSUME NEW o \in Messages
        PROVE  (/\ ~(CarriedSend(o) /\ QueuedSend(o))
                /\ ~(CarriedSend(o) /\ Answer(o))
                /\ ~(QueuedSend(o) /\ Answer(o)))'
    <2>1. CASE Stays(o)
      BY <2>1 DEF Stays, OneCopy
    <2>2. CASE Moves(o)
      BY <2>2 DEF Moves, Nowhere, OnlyCarried, OnlyQueued, OnlyAnswer
    <2> QED
      BY <1>1, <2>1, <2>2 DEF Moved
  <1>7. Single(commands, "Send")' /\ Single(events, "Written")'
    BY <1>1 DEF Moved
  <1> QED
    BY <1>2, <1>4, <1>5, <1>6, <1>7 DEF OneCopy

\* What a view waits for after a step, it waited for before, or its tab just sent.
LEMMA PendingFrom ==
  ASSUME Typed, [Next]_vars, NEW s \in DOMAIN views', NEW o \in views'[s].pending
  PROVE  \/ /\ s \in DOMAIN views /\ o \in views[s].pending
            /\ ~(Deliver /\ events[1].kind = "Written" /\ events[1].op = o)
         \/ /\ o \in Messages /\ o \notin DOMAIN sent /\ o \in DOMAIN sent' /\ sent'[o].tab = s
            /\ CarriedSend(o)'
  <1>0. ViewsTyped /\ QueuesTyped /\ HistoriesTyped
    BY DEF Typed
  <1>1. CASE UNCHANGED views /\ ~Deliver
    BY <1>1
  <1>2. CASE Deliver
    <2>1. PICK e \in Events : /\ e = events[1] /\ DOMAIN views' = DOMAIN views
                              /\ views'[s].pending = CASE e.kind = "Switching" -> {}
                                                       [] e.kind = "Written" -> views[s].pending \ {e.op}
                                                       [] OTHER -> views[s].pending
      BY <1>2, Delivered
    <2>2. e.kind # "Switching" /\ o \in views[s].pending /\ (e.kind = "Written" => o # e.op)
      BY <2>1
    <2> QED
      BY <2>1, <2>2
  <1>3. ASSUME NEW t \in Tabs, Handler(t), ~Deliver
        PROVE  \/ s \in DOMAIN views /\ o \in views[s].pending
               \/ /\ o \in Messages /\ o \notin DOMAIN sent /\ o \in DOMAIN sent' /\ sent'[o].tab = s
                  /\ CarriedSend(o)'
    <2>1. t \in DOMAIN views /\ views' = [views EXCEPT ![t] = views'[t]]
      BY <1>0, <1>3, HandlersTyped
    <2>2. s \in DOMAIN views /\ (s # t => views'[s] = views[s])
      BY <2>1
    <2>3. CASE views'[t].pending = views[t].pending
      BY <2>2, <2>3
    <2>4. ASSUME NEW p \in Messages, p \notin DOMAIN sent, p \in DOMAIN sent',
                 sent'[p] = [home |-> base.gen, after |-> asked, tab |-> t],
                 carry' = carry \union {Do("Send", p)}, views'[t].pending = views[t].pending \union {p}
          PROVE  \/ s \in DOMAIN views /\ o \in views[s].pending
                 \/ /\ o \in Messages /\ o \notin DOMAIN sent /\ o \in DOMAIN sent' /\ sent'[o].tab = s
                    /\ CarriedSend(o)'
      <3>1. sent'[p].tab = t
        BY <2>4
      <3>2. Do("Send", p).kind = "Send" /\ Do("Send", p).op = p
        BY DEF Do
      <3>3. CarriedSend(p)'
        BY <2>4, <3>2 DEF CarriedSend
      <3> QED
        BY <2>2, <2>4, <3>1, <3>3
    <2> QED
      BY <1>3, <2>3, <2>4, HandlersSend
  <1>4. CASE Bootstrap /\ ~Deliver
    <2>1. s = Cookie /\ views'[s] = Fork(base) /\ base \in Apps
      BY <1>0, <1>4 DEF Bootstrap, ViewsTyped
    <2> QED
      BY <2>1, ForkTyped
  <1>5. ASSUME NEW t \in Tabs, FirstRequest(t), ~Deliver
        PROVE  s \in DOMAIN views /\ o \in views[s].pending
    <2>1. views' = [u \in DOMAIN views \union {t} |-> IF u = t THEN Fork(base) ELSE views[u]] /\ base \in Apps
      BY <1>0, <1>5 DEF FirstRequest, ViewsTyped
    <2>2. s # t
      BY <2>1, ForkTyped
    <2> QED
      BY <2>1, <2>2
  <1>6. CASE ~Deliver /\ (Elsewhere \/ (\E t \in Tabs : Refresh(t) \/ Close(t)) \/ UNCHANGED vars)
    <2>1. UNCHANGED views
      BY <1>6, ElsewhereKeeps DEF Refresh, Close, vars, server
    <2> QED
      BY <1>1, <1>6, <2>1
  <1> QED
    BY StepsAre, <1>2, <1>3, <1>4, <1>5, <1>6 DEF Quiet

LEMMA AwaitedStep ==
  ASSUME Typed, OneCopy, Awaited, [Next]_vars
  PROVE  Awaited'
  <1> SUFFICES ASSUME NEW s \in DOMAIN views', NEW o \in views'[s].pending
               PROVE  /\ o \in DOMAIN sent' /\ sent'[o].tab = s
                      /\ (CarriedSend(o) \/ QueuedSend(o) \/ Answer(o))'
    BY DEF Awaited
  <1>1. CASE /\ s \in DOMAIN views /\ o \in views[s].pending
             /\ ~(Deliver /\ events[1].kind = "Written" /\ events[1].op = o)
    <2>1. /\ o \in DOMAIN sent /\ sent[o].tab = s
          /\ CarriedSend(o) \/ QueuedSend(o) \/ Answer(o)
      BY <1>1 DEF Awaited
    <2>2. o \in Messages
      BY <2>1, Known DEF Nowhere
    <2>3. o \in DOMAIN sent' /\ sent'[o] = sent[o]
      BY <2>1, <2>2, SentGrows
    <2>4. (CarriedSend(o) \/ QueuedSend(o) \/ Answer(o))'
      <3>1. CASE Stays(o)
        BY <2>1, <3>1 DEF Stays
      <3>2. CASE Moves(o)
        BY <1>1, <2>1, <3>2 DEF Moves, OnlyCarried, OnlyQueued, OnlyAnswer
      <3> QED
        BY <3>1, <3>2, MessagesMove DEF Moved
    <2> QED
      BY <2>1, <2>3, <2>4
  <1>2. CASE /\ o \in Messages /\ o \notin DOMAIN sent /\ o \in DOMAIN sent' /\ sent'[o].tab = s
             /\ CarriedSend(o)'
    BY <1>2
  <1> QED
    BY <1>1, <1>2, PendingFrom

\* A view waits on, unless it hears its answer or its community is left.
LEMMA WaitsOn ==
  ASSUME Typed, [Next]_vars, NEW s \in DOMAIN views, NEW o \in views[s].pending,
         ~(Deliver /\ events[1].kind = "Written" /\ events[1].op = o),
         ~(Deliver /\ events[1].kind = "Switching")
  PROVE  s \in DOMAIN views' /\ o \in views'[s].pending
  <1>0. ViewsTyped /\ QueuesTyped /\ HistoriesTyped
    BY DEF Typed
  <1>1. CASE UNCHANGED views
    BY <1>1
  <1>2. CASE Deliver
    <2>1. PICK e \in Events : /\ e = events[1] /\ DOMAIN views' = DOMAIN views
                              /\ views'[s].pending = CASE e.kind = "Switching" -> {}
                                                       [] e.kind = "Written" -> views[s].pending \ {e.op}
                                                       [] OTHER -> views[s].pending
      BY <1>2, Delivered
    <2>2. e.kind # "Switching" /\ (e.kind = "Written" => o # e.op)
      BY <1>2, <2>1
    <2> QED
      BY <2>1, <2>2
  <1>3. ASSUME NEW t \in Tabs, Handler(t)
        PROVE  s \in DOMAIN views' /\ o \in views'[s].pending
    <2>1. t \in DOMAIN views /\ views' = [views EXCEPT ![t] = views'[t]] /\ views[t].pending \subseteq views'[t].pending
      BY <1>0, <1>3, HandlersTyped, HandlersSend
    <2>2. s \in DOMAIN views' /\ (s # t => views'[s] = views[s])
      BY <2>1
    <2> QED
      BY <2>1, <2>2
  <1>4. CASE Bootstrap
    BY <1>0, <1>4 DEF Bootstrap, ViewsTyped
  <1>5. ASSUME NEW t \in Tabs, FirstRequest(t)
        PROVE  s \in DOMAIN views' /\ o \in views'[s].pending
    <2>1. views' = [u \in DOMAIN views \union {t} |-> IF u = t THEN Fork(base) ELSE views[u]] /\ s # t
      BY <1>5 DEF FirstRequest
    <2> QED
      BY <2>1
  <1>6. CASE Elsewhere \/ (\E t \in Tabs : Refresh(t) \/ Close(t)) \/ UNCHANGED vars
    BY <1>1, <1>6, ElsewhereKeeps DEF Refresh, Close, vars, server
  <1> QED
    BY StepsAre, <1>2, <1>3, <1>4, <1>5, <1>6 DEF Quiet

LEMMA GensInOrder ==
  ASSUME Typed, Ordered
  PROVE  /\ base.gen \in Nat /\ pump.gen \in Nat /\ asked \in Nat
         /\ base.gen <= pump.gen /\ pump.gen <= asked
  <1>1. base.gen \in Gens /\ pump.gen \in Gens /\ asked \in Gens
    BY BaseGen DEF Typed, HistoriesTyped
  <1>2. pump.gen <= asked
    BY SwitchFits DEF Typed
  <1> QED
    BY <1>1, <1>2, Constants DEF Ordered, InOrder

LEMMA HomeStep ==
  ASSUME Typed, Ordered, OneCopy, Home, [Next]_vars
  PROVE  Home'
  <1>0. ViewsTyped /\ QueuesTyped /\ HistoriesTyped
    BY DEF Typed
  <1>1. Moved
    BY MessagesMove
  <1>2. ASSUME NEW o \in Messages, (CarriedSend(o) \/ QueuedSend(o))', sent'[o].home = sent'[o].after
        PROVE  /\ asked' = sent'[o].after /\ base'.gen = sent'[o].home
               /\ sent'[o].tab \in DOMAIN views' /\ o \in views'[sent'[o].tab].pending
    <2>1. CASE CarriedSend(o) \/ QueuedSend(o)
      <3>1. o \in DOMAIN sent /\ sent'[o] = sent[o]
        BY <2>1, Known, SentGrows DEF Nowhere
      <3>2. /\ asked = sent[o].after /\ base.gen = sent[o].home
            /\ sent[o].tab \in DOMAIN views /\ o \in views[sent[o].tab].pending
        BY <1>2, <2>1, <3>1 DEF Home
      <3>3. \A t \in Tabs : AnyWritePending(t)
        BY <3>2 DEF AnyWritePending, WritePending
      <3>4. asked' = asked
        BY <3>3, AskedGrows DEF SwitchProfile
      <3>5. ~(Deliver /\ events[1].kind = "Switching")
        <4> SUFFICES ASSUME Deliver, events[1].kind = "Switching"
                     PROVE  FALSE
          OBVIOUS
        <4>1. events \in Seq(Events) /\ events # <<>>
          BY BaseGen DEF Deliver
        <4>2. 1 \in DOMAIN events
          BY <4>1
        <4>3. base.gen < events[1].gen /\ events[1].gen <= pump.gen /\ events[1].gen \in Nat
          BY <4>1, <4>2, EventGens DEF Ordered, InOrder
        <4>4. base.gen = asked
          BY <1>2, <3>1, <3>2
        <4> QED
          BY <4>3, <4>4, GensInOrder
      <3>6. ~(Deliver /\ events[1].kind = "Written" /\ events[1].op = o)
        <4> SUFFICES ASSUME Deliver, events[1].kind = "Written", events[1].op = o
                     PROVE  FALSE
          OBVIOUS
        <4>1. 1 \in DOMAIN events
          <5>1. events \in Seq(Events) /\ events # <<>>
            BY BaseGen DEF Deliver
          <5> QED
            BY <5>1
        <4>2. Answer(o)
          BY <4>1 DEF Answer, Holds
        <4> QED
          BY <2>1, <4>2 DEF OneCopy
      <3>7. sent[o].tab \in DOMAIN views' /\ o \in views'[sent[o].tab].pending
        BY <3>2, <3>5, <3>6, WaitsOn
      <3>8. base'.gen = base.gen
        <4>1. CASE Deliver
          BY <3>5, <4>1, Delivered
        <4>2. CASE Quiet \/ Elsewhere \/ \E t \in Tabs : Handler(t)
          BY <1>0, <4>2, QuietKeeps, ElsewhereKeeps, HandlersTyped DEF server
        <4> QED
          BY StepsAre, <4>1, <4>2
      <3> QED
        BY <3>1, <3>2, <3>4, <3>7, <3>8
    <2>2. CASE ~(CarriedSend(o) \/ QueuedSend(o))
      <3>1. ~Stays(o)
        BY <1>2, <2>2 DEF Stays
      <3>2. Moves(o)
        BY <1>1, <3>1 DEF Moved
      <3>3. o \notin DOMAIN sent /\ CarriedSend(o)'
        BY <2>2, <3>2, <1>2 DEF Moves, OnlyCarried, OnlyQueued, OnlyAnswer, Nowhere
      <3>4. PICK d \in carry' : d.kind = "Send" /\ d.op = o
        BY <3>3 DEF CarriedSend
      <3>5. d \notin carry
        BY <2>2, <3>4 DEF CarriedSend
      <3>6. PICK t \in Tabs : Handler(t)
        <4>1. CASE Quiet \/ Deliver
          BY <3>5, <4>1, QuietKeeps DEF Deliver
        <4>2. CASE Elsewhere
          BY <3>5, <4>2 DEF Elsewhere, SendCommand, PublishRead, TakeRead, TakeSend, TakeCreate, TakeSwitch,
                            Connect, Live, Pump
        <4> QED
          BY StepsAre, <4>1, <4>2
      <3>7. PICK p \in Messages :
              /\ sent'[p] = [home |-> base.gen, after |-> asked, tab |-> t] /\ asked' = asked
              /\ carry' = carry \union {Do("Send", p)}
              /\ views'[t].pending = views[t].pending \union {p}
        BY <3>4, <3>5, <3>6, HandlersSend
      <3>8. p = o
        BY <3>4, <3>5, <3>7 DEF Do
      <3>9. t \in DOMAIN views' /\ base' = base
        <4>1. t \in DOMAIN views /\ views' = [views EXCEPT ![t] = views'[t]] /\ base' = base
          BY <1>0, <3>6, HandlersTyped
        <4> QED
          BY <4>1
      <3> QED
        BY <1>2, <3>7, <3>8, <3>9
    <2> QED
      BY <2>1, <2>2
  <1>3. ASSUME NEW w \in written'
        PROVE  w.op \in Messages /\ (sent'[w.op].home = sent'[w.op].after => w.gen = sent'[w.op].home)
    <2>1. CASE w \in written
      <3>1. w.op \in Messages /\ w.op \in DOMAIN sent /\ (sent[w.op].home = sent[w.op].after => w.gen = sent[w.op].home)
        BY <1>0, <2>1 DEF Home, WrittenAtHome, HistoriesTyped
      <3> QED
        BY <3>1, SentGrows
    <2>2. CASE w \notin written
      <3>1. TakeSend
        <4>1. CASE Quiet \/ Deliver
          BY <1>3, <2>2, <4>1, QuietKeeps DEF Deliver, session
        <4>2. CASE \E t \in Tabs : Handler(t)
          BY <1>0, <1>3, <2>2, <4>2, HandlersTyped DEF session
        <4>3. CASE SendCommand \/ PublishRead \/ TakeRead \/ TakeCreate \/ TakeSwitch \/ \E g \in Gens : Connect(g) \/ Live(g)
          BY <1>3, <2>2, <4>3 DEF SendCommand, PublishRead, TakeRead, TakeCreate, TakeSwitch, Connect, Live
        <4> QED
          BY StepsAre, <4>1, <4>2, <4>3 DEF Elsewhere
      <3>2. /\ commands # <<>> /\ commands[1].kind = "Send" /\ sent' = sent
            /\ w = [op |-> commands[1].op, gen |-> pump.gen]
        BY <1>0, <1>3, <2>2, <3>1, TakeSendTells
      <3> DEFINE o == commands[1].op
      <3>3. QueuedSend(o) /\ o \in Messages
        <4>1. commands \in Seq(Command)
          BY <1>0 DEF QueuesTyped
        <4>2. 1 \in DOMAIN commands
          BY <3>2, <4>1
        <4> QED
          BY <3>2, <4>2 DEF QueuedSend, Holds, OneCopy
      <3>4. sent[o].home = sent[o].after => asked = sent[o].after /\ base.gen = sent[o].home
        BY <3>3 DEF Home
      <3>5. sent[o].home = sent[o].after => pump.gen = sent[o].home
        <4> HIDE DEF o
        <4> QED
          BY <3>4, GensInOrder
      <3>6. w.op = o /\ w.gen = pump.gen
        BY <3>2
      <3> HIDE DEF o
      <3> QED
        BY <3>2, <3>3, <3>5, <3>6
    <2> QED
      BY <2>1, <2>2
  <1>4. \A o \in Messages : (CarriedSend(o) \/ QueuedSend(o))' =>
          (sent'[o].home = sent'[o].after =>
             /\ asked' = sent'[o].after /\ base'.gen = sent'[o].home
             /\ sent'[o].tab \in DOMAIN views' /\ o \in views'[sent'[o].tab].pending)
    BY <1>2
  <1>5. \A w \in written' : w.op \in Messages /\ (sent'[w.op].home = sent'[w.op].after => w.gen = sent'[w.op].home)
    BY <1>3
  <1> QED
    BY <1>4, <1>5 DEF Home, WrittenAtHome

-----------------------------------------------------------------------------
(* The invariant and what follows from it.                                   *)

LEMMA InitInv == Init => Inv
  <1> SUFFICES ASSUME Init
               PROVE  Inv
    OBVIOUS
  <1>1. Typed
    BY InitTyped DEF Typed
  <1>2. /\ events = <<>> /\ commands = <<>> /\ carry = {} /\ written = {} /\ active = {}
        /\ DOMAIN views = {} /\ base = NoApp /\ pump.gen = 0 /\ pump.read = NoRead
        /\ page = [t \in Tabs |-> Hidden] /\ slot = [g \in Gens |-> NoRows] /\ shown = [g \in Gens |-> NoRows]
    BY DEF Init
  <1>3. base.gen = 0 /\ base.marked = NoRows
    BY <1>2, NoAppTyped
  <1>4. DOMAIN events = {} /\ DOMAIN commands = {}
    BY <1>2
  <1>5. Ordered
    <2>1. \A g \in Gens : ~(0 < g /\ g <= 0)
      BY Constants
    <2> QED
      BY <1>2, <1>3, <1>4, <2>1 DEF Ordered, InOrder
  <1>6. Connected
    BY <1>2, <1>4 DEF Connected, ActiveIsConnected
  <1>7. Marked
    <2>1. \A g \in Gens : Below(NoRows, g)
      <3>1. \A g \in Gens, c \in Channels : NoRows[c] = 0 /\ shown[g][c] = 0
        BY <1>2 DEF NoRows
      <3>2. \A g \in Gens, c \in Channels : NoRows[c] <= shown[g][c]
        BY <3>1
      <3> QED
        BY <3>2 DEF Below
    <2>2. \A t \in Tabs : page[t].row = <<>>
      BY <1>2 DEF Hidden
    <2>3. NoRead.rows = NoRows /\ NoRead.gen = 0
      BY DEF NoRead
    <2> QED
      BY <1>2, <1>3, <1>4, <2>1, <2>2, <2>3, Constants DEF Marked
  <1>8. \A o : Nowhere(o)
    BY <1>2, <1>4 DEF Nowhere, CarriedSend, QueuedSend, Answer, Holds
  <1>9. OneCopy
    BY <1>2, <1>4, <1>8 DEF OneCopy, Single, Nowhere
  <1>10. Awaited
    BY <1>2 DEF Awaited
  <1>11. Home
    BY <1>2, <1>8 DEF Home, WrittenAtHome, Nowhere
  <1> QED
    BY <1>1, <1>5, <1>6, <1>7, <1>9, <1>10, <1>11 DEF Inv

LEMMA InvStep == Inv /\ [Next]_vars => Inv'
  BY TypedStep, OrderedStep, ConnectedStep, MarkedStep, OneCopyStep, AwaitedStep, HomeStep DEF Inv

THEOREM InvHolds == Spec => []Inv
  BY InitInv, InvStep, PTL DEF Spec

\* However old a page is when it says what it showed, however claims of several
\* tabs replace each other, and whatever community the pump is on when it publishes
\* them: what is marked read was drawn by a visible page of its own community.
THEOREM MarkedIsShown == Spec => []MarkedWasShown
  <1>1. Inv => MarkedWasShown
    BY DEF Inv, Typed, ViewsTyped, Marked, Below, MarkedWasShown
  <1> QED
    BY <1>1, InvHolds, PTL

\* A switch is refused while any view, a closed tab's too, waits for a write: a message
\* sent when no switch was under way is written in the community it was sent from, in
\* whatever order the request tasks hand their commands over, however many switches
\* follow; and a profile is made active by its own feed.
THEOREM SwitchesStayOrderly == Spec => []SwitchesAreOrderly
  <1>1. Inv => TypeOK
    BY AppsTyped DEF Inv, Typed, ViewsTyped, TypeOK
  <1>2. Inv => WrittenAtHome /\ ActiveIsConnected
    BY DEF Inv, Home, Connected
  <1> QED
    BY <1>1, <1>2, InvHolds, PTL DEF SwitchesAreOrderly

\* A message has one copy between its handler and its answer, and only its own view
\* waits for it: what a view waits for is under way exactly once.
THEOREM AwaitedStaysUnderWay == Spec => []AwaitedIsUnderWay
  <1>1. ASSUME Inv, NEW s \in DOMAIN views, NEW o \in views[s].pending
        PROVE  Cardinality(UnderWay(o)) = 1 /\ sent[o].tab = s
    <2> DEFINE A == {d \in carry : d.kind = "Send" /\ d.op = o}
               B == {i \in DOMAIN commands : commands[i].kind = "Send" /\ commands[i].op = o}
               C == {i \in DOMAIN events : events[i].kind = "Written" /\ events[i].op = o}
    <2>1. sent[o].tab = s /\ (CarriedSend(o) \/ QueuedSend(o) \/ Answer(o)) /\ OneCopy
      BY <1>1 DEF Inv, Awaited
    <2>2. o \in Messages
      BY <2>1, Known DEF Nowhere
    <2>3. (CarriedSend(o) <=> A # {}) /\ (QueuedSend(o) <=> B # {}) /\ (Answer(o) <=> C # {})
      BY DEF CarriedSend, QueuedSend, Answer, Holds
    <2>4. /\ \A d, e \in A : d = e
          /\ \A i, j \in B : i = j
          /\ \A i, j \in C : i = j
      BY <2>1 DEF OneCopy, Single
    <2>5. \/ A # {} /\ B = {} /\ C = {}
          \/ A = {} /\ B # {} /\ C = {}
          \/ A = {} /\ B = {} /\ C # {}
      BY <2>1, <2>2, <2>3 DEF OneCopy
    <2>6. UnderWay(o) = {<<"carried", d>> : d \in A} \union {<<"queued", i>> : i \in B}
                          \union {<<"answered", i>> : i \in C}
      BY DEF UnderWay
    <2> HIDE DEF A, B, C
    <2>7. \E x : UnderWay(o) = {x}
      <3>1. CASE A # {} /\ B = {} /\ C = {}
        <4>0. PICK d \in A : TRUE
          BY <3>1
        <4>1. A = {d}
          BY <2>4, <4>0
        <4>2. UnderWay(o) = {<<"carried", d>>}
          BY <2>6, <3>1, <4>1
        <4> QED
          BY <4>2
      <3>2. CASE A = {} /\ B # {} /\ C = {}
        <4>0. PICK i \in B : TRUE
          BY <3>2
        <4>1. B = {i}
          BY <2>4, <4>0
        <4>2. UnderWay(o) = {<<"queued", i>>}
          BY <2>6, <3>2, <4>1
        <4> QED
          BY <4>2
      <3>3. CASE A = {} /\ B = {} /\ C # {}
        <4>0. PICK i \in C : TRUE
          BY <3>3
        <4>1. C = {i}
          BY <2>4, <4>0
        <4>2. UnderWay(o) = {<<"answered", i>>}
          BY <2>6, <3>3, <4>1
        <4> QED
          BY <4>2
      <3> QED
        BY <2>5, <3>1, <3>2, <3>3
    <2>8. Cardinality(UnderWay(o)) = 1
      BY <2>7, FS_Singleton
    <2> QED
      BY <2>1, <2>8
  <1>2. Inv => AwaitedIsUnderWay
    BY <1>1 DEF AwaitedIsUnderWay
  <1> QED
    BY <1>2, InvHolds, PTL
=============================================================================
