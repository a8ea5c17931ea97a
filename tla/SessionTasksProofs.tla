------------------------- MODULE SessionTasksProofs -------------------------
(* Proofs about SessionTasks, for any capacities, number of switches, of     *)
(* messages and of targets.                                                  *)
(*                                                                           *)
(* Three inductive invariants.                                               *)
(*                                                                           *)
(* Apart.  Every queue and every record has its type (Typed); what the pump  *)
(* still works on is of its generation, but for an announcement right before *)
(* the start of the next one (Working); a feed holds its own generation's    *)
(* reports (Fed) and no later generation has started (Started); no more      *)
(* switches are on their way than were asked for (SwitchesCounted).  From    *)
(* these follows how the interface's queue leads from the community shown to *)
(* the one announced last (Ordered): nothing untagged precedes its own       *)
(* announcement nor follows the next one, and only the older generations'    *)
(* tagged reports are left over, which App::apply drops.  A read claimed     *)
(* with no switch under way stays ahead of every switch (AtHome).            *)
(*                                                                           *)
(* Flowing.  The messages under way form a chain: those in the answers not   *)
(* read yet, in the pump's work, in what a batch took off the queue, in the  *)
(* queue and in the outbox, each link below the next (Chain) and rising in   *)
(* itself (Rising).                                                          *)
(*                                                                           *)
(* Accounted.  For each target the requests, batch entries and reports on    *)
(* their way are counted (ToCome): none before a batch, and while one is     *)
(* locked one exactly for the targets without a result.                      *)
EXTENDS SessionTasks, FiniteSetTheorems, TLAPS

SocketKinds == {"Connected", "Disconnected", "Timeline", "ChannelGone"}

Requests ==
  {c \in Commands : /\ c.kind = "Send" => \E m \in Messages : c.about = {m}
                    /\ c.kind = "AddMembers" => c.about = Targets
                    /\ c.kind \notin {"Send", "AddMembers"} => c.about = {}}

Reports ==
  {e \in Events : /\ e.kind = "Written" => \E m \in Messages : e.about = {m}
                  /\ e.kind \in {"MemberResult", "MemberUnknown"} => \E t \in Targets : e.about = {t}
                  /\ e.kind = "MemberBatchCancelled" => e.about \subseteq Targets
                  /\ e.kind \notin ResultKinds \union {"Written"} => e.about = {}
                  /\ e.tagged <=> e.kind \in SocketKinds}

Controls == {"Typing", "Inbox", "Timeline", "Aux", "AuxAdd"}

Steps ==
  [do : {"control"}, kind : Controls] \union [do : {"tell"}, event : Reports]
    \union [do : {"spawn", "end"}]

Uis ==
  [generation : Gens, community : Gens, opened : BOOLEAN, pending : SUBSET Messages,
   locked : BOOLEAN, left : SUBSET Targets, unknown : BOOLEAN, lockedAt : Gens, quit : BOOLEAN,
   keys : Nat, sends : 0..MaxSends, batches : 0..MaxBatches, switches : 0..MaxSwitches]

Pumps ==
  [gen : Gens, work : Seq(Steps), batch : SUBSET Targets, read : SUBSET Requests, due : BOOLEAN, over : BOOLEAN]

Sockets == [at : {"off", "connecting", "up", "backoff", "failed", "over"}, first : BOOLEAN, served : BOOLEAN]

UiTyped == ui \in Uis /\ (ui.left # {} \/ ui.unknown <=> ui.locked)

QueuesTyped ==
  /\ outbox \in Seq(Requests) /\ queued \in Seq(Requests)
  /\ commands \in Seq(Requests) /\ Len(commands) <= CommandCap
  /\ events \in Seq(Reports) /\ Len(events) <= EventCap

SocketsTyped ==
  /\ subs \in [Gens -> Seq(Controls)] /\ \A g \in Gens : Len(subs[g]) <= SubCap
  /\ feed \in [Gens -> Seq(Reports)] /\ \A g \in Gens : Len(feed[g]) <= FeedCap
  /\ ws \in [Gens -> Sockets]

Typed ==
  /\ loop \in {"drain", "send", "quit", "flush"}
  /\ UiTyped /\ pump \in Pumps /\ QueuesTyped /\ SocketsTyped

Announces(x) == x.do = "tell" /\ x.event.kind = "CommunitySwitching"

\* Work w of the pump of generation g is of that generation, but the announcement of
\* the next one, right before its start.
InStep(w, g) ==
  /\ \A i \in DOMAIN w : w[i].do = "tell" /\ ~Announces(w[i]) => w[i].event.gen = g
  /\ \A i \in DOMAIN w : Announces(w[i]) =>
       w[i].event.gen = g + 1 /\ i + 1 = Len(w) /\ w[Len(w)].do = "spawn"
  /\ \A i \in DOMAIN w : w[i].do = "spawn" => i = Len(w) /\ (i > 1 => Announces(w[i - 1]))

Working ==
  /\ InStep(pump.work, pump.gen)
  /\ Spawning => pump.read = {}

\* A read claimed while no switch was under way.
Calm(c) == c.kind = "ReadProgress" /\ ~c.amid
HoldsCalm(q) == \E i \in DOMAIN q : Calm(q[i])

\* In queue q no such read is behind a switch, and each is of generation g.
Leads(q) == \A i, j \in DOMAIN q : i < j /\ q[i].kind = "SwitchCommunity" => ~Calm(q[j])
HomeIn(q, g) == \A i \in DOMAIN q : Calm(q[i]) => q[i].home = g

\* Nor is one behind a switch anywhere on its way, and the pump takes it with the
\* client of the community it was claimed in.
AtHome ==
  /\ \A c \in pump.read : c.amid \/ c.home = pump.gen
  /\ Leads(queued) /\ Leads(commands) /\ Leads(outbox)
  /\ HomeIn(queued, pump.gen) /\ HomeIn(commands, pump.gen) /\ HomeIn(outbox, pump.gen)
  /\ HoldsSwitch(queued) => ~HoldsCalm(commands) /\ ~HoldsCalm(outbox)
  /\ HoldsSwitch(commands) => ~HoldsCalm(outbox)
  /\ Spawning => ~HoldsCalm(queued) /\ ~HoldsCalm(commands) /\ ~HoldsCalm(outbox)

\* The generation that was announced last.
Announced == IF Spawning /\ Len(pump.work) = 1 THEN pump.gen + 1 ELSE pump.gen

\* A queue q of events leads from generation b to p: it announces each after b in
\* order, and tells nothing of one before it is announced, nor, but for what sockets
\* report, after the next one is.
InOrder(b, p, q) ==
  /\ b <= p
  /\ \A i \in DOMAIN q : q[i].gen <= p
  /\ \A i \in DOMAIN q : q[i].kind = "CommunitySwitching" => b < q[i].gen
  /\ \A i, j \in DOMAIN q : i < j /\ q[j].kind = "CommunitySwitching" => q[i].gen < q[j].gen
  /\ \A g \in Gens : b < g /\ g <= p => \E i \in DOMAIN q : q[i].kind = "CommunitySwitching" /\ q[i].gen = g
  /\ \A i \in DOMAIN q : ~q[i].tagged =>
       /\ b <= q[i].gen
       /\ \A j \in DOMAIN q : j < i /\ q[j].kind = "CommunitySwitching" => q[j].gen <= q[i].gen

Ordered == ui.generation = ui.community /\ InOrder(ui.community, Announced, events)

\* A generation's feed holds its own reports, and only a started one has any.
Fed ==
  \A g \in Gens : /\ \A i \in DOMAIN feed[g] : feed[g][i].tagged /\ feed[g][i].gen = g
                  /\ ws[g].at = "off" => feed[g] = <<>>

\* No later generation's tasks have started.
Started == \A g \in Gens : g > pump.gen => ws[g].at = "off"

\* How many elements of q are in S.
Count(q, S) == Cardinality({i \in DOMAIN q : q[i] \in S})

Switches == {c \in Requests : c.kind = "SwitchCommunity"}

\* No more switches are on their way than were asked for.
SwitchesCounted ==
  pump.gen + (IF Spawning THEN 1 ELSE 0) + Count(queued, Switches) + Count(commands, Switches)
    + Count(outbox, Switches) <= ui.switches

\* The commands, events and steps that are about target t.
Owed(t) == {c \in Requests : c.kind = "AddMembers" /\ t \in c.about}
Results(t) == {e \in Reports : e.kind \in ResultKinds /\ t \in e.about}
Telleds(t) == [do : {"tell"}, event : Results(t)]

\* The reports of a target that are still to come.
ToCome(t) ==
  Count(queued, Owed(t)) + Count(commands, Owed(t)) + Count(outbox, Owed(t))
    + (IF t \in pump.batch THEN 1 ELSE 0) + Count(pump.work, Telleds(t)) + Count(events, Results(t))

\* A batch that is locked is owed one report of each target without a result.
Accounted ==
  /\ ui.batches = 0 => ~ui.locked /\ \A t \in Targets : ToCome(t) = 0
  /\ ui.locked => /\ ui.lockedAt = ui.generation
                  /\ \A t \in Targets : ToCome(t) = IF t \in ui.left THEN 1 ELSE 0

-----------------------------------------------------------------------------
(* Constants, sequences and counts.                                         *)

LEMMA Constants ==
  /\ MaxSwitches \in Nat /\ MaxSends \in Nat /\ MaxBatches \in Nat
  /\ CommandCap \in Nat \ {0} /\ SubCap \in Nat \ {0} /\ FeedCap \in Nat \ {0} /\ EventCap \in Nat \ {0}
  /\ \A g \in Gens : g \in Nat
  /\ \A m \in Messages : m \in Nat
  /\ 0 \in Gens
  <1>1. /\ MaxSwitches \in Nat /\ MaxSends \in Nat /\ MaxBatches \in Nat
        /\ CommandCap \in Nat \ {0} /\ SubCap \in Nat \ {0} /\ FeedCap \in Nat \ {0} /\ EventCap \in Nat \ {0}
    BY Capacities
  <1> QED
    BY <1>1 DEF Gens, Messages

LEMMA Added ==
  ASSUME NEW S, NEW q \in Seq(S), NEW x \in S
  PROVE  /\ Append(q, x) = q \o <<x>> /\ Append(q, x) \in Seq(S)
         /\ Len(Append(q, x)) = Len(q) + 1 /\ Len(q) \in Nat
         /\ DOMAIN q = 1..Len(q) /\ DOMAIN Append(q, x) = 1..Len(q) + 1
         /\ \A i \in DOMAIN q : Append(q, x)[i] = q[i]
         /\ Append(q, x)[Len(q) + 1] = x
  OBVIOUS

LEMMA Joined ==
  ASSUME NEW S, NEW q \in Seq(S), NEW r \in Seq(S)
  PROVE  /\ q \o r \in Seq(S)
         /\ Len(q \o r) = Len(q) + Len(r) /\ Len(q) \in Nat /\ Len(r) \in Nat
         /\ DOMAIN q = 1..Len(q) /\ DOMAIN r = 1..Len(r) /\ DOMAIN (q \o r) = 1..Len(q) + Len(r)
         /\ \A i \in DOMAIN q : (q \o r)[i] = q[i]
         /\ \A i \in DOMAIN r : (q \o r)[i + Len(q)] = r[i]
  OBVIOUS

LEMMA Taken ==
  ASSUME NEW S, NEW q \in Seq(S), q # <<>>
  PROVE  /\ Head(q) = q[1] /\ Head(q) \in S /\ 1 \in DOMAIN q
         /\ Tail(q) \in Seq(S)
         /\ Len(Tail(q)) = Len(q) - 1 /\ Len(q) \in Nat /\ Len(q) > 0
         /\ DOMAIN q = 1..Len(q) /\ DOMAIN Tail(q) = 1..Len(q) - 1
         /\ \A i \in DOMAIN Tail(q) : Tail(q)[i] = q[i + 1]
         /\ q = <<Head(q)>> \o Tail(q)
  OBVIOUS

LEMMA CountFits ==
  ASSUME NEW T, NEW q \in Seq(T), NEW S
  PROVE  IsFiniteSet({i \in DOMAIN q : q[i] \in S}) /\ Count(q, S) \in Nat
  <1>1. {i \in DOMAIN q : q[i] \in S} \subseteq 1..Len(q) /\ Len(q) \in Nat
    OBVIOUS
  <1>2. IsFiniteSet(1..Len(q))
    BY <1>1, FS_Interval
  <1>3. IsFiniteSet({i \in DOMAIN q : q[i] \in S})
    BY <1>1, <1>2, FS_Subset
  <1> QED
    BY <1>3, FS_CardinalityType DEF Count

LEMMA CountJoined ==
  ASSUME NEW T, NEW q \in Seq(T), NEW r \in Seq(T), NEW S
  PROVE  Count(q \o r, S) = Count(q, S) + Count(r, S)
  <1> DEFINE A == {i \in DOMAIN q : q[i] \in S}
             B == {i \in DOMAIN r : r[i] \in S}
             C == {i \in DOMAIN (q \o r) : (q \o r)[i] \in S}
             D == C \ A
             f == [i \in B |-> i + Len(q)]
  <1>1. IsFiniteSet(A) /\ IsFiniteSet(B) /\ IsFiniteSet(C)
    <2>1. IsFiniteSet(A)
      BY CountFits
    <2>2. IsFiniteSet(B)
      BY CountFits
    <2>3. q \o r \in Seq(T)
      BY Joined
    <2>4. IsFiniteSet(C)
      BY <2>3, CountFits
    <2> QED
      BY <2>1, <2>2, <2>4
  <1>2. A \subseteq C
    BY Joined
  <1>3. \A i \in D : i \in Len(q) + 1..Len(q) + Len(r) /\ r[i - Len(q)] \in S /\ i - Len(q) \in B /\ i \in Nat
    <2> SUFFICES ASSUME NEW i \in D
                 PROVE  i \in Len(q) + 1..Len(q) + Len(r) /\ r[i - Len(q)] \in S /\ i - Len(q) \in B /\ i \in Nat
      OBVIOUS
    <2>1. i \in 1..Len(q) + Len(r) /\ (q \o r)[i] \in S
      BY Joined
    <2>2. ~(i \in DOMAIN q)
      <3> SUFFICES ASSUME i \in DOMAIN q PROVE FALSE
        OBVIOUS
      <3>1. (q \o r)[i] = q[i]
        BY Joined
      <3> QED
        BY <2>1, <3>1
    <2>3. i \in Len(q) + 1..Len(q) + Len(r) /\ i \in Nat
      BY <2>1, <2>2, Joined
    <2>4. i - Len(q) \in DOMAIN r /\ i = (i - Len(q)) + Len(q)
      BY <2>3, Joined
    <2>5. (q \o r)[i] = r[i - Len(q)]
      BY <2>4, Joined
    <2> QED
      BY <2>1, <2>3, <2>4, <2>5
  <1>4. \A i \in B : i \in Nat /\ i + Len(q) \in D /\ (i + Len(q)) - Len(q) = i
    <2> SUFFICES ASSUME NEW i \in B
                 PROVE  i \in Nat /\ i + Len(q) \in D /\ (i + Len(q)) - Len(q) = i
      OBVIOUS
    <2>1. i \in 1..Len(r) /\ r[i] \in S /\ Len(r) \in Nat /\ Len(q) \in Nat
      BY Joined
    <2>2. i \in Nat /\ i + Len(q) \in 1..Len(q) + Len(r) /\ i + Len(q) \notin 1..Len(q) /\ (i + Len(q)) - Len(q) = i
      BY <2>1
    <2>3. i + Len(q) \in C
      BY <2>1, <2>2, Joined
    <2> QED
      BY <2>2, <2>3, Joined
  <1>5. f \in Bijection(B, D)
    <2>1. f \in [B -> D]
      BY <1>4
    <2>2. \A a, b \in B : f[a] = f[b] => a = b
      BY <1>4
    <2>3. \A d \in D : \E b \in B : f[b] = d
      <3> SUFFICES ASSUME NEW d \in D PROVE \E b \in B : f[b] = d
        OBVIOUS
      <3>1. d - Len(q) \in B /\ f[d - Len(q)] = d
        BY <1>3, Joined
      <3> QED
        BY <3>1
    <2> QED
      BY <2>1, <2>2, <2>3 DEF Bijection, Injection, Surjection, IsInjective
  <1>6. IsFiniteSet(D) /\ Cardinality(D) = Cardinality(B)
    <2>1. ExistsBijection(B, D)
      BY <1>5 DEF ExistsBijection
    <2> HIDE DEF B, D
    <2> QED
      BY <1>1, <2>1, FS_Bijection
  <1>7. C = A \union D /\ A \intersect D = {}
    BY <1>2
  <1> HIDE DEF A, B, C, D
  <1>8. Cardinality(C) = Cardinality(A) + Cardinality(D) - Cardinality(A \intersect D)
    BY <1>1, <1>6, <1>7, FS_Union
  <1>9. Cardinality(C) = Cardinality(A) + Cardinality(B)
    <2>1. Cardinality(A) \in Nat /\ Cardinality(B) \in Nat
      BY <1>1, FS_CardinalityType
    <2>2. Cardinality(A \intersect D) = 0
      BY <1>7, FS_EmptySet
    <2> QED
      BY <1>6, <1>8, <2>1, <2>2
  <1> QED
    BY <1>9 DEF A, B, C, Count

LEMMA CountOne ==
  ASSUME NEW x, NEW S
  PROVE  Count(<<x>>, S) = IF x \in S THEN 1 ELSE 0
  <1>1. {i \in DOMAIN <<x>> : <<x>>[i] \in S} = IF x \in S THEN {1} ELSE {}
    OBVIOUS
  <1> QED
    BY <1>1, FS_Singleton, FS_EmptySet DEF Count

LEMMA CountNone ==
  ASSUME NEW S
  PROVE  Count(<<>>, S) = 0
  <1>1. {i \in DOMAIN <<>> : <<>>[i] \in S} = {}
    OBVIOUS
  <1> QED
    BY <1>1, FS_EmptySet DEF Count

LEMMA CountAdded ==
  ASSUME NEW T, NEW q \in Seq(T), NEW x \in T, NEW S
  PROVE  Count(Append(q, x), S) = Count(q, S) + (IF x \in S THEN 1 ELSE 0)
  <1>1. <<x>> \in Seq(T) /\ Append(q, x) = q \o <<x>>
    BY Added
  <1>2. Count(q \o <<x>>, S) = Count(q, S) + Count(<<x>>, S)
    BY <1>1, CountJoined
  <1> QED
    BY <1>1, <1>2, CountOne

LEMMA CountTaken ==
  ASSUME NEW T, NEW q \in Seq(T), q # <<>>, NEW S
  PROVE  Count(Tail(q), S) = Count(q, S) - (IF Head(q) \in S THEN 1 ELSE 0)
  <1>1. <<Head(q)>> \in Seq(T) /\ Tail(q) \in Seq(T) /\ q = <<Head(q)>> \o Tail(q)
    BY Taken
  <1> DEFINE h == <<Head(q)>>
             u == Tail(q)
  <1>2. Count(q, S) = Count(h, S) + Count(u, S)
    <2>1. h \in Seq(T) /\ u \in Seq(T) /\ q = h \o u
      BY <1>1
    <2> HIDE DEF h, u
    <2>2. Count(h \o u, S) = Count(h, S) + Count(u, S)
      BY <2>1, CountJoined
    <2> QED
      BY <2>1, <2>2
  <1>3. Count(Tail(q), S) \in Nat
    BY <1>1, CountFits
  <1> QED
    BY <1>2, <1>3, CountOne

-----------------------------------------------------------------------------
(* The commands and what the pump makes of them.                            *)

Silent == {"Channels", "Members", "Answer"}

\* A course of the pump's present generation that answers no write.
Quiet(w) ==
  /\ w \in Seq(Steps)
  /\ \A i \in DOMAIN w : /\ w[i].do \in {"control", "tell"}
                         /\ w[i].do = "tell" => w[i].event.gen = pump.gen /\ w[i].event.kind \in Silent

LEMMA EventReported ==
  ASSUME NEW kind \in EventKinds, NEW about, NEW g \in Gens, NEW tagged \in BOOLEAN,
         tagged <=> kind \in SocketKinds,
         kind = "Written" => \E m \in Messages : about = {m},
         kind \in {"MemberResult", "MemberUnknown"} => \E t \in Targets : about = {t},
         kind = "MemberBatchCancelled" => about \subseteq Targets,
         kind \notin ResultKinds \union {"Written"} => about = {}
  PROVE  Event(kind, about, g, tagged) \in Reports
  <1>1. about \in (SUBSET Messages) \union (SUBSET Targets)
    <2>1. about = {} \/ (\E m \in Messages : about = {m}) \/ (\E t \in Targets : about = {t}) \/ about \subseteq Targets
      BY DEF ResultKinds
    <2> QED
      BY <2>1
  <1>2. Event(kind, about, g, tagged) \in Events
    BY <1>1 DEF Event, Events
  <1>3. LET e == Event(kind, about, g, tagged) IN e.kind = kind /\ e.about = about /\ e.tagged = tagged
    BY DEF Event
  <1> QED
    BY <1>2, <1>3 DEF Reports

LEMMA TellStep ==
  ASSUME NEW e \in Reports, NEW x, x = [do |-> "tell", event |-> e]
  PROVE  x \in Steps /\ x.do = "tell" /\ x.event = e /\ x \in [do : {"tell"}, event : Reports]
  BY DEF Steps

LEMMA ControlStep ==
  ASSUME NEW kind \in Controls
  PROVE  Control(kind) \in Steps /\ Control(kind).do = "control"
  BY DEF Steps, Control

LEMMA SpawnStep == Spawn \in Steps /\ End \in Steps /\ Spawn.do = "spawn" /\ End.do = "end"
  BY DEF Steps, Spawn, End

LEMMA SilentTell ==
  ASSUME pump.gen \in Gens, NEW kind \in Silent
  PROVE  LET x == Tell(kind, {}) IN
           /\ x \in Steps /\ x.do = "tell" /\ x.event \in Reports
           /\ x.event.gen = pump.gen /\ x.event.kind = kind /\ Quiet(<<x>>)
  <1> DEFINE e == Event(kind, {}, pump.gen, FALSE)
             x == Tell(kind, {})
  <1>1. e \in Reports
    BY EventReported DEF Silent, EventKinds, SocketKinds, ResultKinds
  <1>2. e.gen = pump.gen /\ e.kind = kind
    BY DEF Event
  <1>3. x = [do |-> "tell", event |-> e]
    BY DEF Tell
  <1> HIDE DEF e, x
  <1>4. x \in Steps /\ x.do = "tell" /\ x.event = e
    BY <1>1, <1>3, TellStep
  <1>5. <<x>> \in Seq(Steps) /\ DOMAIN <<x>> = {1} /\ <<x>>[1] = x
    BY <1>4
  <1>6. Quiet(<<x>>)
    BY <1>2, <1>4, <1>5 DEF Quiet
  <1> QED
    BY <1>1, <1>2, <1>4, <1>6 DEF x

LEMMA QuietJoined ==
  ASSUME NEW v, NEW w, Quiet(v), Quiet(w)
  PROVE  Quiet(v \o w)
  <1>1. v \in Seq(Steps) /\ w \in Seq(Steps)
    BY DEF Quiet
  <1> DEFINE r == v \o w
  <1>2. /\ r \in Seq(Steps) /\ DOMAIN v = 1..Len(v) /\ DOMAIN w = 1..Len(w) /\ DOMAIN r = 1..Len(v) + Len(w)
        /\ Len(v) \in Nat /\ Len(w) \in Nat
        /\ \A i \in DOMAIN v : r[i] = v[i]
        /\ \A i \in DOMAIN w : r[i + Len(v)] = w[i]
    BY <1>1, Joined
  <1> HIDE DEF r
  <1>3. \A i \in DOMAIN r : i \in DOMAIN v \/ (i - Len(v) \in DOMAIN w /\ r[i] = w[i - Len(v)])
    BY <1>2
  <1>4. Quiet(r)
    BY <1>2, <1>3 DEF Quiet
  <1> QED
    BY <1>4 DEF r

LEMMA QuietOnes ==
  /\ Quiet(<<>>)
  /\ \A kind \in Controls : Quiet(<<Control(kind)>>)
  <1>1. Quiet(<<>>)
    BY DEF Quiet
  <1>2. ASSUME NEW kind \in Controls PROVE Quiet(<<Control(kind)>>)
    <2>1. Control(kind) \in Steps /\ Control(kind).do = "control"
      BY ControlStep
    <2> QED
      BY <2>1 DEF Quiet
  <1> QED
    BY <1>1, <1>2

\* A course answers the one write it makes, or none.
LEMMA CourseIs ==
  ASSUME pump.gen \in Gens, NEW c \in Requests, NEW steps \in Course(c)
  PROVE  \/ c.kind = "Send" /\ steps = <<Tell("Written", c.about)>>
         \/ c.kind \in {"LoadChannels", "OpenChannel", "AddAux", "LoadMembers"} /\ Quiet(steps)
  <1> DEFINE A == <<Tell("Answer", {})>>
  <1>1. Quiet(A) /\ Quiet(<<Tell("Channels", {})>>) /\ Quiet(<<Tell("Members", {})>>)
    BY SilentTell DEF Silent
  <1>2. Quiet(<<>>) /\ \A kind \in Controls : Quiet(<<Control(kind)>>)
    BY QuietOnes
  <1>3. CASE c.kind = "LoadChannels"
    <2> DEFINE T == <<Control("Typing")>>
               I == <<Control("Inbox")>>
               C == <<Tell("Channels", {})>>
    <2>1. steps = A \/ steps = T \o (I \o (C \o A))
      BY <1>3 DEF Course
    <2>2. Quiet(T) /\ Quiet(I) /\ Quiet(C) /\ Quiet(A)
      BY <1>1, <1>2 DEF Controls
    <2> HIDE DEF T, I, C, A
    <2>3. Quiet(C \o A)
      BY <2>2, QuietJoined
    <2>4. Quiet(I \o (C \o A))
      BY <2>2, <2>3, QuietJoined
    <2>5. Quiet(T \o (I \o (C \o A)))
      BY <2>2, <2>4, QuietJoined
    <2> QED
      BY <1>3, <2>1, <2>2, <2>5
  <1>4. CASE c.kind = "OpenChannel"
    <2> DEFINE m == <<Control("Timeline"), Tell("Answer", {})>>
               X == <<Control("Aux")>>
    <2>1. PICK u \in {<<>>, A}, a \in {<<>>, X} : steps = u \o m \o a
      BY <1>4 DEF Course
    <2>2. Quiet(X) /\ Quiet(A) /\ Quiet(<<>>)
      BY <1>1, <1>2 DEF Controls
    <2>3. Quiet(m)
      <3>1. Control("Timeline") \in Steps /\ Control("Timeline").do = "control"
        BY ControlStep DEF Controls
      <3>2. LET x == Tell("Answer", {}) IN x \in Steps /\ x.do = "tell" /\ x.event.gen = pump.gen /\ x.event.kind \in Silent
        BY SilentTell DEF Silent
      <3> QED
        BY <3>1, <3>2 DEF Quiet
    <2> HIDE DEF m, X, A
    <2>4. Quiet(u \o m)
      BY <2>1, <2>2, <2>3, QuietJoined
    <2>5. Quiet(u \o m \o a)
      BY <2>1, <2>2, <2>4, QuietJoined
    <2> QED
      BY <1>4, <2>1, <2>5
  <1>5. CASE c.kind = "AddAux"
    <2>1. steps = <<Control("AuxAdd")>>
      BY <1>5 DEF Course
    <2> QED
      BY <1>2, <1>5, <2>1 DEF Controls
  <1>6. CASE c.kind = "LoadMembers"
    <2>1. steps = <<Tell("Members", {})>>
      BY <1>6 DEF Course
    <2> QED
      BY <1>1, <1>6, <2>1
  <1>7. CASE c.kind = "Send"
    BY <1>7 DEF Course
  <1>8. CASE c.kind \notin {"LoadChannels", "OpenChannel", "AddAux", "LoadMembers", "Send"}
    BY <1>8 DEF Course
  <1> QED
    BY <1>3, <1>4, <1>5, <1>6, <1>7, <1>8

\* What publishing the pending read answers.
LEMMA FlushIs ==
  ASSUME pump.gen \in Gens
  PROVE  Quiet(Flush) /\ (Flush = <<>> \/ Flush = <<Tell("Answer", {})>>) /\ Flush \in Seq(Steps)
  <1>1. Flush = <<>> \/ Flush = <<Tell("Answer", {})>>
    BY DEF Flush
  <1>2. Quiet(Flush)
    BY <1>1, SilentTell, QuietOnes DEF Silent
  <1> QED
    BY <1>1, <1>2 DEF Quiet

-----------------------------------------------------------------------------
(* What the interface's steps do.                                           *)

ErrandKinds == {"LoadChannels", "OpenChannel", "AddAux", "LoadMembers"}

\* Commands that neither write nor move.
Errands(r) == r \in Seq(Requests) /\ \A i \in DOMAIN r : r[i].kind \in ErrandKinds

LEMMA CommandTyped ==
  ASSUME UiTyped, NEW kind \in CommandKinds, NEW about,
         kind = "Send" => \E m \in Messages : about = {m},
         kind = "AddMembers" => about = Targets,
         kind \notin {"Send", "AddMembers"} => about = {}
  PROVE  /\ Command(kind, about) \in Requests
         /\ Command(kind, about).kind = kind /\ Command(kind, about).about = about
  <1>1. about \in (SUBSET Messages) \union (SUBSET Targets)
    <2>1. about = {} \/ (\E m \in Messages : about = {m}) \/ about = Targets
      OBVIOUS
    <2> QED
      BY <2>1
  <1>2. ui.community \in Gens
    BY DEF UiTyped, Uis
  <1>3. Command(kind, about) \in Commands
    BY <1>1, <1>2 DEF Command, Commands, SwitchUnderWay
  <1>4. Command(kind, about).kind = kind /\ Command(kind, about).about = about
    BY DEF Command
  <1> QED
    BY <1>3, <1>4 DEF Requests

LEMMA ErrandOne ==
  ASSUME UiTyped, NEW kind \in ErrandKinds
  PROVE  Errands(<<Command(kind, {})>>)
  <1>1. Command(kind, {}) \in Requests /\ Command(kind, {}).kind = kind
    BY CommandTyped DEF ErrandKinds, CommandKinds
  <1> QED
    BY <1>1 DEF Errands

LEMMA ErrandsJoined ==
  ASSUME NEW v, NEW w, Errands(v), Errands(w)
  PROVE  Errands(v \o w)
  <1>1. v \in Seq(Requests) /\ w \in Seq(Requests)
    BY DEF Errands
  <1> DEFINE r == v \o w
  <1>2. /\ r \in Seq(Requests) /\ DOMAIN v = 1..Len(v) /\ DOMAIN w = 1..Len(w) /\ DOMAIN r = 1..Len(v) + Len(w)
        /\ Len(v) \in Nat /\ Len(w) \in Nat
        /\ \A i \in DOMAIN v : r[i] = v[i]
        /\ \A i \in DOMAIN w : r[i + Len(v)] = w[i]
    BY <1>1, Joined
  <1> HIDE DEF r
  <1>3. \A i \in DOMAIN r : i \in DOMAIN v \/ (i - Len(v) \in DOMAIN w /\ r[i] = w[i - Len(v)])
    BY <1>2
  <1>4. Errands(r)
    BY <1>2, <1>3 DEF Errands
  <1> QED
    BY <1>4 DEF r

LEMMA ErrandsNone == Errands(<<>>)
  BY DEF Errands

\* What an event an interface applies asks for.
Asks == \E r : Errands(r) /\ outbox' = outbox \o r

LEMMA AsksNothing ==
  ASSUME QueuesTyped, UNCHANGED outbox
  PROVE  Asks
  <1>1. outbox' = outbox \o <<>>
    BY DEF QueuesTyped
  <1> QED
    BY <1>1, ErrandsNone DEF Asks

LEMMA AsksOne ==
  ASSUME UiTyped, NEW kind \in ErrandKinds, NEW r, r = <<>> \/ r = <<Command(kind, {})>>, outbox' = outbox \o r
  PROVE  Asks
  BY ErrandOne, ErrandsNone DEF Asks

\* An event changes the communities only by announcing one or by its own tag.
Follows(e) ==
  /\ e.kind = "CommunitySwitching" => ui'.generation = e.gen /\ ui'.community = e.gen
  /\ e.kind # "CommunitySwitching" =>
       ui'.community = ui.community /\ ui'.generation = IF e.tagged THEN e.gen ELSE ui.generation

Kept ==
  /\ ui'.sends = ui.sends /\ ui'.batches = ui.batches /\ ui'.switches = ui.switches

LEMMA SeenIs ==
  ASSUME UiTyped, NEW e \in Reports
  PROVE  /\ Seen(e) \in Uis
         /\ Seen(e) = [ui EXCEPT !.generation = IF e.tagged THEN e.gen ELSE ui.generation]
         /\ Seen(e).left = ui.left /\ Seen(e).unknown = ui.unknown /\ Seen(e).locked = ui.locked
  <1>1. e.gen \in Gens /\ e.tagged \in BOOLEAN
    BY DEF Reports, Events
  <1>2. ui \in Uis
    BY DEF UiTyped
  <1>3. Seen(e) = [ui EXCEPT !.generation = IF e.tagged THEN e.gen ELSE ui.generation]
    BY <1>2 DEF Seen, Uis
  <1> QED
    BY <1>1, <1>2, <1>3 DEF Uis

LEMMA ConnectedDoes ==
  ASSUME Typed, NEW e \in Reports, ApplyConnected(e)
  PROVE  UiTyped' /\ Asks /\ Follows(e) /\ Kept
  <1>1. ui' = Seen(e) /\ e.kind = "Connected"
    BY DEF ApplyConnected
  <1>2. UiTyped
    BY DEF Typed
  <1>3. ui' = [ui EXCEPT !.generation = IF e.tagged THEN e.gen ELSE ui.generation] /\ ui \in Uis
    BY <1>1, <1>2, SeenIs DEF UiTyped
  <1>4. UiTyped' /\ Follows(e) /\ Kept
    BY <1>1, <1>2, <1>3, SeenIs DEF UiTyped, Follows, Kept, Uis
  <1>5. Asks
    <2> DEFINE a == <<Command("LoadChannels", {})>>
               b == IF ui.opened THEN <<Command("OpenChannel", {})>> ELSE <<>>
    <2>1. outbox' = outbox \o (a \o b)
      BY DEF ApplyConnected, Ask
    <2>2. Errands(a) /\ Errands(b)
      BY <1>2, ErrandOne, ErrandsNone DEF ErrandKinds
    <2> HIDE DEF a, b
    <2> QED
      BY <2>1, <2>2, ErrandsJoined DEF Asks
  <1> QED
    BY <1>4, <1>5

LEMMA ChannelsDoes ==
  ASSUME Typed, NEW e \in Reports, ApplyChannels(e) \/ ApplyTimeline(e) \/ ApplyGone(e)
  PROVE  UiTyped' /\ Asks /\ Follows(e) /\ Kept
  <1>1. UiTyped
    BY DEF Typed
  <1> DEFINE s == [ui EXCEPT !.generation = IF e.tagged THEN e.gen ELSE ui.generation]
  <1>2. s = Seen(e) /\ s \in Uis /\ ui \in Uis
    BY <1>1, SeenIs DEF UiTyped
  <1>3. /\ s.left = ui.left /\ s.unknown = ui.unknown /\ s.locked = ui.locked
        /\ s.community = ui.community /\ s.generation = IF e.tagged THEN e.gen ELSE ui.generation
        /\ s.sends = ui.sends /\ s.batches = ui.batches /\ s.switches = ui.switches
    BY <1>2 DEF Uis
  <1> HIDE DEF s
  <1>4. \/ ui' = [s EXCEPT !.opened = TRUE] \/ ui' = s
        \/ ui' = [s EXCEPT !.locked = FALSE, !.left = {}, !.unknown = FALSE]
    BY <1>2 DEF ApplyChannels, ApplyTimeline, ApplyGone
  <1>5. e.kind # "CommunitySwitching"
    BY DEF ApplyChannels, ApplyTimeline, ApplyGone
  <1>6. ui' \in Uis
    BY <1>2, <1>4 DEF Uis
  <1>7. (ui.left # {} \/ ui.unknown <=> ui.locked)'
    BY <1>1, <1>2, <1>3, <1>4 DEF UiTyped, Uis
  <1>8. Follows(e) /\ Kept
    BY <1>2, <1>3, <1>4, <1>5 DEF Follows, Kept, Uis
  <1>9. \E kind \in ErrandKinds : outbox' = outbox \o <<>> \/ outbox' = outbox \o <<Command(kind, {})>>
    <2>1. \E kind \in {"OpenChannel", "AddAux"} : outbox' = outbox \o <<>> \/ outbox' = outbox \o <<Command(kind, {})>>
      BY DEF ApplyChannels, ApplyTimeline, ApplyGone, Ask
    <2> QED
      BY <2>1 DEF ErrandKinds
  <1>10. Asks
    BY <1>1, <1>9, AsksOne
  <1> QED
    BY <1>6, <1>7, <1>8, <1>10 DEF UiTyped

LEMMA SwitchingDoes ==
  ASSUME Typed, NEW e \in Reports, ApplySwitching(e)
  PROVE  UiTyped' /\ outbox' = <<>> /\ Follows(e) /\ Kept
  <1>1. ui \in Uis /\ e.gen \in Gens
    BY DEF Typed, UiTyped, Reports, Events
  <1>2. /\ ui' = [ui EXCEPT !.generation = e.gen, !.community = e.gen, !.opened = FALSE, !.pending = {},
                            !.locked = FALSE, !.left = {}, !.unknown = FALSE]
        /\ e.kind = "CommunitySwitching" /\ outbox' = <<>>
    BY DEF ApplySwitching
  <1>3. ui' \in Uis
    BY <1>1, <1>2 DEF Uis
  <1> QED
    BY <1>1, <1>2, <1>3 DEF UiTyped, Follows, Kept, Uis

LEMMA WrittenDoes ==
  ASSUME Typed, NEW e \in Reports, ApplyWritten(e) \/ ApplyMembers(e)
  PROVE  UiTyped' /\ Asks /\ Follows(e) /\ Kept
  <1>1. ui \in Uis /\ (ui.left # {} \/ ui.unknown <=> ui.locked) /\ QueuesTyped /\ ~e.tagged
    <2>1. e.kind \notin SocketKinds
      BY DEF ApplyWritten, ApplyMembers, SocketKinds
    <2> QED
      BY <2>1 DEF Typed, UiTyped, Reports
  <1>2. /\ \/ ui' = [ui EXCEPT !.pending = @ \ e.about] \/ ui' = ui
           \/ ui.left = {} /\ ui' = [ui EXCEPT !.locked = FALSE, !.unknown = FALSE]
        /\ outbox' = outbox /\ e.kind # "CommunitySwitching"
    BY DEF ApplyWritten, ApplyMembers
  <1>3. ui' \in Uis
    BY <1>1, <1>2 DEF Uis
  <1>4. (ui.left # {} \/ ui.unknown <=> ui.locked)'
    BY <1>1, <1>2 DEF Uis
  <1>5. Follows(e) /\ Kept
    BY <1>1, <1>2 DEF Follows, Kept, Uis
  <1> QED
    BY <1>1, <1>2, <1>3, <1>4, <1>5, AsksNothing DEF UiTyped

LEMMA SettleDoes ==
  ASSUME Typed, NEW left \in SUBSET Targets, NEW unknown \in BOOLEAN, Settle(left, unknown)
  PROVE  /\ UiTyped' /\ Asks /\ Kept
         /\ ui'.generation = ui.generation /\ ui'.community = ui.community
  <1>1. ui \in Uis /\ QueuesTyped /\ UiTyped
    BY DEF Typed, UiTyped
  <1>2. ui' = [ui EXCEPT !.left = left, !.unknown = unknown, !.locked = left # {} \/ unknown]
    BY DEF Settle
  <1>3. ui' \in Uis
    BY <1>1, <1>2 DEF Uis
  <1>4. (ui.left # {} \/ ui.unknown <=> ui.locked)'
    BY <1>1, <1>2 DEF Uis
  <1>5. Kept /\ ui'.generation = ui.generation /\ ui'.community = ui.community
    BY <1>1, <1>2 DEF Kept, Uis
  <1>6. outbox' = outbox \o <<>> \/ outbox' = outbox \o <<Command("LoadMembers", {})>>
    BY DEF Settle, Ask
  <1>7. Asks
    BY <1>1, <1>6, AsksOne DEF ErrandKinds
  <1> QED
    BY <1>3, <1>4, <1>5, <1>7 DEF UiTyped

LEMMA ResultDoes ==
  ASSUME Typed, NEW e \in Reports, ApplyMemberWrite(e) \/ ApplyMemberCancelled(e) \/ ApplyOther(e)
  PROVE  UiTyped' /\ Asks /\ Follows(e) /\ Kept
  <1>1. ui \in Uis /\ QueuesTyped /\ UiTyped /\ ui.left \in SUBSET Targets /\ ui.unknown \in BOOLEAN
    BY DEF Typed, UiTyped, Uis
  <1>2. CASE UNCHANGED <<ui, outbox>> /\ ~e.tagged /\ e.kind # "CommunitySwitching"
    <2>1. UiTyped' /\ Follows(e) /\ Kept
      BY <1>1, <1>2 DEF UiTyped, Follows, Kept
    <2> QED
      BY <1>1, <1>2, <2>1, AsksNothing
  <1>3. ASSUME NEW left \in SUBSET Targets, NEW unknown \in BOOLEAN, Settle(left, unknown),
               ~e.tagged, e.kind # "CommunitySwitching"
        PROVE  UiTyped' /\ Asks /\ Follows(e) /\ Kept
    BY <1>3, SettleDoes DEF Follows
  <1>4. CASE ApplyMemberWrite(e) \/ ApplyMemberCancelled(e)
    <2>1. ~e.tagged /\ e.kind # "CommunitySwitching"
      BY <1>4 DEF ApplyMemberWrite, ApplyMemberCancelled, Reports, SocketKinds
    <2>2. \/ UNCHANGED <<ui, outbox>>
          \/ Settle(ui.left \ e.about, ui.unknown \/ e.kind = "MemberUnknown")
          \/ Settle(ui.left \ e.about, ui.unknown)
      BY <1>4 DEF ApplyMemberWrite, ApplyMemberCancelled
    <2>3. ui.left \ e.about \in SUBSET Targets /\ (ui.unknown \/ e.kind = "MemberUnknown") \in BOOLEAN
      BY <1>1
    <2> QED
      BY <1>1, <1>2, <1>3, <2>1, <2>2, <2>3
  <1>5. CASE ApplyOther(e)
    <2>1. ui' = Seen(e) /\ outbox' = outbox /\ e.kind # "CommunitySwitching"
      BY <1>5 DEF ApplyOther
    <2>2. ui' = [ui EXCEPT !.generation = IF e.tagged THEN e.gen ELSE ui.generation]
      BY <1>1, <2>1, SeenIs
    <2>3. Follows(e) /\ Kept
      BY <1>1, <2>1, <2>2 DEF Follows, Kept, Uis
    <2>4. UiTyped'
      BY <1>1, <2>1, SeenIs DEF UiTyped
    <2> QED
      BY <1>1, <2>1, <2>3, <2>4, AsksNothing
  <1> QED
    BY <1>4, <1>5

LEMMA ApplyDoes ==
  ASSUME Typed, ApplyEvent
  PROVE  /\ UiTyped' /\ Kept /\ events # <<>> /\ events' = Tail(events) /\ Head(events) \in Reports
         /\ UNCHANGED <<loop, commands, pump, queued, subs, feed, ws, net>>
         /\ outbox' = <<>> \/ Asks
         /\ Stale(Head(events)) => ui' = ui
         /\ ~Stale(Head(events)) => Follows(Head(events))
  <1> DEFINE e == Head(events)
  <1>1. /\ events # <<>> /\ events' = Tail(events)
        /\ UNCHANGED <<loop, commands, pump, queued, subs, feed, ws, net>>
    BY DEF ApplyEvent
  <1>2. e \in Reports
    BY <1>1, Taken DEF Typed, QueuesTyped
  <1>3. UiTyped /\ QueuesTyped
    BY DEF Typed
  <1>4. CASE Stale(e)
    <2>1. UNCHANGED <<ui, outbox>>
      BY <1>4 DEF ApplyEvent
    <2>2. UiTyped' /\ Kept
      BY <1>3, <2>1 DEF UiTyped, Kept
    <2> QED
      BY <1>1, <1>2, <1>3, <1>4, <2>1, <2>2, AsksNothing
  <1>5. CASE ~Stale(e)
    <2>1. \/ ApplyConnected(e) \/ ApplyChannels(e) \/ ApplyTimeline(e)
          \/ ApplyGone(e) \/ ApplySwitching(e) \/ ApplyWritten(e)
          \/ ApplyMemberWrite(e) \/ ApplyMemberCancelled(e)
          \/ ApplyMembers(e) \/ ApplyOther(e)
      BY <1>5 DEF ApplyEvent
    <2> HIDE DEF e
    <2>2. UiTyped' /\ (outbox' = <<>> \/ Asks) /\ Follows(e) /\ Kept
      BY <1>2, <2>1, ConnectedDoes, ChannelsDoes, SwitchingDoes, WrittenDoes, ResultDoes
    <2> QED
      BY <1>1, <1>2, <1>5, <2>2 DEF e
  <1> QED
    BY <1>4, <1>5

\* What the user's command asks for, and the number it is counted by.
Wants(c, counted) ==
  /\ c \in Requests /\ outbox' = <<c>>
  /\ c.kind = "Send" => counted = "sends" /\ c.about = {ui.sends + 1}
  /\ c.kind = "AddMembers" => counted = "batches"
  /\ c.kind = "SwitchCommunity" => counted = "switches"
  /\ Calm(c) => c.home = ui.community /\ ~SwitchUnderWay
  /\ c.kind \in {"Send", "AddMembers", "SwitchCommunity", "ReadProgress"}

KeyKept(counted) ==
  /\ ui'.generation = ui.generation /\ ui'.community = ui.community
  /\ ui'.sends = ui.sends + (IF counted = "sends" THEN 1 ELSE 0)
  /\ ui'.batches = ui.batches + (IF counted = "batches" THEN 1 ELSE 0)
  /\ ui'.switches = ui.switches + (IF counted = "switches" THEN 1 ELSE 0)

LEMMA KeyDoes ==
  ASSUME Typed, WriteMessage \/ ClaimRead \/ SubmitMembers \/ ConfirmCommunity
  PROVE  UiTyped' /\ \E c, counted : Wants(c, counted) /\ KeyKept(counted) /\ counted = (
           CASE c.kind = "Send" -> "sends" [] c.kind = "AddMembers" -> "batches"
             [] c.kind = "SwitchCommunity" -> "switches" [] OTHER -> "none")
  <1>1. ui \in Uis /\ UiTyped /\ (ui.left # {} \/ ui.unknown <=> ui.locked)
    BY DEF Typed, UiTyped
  <1>2. /\ ui.keys \in Nat /\ ui.sends \in 0..MaxSends /\ ui.batches \in 0..MaxBatches /\ ui.switches \in 0..MaxSwitches
        /\ ui.generation \in Gens
    BY <1>1 DEF Uis
  <1>3. CASE WriteMessage
    <2> DEFINE c == Command("Send", {ui.sends + 1})
    <2>1. /\ ui' = [ui EXCEPT !.keys = @ + 1, !.sends = @ + 1, !.pending = @ \cup {ui.sends + 1}]
          /\ ui.sends < MaxSends /\ outbox' = <<c>>
      BY <1>3 DEF WriteMessage
    <2>2. ui.sends + 1 \in Messages /\ ui.sends + 1 \in 0..MaxSends /\ ui.keys + 1 \in Nat
      BY <1>2, <2>1, Constants DEF Messages
    <2>3. c \in Requests /\ c.kind = "Send" /\ c.about = {ui.sends + 1}
      BY <1>1, <2>2, CommandTyped DEF CommandKinds
    <2> HIDE DEF c
    <2>4. ui' \in Uis
      BY <1>1, <2>1, <2>2 DEF Uis
    <2>5. (ui.left # {} \/ ui.unknown <=> ui.locked)' /\ KeyKept("sends")
      BY <1>1, <1>2, <2>1 DEF Uis, KeyKept
    <2>6. Wants(c, "sends")
      BY <2>1, <2>3 DEF Wants, Calm
    <2> QED
      BY <2>3, <2>4, <2>5, <2>6 DEF UiTyped
  <1>4. CASE ClaimRead
    <2> DEFINE c == Command("ReadProgress", {})
    <2>1. /\ ui' = [ui EXCEPT !.keys = @ + 1] /\ outbox' = <<c>>
      BY <1>4 DEF ClaimRead
    <2>2. Calm(c) => c.home = ui.community /\ ~SwitchUnderWay
      BY DEF Calm, Command
    <2>3. c \in Requests /\ c.kind = "ReadProgress"
      BY <1>1, CommandTyped DEF CommandKinds
    <2> HIDE DEF c
    <2>4. ui' \in Uis
      BY <1>1, <1>2, <2>1 DEF Uis
    <2>5. (ui.left # {} \/ ui.unknown <=> ui.locked)' /\ KeyKept("none")
      BY <1>1, <1>2, <2>1 DEF Uis, KeyKept
    <2>6. Wants(c, "none")
      BY <2>1, <2>2, <2>3 DEF Wants
    <2> QED
      BY <2>3, <2>4, <2>5, <2>6 DEF UiTyped
  <1>5. CASE SubmitMembers
    <2> DEFINE c == Command("AddMembers", Targets)
    <2>1. /\ ui' = [ui EXCEPT !.keys = @ + 1, !.batches = @ + 1, !.locked = TRUE, !.left = Targets,
                      !.unknown = FALSE, !.lockedAt = ui.generation]
          /\ ui.batches < MaxBatches /\ outbox' = <<c>>
      BY <1>5 DEF SubmitMembers
    <2>2. ui.batches + 1 \in 0..MaxBatches /\ ui.keys + 1 \in Nat
      BY <1>2, <2>1, Constants
    <2>3. c \in Requests /\ c.kind = "AddMembers"
      BY <1>1, CommandTyped DEF CommandKinds
    <2> HIDE DEF c
    <2>4. ui' \in Uis
      BY <1>1, <1>2, <2>1, <2>2 DEF Uis
    <2>5. (ui.left # {} \/ ui.unknown <=> ui.locked)' /\ KeyKept("batches")
      BY <1>1, <1>2, <2>1, Capacities DEF Uis, KeyKept
    <2>6. Wants(c, "batches")
      BY <2>1, <2>3 DEF Wants, Calm
    <2> QED
      BY <2>3, <2>4, <2>5, <2>6 DEF UiTyped
  <1>6. CASE ConfirmCommunity
    <2> DEFINE c == Command("SwitchCommunity", {})
    <2>1. /\ ui' = [ui EXCEPT !.keys = @ + 1, !.switches = @ + 1]
          /\ ui.switches < MaxSwitches /\ outbox' = <<c>>
      BY <1>6 DEF ConfirmCommunity
    <2>2. ui.switches + 1 \in 0..MaxSwitches /\ ui.keys + 1 \in Nat
      BY <1>2, <2>1, Constants
    <2>3. c \in Requests /\ c.kind = "SwitchCommunity"
      BY <1>1, CommandTyped DEF CommandKinds
    <2> HIDE DEF c
    <2>4. ui' \in Uis
      BY <1>1, <1>2, <2>1, <2>2 DEF Uis
    <2>5. (ui.left # {} \/ ui.unknown <=> ui.locked)' /\ KeyKept("switches")
      BY <1>1, <1>2, <2>1 DEF Uis, KeyKept
    <2>6. Wants(c, "switches")
      BY <2>1, <2>3 DEF Wants, Calm
    <2> QED
      BY <2>3, <2>4, <2>5, <2>6 DEF UiTyped
  <1> QED
    BY <1>3, <1>4, <1>5, <1>6

LEMMA TakeKeyDoes ==
  ASSUME Typed, TakeKey
  PROVE  /\ UiTyped' /\ outbox = <<>> /\ outbox' \in Seq(Requests) /\ loop' \in {"quit", "drain"}
         /\ UNCHANGED <<commands, pump, queued, subs, feed, events, ws, net>>
         /\ \/ WriteMessage \/ ClaimRead \/ SubmitMembers \/ ConfirmCommunity
            \/ /\ outbox' = outbox
               /\ ui' = [ui EXCEPT !.quit = TRUE] \/ ui' = ui
  <1>1. /\ UiTyped /\ ui \in Uis /\ QueuesTyped
    BY DEF Typed, UiTyped
  <1>2. /\ outbox = <<>> /\ loop' \in {"quit", "drain"}
        /\ UNCHANGED <<commands, pump, queued, subs, feed, events, ws, net>>
    BY DEF TakeKey
  <1>3. \/ WriteMessage \/ ClaimRead \/ SubmitMembers \/ ConfirmCommunity
        \/ /\ outbox' = outbox
           /\ ui' = [ui EXCEPT !.quit = TRUE] \/ ui' = ui
    BY DEF TakeKey, QuitKey, NoKey
  <1>4. CASE WriteMessage \/ ClaimRead \/ SubmitMembers \/ ConfirmCommunity
    <2>1. UiTyped' /\ \E c : c \in Requests /\ outbox' = <<c>>
      BY <1>4, KeyDoes DEF Wants
    <2> QED
      BY <1>2, <1>3, <2>1
  <1>5. CASE /\ outbox' = outbox
             /\ ui' = [ui EXCEPT !.quit = TRUE] \/ ui' = ui
    <2>1. UiTyped'
      BY <1>1, <1>5 DEF UiTyped, Uis
    <2> QED
      BY <1>1, <1>2, <1>3, <1>5, <2>1 DEF QueuesTyped
  <1> QED
    BY <1>3, <1>4, <1>5

\* The interface's part of the types.
LEMMA InterfaceStep ==
  ASSUME Typed, Interface
  PROVE  UiTyped' /\ QueuesTyped' /\ loop' \in {"drain", "send", "quit", "flush"} /\ UNCHANGED <<pump, subs, feed, ws>>
  <1>1. UiTyped /\ ui \in Uis /\ QueuesTyped /\ loop \in {"drain", "send", "quit", "flush"}
    BY DEF Typed, UiTyped
  <1>2. CASE ApplyEvent
    <2>1. /\ UiTyped' /\ events # <<>> /\ events' = Tail(events)
          /\ UNCHANGED <<loop, commands, pump, queued, subs, feed, ws, net>>
          /\ outbox' = <<>> \/ Asks
      BY <1>2, ApplyDoes
    <2>2. outbox' \in Seq(Requests)
      <3>1. CASE Asks
        <4>1. PICK r : Errands(r) /\ outbox' = outbox \o r
          BY <3>1 DEF Asks
        <4> QED
          BY <1>1, <4>1, Joined DEF Errands, QueuesTyped
      <3>2. CASE outbox' = <<>>
        BY <3>2
      <3> QED
        BY <2>1, <3>1, <3>2
    <2>3. events' \in Seq(Reports) /\ Len(events') <= EventCap
      <3>1. events' \in Seq(Reports) /\ Len(events') = Len(events) - 1 /\ Len(events) \in Nat /\ Len(events) <= EventCap
        BY <1>1, <2>1, Taken DEF QueuesTyped
      <3> QED
        BY <3>1, Constants
    <2> QED
      BY <1>1, <2>1, <2>2, <2>3 DEF QueuesTyped
  <1>3. CASE Drained
    <2>1. /\ UNCHANGED <<outbox, commands, pump, queued, subs, feed, events, ws, net>>
          /\ loop' = "send" /\ ui' = [ui EXCEPT !.quit = @ \/ ws[0].at = "failed"]
      BY <1>3 DEF Drained
    <2>2. UiTyped'
      BY <1>1, <2>1 DEF UiTyped, Uis
    <2> QED
      BY <1>1, <2>1, <2>2 DEF QueuesTyped
  <1>4. CASE SendOutbox
    <2>1. /\ UNCHANGED <<loop, ui, pump, queued, subs, feed, events, ws, net>>
          /\ outbox # <<>> /\ Len(commands) < CommandCap
          /\ commands' = Append(commands, Head(outbox)) /\ outbox' = Tail(outbox)
      BY <1>4 DEF SendOutbox
    <2>2. Head(outbox) \in Requests /\ outbox' \in Seq(Requests)
      BY <1>1, <2>1, Taken DEF QueuesTyped
    <2>3. commands' \in Seq(Requests) /\ Len(commands') = Len(commands) + 1 /\ Len(commands) \in Nat
      BY <1>1, <2>1, <2>2, Added DEF QueuesTyped
    <2>4. Len(commands') <= CommandCap
      BY <2>1, <2>3, Constants
    <2>5. UiTyped'
      BY <1>1, <2>1 DEF UiTyped
    <2> QED
      BY <1>1, <2>1, <2>2, <2>3, <2>4, <2>5 DEF QueuesTyped
  <1>5. CASE TakeKey
    <2>1. /\ UiTyped' /\ outbox' \in Seq(Requests) /\ loop' \in {"quit", "drain"}
          /\ UNCHANGED <<commands, pump, queued, subs, feed, events, ws, net>>
      BY <1>5, TakeKeyDoes
    <2> QED
      BY <1>1, <2>1 DEF QueuesTyped
  <1>6. CASE SendShutdown
    <2> DEFINE c == Command("Shutdown", {})
    <2>1. /\ UNCHANGED <<ui, outbox, pump, queued, subs, feed, events, ws, net>>
          /\ Len(commands) < CommandCap /\ loop' = "flush"
          /\ commands' = Append(commands, c)
      BY <1>6 DEF SendShutdown
    <2>2. c \in Requests
      BY <1>1, CommandTyped DEF CommandKinds
    <2> HIDE DEF c
    <2>3. commands' \in Seq(Requests) /\ Len(commands') = Len(commands) + 1 /\ Len(commands) \in Nat
      BY <1>1, <2>1, <2>2, Added DEF QueuesTyped
    <2>4. Len(commands') <= CommandCap
      BY <2>1, <2>3, Constants
    <2>5. UiTyped'
      BY <1>1, <2>1 DEF UiTyped
    <2> QED
      BY <1>1, <2>1, <2>2, <2>3, <2>4, <2>5 DEF QueuesTyped
  <1> QED
    BY <1>2, <1>3, <1>4, <1>5, <1>6 DEF Interface

-----------------------------------------------------------------------------
(* What the command pump's steps do.                                        *)

\* The pump takes the next command.
Takes(c) ==
  /\ c \in Requests /\ Execute(c) /\ pump.work = <<>> /\ pump.batch = {}
  /\ UNCHANGED <<loop, ui, outbox, subs, feed, events, ws, net>>
  /\ \/ queued # <<>> /\ c = Head(queued) /\ queued' = Tail(queued) /\ commands' = commands
     \/ queued = <<>> /\ commands # <<>> /\ c = Head(commands) /\ commands' = Tail(commands) /\ queued' = queued

LEMMA TakeCommandDoes ==
  ASSUME Typed, TakeCommand
  PROVE  \E c : Takes(c)
  <1>1. /\ pump.work = <<>> /\ pump.batch = {} /\ UNCHANGED <<loop, ui, outbox, subs, feed, events, ws, net>>
    BY DEF TakeCommand, PumpIdle
  <1>2. queued \in Seq(Requests) /\ commands \in Seq(Requests)
    BY DEF Typed, QueuesTyped
  <1>3. CASE queued # <<>> /\ Execute(Head(queued)) /\ queued' = Tail(queued) /\ UNCHANGED commands
    BY <1>1, <1>2, <1>3, Taken DEF Takes
  <1>4. CASE queued = <<>> /\ commands # <<>> /\ Execute(Head(commands)) /\ commands' = Tail(commands) /\ UNCHANGED queued
    BY <1>1, <1>2, <1>4, Taken DEF Takes
  <1> QED
    BY <1>3, <1>4 DEF TakeCommand

\* The work of a switch.
Moves(w) == w = <<Announce, Spawn>> \/ w = <<Tell("Answer", {}), Announce, Spawn>>

LEMMA AnnounceIs ==
  ASSUME pump.gen + 1 \in Gens
  PROVE  /\ Announce \in Steps /\ Announces(Announce) /\ Announce.event.gen = pump.gen + 1
         /\ Announce.do = "tell" /\ Announce.event.kind = "CommunitySwitching"
  <1> DEFINE e == Event("CommunitySwitching", {}, pump.gen + 1, FALSE)
  <1>1. e \in Reports
    BY EventReported DEF EventKinds, SocketKinds, ResultKinds
  <1>2. e.gen = pump.gen + 1 /\ e.kind = "CommunitySwitching"
    BY DEF Event
  <1>3. Announce = [do |-> "tell", event |-> e]
    BY DEF Announce
  <1> HIDE DEF e
  <1>4. Announce \in Steps /\ Announce.do = "tell" /\ Announce.event = e
    BY <1>1, <1>3, TellStep
  <1> QED
    BY <1>2, <1>4 DEF Announces

LEMMA MovesIs ==
  ASSUME pump.gen \in Gens, pump.gen + 1 \in Gens, NEW w, Moves(w)
  PROVE  /\ w \in Seq(Steps) /\ InStep(w, pump.gen) /\ Len(w) > 1
         /\ \E i \in DOMAIN w : w[i].do = "spawn"
         /\ \A i \in DOMAIN w : w[i].do = "spawn" \/ Announces(w[i]) \/ (w[i].do = "tell" /\ w[i].event.kind \in Silent)
  <1> DEFINE a == Announce
             b == Spawn
             t == Tell("Answer", {})
  <1>1. a \in Steps /\ Announces(a) /\ a.event.gen = pump.gen + 1 /\ a.do = "tell"
    BY AnnounceIs
  <1>2. b \in Steps /\ b.do = "spawn" /\ ~Announces(b)
    BY SpawnStep DEF Announces
  <1>3. t \in Steps /\ t.do = "tell" /\ t.event.gen = pump.gen /\ t.event.kind = "Answer" /\ ~Announces(t)
    BY SilentTell DEF Silent, Announces
  <1>4. w = <<a, b>> \/ w = <<t, a, b>>
    BY DEF Moves
  <1> HIDE DEF a, b, t
  <1>5. CASE w = <<a, b>>
    <2>1. w \in Seq(Steps) /\ DOMAIN w = {1, 2} /\ Len(w) = 2 /\ w[1] = a /\ w[2] = b
      BY <1>1, <1>2, <1>5
    <2>2. InStep(w, pump.gen)
      BY <1>1, <1>2, <2>1 DEF InStep
    <2> QED
      BY <1>1, <1>2, <2>1, <2>2
  <1>6. CASE w = <<t, a, b>>
    <2>1. w \in Seq(Steps) /\ DOMAIN w = {1, 2, 3} /\ Len(w) = 3 /\ w[1] = t /\ w[2] = a /\ w[3] = b
      BY <1>1, <1>2, <1>3, <1>6
    <2>2. InStep(w, pump.gen)
      BY <1>1, <1>2, <1>3, <2>1 DEF InStep
    <2> QED
      BY <1>1, <1>2, <1>3, <2>1, <2>2 DEF Silent
  <1> QED
    BY <1>4, <1>5, <1>6

\* How the pump goes from a command.
LEMMA ExecuteDoes ==
  ASSUME pump \in Pumps, pump.work = <<>>, NEW c \in Requests, Execute(c),
         c.kind = "SwitchCommunity" => pump.gen + 1 \in Gens
  PROVE  /\ pump' \in Pumps /\ pump'.gen = pump.gen
         /\ \/ c.kind = "Send" /\ pump' = [pump EXCEPT !.work = <<Tell("Written", c.about)>>]
            \/ c.kind \in ErrandKinds /\ Quiet(pump'.work) /\ pump' = [pump EXCEPT !.work = pump'.work]
            \/ c.kind = "ReadProgress" /\ pump' = [pump EXCEPT !.read = {c}, !.due = TRUE]
            \/ c.kind = "AddMembers" /\ pump' = [pump EXCEPT !.batch = Targets]
            \/ c.kind = "SwitchCommunity" /\ Moves(pump'.work) /\ pump' = [pump EXCEPT !.read = {}, !.work = pump'.work]
            \/ c.kind = "Shutdown" /\ pump' = [pump EXCEPT !.read = {}, !.work = Flush \o <<End>>]
  <1>1. pump.gen \in Gens
    BY DEF Pumps
  <1>2. CASE Answered(c)
    <2>1. PICK steps \in Course(c) : pump' = [pump EXCEPT !.work = steps]
      BY <1>2 DEF Answered
    <2>2. pump'.work = steps /\ pump'.gen = pump.gen /\ pump' = [pump EXCEPT !.work = pump'.work]
      BY <2>1 DEF Pumps
    <2>3. CASE c.kind = "Send" /\ steps = <<Tell("Written", c.about)>>
      <3>1. PICK m \in Messages : c.about = {m}
        BY <2>3 DEF Requests
      <3> DEFINE e == Event("Written", c.about, pump.gen, FALSE)
                 x == Tell("Written", c.about)
      <3>2. e \in Reports
        BY <1>1, <3>1, EventReported DEF EventKinds, SocketKinds, ResultKinds
      <3>3. x = [do |-> "tell", event |-> e]
        BY DEF Tell
      <3>4. x \in Steps
        BY <3>2, <3>3, TellStep
      <3>5. steps \in Seq(Steps)
        BY <2>3, <3>4
      <3>6. pump' \in Pumps
        BY <2>1, <3>5 DEF Pumps
      <3> QED
        BY <2>1, <2>2, <2>3, <3>6
    <2>4. CASE c.kind \in ErrandKinds /\ Quiet(steps)
      <3>1. pump' \in Pumps
        BY <2>1, <2>4 DEF Pumps, Quiet
      <3> QED
        BY <2>2, <2>4, <3>1
    <2> QED
      BY <1>1, <2>3, <2>4, CourseIs DEF ErrandKinds
  <1>3. CASE TakeRead(c)
    <2>1. c.kind = "ReadProgress" /\ pump' = [pump EXCEPT !.read = {c}, !.due = TRUE]
      BY <1>3 DEF TakeRead
    <2> QED
      BY <1>1, <2>1 DEF Pumps
  <1>4. CASE TakeBatch(c)
    <2>1. c.kind = "AddMembers" /\ pump' = [pump EXCEPT !.batch = Targets]
      BY <1>4 DEF TakeBatch, Requests
    <2> QED
      BY <1>1, <2>1 DEF Pumps
  <1>5. CASE Switch(c)
    <2>1. c.kind = "SwitchCommunity" /\ pump' = [pump EXCEPT !.read = {}, !.work = Flush \o <<Announce, Spawn>>]
      BY <1>5 DEF Switch
    <2>2. pump'.work = Flush \o <<Announce, Spawn>> /\ pump' = [pump EXCEPT !.read = {}, !.work = pump'.work] /\ pump'.gen = pump.gen
      BY <2>1 DEF Pumps
    <2>3. pump'.work = <<>> \o <<Announce, Spawn>> \/ pump'.work = <<Tell("Answer", {})>> \o <<Announce, Spawn>>
      BY <1>1, <2>2, FlushIs
    <2>4. Moves(pump'.work)
      BY <2>3 DEF Moves
    <2>5. pump'.work \in Seq(Steps)
      BY <1>1, <2>1, <2>4, MovesIs
    <2>6. pump' \in Pumps
      BY <2>2, <2>5 DEF Pumps
    <2> QED
      BY <2>1, <2>2, <2>4, <2>6
  <1>6. CASE Shutdown(c)
    <2>1. c.kind = "Shutdown" /\ pump' = [pump EXCEPT !.read = {}, !.work = Flush \o <<End>>]
      BY <1>6 DEF Shutdown
    <2>2. <<End>> \in Seq(Steps) /\ Flush \in Seq(Steps)
      BY <1>1, SpawnStep, FlushIs
    <2>3. Flush \o <<End>> \in Seq(Steps)
      BY <2>2, Joined
    <2> QED
      BY <1>1, <2>1, <2>3 DEF Pumps
  <1> QED
    BY <1>2, <1>3, <1>4, <1>5, <1>6 DEF Execute

\* A batch reports one target, or what is left of it.
LEMMA ReportTell ==
  ASSUME pump.gen \in Gens, NEW kind \in ResultKinds, NEW about,
         kind # "MemberBatchCancelled" => \E t \in Targets : about = {t}, about \subseteq Targets
  PROVE  LET x == Tell(kind, about) IN
           /\ x \in Steps /\ x.do = "tell" /\ x.event \in Reports /\ x \in [do : {"tell"}, event : Reports]
           /\ x.event.gen = pump.gen /\ x.event.kind = kind /\ x.event.about = about
  <1> DEFINE e == Event(kind, about, pump.gen, FALSE)
             x == Tell(kind, about)
  <1>1. e \in Reports
    <2>1. kind \in EventKinds /\ kind # "Written" /\ kind \notin SocketKinds
      BY DEF ResultKinds, EventKinds, SocketKinds
    <2> QED
      BY <2>1, EventReported DEF ResultKinds
  <1>2. e.gen = pump.gen /\ e.kind = kind /\ e.about = about
    BY DEF Event
  <1>3. x = [do |-> "tell", event |-> e]
    BY DEF Tell
  <1> HIDE DEF e, x
  <1>4. x \in Steps /\ x.do = "tell" /\ x.event = e /\ x \in [do : {"tell"}, event : Reports]
    BY <1>1, <1>3, TellStep
  <1> QED
    BY <1>1, <1>2, <1>4 DEF x

\* A turn reports on the targets it takes off the batch.
Turns(kind, about) ==
  /\ kind \in ResultKinds /\ about \subseteq pump.batch
  /\ kind # "MemberBatchCancelled" => \E t \in Targets : about = {t}
  /\ kind = "MemberBatchCancelled" => about = pump.batch
  /\ pump' = [pump EXCEPT !.batch = @ \ about, !.work = <<Tell(kind, about)>>]

LEMMA BatchTurnDoes ==
  ASSUME Typed, BatchTurn
  PROVE  /\ pump' \in Pumps /\ pump.work = <<>> /\ pump.batch # {}
         /\ queued' = queued \o commands /\ commands' = <<>>
         /\ UNCHANGED <<loop, ui, outbox, subs, feed, events, ws, net>>
         /\ \E kind, about : Turns(kind, about)
  <1>1. pump \in Pumps /\ pump.batch \in SUBSET Targets /\ pump.gen \in Gens
    BY DEF Typed, Pumps
  <1>2. /\ pump.work = <<>> /\ pump.batch # {} /\ queued' = queued \o commands /\ commands' = <<>>
        /\ UNCHANGED <<loop, ui, outbox, subs, feed, events, ws, net>>
    BY DEF BatchTurn, PumpIdle, Line
  <1>3. \E kind, about : Turns(kind, about)
    <2>1. CASE pump' = [pump EXCEPT !.batch = {}, !.work = <<Tell("MemberBatchCancelled", pump.batch)>>]
      <3>1. pump.batch \ pump.batch = {}
        OBVIOUS
      <3>2. Turns("MemberBatchCancelled", pump.batch)
        BY <2>1, <3>1 DEF Turns, ResultKinds
      <3> QED
        BY <3>2
    <2>2. ASSUME NEW t \in pump.batch, NEW outcome \in {"MemberResult", "MemberUnknown"},
                 pump' = [pump EXCEPT !.batch = @ \ {t}, !.work = <<Tell(outcome, {t})>>]
          PROVE  \E kind, about : Turns(kind, about)
      <3>1. Turns(outcome, {t})
        BY <1>1, <2>2 DEF Turns, ResultKinds
      <3> QED
        BY <3>1
    <2> QED
      BY <2>1, <2>2 DEF BatchTurn
  <1>4. pump' \in Pumps
    <2>1. PICK kind, about : Turns(kind, about)
      BY <1>3
    <2>2. Tell(kind, about) \in Steps
      BY <1>1, <2>1, ReportTell DEF Turns
    <2>3. <<Tell(kind, about)>> \in Seq(Steps)
      BY <2>2
    <2> QED
      BY <1>1, <2>1, <2>3 DEF Turns, Pumps
  <1> QED
    BY <1>2, <1>3, <1>4

LEMMA PublishDueDoes ==
  ASSUME Typed, PublishDue
  PROVE  /\ pump' \in Pumps /\ pump.work = <<>> /\ pump.batch = {}
         /\ pump' = [pump EXCEPT !.due = FALSE, !.read = {}, !.work = pump'.work] /\ Quiet(pump'.work)
         /\ UNCHANGED <<loop, ui, outbox, commands, queued, subs, feed, events, ws, net>>
  <1>1. pump \in Pumps /\ pump.gen \in Gens
    BY DEF Typed, Pumps
  <1>2. /\ pump.work = <<>> /\ pump.batch = {} /\ pump' = [pump EXCEPT !.due = FALSE, !.read = {}, !.work = Flush]
        /\ UNCHANGED <<loop, ui, outbox, commands, queued, subs, feed, events, ws, net>>
    BY DEF PublishDue, PumpIdle
  <1>3. Quiet(Flush) /\ Flush \in Seq(Steps)
    BY <1>1, FlushIs
  <1> QED
    BY <1>1, <1>2, <1>3 DEF Pumps

\* The next step of the work, and the pump after it.
LEMMA WorkDoes ==
  ASSUME pump \in Pumps, pump.work # <<>>
  PROVE  /\ Done \in Pumps /\ Done.work = Tail(pump.work) /\ Done.gen = pump.gen /\ Done.read = pump.read
         /\ Done.batch = pump.batch
         /\ NextStep = pump.work[1] /\ NextStep \in Steps
         /\ NextStep.do = "control" => NextStep.kind \in Controls
         /\ NextStep.do = "tell" => NextStep.event \in Reports
  <1>1. pump.work \in Seq(Steps)
    BY DEF Pumps
  <1>2. Tail(pump.work) \in Seq(Steps) /\ NextStep = pump.work[1] /\ NextStep \in Steps
    BY <1>1, Taken DEF NextStep
  <1>3. Done = [pump EXCEPT !.work = Tail(pump.work)]
    BY DEF Done
  <1>4. /\ Done \in Pumps /\ Done.work = Tail(pump.work) /\ Done.gen = pump.gen /\ Done.read = pump.read
        /\ Done.batch = pump.batch
    BY <1>2, <1>3 DEF Pumps
  <1>5. /\ NextStep.do = "control" => NextStep.kind \in Controls
        /\ NextStep.do = "tell" => NextStep.event \in Reports
    BY <1>2 DEF Steps
  <1> QED
    BY <1>2, <1>4, <1>5

LEMMA PumpControlDoes ==
  ASSUME Typed, PumpControl
  PROVE  /\ pump' = Done /\ pump.work # <<>> /\ NextStep.do = "control" /\ pump' \in Pumps
         /\ SocketsTyped'
         /\ UNCHANGED <<loop, ui, outbox, commands, queued, feed, events, ws, net>>
  <1>1. /\ pump' = Done /\ pump.work # <<>> /\ NextStep.do = "control"
        /\ UNCHANGED <<loop, ui, outbox, commands, queued, feed, events, ws, net>>
    BY DEF PumpControl
  <1>2. pump \in Pumps /\ pump.gen \in Gens /\ SocketsTyped
    BY DEF Typed, Pumps
  <1>3. pump' \in Pumps /\ NextStep.kind \in Controls
    BY <1>1, <1>2, WorkDoes
  <1>4. CASE UNCHANGED subs
    BY <1>1, <1>2, <1>3, <1>4 DEF SocketsTyped
  <1>5. CASE Len(subs[pump.gen]) < SubCap /\ subs' = [subs EXCEPT ![pump.gen] = Append(@, NextStep.kind)]
    <2>1. subs[pump.gen] \in Seq(Controls) /\ subs \in [Gens -> Seq(Controls)]
      BY <1>2 DEF SocketsTyped
    <2> DEFINE q == Append(subs[pump.gen], NextStep.kind)
    <2>2. q \in Seq(Controls) /\ Len(q) = Len(subs[pump.gen]) + 1 /\ Len(subs[pump.gen]) \in Nat
      BY <1>3, <2>1, Added
    <2>3. Len(q) <= SubCap
      BY <1>5, <2>2, Constants
    <2>4. subs' = [subs EXCEPT ![pump.gen] = q]
      BY <1>5
    <2> HIDE DEF q
    <2>5. subs' \in [Gens -> Seq(Controls)] /\ \A g \in Gens : Len(subs'[g]) <= SubCap
      BY <1>2, <2>1, <2>2, <2>3, <2>4 DEF SocketsTyped
    <2> QED
      BY <1>1, <1>2, <1>3, <2>5 DEF SocketsTyped
  <1> QED
    BY <1>4, <1>5 DEF PumpControl

LEMMA PumpTellDoes ==
  ASSUME Typed, PumpTell
  PROVE  /\ pump' = Done /\ pump.work # <<>> /\ NextStep.do = "tell" /\ pump' \in Pumps /\ NextStep.event \in Reports
         /\ events' = Append(events, NextStep.event) /\ events' \in Seq(Reports) /\ Len(events') <= EventCap
         /\ UNCHANGED <<loop, ui, outbox, commands, queued, subs, feed, ws, net>>
  <1>1. /\ pump' = Done /\ pump.work # <<>> /\ NextStep.do = "tell" /\ Len(events) < EventCap
        /\ events' = Append(events, NextStep.event)
        /\ UNCHANGED <<loop, ui, outbox, commands, queued, subs, feed, ws, net>>
    BY DEF PumpTell
  <1>2. pump \in Pumps /\ events \in Seq(Reports)
    BY DEF Typed, QueuesTyped
  <1>3. pump' \in Pumps /\ NextStep.event \in Reports
    BY <1>1, <1>2, WorkDoes
  <1>4. events' \in Seq(Reports) /\ Len(events') = Len(events) + 1 /\ Len(events) \in Nat
    BY <1>1, <1>2, <1>3, Added
  <1>5. Len(events') <= EventCap
    BY <1>1, <1>4, Constants
  <1> QED
    BY <1>1, <1>3, <1>4, <1>5

LEMMA PumpSpawnDoes ==
  ASSUME Typed, PumpSpawn, pump.gen + 1 \in Gens
  PROVE  /\ pump' = [Done EXCEPT !.gen = pump.gen + 1] /\ pump.work # <<>> /\ NextStep.do = "spawn" /\ pump' \in Pumps
         /\ pump'.gen = pump.gen + 1 /\ pump'.work = Tail(pump.work) /\ pump'.read = pump.read /\ pump'.batch = pump.batch
         /\ ws' \in [Gens -> Sockets] /\ \A g \in Gens : g # pump.gen + 1 => ws'[g] = ws[g]
         /\ ws'[pump.gen + 1].at = "connecting"
         /\ UNCHANGED <<loop, ui, outbox, commands, queued, subs, feed, events, net>>
  <1>1. /\ pump' = [Done EXCEPT !.gen = @ + 1] /\ pump.work # <<>> /\ NextStep.do = "spawn"
        /\ ws' = [ws EXCEPT ![pump.gen + 1].at = "connecting"]
        /\ UNCHANGED <<loop, ui, outbox, commands, queued, subs, feed, events, net>>
    BY DEF PumpSpawn
  <1>2. pump \in Pumps /\ ws \in [Gens -> Sockets]
    BY DEF Typed, SocketsTyped
  <1>3. Done \in Pumps /\ Done.work = Tail(pump.work) /\ Done.gen = pump.gen /\ Done.read = pump.read /\ Done.batch = pump.batch
    BY <1>1, <1>2, WorkDoes
  <1>4. pump' = [Done EXCEPT !.gen = pump.gen + 1]
    BY <1>1, <1>3
  <1>5. /\ pump' \in Pumps /\ pump'.gen = pump.gen + 1 /\ pump'.work = Tail(pump.work) /\ pump'.read = pump.read
        /\ pump'.batch = pump.batch
    BY <1>3, <1>4 DEF Pumps
  <1>6. /\ ws' \in [Gens -> Sockets] /\ \A g \in Gens : g # pump.gen + 1 => ws'[g] = ws[g]
        /\ ws'[pump.gen + 1].at = "connecting"
    BY <1>1, <1>2 DEF Sockets
  <1> QED
    BY <1>1, <1>4, <1>5, <1>6

LEMMA PumpEndDoes ==
  ASSUME Typed, PumpEnd
  PROVE  /\ pump' \in Pumps /\ pump.work # <<>> /\ NextStep.do = "end"
         /\ pump'.gen = pump.gen /\ pump'.work = Tail(pump.work) /\ pump'.read = pump.read /\ pump'.batch = pump.batch
         /\ UNCHANGED <<loop, ui, outbox, commands, queued, subs, feed, events, ws, net>>
  <1>1. /\ pump' = [Done EXCEPT !.over = TRUE] /\ pump.work # <<>> /\ NextStep.do = "end"
        /\ UNCHANGED <<loop, ui, outbox, commands, queued, subs, feed, events, ws, net>>
    BY DEF PumpEnd
  <1>2. Done \in Pumps /\ Done.work = Tail(pump.work) /\ Done.gen = pump.gen /\ Done.read = pump.read /\ Done.batch = pump.batch
    BY <1>1, WorkDoes DEF Typed
  <1> QED
    BY <1>1, <1>2 DEF Pumps

-----------------------------------------------------------------------------
(* The switches under way.                                                  *)

Starting == IF Spawning THEN 1 ELSE 0

LEMMA CountsFit ==
  ASSUME Typed
  PROVE  /\ Count(queued, Switches) \in Nat /\ Count(commands, Switches) \in Nat /\ Count(outbox, Switches) \in Nat
         /\ pump.gen \in Nat /\ ui.switches \in Nat /\ ui.switches <= MaxSwitches /\ MaxSwitches \in Nat
  <1>1. queued \in Seq(Requests) /\ commands \in Seq(Requests) /\ outbox \in Seq(Requests)
    BY DEF Typed, QueuesTyped
  <1>2. Count(queued, Switches) \in Nat /\ Count(commands, Switches) \in Nat /\ Count(outbox, Switches) \in Nat
    BY <1>1, CountFits
  <1>3. pump.gen \in Gens /\ ui.switches \in 0..MaxSwitches
    BY DEF Typed, Pumps, UiTyped, Uis
  <1> QED
    BY <1>2, <1>3, Constants

\* A switch about to be made, or a start, finds a generation left.
LEMMA OneLeft ==
  ASSUME Typed, SwitchesCounted,
         Spawning \/ Count(queued, Switches) > 0 \/ Count(commands, Switches) > 0
  PROVE  pump.gen + 1 \in Gens
  <1>1. pump.gen + 1 <= MaxSwitches
    BY CountsFit DEF SwitchesCounted
  <1> QED
    BY <1>1, CountsFit DEF Gens

LEMMA NoneStarting ==
  ASSUME pump.work = <<>>
  PROVE  ~Spawning
  BY DEF Spawning

LEMMA SwitchTaken ==
  ASSUME Typed, NEW c, Takes(c), SwitchesCounted
  PROVE  /\ c.kind = "SwitchCommunity" => pump.gen + 1 \in Gens
         /\ Count(queued', Switches) + Count(commands', Switches)
              = Count(queued, Switches) + Count(commands, Switches) - (IF c.kind = "SwitchCommunity" THEN 1 ELSE 0)
  <1>1. c \in Requests /\ (c.kind = "SwitchCommunity" <=> c \in Switches)
    BY DEF Takes, Switches
  <1>2. queued \in Seq(Requests) /\ commands \in Seq(Requests)
    BY DEF Typed, QueuesTyped
  <1>3. CASE queued # <<>> /\ c = Head(queued) /\ queued' = Tail(queued) /\ commands' = commands
    <2>1. Count(queued', Switches) = Count(queued, Switches) - (IF c \in Switches THEN 1 ELSE 0)
      BY <1>2, <1>3, CountTaken
    <2>2. queued' \in Seq(Requests)
      BY <1>2, <1>3, Taken
    <2>3. Count(queued', Switches) \in Nat
      BY <2>2, CountFits
    <2>4. c \in Switches => Count(queued, Switches) > 0
      BY <2>1, <2>3, CountsFit
    <2> QED
      BY <1>1, <1>3, <2>1, <2>4, CountsFit, OneLeft
  <1>4. CASE queued = <<>> /\ commands # <<>> /\ c = Head(commands) /\ commands' = Tail(commands) /\ queued' = queued
    <2>1. Count(commands', Switches) = Count(commands, Switches) - (IF c \in Switches THEN 1 ELSE 0)
      BY <1>2, <1>4, CountTaken
    <2>2. commands' \in Seq(Requests)
      BY <1>2, <1>4, Taken
    <2>3. Count(commands', Switches) \in Nat
      BY <2>2, CountFits
    <2>4. c \in Switches => Count(commands, Switches) > 0
      BY <2>1, <2>3, CountsFit
    <2> QED
      BY <1>1, <1>4, <2>1, <2>4, CountsFit, OneLeft
  <1> QED
    BY <1>3, <1>4 DEF Takes

-----------------------------------------------------------------------------
(* What the WebSocket pumps and the forwarders do.                          *)

FeedTyped == feed \in [Gens -> Seq(Reports)] /\ \A g \in Gens : Len(feed[g]) <= FeedCap

LEMMA DeliverDoes ==
  ASSUME SocketsTyped, NEW g \in Gens, Room(g), NEW kind \in SocketKinds, Deliver(g, kind)
  PROVE  /\ FeedTyped' /\ \A h \in Gens : h # g => feed'[h] = feed[h]
         /\ \A i \in DOMAIN feed'[g] : (i \in DOMAIN feed[g] /\ feed'[g][i] = feed[g][i])
                                         \/ (feed'[g][i].tagged /\ feed'[g][i].gen = g)
  <1> DEFINE e == Event(kind, {}, g, TRUE)
             q == feed[g]
             r == Append(q, e)
  <1>1. e \in Reports
    <2>1. kind \in EventKinds /\ kind \notin ResultKinds \union {"Written"}
      BY DEF SocketKinds, EventKinds, ResultKinds
    <2> QED
      BY <2>1, EventReported DEF ResultKinds
  <1>2. e.tagged /\ e.gen = g
    BY DEF Event
  <1>3. q \in Seq(Reports) /\ feed \in [Gens -> Seq(Reports)] /\ \A h \in Gens : Len(feed[h]) <= FeedCap
    BY DEF SocketsTyped
  <1>4. feed' = [feed EXCEPT ![g] = r]
    BY DEF Deliver
  <1>5. Len(q) < FeedCap
    BY DEF Room
  <1> HIDE DEF e
  <1>6. /\ r \in Seq(Reports) /\ Len(r) = Len(q) + 1 /\ Len(q) \in Nat
        /\ DOMAIN q = 1..Len(q) /\ DOMAIN r = 1..Len(q) + 1
        /\ \A i \in DOMAIN q : r[i] = q[i]
        /\ r[Len(q) + 1] = e
    BY <1>1, <1>3, Added
  <1>7. Len(r) <= FeedCap
    BY <1>5, <1>6, Constants
  <1>8. \A i \in DOMAIN r : (i \in DOMAIN q /\ r[i] = q[i]) \/ r[i] = e
    BY <1>6
  <1> HIDE DEF r
  <1>9. feed'[g] = r /\ (\A h \in Gens : h # g => feed'[h] = feed[h]) /\ FeedTyped'
    BY <1>3, <1>4, <1>6, <1>7 DEF FeedTyped
  <1>10. \A i \in DOMAIN r : (i \in DOMAIN q /\ r[i] = q[i]) \/ (r[i].tagged /\ r[i].gen = g)
    BY <1>2, <1>8
  <1>11. \A i \in DOMAIN feed'[g] : (i \in DOMAIN q /\ feed'[g][i] = q[i]) \/ (feed'[g][i].tagged /\ feed'[g][i].gen = g)
    BY <1>9, <1>10
  <1> QED
    BY <1>9, <1>11

\* A generation g that has started reports by its own feed, or by its watcher.
Reporting(g) ==
  \/ UNCHANGED events
  \/ \E e \in Reports : /\ e.tagged /\ e.gen = g /\ ws[g].at # "off"
                        /\ events' = Append(events, e) /\ Len(events) < EventCap

LEMMA SocketDoes ==
  ASSUME Typed, Fed, NEW g \in Gens, WebSocketPump(g)
  PROVE  /\ SocketsTyped' /\ Fed' /\ Reporting(g)
         /\ \A h \in Gens : ws[h].at = "off" => ws'[h].at = "off"
         /\ UNCHANGED <<loop, ui, outbox, commands, pump, queued>>
  <1>1. SocketsTyped /\ ws \in [Gens -> Sockets] /\ ws[g] \in Sockets /\ subs \in [Gens -> Seq(Controls)] /\ FeedTyped
    BY DEF Typed, SocketsTyped, FeedTyped
  <1>2. ASSUME UNCHANGED <<loop, ui, outbox, commands, pump, queued, subs, events>>,
               NEW s \in Sockets, ws' = [ws EXCEPT ![g] = s], ws[g].at # "off", s.at # "off",
               FeedTyped',
               \A h \in Gens : h # g => feed'[h] = feed[h],
               \A i \in DOMAIN feed'[g] : (i \in DOMAIN feed[g] /\ feed'[g][i] = feed[g][i])
                                         \/ (feed'[g][i].tagged /\ feed'[g][i].gen = g)
        PROVE  /\ SocketsTyped' /\ Fed' /\ Reporting(g)
               /\ \A h \in Gens : ws[h].at = "off" => ws'[h].at = "off"
               /\ UNCHANGED <<loop, ui, outbox, commands, pump, queued>>
    <2>1. ws' \in [Gens -> Sockets] /\ ws'[g] = s /\ \A h \in Gens : h # g => ws'[h] = ws[h]
      BY <1>1, <1>2
    <2>2. SocketsTyped'
      BY <1>1, <1>2, <2>1 DEF SocketsTyped, FeedTyped
    <2>3. Fed'
      BY <1>2, <2>1 DEF Fed
    <2> QED
      BY <1>2, <2>1, <2>2, <2>3 DEF Reporting
  <1>3. CASE Connect(g)
    <2> DEFINE s == [ws[g] EXCEPT !.at = "up", !.first = FALSE]
    <2>1. /\ ws[g].at = "connecting" /\ Room(g) /\ Deliver(g, "Connected")
          /\ UNCHANGED <<loop, ui, outbox, commands, pump, queued, subs, events>>
      BY <1>3 DEF Connect
    <2>2. ws' = [ws EXCEPT ![g] = s]
      BY <1>1, <1>3 DEF Connect, Sockets
    <2>3. s \in Sockets /\ s.at = "up"
      BY <1>1 DEF Sockets
    <2> HIDE DEF s
    <2> QED
      BY <1>1, <1>2, <2>1, <2>2, <2>3, DeliverDoes DEF SocketKinds
  <1>4. CASE ConnectFails(g)
    <2>1. /\ ws[g].at = "connecting"
          /\ UNCHANGED <<loop, ui, outbox, commands, pump, queued, subs, events>>
          /\ \/ ws' = [ws EXCEPT ![g].at = "failed"] /\ UNCHANGED feed
             \/ Room(g) /\ ws' = [ws EXCEPT ![g].at = "backoff"] /\ Deliver(g, "Disconnected")
      BY <1>4 DEF ConnectFails
    <2>2. \E s \in Sockets : s.at # "off" /\ ws' = [ws EXCEPT ![g] = s]
      <3>1. ASSUME NEW at \in {"failed", "backoff"}, ws' = [ws EXCEPT ![g].at = at]
            PROVE  \E s \in Sockets : s.at # "off" /\ ws' = [ws EXCEPT ![g] = s]
        <4>1. [ws[g] EXCEPT !.at = at] \in Sockets /\ [ws[g] EXCEPT !.at = at].at = at
          BY <1>1 DEF Sockets
        <4>2. ws' = [ws EXCEPT ![g] = [ws[g] EXCEPT !.at = at]]
          BY <1>1, <3>1
        <4> QED
          BY <4>1, <4>2
      <3> QED
        BY <2>1, <3>1
    <2>3. CASE UNCHANGED feed
      <3>1. FeedTyped'
        BY <1>1, <2>3 DEF FeedTyped
      <3>2. \A h \in Gens : feed'[h] = feed[h]
        BY <2>3
      <3>3. PICK s \in Sockets : s.at # "off" /\ ws' = [ws EXCEPT ![g] = s]
        BY <2>2
      <3> QED
        BY <1>2, <2>1, <3>1, <3>2, <3>3
    <2>4. CASE Room(g) /\ Deliver(g, "Disconnected")
      BY <1>1, <1>2, <2>1, <2>2, <2>4, DeliverDoes DEF SocketKinds
    <2> QED
      BY <2>1, <2>3, <2>4
  <1>5. CASE ReportFailedStart(g)
    <2> DEFINE s == [ws[g] EXCEPT !.at = "over"]
               e == Event("Disconnected", {}, g, TRUE)
    <2>1. /\ ws[g].at = "failed" /\ Len(events) < EventCap /\ events' = Append(events, e)
          /\ UNCHANGED <<loop, ui, outbox, commands, pump, queued, subs, feed>>
          /\ ws' = [ws EXCEPT ![g].at = "over"]
      BY <1>5 DEF ReportFailedStart
    <2>2. ws' = [ws EXCEPT ![g] = s] /\ s \in Sockets /\ s.at = "over"
      BY <1>1, <2>1 DEF Sockets
    <2>3. e \in Reports
      BY EventReported DEF SocketKinds, EventKinds, ResultKinds
    <2>4. e.tagged /\ e.gen = g
      BY DEF Event
    <2> HIDE DEF s, e
    <2>5. ws' \in [Gens -> Sockets] /\ ws'[g] = s /\ \A h \in Gens : h # g => ws'[h] = ws[h]
      BY <1>1, <2>2
    <2>6. SocketsTyped' /\ Fed'
      BY <1>1, <2>1, <2>2, <2>5 DEF SocketsTyped, Fed
    <2>7. Reporting(g)
      BY <2>1, <2>3, <2>4 DEF Reporting
    <2> QED
      BY <2>1, <2>2, <2>5, <2>6, <2>7
  <1>6. CASE TakeControls(g)
    <2>1. /\ ws[g].at \in {"up", "backoff"} /\ subs' = [subs EXCEPT ![g] = <<>>]
          /\ UNCHANGED <<loop, ui, outbox, commands, pump, queued, feed, events>>
      BY <1>6 DEF TakeControls
    <2>2. PICK b \in BOOLEAN : ws' = [ws EXCEPT ![g].served = b]
      <3>1. ws[g].served \in BOOLEAN
        BY <1>1 DEF Sockets
      <3>2. ws' = [ws EXCEPT ![g].served = ws[g].served \/ \E i \in DOMAIN subs[g] : subs[g][i] = "Timeline"]
        BY <1>1, <1>6 DEF TakeControls
      <3> QED
        BY <3>1, <3>2
    <2>3. subs' \in [Gens -> Seq(Controls)] /\ \A h \in Gens : subs'[h] = subs[h] \/ subs'[h] = <<>>
      BY <1>1, <2>1
    <2>4. ws' \in [Gens -> Sockets] /\ \A h \in Gens : ws'[h].at = ws[h].at
      BY <1>1, <2>2 DEF Sockets
    <2>5. SubCap \in Nat /\ Len(<<>>) = 0
      BY Constants
    <2>6. \A h \in Gens : Len(subs'[h]) <= SubCap
      BY <1>1, <2>3, <2>5 DEF SocketsTyped
    <2>7. SocketsTyped'
      BY <1>1, <2>1, <2>3, <2>4, <2>6 DEF SocketsTyped
    <2>8. Fed'
      BY <2>1, <2>4 DEF Fed
    <2> QED
      BY <2>1, <2>4, <2>7, <2>8 DEF Reporting
  <1>7. CASE Frame(g)
    <2>1. /\ ws[g].at = "up" /\ Room(g)
          /\ UNCHANGED <<loop, ui, outbox, commands, pump, queued, subs, events, ws>>
          /\ \E kind \in {"Timeline", "ChannelGone"} : Deliver(g, kind)
      BY <1>7 DEF Frame
    <2>2. ws' = [ws EXCEPT ![g] = ws[g]]
      BY <1>1, <2>1
    <2>3. PICK kind \in SocketKinds : Deliver(g, kind)
      BY <2>1 DEF SocketKinds
    <2>4. /\ FeedTyped' /\ \A h \in Gens : h # g => feed'[h] = feed[h]
          /\ \A i \in DOMAIN feed'[g] : (i \in DOMAIN feed[g] /\ feed'[g][i] = feed[g][i])
                                         \/ (feed'[g][i].tagged /\ feed'[g][i].gen = g)
      BY <1>1, <2>1, <2>3, DeliverDoes
    <2> QED
      BY <1>1, <1>2, <2>1, <2>2, <2>4
  <1>8. CASE ConnectionEnds(g)
    <2> DEFINE s == [ws[g] EXCEPT !.at = "backoff"]
    <2>1. /\ ws[g].at = "up" /\ Room(g) /\ Deliver(g, "Disconnected")
          /\ UNCHANGED <<loop, ui, outbox, commands, pump, queued, subs, events>>
          /\ ws' = [ws EXCEPT ![g].at = "backoff"]
      BY <1>8 DEF ConnectionEnds
    <2>2. ws' = [ws EXCEPT ![g] = s] /\ s \in Sockets /\ s.at = "backoff"
      BY <1>1, <2>1 DEF Sockets
    <2> HIDE DEF s
    <2> QED
      BY <1>1, <1>2, <2>1, <2>2, DeliverDoes DEF SocketKinds
  <1>9. CASE BackoffEnds(g)
    <2>1. /\ ws[g].at = "backoff"
          /\ UNCHANGED <<loop, ui, outbox, commands, pump, queued, subs, feed, events>>
          /\ \E at \in {"connecting", "over"} : ws' = [ws EXCEPT ![g].at = at]
      BY <1>9 DEF BackoffEnds
    <2>2. PICK at \in {"connecting", "over"} : ws' = [ws EXCEPT ![g].at = at]
      BY <2>1
    <2>3. /\ ws' = [ws EXCEPT ![g] = [ws[g] EXCEPT !.at = at]] /\ [ws[g] EXCEPT !.at = at] \in Sockets
          /\ [ws[g] EXCEPT !.at = at].at = at
      BY <1>1, <2>2 DEF Sockets
    <2>4. FeedTyped'
      BY <1>1, <2>1 DEF FeedTyped
    <2>5. \A h \in Gens : feed'[h] = feed[h]
      BY <2>1
    <2> QED
      BY <1>2, <2>1, <2>3, <2>4, <2>5
  <1>10. CASE Forward(g)
    <2> DEFINE e == Head(feed[g])
    <2>1. /\ feed[g] # <<>> /\ Len(events) < EventCap /\ events' = Append(events, e)
          /\ feed' = [feed EXCEPT ![g] = Tail(@)]
          /\ UNCHANGED <<loop, ui, outbox, commands, pump, queued, subs, ws>>
      BY <1>10 DEF Forward
    <2>2. feed[g] \in Seq(Reports) /\ feed \in [Gens -> Seq(Reports)] /\ \A h \in Gens : Len(feed[h]) <= FeedCap
      BY <1>1 DEF FeedTyped
    <2> DEFINE q == feed[g]
               r == Tail(q)
    <2>3. /\ e = q[1] /\ e \in Reports /\ 1 \in DOMAIN q /\ r \in Seq(Reports)
          /\ Len(r) = Len(q) - 1 /\ Len(q) \in Nat
          /\ DOMAIN q = 1..Len(q) /\ DOMAIN r = 1..Len(q) - 1
          /\ \A i \in DOMAIN r : r[i] = q[i + 1]
      BY <2>1, <2>2, Taken
    <2>4. Len(r) <= FeedCap
      BY <2>2, <2>3, Constants
    <2>5. e.tagged /\ e.gen = g /\ ws[g].at # "off"
      BY <2>1, <2>3 DEF Fed
    <2>6. \A i \in DOMAIN r : r[i].tagged /\ r[i].gen = g
      <3>1. \A i \in DOMAIN r : i + 1 \in DOMAIN q
        BY <2>3
      <3> QED
        BY <2>3, <3>1 DEF Fed
    <2>7. feed' = [feed EXCEPT ![g] = r]
      BY <2>1
    <2> HIDE DEF e, r
    <2>8. feed'[g] = r /\ (\A h \in Gens : h # g => feed'[h] = feed[h]) /\ FeedTyped'
      BY <2>2, <2>3, <2>4, <2>7 DEF FeedTyped
    <2>9. SocketsTyped' /\ Fed'
      BY <1>1, <2>1, <2>5, <2>6, <2>8 DEF SocketsTyped, FeedTyped, Fed
    <2>10. Reporting(g)
      BY <2>1, <2>3, <2>5 DEF Reporting
    <2> QED
      BY <2>1, <2>9, <2>10
  <1> QED
    BY <1>3, <1>4, <1>5, <1>6, <1>7, <1>8, <1>9, <1>10 DEF WebSocketPump

-----------------------------------------------------------------------------
(* The types hold.                                                          *)

LEMMA ExecuteTyped ==
  ASSUME Typed, SwitchesCounted, NEW c, Takes(c)
  PROVE  /\ pump' \in Pumps /\ pump'.gen = pump.gen
         /\ \/ c.kind = "Send" /\ pump' = [pump EXCEPT !.work = <<Tell("Written", c.about)>>]
            \/ c.kind \in ErrandKinds /\ Quiet(pump'.work) /\ pump' = [pump EXCEPT !.work = pump'.work]
            \/ c.kind = "ReadProgress" /\ pump' = [pump EXCEPT !.read = {c}, !.due = TRUE]
            \/ c.kind = "AddMembers" /\ pump' = [pump EXCEPT !.batch = Targets]
            \/ c.kind = "SwitchCommunity" /\ Moves(pump'.work) /\ pump' = [pump EXCEPT !.read = {}, !.work = pump'.work]
            \/ c.kind = "Shutdown" /\ pump' = [pump EXCEPT !.read = {}, !.work = Flush \o <<End>>]
  <1>1. pump \in Pumps
    BY DEF Typed
  <1>2. c \in Requests /\ Execute(c) /\ pump.work = <<>>
    BY DEF Takes
  <1>3. c.kind = "SwitchCommunity" => pump.gen + 1 \in Gens
    BY SwitchTaken
  <1> QED
    BY <1>1, <1>2, <1>3, ExecuteDoes

LEMMA CommandPumpStep ==
  ASSUME Typed, SwitchesCounted, CommandPump
  PROVE  pump' \in Pumps /\ QueuesTyped' /\ SocketsTyped' /\ UNCHANGED <<loop, ui, outbox>>
  <1>1. /\ pump \in Pumps /\ QueuesTyped /\ SocketsTyped
        /\ outbox \in Seq(Requests) /\ queued \in Seq(Requests) /\ commands \in Seq(Requests)
    BY DEF Typed, QueuesTyped
  <1>2. CASE TakeCommand
    <2>1. PICK c : Takes(c)
      BY <1>2, TakeCommandDoes
    <2>2. pump' \in Pumps
      BY <2>1, ExecuteTyped
    <2>3. UNCHANGED <<loop, ui, outbox, subs, feed, events, ws>>
      BY <2>1 DEF Takes
    <2>4. /\ queued' \in Seq(Requests) /\ commands' \in Seq(Requests)
          /\ Len(commands') <= CommandCap
      <3>1. CASE queued # <<>> /\ queued' = Tail(queued) /\ commands' = commands
        BY <1>1, <3>1, Taken DEF QueuesTyped
      <3>2. CASE commands # <<>> /\ commands' = Tail(commands) /\ queued' = queued
        <4>1. commands' \in Seq(Requests) /\ Len(commands') = Len(commands) - 1 /\ Len(commands) \in Nat
          BY <1>1, <3>2, Taken
        <4>2. Len(commands') <= CommandCap
          BY <1>1, <4>1, Constants DEF QueuesTyped
        <4> QED
          BY <1>1, <3>2, <4>1, <4>2
      <3> QED
        BY <2>1, <3>1, <3>2 DEF Takes
    <2> QED
      BY <1>1, <2>2, <2>3, <2>4 DEF QueuesTyped, SocketsTyped
  <1>3. CASE PublishDue
    BY <1>1, <1>3, PublishDueDoes DEF QueuesTyped, SocketsTyped
  <1>4. CASE BatchTurn
    <2>1. /\ pump' \in Pumps /\ queued' = queued \o commands /\ commands' = <<>>
          /\ UNCHANGED <<loop, ui, outbox, subs, feed, events, ws>>
      BY <1>4, BatchTurnDoes
    <2>2. queued' \in Seq(Requests)
      BY <1>1, <2>1, Joined
    <2>3. commands' \in Seq(Requests) /\ Len(commands') = 0
      BY <2>1
    <2> QED
      BY <1>1, <2>1, <2>2, <2>3, Constants DEF QueuesTyped, SocketsTyped
  <1>5. CASE PumpControl
    BY <1>1, <1>5, PumpControlDoes DEF QueuesTyped
  <1>6. CASE PumpTell
    BY <1>1, <1>6, PumpTellDoes DEF QueuesTyped, SocketsTyped
  <1>7. CASE PumpSpawn
    <2>1. Spawning
      <3>1. pump.work # <<>> /\ NextStep.do = "spawn"
        BY <1>7 DEF PumpSpawn
      <3>2. pump.work \in Seq(Steps)
        BY <1>1 DEF Pumps
      <3>3. 1 \in DOMAIN pump.work /\ pump.work[1].do = "spawn"
        BY <3>1, <3>2, Taken DEF NextStep
      <3> QED
        BY <3>3 DEF Spawning
    <2>2. pump.gen + 1 \in Gens
      BY <2>1, OneLeft
    <2> QED
      BY <1>1, <1>7, <2>2, PumpSpawnDoes DEF QueuesTyped, SocketsTyped
  <1>8. CASE PumpEnd
    BY <1>1, <1>8, PumpEndDoes DEF QueuesTyped, SocketsTyped
  <1> QED
    BY <1>2, <1>3, <1>4, <1>5, <1>6, <1>7, <1>8 DEF CommandPump

LEMMA TypedStep ==
  ASSUME Typed, SwitchesCounted, Fed, [Next]_vars
  PROVE  Typed'
  <1>1. loop \in {"drain", "send", "quit", "flush"} /\ UiTyped /\ pump \in Pumps /\ QueuesTyped /\ SocketsTyped
    BY DEF Typed
  <1>2. CASE Interface
    <2>1. UiTyped' /\ QueuesTyped' /\ loop' \in {"drain", "send", "quit", "flush"} /\ UNCHANGED <<pump, subs, feed, ws>>
      BY <1>2, InterfaceStep
    <2> QED
      BY <1>1, <2>1 DEF Typed, SocketsTyped
  <1>3. CASE CommandPump
    <2>1. pump' \in Pumps /\ QueuesTyped' /\ SocketsTyped' /\ UNCHANGED <<loop, ui, outbox>>
      BY <1>3, CommandPumpStep
    <2> QED
      BY <1>1, <2>1 DEF Typed, UiTyped
  <1>4. ASSUME NEW g \in Gens, WebSocketPump(g)
        PROVE  Typed'
    <2>1. /\ SocketsTyped' /\ Reporting(g)
          /\ UNCHANGED <<loop, ui, outbox, commands, pump, queued>>
      BY <1>4, SocketDoes
    <2>2. events' \in Seq(Reports) /\ Len(events') <= EventCap
      <3>1. events \in Seq(Reports) /\ Len(events) <= EventCap
        BY <1>1 DEF QueuesTyped
      <3>2. ASSUME NEW e \in Reports, events' = Append(events, e), Len(events) < EventCap
            PROVE  events' \in Seq(Reports) /\ Len(events') <= EventCap
        <4>1. events' \in Seq(Reports) /\ Len(events') = Len(events) + 1 /\ Len(events) \in Nat
          BY <3>1, <3>2, Added
        <4> QED
          BY <3>2, <4>1, Constants
      <3> QED
        BY <2>1, <3>1, <3>2 DEF Reporting
    <2> QED
      BY <1>1, <2>1, <2>2 DEF Typed, UiTyped, QueuesTyped
  <1>5. CASE UNCHANGED vars
    <2>1. UNCHANGED <<loop, ui, outbox, commands, pump, queued, subs, feed, events, ws>>
      BY <1>5 DEF vars
    <2> QED
      BY <1>1, <2>1 DEF Typed, UiTyped, QueuesTyped, SocketsTyped
  <1> QED
    BY <1>2, <1>3, <1>4, <1>5 DEF Next

-----------------------------------------------------------------------------
(* The pump's work.                                                         *)

LEMMA StepsTyped ==
  ASSUME pump \in Pumps
  PROVE  pump.work \in Seq(Steps) /\ pump.gen \in Gens /\ pump.gen \in Nat /\ pump.read \in SUBSET Requests
  BY Constants DEF Pumps

LEMMA WorkLeft ==
  ASSUME NEW g \in Nat, NEW w \in Seq(Steps), w # <<>>, InStep(w, g)
  PROVE  /\ InStep(Tail(w), g)
         /\ w[1].do # "spawn" => ((\E i \in DOMAIN Tail(w) : Tail(w)[i].do = "spawn") <=> (\E i \in DOMAIN w : w[i].do = "spawn"))
         /\ w[1].do = "spawn" => Len(w) = 1 /\ Tail(w) = <<>>
         /\ Announces(w[1]) => Len(w) = 2 /\ w[2].do = "spawn"
         /\ w[1].do = "tell" /\ ~Announces(w[1]) => w[1].event.gen = g
         /\ Len(Tail(w)) = 1 /\ Tail(w)[1].do = "spawn" => Announces(w[1])
  <1> DEFINE r == Tail(w)
             n == Len(w)
  <1>1. /\ 1 \in DOMAIN w /\ r \in Seq(Steps)
        /\ Len(r) = n - 1 /\ n \in Nat /\ n > 0
        /\ DOMAIN w = 1..n /\ DOMAIN r = 1..n - 1
        /\ \A i \in DOMAIN r : r[i] = w[i + 1]
    BY Taken
  <1>2. n = 1 => r = <<>>
    <2>1. \A q \in Seq(Steps) : Len(q) = 0 => q = <<>>
      OBVIOUS
    <2> QED
      BY <1>1, <2>1
  <1>3. \A i \in DOMAIN r : i \in Nat /\ i > 0 /\ i + 1 \in DOMAIN w /\ i + 1 > 1 /\ (i + 1) - 1 = i /\ (i > 1 => i - 1 \in DOMAIN r /\ (i - 1) + 1 = i)
    BY <1>1
  <1>4. \A i \in DOMAIN w : i = 1 \/ (i - 1 \in DOMAIN r /\ r[i - 1] = w[i])
    BY <1>1
  <1>5. Len(r) > 0 => r[Len(r)] = w[n] /\ n \in DOMAIN w
    BY <1>1
  <1> HIDE DEF r
  <1>6. \A i \in DOMAIN r : r[i].do = "tell" /\ ~Announces(r[i]) => r[i].event.gen = g
    BY <1>1, <1>3 DEF InStep
  <1>7. \A i \in DOMAIN r : Announces(r[i]) => r[i].event.gen = g + 1 /\ i + 1 = Len(r) /\ r[Len(r)].do = "spawn"
    <2> SUFFICES ASSUME NEW i \in DOMAIN r, Announces(r[i])
                 PROVE  r[i].event.gen = g + 1 /\ i + 1 = Len(r) /\ r[Len(r)].do = "spawn"
      OBVIOUS
    <2>1. i + 1 \in DOMAIN w /\ r[i] = w[i + 1] /\ i \in Nat
      BY <1>1, <1>3
    <2>2. w[i + 1].event.gen = g + 1 /\ (i + 1) + 1 = n /\ w[n].do = "spawn"
      BY <2>1 DEF InStep
    <2>3. i + 1 = Len(r) /\ Len(r) > 0
      BY <1>1, <2>1, <2>2
    <2> QED
      BY <1>5, <2>1, <2>2, <2>3
  <1>8. \A i \in DOMAIN r : r[i].do = "spawn" => i = Len(r) /\ (i > 1 => Announces(r[i - 1]))
    <2> SUFFICES ASSUME NEW i \in DOMAIN r, r[i].do = "spawn"
                 PROVE  i = Len(r) /\ (i > 1 => Announces(r[i - 1]))
      OBVIOUS
    <2>1. i + 1 \in DOMAIN w /\ r[i] = w[i + 1] /\ i \in Nat /\ i + 1 > 1 /\ (i + 1) - 1 = i
      BY <1>1, <1>3
    <2>2. i + 1 = n /\ Announces(w[i])
      BY <2>1 DEF InStep
    <2>3. i > 1 => r[i - 1] = w[i]
      BY <1>1, <1>3
    <2> QED
      BY <1>1, <2>1, <2>2, <2>3
  <1>9. InStep(r, g)
    BY <1>6, <1>7, <1>8 DEF InStep
  <1>10. w[1].do # "spawn" => ((\E i \in DOMAIN r : r[i].do = "spawn") <=> (\E i \in DOMAIN w : w[i].do = "spawn"))
    <2>1. ASSUME NEW i \in DOMAIN r, r[i].do = "spawn"
          PROVE  \E j \in DOMAIN w : w[j].do = "spawn"
      BY <1>1, <1>3, <2>1
    <2>2. ASSUME w[1].do # "spawn", NEW i \in DOMAIN w, w[i].do = "spawn"
          PROVE  \E j \in DOMAIN r : r[j].do = "spawn"
      <3>1. i - 1 \in DOMAIN r /\ r[i - 1] = w[i]
        BY <1>4, <2>2
      <3> QED
        BY <2>2, <3>1
    <2> QED
      BY <2>1, <2>2
  <1>11. w[1].do = "spawn" => n = 1 /\ r = <<>>
    BY <1>1, <1>2 DEF InStep
  <1>12. /\ Announces(w[1]) => n = 2 /\ w[2].do = "spawn"
         /\ w[1].do = "tell" /\ ~Announces(w[1]) => w[1].event.gen = g
    <2>1. Announces(w[1]) => 1 + 1 = n /\ w[n].do = "spawn"
      BY <1>1 DEF InStep
    <2>2. w[1].do = "tell" /\ ~Announces(w[1]) => w[1].event.gen = g
      BY <1>1 DEF InStep
    <2>3. ASSUME Announces(w[1]) PROVE n = 2 /\ w[2].do = "spawn"
      <3>1. 1 + 1 = n /\ w[n].do = "spawn"
        BY <2>1, <2>3
      <3>2. 1 + 1 = 2
        OBVIOUS
      <3>3. n = 2
        BY <3>1, <3>2
      <3> QED
        BY <3>1, <3>3, Zenon
    <2> QED
      BY <2>2, <2>3
  <1>13. Len(r) = 1 /\ r[1].do = "spawn" => Announces(w[1])
    <2> SUFFICES ASSUME Len(r) = 1, r[1].do = "spawn"
                 PROVE  Announces(w[1])
      OBVIOUS
    <2>1. 2 \in DOMAIN w /\ w[2] = r[1]
      BY <1>1
    <2>2. 2 > 1 => Announces(w[2 - 1])
      BY <2>1 DEF InStep
    <2> QED
      BY <2>2
  <1> QED
    BY <1>9, <1>10, <1>11, <1>12, <1>13 DEF r

LEMMA QuietInStep ==
  ASSUME NEW w, Quiet(w)
  PROVE  InStep(w, pump.gen) /\ ~\E i \in DOMAIN w : w[i].do = "spawn"
  <1>1. \A i \in DOMAIN w : ~Announces(w[i]) /\ w[i].do # "spawn"
    BY DEF Quiet, Announces, Silent
  <1> QED
    BY <1>1 DEF Quiet, InStep

\* Work of a step or none at all keeps in step.
LEMMA OneInStep ==
  ASSUME NEW g, NEW x, x.do # "spawn", ~Announces(x), x.do = "tell" => x.event.gen = g
  PROVE  InStep(<<x>>, g) /\ ~\E i \in DOMAIN <<x>> : <<x>>[i].do = "spawn"
  <1>1. DOMAIN <<x>> = {1} /\ <<x>>[1] = x
    OBVIOUS
  <1> QED
    BY <1>1 DEF InStep

LEMMA Pair ==
  ASSUME NEW S, NEW x \in S, NEW y \in S
  PROVE  <<x>> \o <<y>> = <<x, y>>
  <1> DEFINE p == <<x>> \o <<y>>
             q == <<x, y>>
  <1>1. p \in Seq(S) /\ q \in Seq(S) /\ Len(p) = 2 /\ Len(q) = 2
    OBVIOUS
  <1>2. p[1] = x /\ p[2] = y /\ q[1] = x /\ q[2] = y
    OBVIOUS
  <1>3. \A i \in 1..Len(p) : p[i] = q[i]
    BY <1>1, <1>2
  <1> HIDE DEF p, q
  <1>4. p = q
    BY <1>1, <1>3
  <1> QED
    BY <1>4 DEF p, q

\* The work of a shutdown.
Ends(w) == w = Flush \o <<End>>

LEMMA FlushInStep ==
  ASSUME pump.gen \in Gens, NEW w, Ends(w)
  PROVE  InStep(w, pump.gen) /\ (~\E i \in DOMAIN w : w[i].do = "spawn")
         /\ w \in Seq(Steps) /\ \A i \in DOMAIN w : w[i].do = "end" \/ (w[i].do = "tell" /\ w[i].event.kind \in Silent)
  <1> DEFINE t == Tell("Answer", {})
             b == End
  <1>1. b \in Steps /\ b.do = "end" /\ ~Announces(b)
    BY SpawnStep DEF Announces
  <1>2. t \in Steps /\ t.do = "tell" /\ t.event.gen = pump.gen /\ t.event.kind \in Silent /\ ~Announces(t)
    BY SilentTell DEF Silent, Announces
  <1>3. w = <<b>> \/ w = <<t, b>>
    <2>1. Flush = <<>> \/ Flush = <<t>>
      BY FlushIs
    <2>2. <<t>> \o <<b>> = <<t, b>>
      BY <1>1, <1>2, Pair
    <2>3. CASE Flush = <<>>
      BY <1>1, <2>3 DEF Ends
    <2>4. CASE Flush = <<t>>
      BY <2>2, <2>4 DEF Ends
    <2> QED
      BY <2>1, <2>3, <2>4
  <1> HIDE DEF t, b
  <1>4. CASE w = <<b>>
    <2>1. DOMAIN w = {1} /\ w[1] = b /\ w \in Seq(Steps)
      BY <1>1, <1>4
    <2> QED
      BY <1>1, <2>1 DEF InStep
  <1>5. CASE w = <<t, b>>
    <2>1. DOMAIN w = {1, 2} /\ w[1] = t /\ w[2] = b /\ w \in Seq(Steps)
      BY <1>1, <1>2, <1>5
    <2> QED
      BY <1>1, <1>2, <2>1 DEF InStep
  <1> QED
    BY <1>3, <1>4, <1>5

LEMMA NoWork == \A g : InStep(<<>>, g)
  BY DEF InStep

LEMMA TellWritten ==
  ASSUME pump.gen \in Gens, NEW m \in Messages
  PROVE  LET x == Tell("Written", {m}) IN
           /\ x \in Steps /\ x.do = "tell" /\ x.event \in Reports
           /\ x.event.gen = pump.gen /\ x.event.kind = "Written" /\ x.event.about = {m}
  <1> DEFINE e == Event("Written", {m}, pump.gen, FALSE)
             x == Tell("Written", {m})
  <1>1. e \in Reports
    BY EventReported DEF EventKinds, SocketKinds, ResultKinds
  <1>2. e.gen = pump.gen /\ e.kind = "Written" /\ e.about = {m}
    BY DEF Event
  <1>3. x = [do |-> "tell", event |-> e]
    BY DEF Tell
  <1> HIDE DEF e, x
  <1>4. x \in Steps /\ x.do = "tell" /\ x.event = e
    BY <1>1, <1>3, TellStep
  <1> QED
    BY <1>1, <1>2, <1>4 DEF x

\* After a command only a switch starts a generation, and forgets the read first.
LEMMA TakesInStep ==
  ASSUME Typed, SwitchesCounted, Working, NEW c, Takes(c)
  PROVE  /\ Working' /\ (Spawning' <=> c.kind = "SwitchCommunity") /\ pump'.gen = pump.gen /\ ~Spawning
         /\ Spawning' => Len(pump'.work) > 1
  <1>1. pump \in Pumps /\ pump.work = <<>> /\ pump.gen \in Gens /\ c \in Requests
    BY StepsTyped DEF Typed, Takes
  <1>2. pump'.gen = pump.gen
    BY ExecuteTyped
  <1>4. ~Spawning
    BY <1>1, NoneStarting
  <1>5. CASE c.kind = "Send" /\ pump' = [pump EXCEPT !.work = <<Tell("Written", c.about)>>]
    <2>1. PICK m \in Messages : c.about = {m}
      BY <1>1, <1>5 DEF Requests
    <2> DEFINE x == Tell("Written", c.about)
    <2>2. x.do = "tell" /\ x.event.gen = pump.gen /\ x.event.kind = "Written"
      BY <1>1, <2>1, TellWritten
    <2>3. pump'.work = <<x>> /\ pump'.read = pump.read
      BY <1>1, <1>5 DEF Pumps
    <2> HIDE DEF x
    <2>4. InStep(<<x>>, pump.gen) /\ ~\E i \in DOMAIN <<x>> : <<x>>[i].do = "spawn"
      BY <2>2, OneInStep DEF Announces
    <2> QED
      BY <1>2, <1>4, <1>5, <2>3, <2>4 DEF Working, Spawning
  <1>6. CASE c.kind \in ErrandKinds /\ Quiet(pump'.work) /\ pump' = [pump EXCEPT !.work = pump'.work]
    <2>1. InStep(pump'.work, pump.gen) /\ ~\E i \in DOMAIN pump'.work : pump'.work[i].do = "spawn"
      BY <1>6, QuietInStep
    <2>2. pump'.read = pump.read
      BY <1>1, <1>6 DEF Pumps
    <2>3. c.kind # "SwitchCommunity"
      BY <1>6 DEF ErrandKinds
    <2> QED
      BY <1>2, <1>4, <2>1, <2>2, <2>3 DEF Working, Spawning
  <1>7. CASE \/ c.kind = "ReadProgress" /\ pump' = [pump EXCEPT !.read = {c}, !.due = TRUE]
             \/ c.kind = "AddMembers" /\ pump' = [pump EXCEPT !.batch = Targets]
    <2>1. pump'.work = <<>>
      BY <1>1, <1>7 DEF Pumps
    <2>2. ~Spawning'
      BY <2>1 DEF Spawning
    <2> QED
      BY <1>2, <1>4, <1>7, <2>1, <2>2, NoWork DEF Working
  <1>8. CASE c.kind = "SwitchCommunity" /\ Moves(pump'.work) /\ pump' = [pump EXCEPT !.read = {}, !.work = pump'.work]
    <2>1. pump.gen + 1 \in Gens
      BY <1>8, SwitchTaken
    <2>2. InStep(pump'.work, pump.gen) /\ Len(pump'.work) > 1 /\ \E i \in DOMAIN pump'.work : pump'.work[i].do = "spawn"
      BY <1>1, <1>8, <2>1, MovesIs
    <2>3. pump'.read = {}
      BY <1>1, <1>8 DEF Pumps
    <2> QED
      BY <1>2, <1>4, <1>8, <2>2, <2>3 DEF Working, Spawning
  <1>9. CASE c.kind = "Shutdown" /\ pump' = [pump EXCEPT !.read = {}, !.work = Flush \o <<End>>]
    <2>1. pump'.work = Flush \o <<End>> /\ pump'.read = {}
      BY <1>1, <1>9 DEF Pumps
    <2>2. InStep(pump'.work, pump.gen) /\ ~\E i \in DOMAIN pump'.work : pump'.work[i].do = "spawn"
      BY <1>1, <2>1, FlushInStep DEF Ends
    <2> QED
      BY <1>2, <1>4, <1>9, <2>1, <2>2 DEF Working, Spawning
  <1> QED
    BY <1>5, <1>6, <1>7, <1>8, <1>9, ExecuteTyped

\* A batch's turn and a publishing start none either.
LEMMA TurnsInStep ==
  ASSUME Typed, Working, BatchTurn \/ PublishDue
  PROVE  Working' /\ pump'.gen = pump.gen /\ ~Spawning /\ ~Spawning'
  <1>1. pump \in Pumps /\ pump.gen \in Gens /\ pump.batch \in SUBSET Targets
    BY StepsTyped DEF Typed, Pumps
  <1>3. CASE BatchTurn
    <2>1. PICK kind, about : Turns(kind, about)
      BY <1>3, BatchTurnDoes
    <2> DEFINE x == Tell(kind, about)
    <2>2. x.do = "tell" /\ x.event.gen = pump.gen /\ x.event.kind = kind
      BY <1>1, <2>1, ReportTell DEF Turns
    <2>3. kind # "CommunitySwitching"
      BY <2>1 DEF Turns, ResultKinds
    <2>4. pump'.work = <<x>> /\ pump'.read = pump.read /\ pump'.gen = pump.gen
      BY <1>1, <2>1 DEF Pumps, Turns
    <2> HIDE DEF x
    <2>5. InStep(<<x>>, pump.gen) /\ ~\E i \in DOMAIN <<x>> : <<x>>[i].do = "spawn"
      BY <2>2, <2>3, OneInStep DEF Announces
    <2>6. pump.work = <<>>
      BY <1>3, BatchTurnDoes
    <2> QED
      BY <2>4, <2>5, <2>6, NoneStarting DEF Working, Spawning
  <1>4. CASE PublishDue
    <2>1. pump.work = <<>> /\ Quiet(pump'.work) /\ pump' = [pump EXCEPT !.due = FALSE, !.read = {}, !.work = pump'.work]
      BY <1>4, PublishDueDoes
    <2>2. pump'.gen = pump.gen /\ pump'.read = {}
      BY <1>1, <2>1 DEF Pumps
    <2>3. InStep(pump'.work, pump.gen) /\ ~\E i \in DOMAIN pump'.work : pump'.work[i].do = "spawn"
      BY <2>1, QuietInStep
    <2> QED
      BY <2>1, <2>2, <2>3, NoneStarting DEF Working, Spawning
  <1> QED
    BY <1>3, <1>4

\* One more step of the work is done.
LEMMA StepInStep ==
  ASSUME Typed, SwitchesCounted, Working, PumpControl \/ PumpTell \/ PumpSpawn \/ PumpEnd
  PROVE  /\ Working' /\ pump.work # <<>> /\ pump'.work = Tail(pump.work)
         /\ NextStep.do = "spawn" <=> PumpSpawn
         /\ NextStep.do = "tell" <=> PumpTell
         /\ ~PumpSpawn => pump'.gen = pump.gen /\ (Spawning' <=> Spawning)
         /\ PumpSpawn => pump'.gen = pump.gen + 1 /\ Spawning /\ ~Spawning' /\ Len(pump.work) = 1 /\ pump.gen + 1 \in Gens
  <1>1. pump \in Pumps /\ pump.gen \in Nat /\ pump.work \in Seq(Steps)
    BY StepsTyped DEF Typed
  <1>2. /\ pump.work # <<>>
        /\ NextStep.do = "spawn" <=> PumpSpawn
        /\ NextStep.do = "tell" <=> PumpTell
    <2>1. /\ PumpSpawn => NextStep.do = "spawn" /\ pump.work # <<>>
          /\ PumpTell => NextStep.do = "tell" /\ pump.work # <<>>
          /\ PumpControl => NextStep.do = "control" /\ pump.work # <<>>
          /\ PumpEnd => NextStep.do = "end" /\ pump.work # <<>>
      BY DEF PumpSpawn, PumpTell, PumpControl, PumpEnd
    <2> QED
      BY <2>1
  <1>3. InStep(pump.work, pump.gen) /\ (Spawning => pump.read = {})
    BY DEF Working
  <1>4. NextStep = pump.work[1]
    BY <1>1, <1>2, WorkDoes
  <1>5. /\ InStep(Tail(pump.work), pump.gen)
        /\ pump.work[1].do # "spawn" => ((\E i \in DOMAIN Tail(pump.work) : Tail(pump.work)[i].do = "spawn")
                                           <=> (\E i \in DOMAIN pump.work : pump.work[i].do = "spawn"))
        /\ pump.work[1].do = "spawn" => Len(pump.work) = 1 /\ Tail(pump.work) = <<>>
    BY <1>1, <1>2, <1>3, WorkLeft
  <1>6. CASE ~PumpSpawn
    <2>1. pump'.gen = pump.gen /\ pump'.read = pump.read /\ pump'.work = Tail(pump.work)
      <3>1. /\ Done.work = Tail(pump.work) /\ Done.gen = pump.gen /\ Done.read = pump.read
        BY <1>1, <1>2, WorkDoes
      <3> QED
        BY <1>6, <3>1, PumpControlDoes, PumpTellDoes, PumpEndDoes
    <2>2. Spawning' <=> Spawning
      BY <1>2, <1>4, <1>5, <1>6, <2>1 DEF Spawning
    <2> QED
      BY <1>2, <1>3, <1>5, <1>6, <2>1, <2>2 DEF Working
  <1>7. CASE PumpSpawn
    <2>1. pump.work[1].do = "spawn" /\ Len(pump.work) = 1 /\ Tail(pump.work) = <<>>
      BY <1>2, <1>4, <1>5, <1>7
    <2>2. Spawning
      <3>1. 1 \in DOMAIN pump.work
        BY <1>1, <1>2, Taken
      <3> QED
        BY <2>1, <3>1 DEF Spawning
    <2>3. pump.gen + 1 \in Gens
      BY <2>2, OneLeft
    <2>4. pump'.gen = pump.gen + 1 /\ pump'.work = <<>> /\ pump'.read = {} /\ pump'.work = Tail(pump.work)
      BY <1>3, <1>7, <2>1, <2>2, <2>3, PumpSpawnDoes
    <2>5. ~Spawning'
      BY <2>4 DEF Spawning
    <2> QED
      BY <1>2, <1>7, <2>1, <2>2, <2>3, <2>4, <2>5, NoWork DEF Working
  <1> QED
    BY <1>6, <1>7

LEMMA WorkingStep ==
  ASSUME Typed, SwitchesCounted, Working, Fed, [Next]_vars
  PROVE  Working'
  <1>1. CASE UNCHANGED pump
    BY <1>1 DEF Working, Spawning
  <1>2. CASE CommandPump
    <2>1. CASE TakeCommand
      <3>1. PICK c : Takes(c)
        BY <2>1, TakeCommandDoes
      <3> QED
        BY <3>1, TakesInStep
    <2>2. CASE BatchTurn \/ PublishDue
      BY <2>2, TurnsInStep
    <2>3. CASE PumpControl \/ PumpTell \/ PumpSpawn \/ PumpEnd
      BY <2>3, StepInStep
    <2> QED
      BY <1>2, <2>1, <2>2, <2>3 DEF CommandPump
  <1>3. CASE Interface
    BY <1>1, <1>3, InterfaceStep
  <1>4. ASSUME NEW g \in Gens, WebSocketPump(g) PROVE Working'
    BY <1>1, <1>4, SocketDoes
  <1>5. CASE UNCHANGED vars
    BY <1>1, <1>5 DEF vars
  <1> QED
    BY <1>2, <1>3, <1>4, <1>5 DEF Next

-----------------------------------------------------------------------------
(* The switches stay counted.                                               *)

LEMMA CountZero ==
  ASSUME NEW q, NEW S, \A i \in DOMAIN q : q[i] \notin S
  PROVE  Count(q, S) = 0
  <1>1. {i \in DOMAIN q : q[i] \in S} = {}
    OBVIOUS
  <1> QED
    BY <1>1, FS_EmptySet DEF Count

\* What an event makes the interface ask for is never in a set of writes or moves.
LEMMA OutboxAsked ==
  ASSUME Typed, NEW S, \A c \in S : c.kind \notin ErrandKinds, outbox' = <<>> \/ Asks
  PROVE  Count(outbox', S) = 0 \/ Count(outbox', S) = Count(outbox, S)
  <1>1. outbox \in Seq(Requests)
    BY DEF Typed, QueuesTyped
  <1>2. CASE outbox' = <<>>
    BY <1>2, CountNone
  <1>3. CASE Asks
    <2>1. PICK r : Errands(r) /\ outbox' = outbox \o r
      BY <1>3 DEF Asks
    <2>2. r \in Seq(Requests) /\ Count(r, S) = 0
      BY <2>1, CountZero DEF Errands
    <2>3. Count(outbox', S) = Count(outbox, S) + Count(r, S) /\ Count(outbox, S) \in Nat
      BY <1>1, <2>1, <2>2, CountJoined, CountFits
    <2> QED
      BY <2>2, <2>3
  <1> QED
    BY <1>2, <1>3

LEMMA OutboxSent ==
  ASSUME Typed, SendOutbox, NEW S
  PROVE  Count(outbox', S) + Count(commands', S) = Count(outbox, S) + Count(commands, S)
  <1>1. outbox \in Seq(Requests) /\ commands \in Seq(Requests)
    BY DEF Typed, QueuesTyped
  <1>2. outbox # <<>> /\ commands' = Append(commands, Head(outbox)) /\ outbox' = Tail(outbox)
    BY DEF SendOutbox
  <1>3. Head(outbox) \in Requests
    BY <1>1, <1>2, Taken
  <1> DEFINE d == IF Head(outbox) \in S THEN 1 ELSE 0
  <1>4. Count(outbox', S) = Count(outbox, S) - d
    BY <1>1, <1>2, CountTaken
  <1>5. Count(commands', S) = Count(commands, S) + d
    BY <1>1, <1>2, <1>3, CountAdded
  <1>6. Count(outbox, S) \in Nat /\ Count(commands, S) \in Nat /\ d \in Nat
    BY <1>1, CountFits
  <1> HIDE DEF d
  <1> QED
    BY <1>4, <1>5, <1>6

LEMMA ShutdownSent ==
  ASSUME Typed, SendShutdown, NEW S, \A c \in S : c.kind # "Shutdown"
  PROVE  Count(commands', S) = Count(commands, S)
  <1>1. commands \in Seq(Requests) /\ UiTyped
    BY DEF Typed, QueuesTyped
  <1> DEFINE c == Command("Shutdown", {})
  <1>2. commands' = Append(commands, c)
    BY DEF SendShutdown
  <1>3. c \in Requests /\ c.kind = "Shutdown"
    BY <1>1, CommandTyped DEF CommandKinds
  <1> HIDE DEF c
  <1>4. c \notin S
    BY <1>3
  <1>5. Count(commands', S) = Count(commands, S) + 0 /\ Count(commands, S) \in Nat
    BY <1>1, <1>2, <1>3, <1>4, CountAdded, CountFits
  <1> QED
    BY <1>5

LEMMA SwitchesCountedStep ==
  ASSUME Typed, SwitchesCounted, Working, Fed, [Next]_vars
  PROVE  SwitchesCounted'
  <1>a. /\ Count(queued, Switches) \in Nat /\ Count(commands, Switches) \in Nat /\ Count(outbox, Switches) \in Nat
        /\ pump.gen \in Nat /\ ui.switches \in Nat
    BY CountsFit
  <1>b. pump.gen + Starting + Count(queued, Switches) + Count(commands, Switches) + Count(outbox, Switches) <= ui.switches
    BY DEF SwitchesCounted, Starting
  <1>c. \A c \in Switches : c.kind = "SwitchCommunity" /\ c.kind \notin ErrandKinds /\ c.kind # "Shutdown"
    BY DEF Switches, ErrandKinds
  <1>s. Starting \in Nat
    BY DEF Starting
  <1>p. UNCHANGED pump => Starting' = Starting
    BY DEF Starting, Spawning
  <1>q. ASSUME pump'.gen + Starting' + Count(queued', Switches) + Count(commands', Switches) + Count(outbox', Switches) <= ui'.switches
        PROVE  SwitchesCounted'
    BY <1>q DEF SwitchesCounted, Starting
  <1>2. CASE ApplyEvent
    <2>1. ui'.switches = ui.switches /\ UNCHANGED <<commands, queued, pump>> /\ (outbox' = <<>> \/ Asks)
      BY <1>2, ApplyDoes DEF Kept
    <2>2. Count(outbox', Switches) = 0 \/ Count(outbox', Switches) = Count(outbox, Switches)
      BY <1>c, <2>1, OutboxAsked
    <2>3. pump'.gen + Starting' + Count(queued', Switches) + Count(commands', Switches) + Count(outbox', Switches) <= ui'.switches
      BY <1>a, <1>b, <1>s, <1>p, <2>1, <2>2
    <2> QED
      BY <1>q, <2>3
  <1>3. CASE Drained
    <2>1. UNCHANGED <<outbox, commands, queued, pump>> /\ ui' = [ui EXCEPT !.quit = @ \/ ws[0].at = "failed"]
      BY <1>3 DEF Drained
    <2>2. ui'.switches = ui.switches
      BY <2>1 DEF Typed, UiTyped, Uis
    <2> QED
      BY <1>b, <1>p, <1>q, <2>1, <2>2
  <1>4. CASE SendOutbox
    <2>1. UNCHANGED <<ui, queued, pump>>
      BY <1>4 DEF SendOutbox
    <2>2. Count(outbox', Switches) + Count(commands', Switches) = Count(outbox, Switches) + Count(commands, Switches)
      BY <1>4, OutboxSent
    <2>3. Count(outbox', Switches) \in Nat /\ Count(commands', Switches) \in Nat
      <3>1. outbox' \in Seq(Requests) /\ commands' \in Seq(Requests)
        BY <1>4, InterfaceStep DEF Interface, QueuesTyped
      <3> QED
        BY <3>1, CountFits
    <2>4. pump'.gen + Starting' + Count(queued', Switches) + Count(commands', Switches) + Count(outbox', Switches) <= ui'.switches
      BY <1>a, <1>b, <1>s, <1>p, <2>1, <2>2, <2>3
    <2> QED
      BY <1>q, <2>4
  <1>5. CASE TakeKey
    <2>1. outbox = <<>> /\ UNCHANGED <<commands, queued, pump>>
      BY <1>5, TakeKeyDoes
    <2>2. CASE UNCHANGED outbox /\ (ui' = [ui EXCEPT !.quit = TRUE] \/ ui' = ui)
      <3>1. ui'.switches = ui.switches
        BY <2>2 DEF Typed, UiTyped, Uis
      <3> QED
        BY <1>b, <1>p, <1>q, <2>1, <2>2, <3>1
    <2>3. CASE WriteMessage \/ ClaimRead \/ SubmitMembers \/ ConfirmCommunity
      <3>1. PICK c, counted : Wants(c, counted) /\ KeyKept(counted)
        BY <2>3, KeyDoes
      <3>2. c.kind = "SwitchCommunity" => ui'.switches = ui.switches + 1
        BY <3>1 DEF Wants, KeyKept
      <3>3. ui'.switches = ui.switches \/ ui'.switches = ui.switches + 1
        BY <1>a, <3>1 DEF KeyKept
      <3>4. Count(outbox', Switches) = (IF c \in Switches THEN 1 ELSE 0) /\ Count(outbox, Switches) = 0
        BY <2>1, <3>1, CountOne, CountNone DEF Wants
      <3>5. pump'.gen + Starting' + Count(queued', Switches) + Count(commands', Switches) + Count(outbox', Switches) <= ui'.switches
        BY <1>a, <1>b, <1>c, <1>s, <1>p, <2>1, <3>2, <3>3, <3>4
      <3> QED
        BY <1>q, <3>5
    <2> QED
      BY <1>5, <2>2, <2>3, TakeKeyDoes
  <1>6. CASE SendShutdown
    <2>1. UNCHANGED <<ui, outbox, queued, pump>>
      BY <1>6 DEF SendShutdown
    <2>2. Count(commands', Switches) = Count(commands, Switches)
      BY <1>6, <1>c, ShutdownSent
    <2> QED
      BY <1>b, <1>p, <1>q, <2>1, <2>2
  <1>7. CASE TakeCommand
    <2>1. PICK c : Takes(c)
      BY <1>7, TakeCommandDoes
    <2>2. UNCHANGED <<ui, outbox>>
      BY <2>1 DEF Takes
    <2>3. (Spawning' <=> c.kind = "SwitchCommunity") /\ pump'.gen = pump.gen /\ ~Spawning
      BY <2>1, TakesInStep
    <2>4. Starting = 0 /\ Starting' = IF c.kind = "SwitchCommunity" THEN 1 ELSE 0
      BY <2>3 DEF Starting
    <2>5. Count(queued', Switches) + Count(commands', Switches)
            = Count(queued, Switches) + Count(commands, Switches) - (IF c.kind = "SwitchCommunity" THEN 1 ELSE 0)
      BY <2>1, SwitchTaken
    <2>6. Count(queued', Switches) \in Nat /\ Count(commands', Switches) \in Nat
      <3>1. queued' \in Seq(Requests) /\ commands' \in Seq(Requests)
        BY <1>7, CommandPumpStep DEF CommandPump, QueuesTyped
      <3> QED
        BY <3>1, CountFits
    <2>7. pump'.gen + Starting' + Count(queued', Switches) + Count(commands', Switches) + Count(outbox', Switches) <= ui'.switches
      BY <1>a, <1>b, <2>2, <2>3, <2>4, <2>5, <2>6
    <2> QED
      BY <1>q, <2>7
  <1>8. CASE BatchTurn \/ PublishDue
    <2>1. pump'.gen = pump.gen /\ Starting' = Starting
      BY <1>8, TurnsInStep DEF Starting
    <2>2. UNCHANGED <<ui, outbox>>
      BY <1>8, BatchTurnDoes, PublishDueDoes
    <2>3. Count(queued', Switches) + Count(commands', Switches) = Count(queued, Switches) + Count(commands, Switches)
      <3>1. CASE UNCHANGED <<queued, commands>>
        BY <3>1
      <3>2. CASE queued' = queued \o commands /\ commands' = <<>>
        <4>1. queued \in Seq(Requests) /\ commands \in Seq(Requests)
          BY DEF Typed, QueuesTyped
        <4>2. Count(queued', Switches) = Count(queued, Switches) + Count(commands, Switches) /\ Count(commands', Switches) = 0
          BY <3>2, <4>1, CountJoined, CountNone
        <4> QED
          BY <1>a, <4>2
      <3> QED
        BY <1>8, <3>1, <3>2, BatchTurnDoes, PublishDueDoes
    <2>4. Count(queued', Switches) \in Nat /\ Count(commands', Switches) \in Nat
      <3>1. queued' \in Seq(Requests) /\ commands' \in Seq(Requests)
        BY <1>8, CommandPumpStep DEF CommandPump, QueuesTyped
      <3> QED
        BY <3>1, CountFits
    <2>5. pump'.gen + Starting' + Count(queued', Switches) + Count(commands', Switches) + Count(outbox', Switches) <= ui'.switches
      BY <1>a, <1>b, <1>s, <2>1, <2>2, <2>3, <2>4
    <2> QED
      BY <1>q, <2>5
  <1>9. CASE PumpControl \/ PumpTell \/ PumpSpawn \/ PumpEnd
    <2>1. UNCHANGED <<ui, outbox, queued, commands>>
      BY <1>9 DEF PumpControl, PumpTell, PumpSpawn, PumpEnd
    <2>2. pump'.gen + Starting' = pump.gen + Starting
      <3>1. CASE PumpSpawn
        BY <1>a, <1>9, <3>1, StepInStep DEF Starting
      <3>2. CASE ~PumpSpawn
        BY <1>9, <3>2, StepInStep DEF Starting
      <3> QED
        BY <3>1, <3>2
    <2> QED
      BY <1>b, <1>q, <2>1, <2>2
  <1>10. ASSUME NEW g \in Gens, WebSocketPump(g) PROVE SwitchesCounted'
    <2>1. UNCHANGED <<ui, outbox, queued, commands, pump>>
      BY <1>10, SocketDoes
    <2> QED
      BY <1>b, <1>p, <1>q, <2>1
  <1>11. CASE UNCHANGED vars
    <2>1. UNCHANGED <<ui, outbox, queued, commands, pump>>
      BY <1>11 DEF vars
    <2> QED
      BY <1>b, <1>p, <1>q, <2>1
  <1> QED
    BY <1>2, <1>3, <1>4, <1>5, <1>6, <1>7, <1>8, <1>9, <1>10, <1>11 DEF Next, Interface, CommandPump

-----------------------------------------------------------------------------
(* The order of the events.                                                 *)

LEMMA EventGens ==
  ASSUME NEW q \in Seq(Reports)
  PROVE  \A i \in DOMAIN q : q[i] \in Reports /\ q[i].gen \in Gens /\ q[i].gen \in Nat
  <1>1. \A i \in DOMAIN q : q[i] \in Reports
    OBVIOUS
  <1>2. \A e \in Reports : e.gen \in Gens /\ e.gen \in Nat
    BY Constants DEF Reports, Events
  <1> QED
    BY <1>1, <1>2

LEMMA AppendInOrder ==
  ASSUME NEW b \in Gens, NEW p \in Gens, NEW q \in Seq(Reports), NEW e \in Reports, InOrder(b, p, q),
         e.kind # "CommunitySwitching", e.gen <= p, ~e.tagged => e.gen = p
  PROVE  InOrder(b, p, Append(q, e))
  <1> DEFINE r == Append(q, e)
  <1>1. /\ DOMAIN r = 1..Len(q) + 1 /\ DOMAIN q = 1..Len(q) /\ Len(q) \in Nat
        /\ \A i \in DOMAIN q : r[i] = q[i]
        /\ r[Len(q) + 1] = e
    BY Added
  <1>2. \A i \in DOMAIN r : i \in DOMAIN q \/ i = Len(q) + 1
    BY <1>1
  <1>3. \A i \in DOMAIN q : i \in DOMAIN r /\ i < Len(q) + 1 /\ ~(Len(q) + 1 < i)
    BY <1>1
  <1>4. b \in Nat /\ p \in Nat /\ \A i \in DOMAIN q : q[i].gen \in Nat
    BY Constants, EventGens
  <1> HIDE DEF r
  <1>5. \A i, j \in DOMAIN r : i < j /\ r[j].kind = "CommunitySwitching" => r[i].gen < r[j].gen
    BY <1>1, <1>2, <1>3 DEF InOrder
  <1>6. \A g \in Gens : b < g /\ g <= p => \E i \in DOMAIN r : r[i].kind = "CommunitySwitching" /\ r[i].gen = g
    BY <1>1, <1>3 DEF InOrder
  <1>7. \A i \in DOMAIN r : ~r[i].tagged =>
          /\ b <= r[i].gen
          /\ \A j \in DOMAIN r : j < i /\ r[j].kind = "CommunitySwitching" => r[j].gen <= r[i].gen
    BY <1>1, <1>2, <1>3 DEF InOrder
  <1>8. \A i \in DOMAIN r : r[i].gen <= p /\ (r[i].kind = "CommunitySwitching" => b < r[i].gen)
    BY <1>1, <1>2 DEF InOrder
  <1>9. InOrder(b, p, r)
    BY <1>5, <1>6, <1>7, <1>8 DEF InOrder
  <1> QED
    BY <1>9 DEF r

LEMMA SwitchInOrder ==
  ASSUME NEW b \in Gens, NEW p \in Gens, NEW q \in Seq(Reports), NEW e \in Reports, InOrder(b, p, q),
         e.kind = "CommunitySwitching", e.gen = p + 1
  PROVE  InOrder(b, p + 1, Append(q, e))
  <1> DEFINE r == Append(q, e)
  <1>1. /\ DOMAIN r = 1..Len(q) + 1 /\ DOMAIN q = 1..Len(q) /\ Len(q) \in Nat
        /\ \A i \in DOMAIN q : r[i] = q[i]
        /\ r[Len(q) + 1] = e
    BY Added
  <1>2. \A i \in DOMAIN r : i \in DOMAIN q \/ i = Len(q) + 1
    BY <1>1
  <1>3. \A i \in DOMAIN q : i \in DOMAIN r /\ i < Len(q) + 1 /\ ~(Len(q) + 1 < i)
    BY <1>1
  <1>4. b \in Nat /\ p \in Nat /\ \A i \in DOMAIN q : q[i].gen \in Nat
    BY Constants, EventGens
  <1>n. Len(q) + 1 \in DOMAIN r
    BY <1>1
  <1> HIDE DEF r
  <1>5. \A i, j \in DOMAIN r : i < j /\ r[j].kind = "CommunitySwitching" => r[i].gen < r[j].gen
    <2> SUFFICES ASSUME NEW i \in DOMAIN r, NEW j \in DOMAIN r, i < j, r[j].kind = "CommunitySwitching"
                 PROVE  r[i].gen < r[j].gen
      OBVIOUS
    <2>1. i \in DOMAIN q
      BY <1>1, <1>2, <1>3
    <2>2. CASE j \in DOMAIN q
      BY <1>1, <2>1, <2>2 DEF InOrder
    <2>3. CASE j = Len(q) + 1
      <3>1. r[j].gen = p + 1 /\ r[i].gen = q[i].gen /\ q[i].gen <= p /\ q[i].gen \in Nat
        BY <1>1, <1>4, <2>1, <2>3 DEF InOrder
      <3> QED
        BY <1>4, <3>1
    <2> QED
      BY <1>2, <2>2, <2>3
  <1>6. \A g \in Gens : b < g /\ g <= p + 1 => \E i \in DOMAIN r : r[i].kind = "CommunitySwitching" /\ r[i].gen = g
    <2> SUFFICES ASSUME NEW g \in Gens, b < g, g <= p + 1
                 PROVE  \E i \in DOMAIN r : r[i].kind = "CommunitySwitching" /\ r[i].gen = g
      OBVIOUS
    <2>1. CASE g = p + 1
      BY <1>1, <1>n, <2>1
    <2>2. CASE g # p + 1
      <3>1. g <= p
        BY <1>4, <2>2, Constants
      <3> QED
        BY <1>1, <1>3, <3>1 DEF InOrder
    <2> QED
      BY <2>1, <2>2
  <1>7. \A i \in DOMAIN r : ~r[i].tagged =>
          /\ b <= r[i].gen
          /\ \A j \in DOMAIN r : j < i /\ r[j].kind = "CommunitySwitching" => r[j].gen <= r[i].gen
    <2>1. ASSUME NEW i \in DOMAIN q, ~r[i].tagged
          PROVE  /\ b <= r[i].gen
                 /\ \A j \in DOMAIN r : j < i /\ r[j].kind = "CommunitySwitching" => r[j].gen <= r[i].gen
      BY <1>1, <1>2, <1>3, <2>1 DEF InOrder
    <2>2. b <= p + 1 /\ \A j \in DOMAIN q : r[j].gen <= p + 1
      BY <1>1, <1>4 DEF InOrder
    <2>3. \A j \in DOMAIN r : j < Len(q) + 1 => j \in DOMAIN q
      BY <1>1
    <2>4. r[Len(q) + 1].gen = p + 1
      BY <1>1
    <2> QED
      BY <1>2, <2>1, <2>2, <2>3, <2>4
  <1>8. \A i \in DOMAIN r : r[i].gen <= p + 1 /\ (r[i].kind = "CommunitySwitching" => b < r[i].gen)
    BY <1>1, <1>2, <1>4 DEF InOrder
  <1>9. InOrder(b, p + 1, r)
    BY <1>4, <1>5, <1>6, <1>7, <1>8 DEF InOrder
  <1> QED
    BY <1>9 DEF r

\* At the head of the queue the order says which community an event is of.
LEMMA HeadInOrder ==
  ASSUME NEW b \in Gens, NEW p \in Gens, NEW q \in Seq(Reports), q # <<>>, InOrder(b, p, q),
         NEW e, e = Head(q), NEW c, c = IF e.kind = "CommunitySwitching" THEN e.gen ELSE b
  PROVE  /\ InOrder(c, p, Tail(q))
         /\ ~e.tagged /\ e.kind # "CommunitySwitching" => e.gen = b
         /\ e.kind # "CommunitySwitching" => e.gen <= b
         /\ e.kind = "CommunitySwitching" => b < e.gen
  <1> DEFINE r == Tail(q)
  <1>1. /\ e = q[1] /\ 1 \in DOMAIN q /\ e \in Reports
        /\ DOMAIN r = 1..Len(q) - 1 /\ DOMAIN q = 1..Len(q) /\ Len(q) \in Nat
        /\ \A i \in DOMAIN r : r[i] = q[i + 1]
    BY Taken
  <1>2. \A i \in DOMAIN r : i + 1 \in DOMAIN q /\ i \in Nat /\ 1 < i + 1
    BY <1>1
  <1>3. \A i \in DOMAIN q : i = 1 \/ (i - 1 \in DOMAIN r /\ r[i - 1] = q[i] /\ 1 < i)
    BY <1>1
  <1>4. b \in Nat /\ p \in Nat /\ e.gen \in Gens /\ e.gen \in Nat /\ \A i \in DOMAIN q : q[i].gen \in Nat
    BY <1>1, Constants, EventGens
  <1> HIDE DEF r
  <1>5. \A i \in DOMAIN q : e.kind = "CommunitySwitching" /\ q[i].kind = "CommunitySwitching" /\ i # 1 => e.gen < q[i].gen
    BY <1>1, <1>3 DEF InOrder
  <1>6. e.kind = "CommunitySwitching" => b < e.gen
    BY <1>1 DEF InOrder
  <1>7. e.kind # "CommunitySwitching" => e.gen <= b
    <2> SUFFICES ASSUME e.kind # "CommunitySwitching", ~(e.gen <= b)
                 PROVE  FALSE
      OBVIOUS
    <2>1. b < e.gen /\ e.gen <= p
      BY <1>1, <1>4 DEF InOrder
    <2>2. PICK i \in DOMAIN q : q[i].kind = "CommunitySwitching" /\ q[i].gen = e.gen
      BY <1>4, <2>1 DEF InOrder
    <2>3. 1 < i
      BY <1>1, <1>3, <2>2
    <2>4. e.gen < e.gen
      BY <1>1, <2>2, <2>3 DEF InOrder
    <2> QED
      BY <1>4, <2>4
  <1>8. ~e.tagged /\ e.kind # "CommunitySwitching" => e.gen = b
    BY <1>1, <1>4, <1>7 DEF InOrder
  <1>9. \A i, j \in DOMAIN r : i < j /\ r[j].kind = "CommunitySwitching" => r[i].gen < r[j].gen
    <2> SUFFICES ASSUME NEW i \in DOMAIN r, NEW j \in DOMAIN r, i < j, r[j].kind = "CommunitySwitching"
                 PROVE  r[i].gen < r[j].gen
      OBVIOUS
    <2>1. i + 1 < j + 1 /\ i + 1 \in DOMAIN q /\ j + 1 \in DOMAIN q
      BY <1>2
    <2> QED
      BY <1>1, <2>1 DEF InOrder
  <1>10. \A g \in Gens : c < g /\ g <= p => \E i \in DOMAIN r : r[i].kind = "CommunitySwitching" /\ r[i].gen = g
    <2> SUFFICES ASSUME NEW g \in Gens, c < g, g <= p
                 PROVE  \E i \in DOMAIN r : r[i].kind = "CommunitySwitching" /\ r[i].gen = g
      OBVIOUS
    <2>1. b < g
      BY <1>4, <1>6, Constants
    <2>2. PICK i \in DOMAIN q : q[i].kind = "CommunitySwitching" /\ q[i].gen = g
      BY <2>1 DEF InOrder
    <2>3. i # 1
      BY <1>1, <1>4, <2>2, Constants
    <2> QED
      BY <1>3, <2>2, <2>3
  <1>11. \A i \in DOMAIN r : ~r[i].tagged =>
          /\ c <= r[i].gen
          /\ \A j \in DOMAIN r : j < i /\ r[j].kind = "CommunitySwitching" => r[j].gen <= r[i].gen
    <2> SUFFICES ASSUME NEW i \in DOMAIN r, ~r[i].tagged
                 PROVE  /\ c <= r[i].gen
                        /\ \A j \in DOMAIN r : j < i /\ r[j].kind = "CommunitySwitching" => r[j].gen <= r[i].gen
      OBVIOUS
    <2>1. i + 1 \in DOMAIN q /\ r[i] = q[i + 1] /\ 1 < i + 1
      BY <1>1, <1>2
    <2>2. c <= r[i].gen
      BY <1>1, <2>1 DEF InOrder
    <2>3. ASSUME NEW j \in DOMAIN r, j < i, r[j].kind = "CommunitySwitching"
          PROVE  r[j].gen <= r[i].gen
      <3>1. j + 1 < i + 1 /\ j + 1 \in DOMAIN q /\ r[j] = q[j + 1]
        BY <1>1, <1>2, <2>3
      <3> QED
        BY <2>1, <2>3, <3>1 DEF InOrder
    <2> QED
      BY <2>2, <2>3
  <1>12. \A i \in DOMAIN r : r[i].gen <= p /\ (r[i].kind = "CommunitySwitching" => c < r[i].gen)
    <2> SUFFICES ASSUME NEW i \in DOMAIN r
                 PROVE  r[i].gen <= p /\ (r[i].kind = "CommunitySwitching" => c < r[i].gen)
      OBVIOUS
    <2>1. i + 1 \in DOMAIN q /\ r[i] = q[i + 1] /\ i + 1 # 1
      BY <1>1, <1>2
    <2> QED
      BY <1>5, <2>1 DEF InOrder
  <1>13. c <= p
    BY <1>1 DEF InOrder
  <1>14. InOrder(c, p, r)
    BY <1>9, <1>10, <1>11, <1>12, <1>13 DEF InOrder
  <1> QED
    BY <1>6, <1>7, <1>8, <1>14 DEF r

LEMMA AnnouncedIs ==
  ASSUME Typed, SwitchesCounted
  PROVE  Announced \in Gens /\ pump.gen \in Gens /\ pump.gen <= Announced /\ pump.gen \in Nat
  <1>1. pump.gen \in Gens /\ pump.gen \in Nat
    BY StepsTyped DEF Typed
  <1>2. Spawning => pump.gen + 1 \in Gens
    BY OneLeft
  <1> QED
    BY <1>1, <1>2 DEF Announced

\* Only work that starts with a start is past its announcement.
LEMMA AnnouncedSame ==
  ASSUME UNCHANGED pump
  PROVE  Announced' = Announced
  BY DEF Announced, Spawning

\* A community is announced in its turn.
LEMMA AnnouncedStep ==
  ASSUME Typed, SwitchesCounted, Working, CommandPump
  PROVE  /\ ~PumpTell => Announced' = Announced
         /\ PumpTell => /\ Announced = pump.gen
                        /\ Announced' = IF Announces(NextStep) THEN pump.gen + 1 ELSE pump.gen
                        /\ NextStep.event.gen = Announced'
  <1>1. pump \in Pumps /\ pump.work \in Seq(Steps) /\ pump.gen \in Nat /\ InStep(pump.work, pump.gen)
    BY StepsTyped DEF Typed, Working
  <1>2. CASE TakeCommand
    <2>1. PICK c : Takes(c)
      BY <1>2, TakeCommandDoes
    <2>2. pump'.gen = pump.gen /\ ~Spawning /\ (Spawning' => Len(pump'.work) > 1)
      BY <2>1, TakesInStep
    <2>3. ~(1 > 1)
      OBVIOUS
    <2>4. Announced' = Announced
      BY <2>2, <2>3 DEF Announced
    <2>5. pump.work = <<>>
      BY <2>1 DEF Takes
    <2> QED
      BY <2>4, <2>5 DEF PumpTell
  <1>3. CASE BatchTurn \/ PublishDue
    <2>1. pump'.gen = pump.gen /\ ~Spawning /\ ~Spawning'
      BY <1>3, TurnsInStep
    <2>2. pump.work = <<>>
      BY <1>3, BatchTurnDoes, PublishDueDoes
    <2> QED
      BY <2>1, <2>2 DEF Announced, PumpTell
  <1>4. CASE PumpControl \/ PumpTell \/ PumpSpawn \/ PumpEnd
    <2>1. /\ pump.work # <<>> /\ pump'.work = Tail(pump.work)
          /\ NextStep.do = "spawn" <=> PumpSpawn
          /\ NextStep.do = "tell" <=> PumpTell
          /\ ~PumpSpawn => pump'.gen = pump.gen /\ (Spawning' <=> Spawning)
          /\ PumpSpawn => pump'.gen = pump.gen + 1 /\ Spawning /\ ~Spawning' /\ Len(pump.work) = 1
      BY <1>4, StepInStep
    <2>2. NextStep = pump.work[1]
      BY <1>1, <2>1, WorkDoes
    <2>3. CASE PumpSpawn
      <3>1. Announced = pump.gen + 1 /\ Announced' = pump.gen + 1
        BY <2>1, <2>3 DEF Announced
      <3> QED
        BY <2>1, <2>3, <3>1
    <2>4. CASE ~PumpSpawn
      <3> DEFINE w == pump.work
                 r == Tail(w)
      <3>1. w[1].do # "spawn"
        BY <2>1, <2>2, <2>4
      <3>2. /\ Len(r) = 1 /\ r[1].do = "spawn" => Announces(w[1])
            /\ Announces(w[1]) => Len(w) = 2 /\ w[2].do = "spawn"
            /\ w[1].do = "tell" /\ ~Announces(w[1]) => w[1].event.gen = pump.gen
        BY <1>1, <2>1, WorkLeft
      <3>3. /\ 1 \in DOMAIN w /\ Len(r) = Len(w) - 1 /\ Len(w) \in Nat /\ DOMAIN r = 1..Len(w) - 1 /\ DOMAIN w = 1..Len(w)
            /\ \A i \in DOMAIN r : r[i] = w[i + 1]
        BY <1>1, <2>1, Taken
      <3>4. ~(Spawning /\ Len(w) = 1)
        BY <3>1, <3>3 DEF Spawning
      <3>5. Announced = pump.gen
        BY <3>4 DEF Announced
      <3>6. Spawning' /\ Len(r) = 1 <=> Announces(w[1])
        <4>1. ASSUME Spawning', Len(r) = 1
              PROVE  Announces(w[1])
          <5>1. PICK i \in DOMAIN pump'.work : pump'.work[i].do = "spawn"
            BY <4>1 DEF Spawning
          <5>2. i = 1
            BY <2>1, <3>3, <4>1, <5>1
          <5> QED
            BY <2>1, <3>2, <4>1, <5>1, <5>2
        <4>2. ASSUME Announces(w[1])
              PROVE  Spawning' /\ Len(r) = 1
          <5>1. Len(w) = 2 /\ w[2].do = "spawn"
            BY <3>2, <4>2
          <5>2. 1 \in DOMAIN r /\ r[1].do = "spawn" /\ Len(r) = 1
            BY <3>3, <5>1
          <5> QED
            BY <2>1, <5>2 DEF Spawning
        <4> QED
          BY <4>1, <4>2
      <3>7. Announced' = IF Announces(w[1]) THEN pump.gen + 1 ELSE pump.gen
        BY <2>1, <2>4, <3>6 DEF Announced
      <3>8. Announces(w[1]) => w[1].event.gen = pump.gen + 1 /\ w[1].do = "tell"
        BY <1>1, <3>3 DEF InStep, Announces
      <3> QED
        BY <2>1, <2>2, <3>2, <3>5, <3>7, <3>8
    <2> QED
      BY <2>3, <2>4
  <1> QED
    BY <1>2, <1>3, <1>4 DEF CommandPump

LEMMA OrderedStep ==
  ASSUME Typed, SwitchesCounted, Working, Fed, Started, Ordered, Announced' \in Gens, [Next]_vars
  PROVE  Ordered'
  <1>1. /\ events \in Seq(Reports) /\ ui.community \in Gens /\ ui.generation \in Gens
    BY DEF Typed, QueuesTyped, UiTyped, Uis
  <1>2. ui.generation = ui.community /\ InOrder(ui.community, Announced, events)
    BY DEF Ordered
  <1>3. Announced \in Gens /\ pump.gen \in Gens /\ pump.gen <= Announced /\ pump.gen \in Nat /\ Announced \in Nat
    BY AnnouncedIs, Constants
  <1>4. ASSUME UNCHANGED events, Announced' = Announced,
               ui'.generation = ui.generation, ui'.community = ui.community
        PROVE  Ordered'
    BY <1>2, <1>4 DEF Ordered
  <1>5. CASE ApplyEvent
    <2> DEFINE e == Head(events)
               c == IF e.kind = "CommunitySwitching" THEN e.gen ELSE ui.community
    <2>1. /\ events # <<>> /\ events' = Tail(events) /\ e \in Reports /\ UNCHANGED pump
          /\ Stale(e) => ui' = ui
          /\ ~Stale(e) => Follows(e)
      BY <1>5, ApplyDoes
    <2>2. /\ InOrder(c, Announced, Tail(events))
          /\ ~e.tagged /\ e.kind # "CommunitySwitching" => e.gen = ui.community
          /\ e.kind # "CommunitySwitching" => e.gen <= ui.community
          /\ e.kind = "CommunitySwitching" => ui.community < e.gen
      BY <1>1, <1>2, <1>3, <2>1, HeadInOrder
    <2>3. e.gen \in Nat /\ ui.community \in Nat /\ (e.kind = "CommunitySwitching" => ~e.tagged)
      BY <1>1, <2>1, Constants DEF Reports, Events, SocketKinds
    <2> HIDE DEF e
    <2>4. ui'.generation = c /\ ui'.community = c
      <3>1. CASE Stale(e)
        BY <1>2, <2>1, <2>3, <3>1 DEF Stale
      <3>2. CASE ~Stale(e)
        BY <1>2, <2>1, <2>2, <2>3, <3>2 DEF Stale, Follows
      <3> QED
        BY <3>1, <3>2
    <2>5. Announced' = Announced
      BY <2>1, AnnouncedSame
    <2> HIDE DEF c
    <2> QED
      BY <2>1, <2>2, <2>4, <2>5 DEF Ordered
  <1>6. CASE Drained \/ SendOutbox \/ SendShutdown
    <2>1. UNCHANGED <<events, pump>> /\ (ui' = ui \/ ui' = [ui EXCEPT !.quit = @ \/ ws[0].at = "failed"])
      BY <1>6 DEF Drained, SendOutbox, SendShutdown
    <2>2. ui'.generation = ui.generation /\ ui'.community = ui.community
      BY <2>1 DEF Typed, UiTyped, Uis
    <2> QED
      BY <1>4, <2>1, <2>2, AnnouncedSame
  <1>7. CASE TakeKey
    <2>1. UNCHANGED <<events, pump>>
      BY <1>7, TakeKeyDoes
    <2>2. ui'.generation = ui.generation /\ ui'.community = ui.community
      <3>1. CASE ui' = [ui EXCEPT !.quit = TRUE] \/ ui' = ui
        BY <3>1 DEF Typed, UiTyped, Uis
      <3>2. CASE WriteMessage \/ ClaimRead \/ SubmitMembers \/ ConfirmCommunity
        BY <3>2, KeyDoes DEF KeyKept
      <3> QED
        BY <1>7, <3>1, <3>2, TakeKeyDoes
    <2> QED
      BY <1>4, <2>1, <2>2, AnnouncedSame
  <1>8. CASE CommandPump /\ ~PumpTell
    <2>1. Announced' = Announced
      BY <1>8, AnnouncedStep
    <2>2. UNCHANGED <<events, ui>>
      BY <1>8 DEF CommandPump, TakeCommand, PublishDue, BatchTurn, PumpControl, PumpSpawn, PumpEnd
    <2> QED
      BY <1>4, <2>1, <2>2
  <1>9. CASE PumpTell
    <2> DEFINE e == NextStep.event
    <2>1. /\ events' = Append(events, e) /\ e \in Reports /\ UNCHANGED ui /\ NextStep.do = "tell"
      BY <1>9, PumpTellDoes
    <2>2. /\ Announced = pump.gen
          /\ Announced' = IF Announces(NextStep) THEN pump.gen + 1 ELSE pump.gen
          /\ e.gen = Announced'
      BY <1>9, AnnouncedStep DEF CommandPump
    <2>3. Announces(NextStep) <=> e.kind = "CommunitySwitching"
      BY <2>1 DEF Announces
    <2> HIDE DEF e
    <2>4. CASE e.kind = "CommunitySwitching"
      <3>1. InOrder(ui.community, Announced + 1, Append(events, e))
        BY <1>1, <1>2, <1>3, <2>1, <2>2, <2>3, <2>4, SwitchInOrder
      <3> QED
        BY <1>2, <2>1, <2>2, <2>3, <2>4, <3>1 DEF Ordered
    <2>5. CASE e.kind # "CommunitySwitching"
      <3>1. e.gen = Announced /\ e.gen <= Announced /\ Announced' = Announced
        BY <1>3, <2>2, <2>3, <2>5
      <3>2. InOrder(ui.community, Announced, Append(events, e))
        BY <1>1, <1>2, <1>3, <2>1, <2>5, <3>1, AppendInOrder
      <3> QED
        BY <1>2, <2>1, <3>1, <3>2 DEF Ordered
    <2> QED
      BY <2>4, <2>5
  <1>10. ASSUME NEW g \in Gens, WebSocketPump(g) PROVE Ordered'
    <2>1. UNCHANGED <<ui, pump>> /\ Reporting(g)
      BY <1>10, SocketDoes
    <2>2. Announced' = Announced
      BY <2>1, AnnouncedSame
    <2>3. ASSUME NEW e \in Reports, e.tagged, e.gen = g, ws[g].at # "off", events' = Append(events, e)
          PROVE  Ordered'
      <3>1. ~(g > pump.gen) /\ g \in Nat
        BY <2>3, Constants DEF Started
      <3>2. e.gen <= Announced
        BY <1>3, <2>3, <3>1
      <3>3. e.kind # "CommunitySwitching"
        BY <2>3 DEF Reports, SocketKinds
      <3>4. InOrder(ui.community, Announced, Append(events, e))
        BY <1>1, <1>2, <1>3, <2>3, <3>2, <3>3, AppendInOrder
      <3> QED
        BY <1>2, <2>1, <2>2, <2>3, <3>4 DEF Ordered
    <2>4. CASE UNCHANGED events
      BY <1>4, <2>1, <2>2, <2>4
    <2> QED
      BY <2>1, <2>3, <2>4 DEF Reporting
  <1>11. CASE UNCHANGED vars
    <2>1. UNCHANGED <<events, pump, ui>>
      BY <1>11 DEF vars
    <2> QED
      BY <1>4, <2>1, AnnouncedSame
  <1> QED
    BY <1>5, <1>6, <1>7, <1>8, <1>9, <1>10, <1>11 DEF Next, Interface

LEMMA FedStep ==
  ASSUME Typed, SwitchesCounted, Working, Fed, Started, [Next]_vars
  PROVE  Fed' /\ Started'
  <1>0. pump.gen \in Nat
    BY AnnouncedIs
  <1>1. ASSUME UNCHANGED <<feed, ws>>, pump'.gen = pump.gen
        PROVE  Fed' /\ Started'
    BY <1>1 DEF Fed, Started
  <1>2. CASE Interface
    BY <1>1, <1>2, InterfaceStep
  <1>3. CASE CommandPump /\ ~PumpSpawn
    <2>1. UNCHANGED <<feed, ws>>
      BY <1>3 DEF CommandPump, TakeCommand, PublishDue, BatchTurn, PumpControl, PumpTell, PumpEnd
    <2>2. pump'.gen = pump.gen
      <3>1. CASE TakeCommand
        <4>1. PICK c : Takes(c)
          BY <3>1, TakeCommandDoes
        <4> QED
          BY <4>1, TakesInStep
      <3>2. CASE BatchTurn \/ PublishDue
        BY <3>2, TurnsInStep
      <3>3. CASE PumpControl \/ PumpTell \/ PumpEnd
        BY <1>3, <3>3, StepInStep
      <3> QED
        BY <1>3, <3>1, <3>2, <3>3 DEF CommandPump
    <2> QED
      BY <1>1, <2>1, <2>2
  <1>4. CASE PumpSpawn
    <2>1. pump.gen + 1 \in Gens
      BY <1>4, StepInStep
    <2>2. /\ pump'.gen = pump.gen + 1 /\ \A g \in Gens : g # pump.gen + 1 => ws'[g] = ws[g]
          /\ ws'[pump.gen + 1].at = "connecting" /\ UNCHANGED feed
      BY <1>4, <2>1, PumpSpawnDoes
    <2>3. Fed'
      BY <2>2 DEF Fed
    <2>4. Started'
      <3> SUFFICES ASSUME NEW g \in Gens, g > pump.gen + 1
                   PROVE  ws'[g].at = "off"
        BY <2>2 DEF Started
      <3>1. g > pump.gen /\ g # pump.gen + 1
        BY <1>0, Constants
      <3> QED
        BY <2>2, <3>1 DEF Started
    <2> QED
      BY <2>3, <2>4
  <1>5. ASSUME NEW g \in Gens, WebSocketPump(g) PROVE Fed' /\ Started'
    <2>1. /\ Fed' /\ UNCHANGED pump /\ \A h \in Gens : ws[h].at = "off" => ws'[h].at = "off"
      BY <1>5, SocketDoes
    <2> QED
      BY <2>1 DEF Started
  <1>6. CASE UNCHANGED vars
    BY <1>1, <1>6 DEF vars
  <1> QED
    BY <1>2, <1>3, <1>4, <1>5, <1>6 DEF Next

-----------------------------------------------------------------------------
(* The reads on their way.                                                  *)

LEMMA CallsJoined ==
  ASSUME NEW q \in Seq(Requests), NEW r \in Seq(Requests), NEW g
  PROVE  /\ HoldsSwitch(q \o r) => HoldsSwitch(q) \/ HoldsSwitch(r)
         /\ HoldsCalm(q \o r) => HoldsCalm(q) \/ HoldsCalm(r)
         /\ Leads(q) /\ Leads(r) /\ ~(HoldsSwitch(q) /\ HoldsCalm(r)) => Leads(q \o r)
         /\ HomeIn(q, g) /\ HomeIn(r, g) => HomeIn(q \o r, g)
  <1> DEFINE s == q \o r
  <1>1. /\ DOMAIN s = 1..Len(q) + Len(r) /\ DOMAIN q = 1..Len(q) /\ DOMAIN r = 1..Len(r)
        /\ Len(q) \in Nat /\ Len(r) \in Nat
        /\ \A i \in DOMAIN q : s[i] = q[i]
        /\ \A i \in DOMAIN r : s[i + Len(q)] = r[i]
    BY Joined
  <1> HIDE DEF s
  <1>2. \A i \in DOMAIN s : \/ i \in DOMAIN q /\ s[i] = q[i]
                            \/ i - Len(q) \in DOMAIN r /\ s[i] = r[i - Len(q)] /\ i > Len(q)
    BY <1>1
  <1>3. HoldsSwitch(s) => HoldsSwitch(q) \/ HoldsSwitch(r)
    BY <1>2 DEF HoldsSwitch
  <1>4. HoldsCalm(s) => HoldsCalm(q) \/ HoldsCalm(r)
    BY <1>2 DEF HoldsCalm
  <1>5. HomeIn(q, g) /\ HomeIn(r, g) => HomeIn(s, g)
    BY <1>2 DEF HomeIn
  <1>6. ASSUME Leads(q), Leads(r), ~(HoldsSwitch(q) /\ HoldsCalm(r)),
               NEW i \in DOMAIN s, NEW j \in DOMAIN s, i < j, s[i].kind = "SwitchCommunity"
        PROVE  ~Calm(s[j])
    <2>1. CASE i \in DOMAIN q /\ s[i] = q[i] /\ j \in DOMAIN q /\ s[j] = q[j]
      BY <1>6, <2>1 DEF Leads
    <2>2. CASE i \in DOMAIN q /\ s[i] = q[i] /\ j - Len(q) \in DOMAIN r /\ s[j] = r[j - Len(q)]
      BY <1>6, <2>2 DEF HoldsSwitch, HoldsCalm
    <2>3. CASE /\ i - Len(q) \in DOMAIN r /\ s[i] = r[i - Len(q)]
               /\ j - Len(q) \in DOMAIN r /\ s[j] = r[j - Len(q)]
      <3>1. i - Len(q) < j - Len(q)
        BY <1>1, <1>6
      <3> QED
        BY <1>6, <2>3, <3>1 DEF Leads
    <2>4. ~(i > Len(q) /\ j \in DOMAIN q)
      BY <1>1, <1>6
    <2> QED
      BY <1>2, <2>1, <2>2, <2>3, <2>4
  <1>7. Leads(q) /\ Leads(r) /\ ~(HoldsSwitch(q) /\ HoldsCalm(r)) => Leads(s)
    BY <1>6 DEF Leads
  <1> QED
    BY <1>3, <1>4, <1>5, <1>7 DEF s

LEMMA CallsOne ==
  ASSUME NEW c, NEW g
  PROVE  /\ HoldsSwitch(<<c>>) <=> c.kind = "SwitchCommunity"
         /\ HoldsCalm(<<c>>) <=> Calm(c)
         /\ Leads(<<c>>)
         /\ HomeIn(<<c>>, g) <=> (Calm(c) => c.home = g)
  BY DEF HoldsSwitch, HoldsCalm, Leads, HomeIn

LEMMA CallsNone == \A g : ~HoldsSwitch(<<>>) /\ ~HoldsCalm(<<>>) /\ Leads(<<>>) /\ HomeIn(<<>>, g)
  BY DEF HoldsSwitch, HoldsCalm, Leads, HomeIn

LEMMA CallsTaken ==
  ASSUME NEW q \in Seq(Requests), q # <<>>, NEW g
  PROVE  /\ HoldsSwitch(Tail(q)) => HoldsSwitch(q)
         /\ HoldsCalm(Tail(q)) => HoldsCalm(q)
         /\ Head(q).kind = "SwitchCommunity" => HoldsSwitch(q)
         /\ Calm(Head(q)) => HoldsCalm(q)
         /\ Leads(q) => Leads(Tail(q)) /\ (Head(q).kind = "SwitchCommunity" => ~HoldsCalm(Tail(q)))
         /\ HomeIn(q, g) => HomeIn(Tail(q), g) /\ (Calm(Head(q)) => Head(q).home = g)
  <1> DEFINE t == Tail(q)
  <1>1. /\ Head(q) = q[1] /\ 1 \in DOMAIN q /\ Len(q) \in Nat
        /\ DOMAIN q = 1..Len(q) /\ DOMAIN t = 1..Len(q) - 1
        /\ \A i \in DOMAIN t : t[i] = q[i + 1]
    BY Taken
  <1> HIDE DEF t
  <1>2. \A i \in DOMAIN t : i + 1 \in DOMAIN q /\ t[i] = q[i + 1] /\ 1 < i + 1
    BY <1>1
  <1>3. \A i, j \in DOMAIN t : i < j => i + 1 < j + 1
    BY <1>1
  <1>4. /\ HoldsSwitch(t) => HoldsSwitch(q)
        /\ HoldsCalm(t) => HoldsCalm(q)
        /\ Head(q).kind = "SwitchCommunity" => HoldsSwitch(q)
        /\ Calm(Head(q)) => HoldsCalm(q)
    BY <1>1, <1>2 DEF HoldsSwitch, HoldsCalm
  <1>5. Leads(q) => Leads(t)
    BY <1>2, <1>3 DEF Leads
  <1>6. Leads(q) /\ Head(q).kind = "SwitchCommunity" => ~HoldsCalm(t)
    BY <1>1, <1>2 DEF Leads, HoldsCalm
  <1>7. HomeIn(q, g) => HomeIn(t, g) /\ (Calm(Head(q)) => Head(q).home = g)
    BY <1>1, <1>2 DEF HomeIn
  <1> QED
    BY <1>4, <1>5, <1>6, <1>7 DEF t

\* With no switch under way the interface shows the community of the pump's client.
LEMMA ShownIsServed ==
  ASSUME Typed, SwitchesCounted, Ordered, ~SwitchUnderWay
  PROVE  ui.community = pump.gen
  <1>1. /\ ui.community \in Gens /\ ui.community \in Nat /\ Announced \in Gens /\ pump.gen \in Nat
    BY AnnouncedIs, Constants DEF Typed, UiTyped, Uis
  <1>2. /\ ui.community <= Announced
        /\ \A g \in Gens : ui.community < g /\ g <= Announced =>
             \E i \in DOMAIN events : events[i].kind = "CommunitySwitching" /\ events[i].gen = g
    BY DEF Ordered, InOrder
  <1>3. Announced = pump.gen /\ ~\E i \in DOMAIN events : events[i].kind = "CommunitySwitching"
    BY DEF SwitchUnderWay, Announced
  <1>4. ~(ui.community < Announced)
    BY <1>1, <1>2, <1>3
  <1> QED
    BY <1>1, <1>2, <1>3, <1>4

\* The interface puts a claim behind every switch it asked for before.
LEMMA AtHomeAsked ==
  ASSUME Typed, SwitchesCounted, Ordered, AtHome, Interface
  PROVE  AtHome'
  <1>1. /\ outbox \in Seq(Requests) /\ commands \in Seq(Requests) /\ queued \in Seq(Requests)
        /\ UNCHANGED <<pump, queued>>
    <2>1. UNCHANGED queued
      BY TakeKeyDoes, ApplyDoes DEF Interface, Drained, SendOutbox, SendShutdown
    <2> QED
      BY <2>1, InterfaceStep DEF Typed, QueuesTyped
  <1>2. (Spawning' <=> Spawning) /\ pump'.gen = pump.gen /\ pump'.read = pump.read
    BY <1>1 DEF Spawning
  <1>3. ASSUME UNCHANGED commands, outbox' = <<>> \/ Asks \/ UNCHANGED outbox
        PROVE  AtHome'
    <2>1. /\ Leads(outbox') /\ HomeIn(outbox', pump.gen)
          /\ HoldsSwitch(outbox') => HoldsSwitch(outbox)
          /\ HoldsCalm(outbox') => HoldsCalm(outbox)
      <3>1. CASE outbox' = <<>>
        BY <3>1, CallsNone
      <3>2. CASE Asks
        <4>1. PICK r : Errands(r) /\ outbox' = outbox \o r
          BY <3>2 DEF Asks
        <4>2. r \in Seq(Requests) /\ \A i \in DOMAIN r : r[i].kind \notin {"SwitchCommunity", "ReadProgress"}
          BY <4>1 DEF Errands, ErrandKinds
        <4>3. ~HoldsSwitch(r) /\ ~HoldsCalm(r) /\ Leads(r) /\ HomeIn(r, pump.gen)
          BY <4>2 DEF HoldsSwitch, HoldsCalm, Leads, HomeIn, Calm
        <4> QED
          BY <1>1, <4>1, <4>2, <4>3, CallsJoined DEF AtHome
      <3>3. CASE UNCHANGED outbox
        BY <3>3 DEF AtHome
      <3> QED
        BY <1>3, <3>1, <3>2, <3>3
    <2> QED
      BY <1>1, <1>2, <1>3, <2>1 DEF AtHome
  <1>4. CASE ApplyEvent
    BY <1>3, <1>4, ApplyDoes
  <1>5. CASE Drained
    BY <1>3, <1>5 DEF Drained
  <1>6. CASE SendOutbox
    <2> DEFINE c == Head(outbox)
    <2>1. /\ outbox # <<>> /\ commands' = commands \o <<c>> /\ outbox' = Tail(outbox)
          /\ c \in Requests /\ <<c>> \in Seq(Requests)
      BY <1>1, <1>6, Taken, Added DEF SendOutbox
    <2>2. /\ HoldsSwitch(outbox') => HoldsSwitch(outbox)
          /\ HoldsCalm(outbox') => HoldsCalm(outbox)
          /\ c.kind = "SwitchCommunity" => HoldsSwitch(outbox) /\ ~HoldsCalm(outbox')
          /\ Calm(c) => HoldsCalm(outbox) /\ c.home = pump.gen
          /\ Leads(outbox') /\ HomeIn(outbox', pump.gen)
      BY <1>1, <2>1, CallsTaken DEF AtHome
    <2> HIDE DEF c
    <2>3. /\ HoldsSwitch(commands') => HoldsSwitch(commands) \/ c.kind = "SwitchCommunity"
          /\ HoldsCalm(commands') => HoldsCalm(commands) \/ Calm(c)
          /\ Leads(commands') /\ HomeIn(commands', pump.gen)
      BY <1>1, <2>1, <2>2, CallsJoined, CallsOne DEF AtHome
    <2> QED
      BY <1>1, <1>2, <2>2, <2>3 DEF AtHome
  <1>7. CASE TakeKey
    <2>1. outbox = <<>> /\ UNCHANGED commands
      BY <1>7, TakeKeyDoes
    <2>2. CASE WriteMessage \/ ClaimRead \/ SubmitMembers \/ ConfirmCommunity
      <3>1. PICK c, counted : Wants(c, counted)
        BY <2>2, KeyDoes
      <3>2. outbox' = <<c>> /\ (Calm(c) => c.home = pump.gen /\ ~SwitchUnderWay)
        BY <3>1, ShownIsServed DEF Wants
      <3>3. Calm(c) => ~HoldsSwitch(queued) /\ ~HoldsSwitch(commands) /\ ~Spawning
        BY <3>2 DEF SwitchUnderWay
      <3>4. /\ HoldsCalm(outbox') <=> Calm(c)
            /\ Leads(outbox') /\ HomeIn(outbox', pump.gen)
        BY <3>2, CallsOne
      <3> QED
        BY <1>1, <1>2, <2>1, <3>3, <3>4 DEF AtHome
    <2> QED
      BY <1>3, <1>7, <2>1, <2>2, TakeKeyDoes
  <1>8. CASE SendShutdown
    <2> DEFINE c == Command("Shutdown", {})
    <2>1. c \in Requests /\ c.kind = "Shutdown"
      BY CommandTyped DEF Typed, CommandKinds
    <2>2. UNCHANGED outbox /\ commands' = Append(commands, c)
      BY <1>8 DEF SendShutdown
    <2> HIDE DEF c
    <2>3. commands' = commands \o <<c>> /\ <<c>> \in Seq(Requests) /\ ~Calm(c)
      BY <1>1, <2>1, <2>2, Added DEF Calm
    <2>4. /\ HoldsSwitch(commands') => HoldsSwitch(commands)
          /\ HoldsCalm(commands') => HoldsCalm(commands)
          /\ Leads(commands') /\ HomeIn(commands', pump.gen)
      BY <1>1, <2>1, <2>3, CallsJoined, CallsOne DEF AtHome
    <2> QED
      BY <1>1, <1>2, <2>2, <2>4 DEF AtHome
  <1> QED
    BY <1>4, <1>5, <1>6, <1>7, <1>8 DEF Interface

\* The pump flushes the read before a switch, and finds none of the old community
\* behind it but those claimed meanwhile.
LEMMA AtHomeTaken ==
  ASSUME Typed, SwitchesCounted, Working, AtHome, NEW c, Takes(c)
  PROVE  AtHome'
  <1>1. /\ outbox \in Seq(Requests) /\ commands \in Seq(Requests) /\ queued \in Seq(Requests) /\ pump \in Pumps
        /\ UNCHANGED outbox
    BY DEF Typed, QueuesTyped, Takes
  <1>2. pump'.gen = pump.gen /\ (Spawning' <=> c.kind = "SwitchCommunity")
    BY TakesInStep
  <1>3. /\ Leads(queued') /\ Leads(commands') /\ HomeIn(queued', pump.gen) /\ HomeIn(commands', pump.gen)
        /\ HoldsSwitch(queued') => HoldsSwitch(queued)
        /\ HoldsSwitch(commands') => HoldsSwitch(commands)
        /\ HoldsCalm(queued') => HoldsCalm(queued)
        /\ HoldsCalm(commands') => HoldsCalm(commands)
        /\ Calm(c) => c.home = pump.gen
        /\ c.kind = "SwitchCommunity" => ~HoldsCalm(queued') /\ ~HoldsCalm(commands') /\ ~HoldsCalm(outbox)
    <2>1. CASE queued # <<>> /\ c = Head(queued) /\ queued' = Tail(queued) /\ commands' = commands
      BY <1>1, <2>1, CallsTaken DEF AtHome
    <2>2. CASE queued = <<>> /\ commands # <<>> /\ c = Head(commands) /\ commands' = Tail(commands) /\ queued' = queued
      BY <1>1, <2>2, CallsTaken, CallsNone DEF AtHome
    <2> QED
      BY <2>1, <2>2 DEF Takes
  <1>4. \A d \in pump'.read : d.amid \/ d.home = pump.gen
    <2>1. CASE pump'.read = pump.read \/ pump'.read = {}
      BY <2>1 DEF AtHome
    <2>2. CASE c.kind = "ReadProgress" /\ pump'.read = {c}
      BY <1>3, <2>2 DEF Calm
    <2>3. \/ pump'.read = pump.read \/ pump'.read = {}
          \/ c.kind = "ReadProgress" /\ pump'.read = {c}
      <3>1. CASE c.kind = "ReadProgress" /\ pump' = [pump EXCEPT !.read = {c}, !.due = TRUE]
        BY <1>1, <3>1 DEF Pumps
      <3>2. CASE \/ pump' = [pump EXCEPT !.work = <<Tell("Written", c.about)>>]
                 \/ pump' = [pump EXCEPT !.work = pump'.work]
                 \/ pump' = [pump EXCEPT !.batch = Targets]
        BY <1>1, <3>2 DEF Pumps
      <3>3. CASE \/ pump' = [pump EXCEPT !.read = {}, !.work = pump'.work]
                 \/ pump' = [pump EXCEPT !.read = {}, !.work = Flush \o <<End>>]
        BY <1>1, <3>3 DEF Pumps
      <3> QED
        BY <3>1, <3>2, <3>3, ExecuteTyped
    <2> QED
      BY <2>1, <2>2, <2>3
  <1> QED
    BY <1>1, <1>2, <1>3, <1>4 DEF AtHome

LEMMA AtHomeStep ==
  ASSUME Typed, SwitchesCounted, Working, Fed, Ordered, AtHome, [Next]_vars
  PROVE  AtHome'
  <1>1. pump \in Pumps /\ commands \in Seq(Requests) /\ queued \in Seq(Requests)
    BY DEF Typed, QueuesTyped
  <1>2. CASE UNCHANGED <<pump, outbox, commands, queued>>
    BY <1>2 DEF AtHome, Spawning
  <1>3. CASE BatchTurn
    <2>1. queued' = queued \o commands /\ commands' = <<>> /\ UNCHANGED outbox
      BY <1>3, BatchTurnDoes
    <2>2. pump'.gen = pump.gen /\ ~Spawning' /\ pump'.read = pump.read
      <3>1. pump'.read = pump.read
        BY <1>1, <1>3, BatchTurnDoes DEF Turns, Pumps
      <3> QED
        BY <1>3, <3>1, TurnsInStep
    <2>3. /\ HoldsSwitch(queued') => HoldsSwitch(queued) \/ HoldsSwitch(commands)
          /\ Leads(queued') /\ HomeIn(queued', pump.gen)
      BY <1>1, <2>1, CallsJoined DEF AtHome
    <2>4. ~HoldsSwitch(commands') /\ ~HoldsCalm(commands') /\ Leads(commands') /\ HomeIn(commands', pump.gen)
      BY <2>1, CallsNone
    <2> QED
      BY <2>1, <2>2, <2>3, <2>4 DEF AtHome
  <1>4. CASE PublishDue
    <2>1. UNCHANGED <<outbox, commands, queued>> /\ pump'.read = {}
      BY <1>1, <1>4, PublishDueDoes DEF Pumps
    <2>2. pump'.gen = pump.gen /\ ~Spawning'
      BY <1>4, TurnsInStep
    <2> QED
      BY <2>1, <2>2 DEF AtHome
  <1>5. CASE PumpControl \/ PumpTell \/ PumpSpawn \/ PumpEnd
    <2>1. UNCHANGED <<outbox, commands, queued>>
      BY <1>5 DEF PumpControl, PumpTell, PumpSpawn, PumpEnd
    <2>2. pump'.read = pump.read
      <3>1. pump.work # <<>>
        BY <1>5, StepInStep
      <3>2. Done.read = pump.read
        BY <1>1, <3>1, WorkDoes
      <3> QED
        BY <1>5, <3>2, PumpControlDoes, PumpTellDoes, PumpSpawnDoes, PumpEndDoes, StepInStep
    <2>3. CASE PumpSpawn
      <3>1. Spawning /\ ~Spawning' /\ pump.read = {}
        BY <2>3, StepInStep DEF Working
      <3>2. ~HoldsCalm(queued) /\ ~HoldsCalm(commands) /\ ~HoldsCalm(outbox)
        BY <3>1 DEF AtHome
      <3>3. HomeIn(queued, pump'.gen) /\ HomeIn(commands, pump'.gen) /\ HomeIn(outbox, pump'.gen)
        BY <3>2 DEF HoldsCalm, HomeIn
      <3> QED
        BY <2>1, <2>2, <3>1, <3>2, <3>3 DEF AtHome
    <2>4. CASE ~PumpSpawn
      <3>1. pump'.gen = pump.gen /\ (Spawning' <=> Spawning)
        BY <1>5, <2>4, StepInStep
      <3> QED
        BY <2>1, <2>2, <3>1 DEF AtHome
    <2> QED
      BY <2>3, <2>4
  <1>6. CASE CommandPump
    BY <1>3, <1>4, <1>5, <1>6, TakeCommandDoes, AtHomeTaken DEF CommandPump
  <1>7. CASE Interface
    BY <1>7, AtHomeAsked
  <1>8. ASSUME NEW g \in Gens, WebSocketPump(g) PROVE AtHome'
    BY <1>2, <1>8, SocketDoes
  <1>9. CASE UNCHANGED vars
    BY <1>2, <1>9 DEF vars
  <1> QED
    BY <1>6, <1>7, <1>8, <1>9 DEF Next

-----------------------------------------------------------------------------
(* The communities stay apart.                                              *)

Apart == Typed /\ Working /\ Fed /\ Started /\ SwitchesCounted /\ Ordered /\ AtHome

LEMMA ApartStep ==
  ASSUME Apart, [Next]_vars
  PROVE  Apart'
  <1>1. Typed' /\ Working' /\ Fed' /\ Started' /\ SwitchesCounted'
    BY TypedStep, WorkingStep, FedStep, SwitchesCountedStep DEF Apart
  <1>2. Announced' \in Gens
    <2>1. (Typed /\ SwitchesCounted => Announced \in Gens)'
      BY AnnouncedIs, PTL
    <2> QED
      BY <1>1, <2>1
  <1>3. Ordered'
    BY <1>2, OrderedStep DEF Apart
  <1>4. AtHome'
    BY AtHomeStep DEF Apart
  <1> QED
    BY <1>1, <1>3, <1>4 DEF Apart

LEMMA InitApart == Init => Apart
  <1> SUFFICES ASSUME Init
               PROVE  Apart
    OBVIOUS
  <1>1. /\ outbox = <<>> /\ commands = <<>> /\ queued = <<>> /\ events = <<>>
        /\ subs = [g \in Gens |-> <<>>] /\ feed = [g \in Gens |-> <<>>] /\ loop = "drain"
        /\ pump = [gen |-> 0, work |-> <<>>, batch |-> {}, read |-> {}, due |-> FALSE, over |-> FALSE]
        /\ ws = [g \in Gens |-> [at |-> IF g = 0 THEN "connecting" ELSE "off", first |-> TRUE, served |-> FALSE]]
    BY DEF Init
  <1>2. ui = [generation |-> 0, community |-> 0, opened |-> FALSE, pending |-> {},
           locked |-> FALSE, left |-> {}, unknown |-> FALSE, lockedAt |-> 0,
           quit |-> FALSE, keys |-> 0, sends |-> 0, batches |-> 0, switches |-> 0]
    BY DEF Init
  <1>3. 0 \in 0..MaxSends /\ 0 \in 0..MaxBatches /\ 0 \in 0..MaxSwitches /\ 0 \in Gens
    BY Constants
  <1>4. UiTyped
    <2>1. ui \in Uis
      BY <1>2, <1>3 DEF Uis
    <2> QED
      BY <1>2, <2>1 DEF UiTyped
  <1>5. pump \in Pumps
    BY <1>1, <1>3 DEF Pumps
  <1>6. QueuesTyped
    BY <1>1, Constants DEF QueuesTyped
  <1>7. SocketsTyped
    <2>1. ws \in [Gens -> Sockets]
      BY <1>1 DEF Sockets
    <2>2. subs \in [Gens -> Seq(Controls)] /\ feed \in [Gens -> Seq(Reports)]
      BY <1>1
    <2>3. \A g \in Gens : Len(subs[g]) = 0 /\ Len(feed[g]) = 0
      BY <1>1
    <2> QED
      BY <2>1, <2>2, <2>3, Constants DEF SocketsTyped
  <1>8. Typed
    BY <1>1, <1>4, <1>5, <1>6, <1>7 DEF Typed
  <1>9. Working
    BY <1>1, NoWork DEF Working, Spawning
  <1>10. Fed /\ Started
    <2>1. \A g \in Gens : feed[g] = <<>> /\ (g > 0 => ws[g].at = "off") /\ pump.gen = 0
      BY <1>1, Constants
    <2> QED
      BY <2>1 DEF Fed, Started
  <1>11. pump.gen = 0 /\ ~Spawning /\ ui.switches = 0
    BY <1>1, <1>2 DEF Spawning
  <1>12. SwitchesCounted
    BY <1>1, <1>11, CountNone DEF SwitchesCounted
  <1>13. Ordered
    <2>1. Announced = 0 /\ ui.generation = 0 /\ ui.community = 0
      BY <1>2, <1>11 DEF Announced
    <2>2. InOrder(0, 0, <<>>)
      BY Constants DEF InOrder
    <2> QED
      BY <1>1, <2>1, <2>2 DEF Ordered
  <1>14. AtHome
    BY <1>1, <1>11 DEF AtHome, Leads, HomeIn, HoldsSwitch
  <1> QED
    BY <1>8, <1>9, <1>10, <1>12, <1>13, <1>14 DEF Apart

LEMMA ApartTyped ==
  ASSUME Apart
  PROVE  TypeOK
  <1>1. /\ loop \in {"drain", "send", "quit", "flush"} /\ ui \in Uis /\ (ui.left # {} \/ ui.unknown <=> ui.locked)
        /\ pump \in Pumps /\ QueuesTyped /\ SocketsTyped
    BY DEF Apart, Typed, UiTyped
  <1>2. /\ ui.generation \in Gens /\ ui.community \in Gens
        /\ ui.pending \subseteq Messages /\ ui.left \subseteq Targets
        /\ pump.gen \in Gens /\ pump.batch \subseteq Targets
    BY <1>1 DEF Uis, Pumps
  <1>3. Requests \subseteq Commands /\ Reports \subseteq Events
    BY DEF Requests, Reports
  <1>4. \A q : (q \in Seq(Requests) \/ q \in Seq(Reports)) => Len(q) \in Nat
    OBVIOUS
  <1>5. ASSUME NEW q \in Seq(Requests), NEW n \in Nat, Len(q) <= n
        PROVE  Within(q, Commands, n)
    BY <1>3, <1>5 DEF Within
  <1>6. ASSUME NEW q \in Seq(Reports), NEW n \in Nat, Len(q) <= n
        PROVE  Within(q, Events, n)
    BY <1>3, <1>6 DEF Within
  <1>7. \A n \in Nat : n <= n
    OBVIOUS
  <1>8. Within(outbox, Commands, Len(outbox)) /\ Within(queued, Commands, Len(queued))
    BY <1>1, <1>4, <1>5, <1>7 DEF QueuesTyped
  <1>9. Within(commands, Commands, CommandCap) /\ Within(events, Events, EventCap)
    BY <1>1, <1>5, <1>6, Constants DEF QueuesTyped
  <1>10. ASSUME NEW g \in Gens
         PROVE  /\ Len(subs[g]) <= SubCap /\ Within(feed[g], Events, FeedCap)
                /\ ws[g].at \in {"off", "connecting", "up", "backoff", "failed", "over"}
    <2>1. feed[g] \in Seq(Reports) /\ Len(feed[g]) <= FeedCap /\ ws[g] \in Sockets /\ Len(subs[g]) <= SubCap
      BY <1>1 DEF SocketsTyped
    <2> QED
      BY <1>6, <2>1, Constants DEF Sockets
  <1>11. \A q \in {outbox, queued} : Within(q, Commands, Len(q))
    BY <1>8
  <1> QED
    BY <1>1, <1>2, <1>9, <1>10, <1>11 DEF TypeOK

LEMMA ApartOwn ==
  ASSUME Apart
  PROVE  OwnCommunityOnly /\ ReadDoesNotCross
  <1>1. /\ events \in Seq(Reports) /\ ui.community \in Gens /\ ui.generation = ui.community
        /\ InOrder(ui.community, Announced, events) /\ \A c \in pump.read : c.amid \/ c.home = pump.gen
    BY DEF Apart, Typed, QueuesTyped, UiTyped, Uis, Ordered, AtHome
  <1>2. Announced \in Gens
    BY AnnouncedIs DEF Apart
  <1> DEFINE e == Head(events)
  <1>3. ASSUME events # <<>>
        PROVE  Stale(e) \/ e.kind = "CommunitySwitching" \/ e.gen = ui.community
    <2>1. /\ ~e.tagged /\ e.kind # "CommunitySwitching" => e.gen = ui.community
          /\ e.kind # "CommunitySwitching" => e.gen <= ui.community
      BY <1>1, <1>2, <1>3, HeadInOrder
    <2>2. e.gen \in Nat /\ ui.community \in Nat
      <3>1. e \in Reports
        BY <1>1, <1>3, Taken
      <3> QED
        BY <1>1, <3>1, Constants DEF Reports, Events
    <2> HIDE DEF e
    <2> QED
      BY <1>1, <2>1, <2>2 DEF Stale
  <1> QED
    BY <1>1, <1>3 DEF OwnCommunityOnly, ReadDoesNotCross

LEMMA ApartHolds == Spec => []Apart
  <1>1. Init => Apart
    BY InitApart
  <1>2. Apart /\ [Next]_vars => Apart'
    BY ApartStep
  <1> QED
    BY <1>1, <1>2, PTL DEF Spec

\* What one community's pump, connections and answers send is never taken for
\* another's, and a read claimed while no switch is under way is published by its own
\* community's client, however many switches overlap; and no queue exceeds its
\* capacity.
THEOREM CommunitiesKeepApart == Spec => []CommunitiesStayApart
  <1>1. Apart => CommunitiesStayApart
    BY ApartTyped, ApartOwn DEF CommunitiesStayApart
  <1> QED
    BY <1>1, ApartHolds, PTL

-----------------------------------------------------------------------------
(* The messages under way.                                                  *)

\* What the elements of q of a kind are about, and that they come in rising order.
Said(q, kind) == UNION {q[i].about : i \in {i \in DOMAIN q : q[i].kind = kind}}

Below(S, T) == \A m \in S, n \in T : m < n

Rising(q, kind) ==
  \A i, j \in DOMAIN q : i < j /\ q[i].kind = kind /\ q[j].kind = kind => Below(q[i].about, q[j].about)

\* The messages whose answers are part of the work w.
Writes(x) == x.do = "tell" /\ x.event.kind = "Written"
Writing(w) == UNION {w[i].event.about : i \in {i \in DOMAIN w : Writes(w[i])}}

\* Work w answers one message at most.
Sole(w) == \A i, j \in DOMAIN w : Writes(w[i]) /\ Writes(w[j]) => i = j

\* Each set is below every later one.
Chain(A, B, C, D, E) ==
  /\ Below(A, B) /\ Below(A, C) /\ Below(A, D) /\ Below(A, E)
  /\ Below(B, C) /\ Below(B, D) /\ Below(B, E)
  /\ Below(C, D) /\ Below(C, E)
  /\ Below(D, E)

\* All the messages under way.
UnderWay ==
  Said(events, "Written") \union Writing(pump.work) \union Said(queued, "Send")
    \union Said(commands, "Send") \union Said(outbox, "Send")

\* The messages under way rise from the answers to the drafts, none is new to the
\* interface, and those it waits for are among them.
Flowing ==
  /\ Rising(events, "Written") /\ Rising(queued, "Send") /\ Rising(commands, "Send") /\ Rising(outbox, "Send")
  /\ Sole(pump.work)
  /\ Chain(Said(events, "Written"), Writing(pump.work), Said(queued, "Send"), Said(commands, "Send"),
           Said(outbox, "Send"))
  /\ UnderWay \subseteq 1..ui.sends
  /\ ui.pending \subseteq UnderWay

LEMMA SaidIn ==
  ASSUME NEW q, NEW kind, NEW m
  PROVE  m \in Said(q, kind) <=> \E i \in DOMAIN q : q[i].kind = kind /\ m \in q[i].about
  BY DEF Said

LEMMA SaidNothing ==
  ASSUME NEW q, NEW kind, \A i \in DOMAIN q : q[i].kind # kind
  PROVE  Said(q, kind) = {} /\ Rising(q, kind)
  BY DEF Said, Rising

LEMMA SaidEmpty ==
  ASSUME NEW kind
  PROVE  Said(<<>>, kind) = {} /\ Rising(<<>>, kind)
  BY DEF Said, Rising

LEMMA SaidJoined ==
  ASSUME NEW T, NEW q \in Seq(T), NEW r \in Seq(T), NEW kind
  PROVE  /\ Said(q \o r, kind) = Said(q, kind) \union Said(r, kind)
         /\ Rising(q, kind) /\ Rising(r, kind) /\ Below(Said(q, kind), Said(r, kind)) => Rising(q \o r, kind)
  <1> DEFINE s == q \o r
  <1>1. /\ DOMAIN s = 1..Len(q) + Len(r) /\ DOMAIN q = 1..Len(q) /\ DOMAIN r = 1..Len(r)
        /\ Len(q) \in Nat /\ Len(r) \in Nat
        /\ \A i \in DOMAIN q : s[i] = q[i]
        /\ \A i \in DOMAIN r : s[i + Len(q)] = r[i]
    BY Joined
  <1> HIDE DEF s
  <1>2. \A i \in DOMAIN s : i \in DOMAIN q \/ (i \notin DOMAIN q /\ i - Len(q) \in DOMAIN r /\ s[i] = r[i - Len(q)])
    BY <1>1
  <1>3. \A i \in DOMAIN q : i \in DOMAIN s
    BY <1>1
  <1>4. \A i \in DOMAIN r : i + Len(q) \in DOMAIN s
    BY <1>1
  <1>5. \A m : m \in Said(s, kind) <=> m \in Said(q, kind) \union Said(r, kind)
    <2>1. ASSUME NEW m, m \in Said(s, kind)
          PROVE  m \in Said(q, kind) \union Said(r, kind)
      <3>1. PICK i \in DOMAIN s : s[i].kind = kind /\ m \in s[i].about
        BY <2>1, SaidIn
      <3>2. CASE i \in DOMAIN q
        BY <1>1, <3>1, <3>2, SaidIn
      <3>3. CASE i - Len(q) \in DOMAIN r /\ s[i] = r[i - Len(q)]
        BY <3>1, <3>3, SaidIn
      <3> QED
        BY <1>2, <3>2, <3>3
    <2>2. ASSUME NEW m, m \in Said(q, kind)
          PROVE  m \in Said(s, kind)
      BY <1>1, <1>3, <2>2, SaidIn
    <2>3. ASSUME NEW m, m \in Said(r, kind)
          PROVE  m \in Said(s, kind)
      <3>1. PICK i \in DOMAIN r : r[i].kind = kind /\ m \in r[i].about
        BY <2>3, SaidIn
      <3> QED
        BY <1>1, <1>4, <3>1, SaidIn
    <2> QED
      BY <2>1, <2>2, <2>3
  <1>6. ASSUME Rising(q, kind), Rising(r, kind), Below(Said(q, kind), Said(r, kind))
        PROVE  Rising(s, kind)
    <2> SUFFICES ASSUME NEW i \in DOMAIN s, NEW j \in DOMAIN s, i < j, s[i].kind = kind, s[j].kind = kind,
                        NEW m \in s[i].about, NEW n \in s[j].about
                 PROVE  m < n
      BY DEF Rising, Below
    <2>1. CASE j \in DOMAIN q
      <3>1. i \in DOMAIN q
        BY <1>1, <2>1
      <3> QED
        BY <1>1, <1>6, <2>1, <3>1 DEF Rising, Below
    <2>2. CASE i \notin DOMAIN q
      <3>1. /\ i - Len(q) \in DOMAIN r /\ s[i] = r[i - Len(q)]
            /\ j - Len(q) \in DOMAIN r /\ s[j] = r[j - Len(q)]
            /\ i - Len(q) < j - Len(q)
        <4>1. j \notin DOMAIN q
          BY <1>1, <2>2
        <4> QED
          BY <1>1, <1>2, <2>2, <4>1
      <3> QED
        BY <1>6, <3>1 DEF Rising, Below
    <2>3. CASE i \in DOMAIN q /\ j \notin DOMAIN q
      <3>1. m \in Said(q, kind)
        BY <1>1, <2>3, SaidIn
      <3>2. n \in Said(r, kind)
        BY <1>2, <2>3, SaidIn
      <3> QED
        BY <1>6, <3>1, <3>2 DEF Below
    <2> QED
      BY <2>1, <2>2, <2>3
  <1> QED
    BY <1>5, <1>6 DEF s

\* What one element says.
Says(x, kind) == IF x.kind = kind THEN x.about ELSE {}

LEMMA SaidOne ==
  ASSUME NEW x, NEW kind
  PROVE  Said(<<x>>, kind) = Says(x, kind) /\ Rising(<<x>>, kind)
  <1>1. DOMAIN <<x>> = {1} /\ <<x>>[1] = x
    OBVIOUS
  <1>2. \A m : m \in Said(<<x>>, kind) <=> m \in Says(x, kind)
    BY <1>1, SaidIn DEF Says
  <1>3. Rising(<<x>>, kind)
    BY <1>1 DEF Rising
  <1> QED
    BY <1>2, <1>3

LEMMA SaidAdded ==
  ASSUME NEW T, NEW q \in Seq(T), NEW x \in T, NEW kind
  PROVE  /\ Said(Append(q, x), kind) = Said(q, kind) \union Says(x, kind)
         /\ Rising(q, kind) /\ Below(Said(q, kind), Says(x, kind)) => Rising(Append(q, x), kind)
  <1>1. <<x>> \in Seq(T) /\ Append(q, x) = q \o <<x>>
    BY Added
  <1> DEFINE y == <<x>>
  <1>2. y \in Seq(T) /\ Append(q, x) = q \o y /\ Said(y, kind) = Says(x, kind) /\ Rising(y, kind)
    BY <1>1, SaidOne
  <1> HIDE DEF y
  <1>3. /\ Said(q \o y, kind) = Said(q, kind) \union Said(y, kind)
        /\ Rising(q, kind) /\ Rising(y, kind) /\ Below(Said(q, kind), Said(y, kind)) => Rising(q \o y, kind)
    BY <1>2, SaidJoined
  <1> QED
    BY <1>2, <1>3

LEMMA SaidTaken ==
  ASSUME NEW T, NEW q \in Seq(T), q # <<>>, NEW kind, Rising(q, kind)
  PROVE  /\ Said(q, kind) = Says(Head(q), kind) \union Said(Tail(q), kind)
         /\ Rising(Tail(q), kind)
         /\ Below(Says(Head(q), kind), Said(Tail(q), kind))
  <1> DEFINE r == Tail(q)
             h == Head(q)
  <1>1. /\ h = q[1] /\ 1 \in DOMAIN q /\ DOMAIN q = 1..Len(q) /\ Len(q) \in Nat /\ DOMAIN r = 1..Len(q) - 1
        /\ \A i \in DOMAIN r : r[i] = q[i + 1]
    BY Taken
  <1> HIDE DEF r, h
  <1>2. \A i \in DOMAIN r : i + 1 \in DOMAIN q /\ i \in Nat /\ 1 < i + 1
    BY <1>1
  <1>3. \A i \in DOMAIN q : i = 1 \/ (i - 1 \in DOMAIN r /\ r[i - 1] = q[i])
    BY <1>1
  <1>4. \A m : m \in Said(q, kind) <=> m \in Says(h, kind) \union Said(r, kind)
    <2>1. ASSUME NEW m, m \in Said(q, kind)
          PROVE  m \in Says(h, kind) \union Said(r, kind)
      <3>1. PICK i \in DOMAIN q : q[i].kind = kind /\ m \in q[i].about
        BY <2>1, SaidIn
      <3> QED
        BY <1>1, <1>3, <3>1, SaidIn DEF Says
    <2>2. ASSUME NEW m, m \in Says(h, kind)
          PROVE  m \in Said(q, kind)
      BY <1>1, <2>2, SaidIn DEF Says
    <2>3. ASSUME NEW m, m \in Said(r, kind)
          PROVE  m \in Said(q, kind)
      <3>1. PICK i \in DOMAIN r : r[i].kind = kind /\ m \in r[i].about
        BY <2>3, SaidIn
      <3> QED
        BY <1>1, <1>2, <3>1, SaidIn
    <2> QED
      BY <2>1, <2>2, <2>3
  <1>5. Rising(r, kind)
    <2> SUFFICES ASSUME NEW i \in DOMAIN r, NEW j \in DOMAIN r, i < j, r[i].kind = kind, r[j].kind = kind
                 PROVE  Below(r[i].about, r[j].about)
      BY DEF Rising
    <2>1. i + 1 \in DOMAIN q /\ j + 1 \in DOMAIN q /\ i + 1 < j + 1
      BY <1>2
    <2> QED
      BY <1>1, <2>1 DEF Rising
  <1>6. Below(Says(h, kind), Said(r, kind))
    <2> SUFFICES ASSUME NEW m \in Says(h, kind), NEW n \in Said(r, kind)
                 PROVE  m < n
      BY DEF Below
    <2>1. PICK i \in DOMAIN r : r[i].kind = kind /\ n \in r[i].about
      BY SaidIn
    <2>2. h.kind = kind /\ m \in h.about
      BY DEF Says
    <2>3. 1 \in DOMAIN q /\ i + 1 \in DOMAIN q /\ 1 < i + 1 /\ q[1] = h /\ q[i + 1] = r[i]
      BY <1>1, <1>2
    <2>4. Below(q[1].about, q[i + 1].about)
      BY <2>1, <2>2, <2>3 DEF Rising
    <2> QED
      BY <2>1, <2>2, <2>3, <2>4 DEF Below
  <1> QED
    BY <1>4, <1>5, <1>6 DEF r, h

Answering(x) == IF Writes(x) THEN x.event.about ELSE {}

LEMMA WritingIn ==
  ASSUME NEW w, NEW m
  PROVE  m \in Writing(w) <=> \E i \in DOMAIN w : Writes(w[i]) /\ m \in w[i].event.about
  BY DEF Writing

LEMMA WritingNone ==
  ASSUME NEW w, \A i \in DOMAIN w : ~Writes(w[i])
  PROVE  Writing(w) = {} /\ Sole(w)
  BY DEF Writing, Sole

LEMMA WritingOne ==
  ASSUME NEW x
  PROVE  Writing(<<x>>) = Answering(x) /\ Sole(<<x>>)
  <1>1. DOMAIN <<x>> = {1} /\ <<x>>[1] = x
    OBVIOUS
  <1>2. \A m : m \in Writing(<<x>>) <=> m \in Answering(x)
    BY <1>1, WritingIn DEF Answering
  <1> QED
    BY <1>1, <1>2 DEF Sole

LEMMA WritingTaken ==
  ASSUME NEW w \in Seq(Steps), w # <<>>, Sole(w)
  PROVE  /\ Writing(w) = Answering(w[1]) \union Writing(Tail(w)) /\ Sole(Tail(w))
         /\ Answering(w[1]) # {} => Writing(Tail(w)) = {}
  <1> DEFINE r == Tail(w)
             h == w[1]
  <1>1. /\ 1 \in DOMAIN w /\ DOMAIN w = 1..Len(w) /\ Len(w) \in Nat /\ DOMAIN r = 1..Len(w) - 1
        /\ \A i \in DOMAIN r : r[i] = w[i + 1]
    BY Taken
  <1> HIDE DEF r
  <1>2. \A i \in DOMAIN r : i + 1 \in DOMAIN w /\ i \in Nat /\ 1 # i + 1
    BY <1>1
  <1>3. \A i \in DOMAIN w : i = 1 \/ (i - 1 \in DOMAIN r /\ r[i - 1] = w[i])
    BY <1>1
  <1>4. \A m : m \in Writing(w) <=> m \in Answering(h) \union Writing(r)
    <2>1. ASSUME NEW m, m \in Writing(w)
          PROVE  m \in Answering(h) \union Writing(r)
      <3>1. PICK i \in DOMAIN w : Writes(w[i]) /\ m \in w[i].event.about
        BY <2>1, WritingIn
      <3> QED
        BY <1>3, <3>1, WritingIn DEF Answering
    <2>2. ASSUME NEW m, m \in Answering(h)
          PROVE  m \in Writing(w)
      BY <1>1, <2>2, WritingIn DEF Answering
    <2>3. ASSUME NEW m, m \in Writing(r)
          PROVE  m \in Writing(w)
      <3>1. PICK i \in DOMAIN r : Writes(r[i]) /\ m \in r[i].event.about
        BY <2>3, WritingIn
      <3> QED
        BY <1>1, <1>2, <3>1, WritingIn
    <2> QED
      BY <2>1, <2>2, <2>3
  <1>5. Sole(r)
    <2> SUFFICES ASSUME NEW i \in DOMAIN r, NEW j \in DOMAIN r, Writes(r[i]), Writes(r[j])
                 PROVE  i = j
      BY DEF Sole
    <2>1. i + 1 \in DOMAIN w /\ j + 1 \in DOMAIN w /\ r[i] = w[i + 1] /\ r[j] = w[j + 1] /\ i \in Nat /\ j \in Nat
      BY <1>1, <1>2
    <2>2. i + 1 = j + 1
      BY <2>1 DEF Sole
    <2> QED
      BY <2>1, <2>2
  <1>6. ASSUME Writes(h)
        PROVE  Writing(r) = {}
    <2>1. \A i \in DOMAIN r : ~Writes(r[i])
      BY <1>1, <1>2, <1>6 DEF Sole
    <2> QED
      BY <2>1, WritingNone
  <1>7. Answering(h) # {} => Writes(h)
    BY DEF Answering
  <1> QED
    BY <1>4, <1>5, <1>6, <1>7 DEF r

\* What an event does to the messages that are awaited.
LEMMA PendingDoes ==
  ASSUME Typed, ApplyEvent
  PROVE  \/ outbox' = <<>> /\ ui'.pending = {}
         \/ Asks /\ ui'.pending = ui.pending \ Says(Head(events), "Written")
  <1> DEFINE e == Head(events)
  <1>1. events # <<>> /\ e \in Reports /\ UiTyped /\ QueuesTyped /\ ui \in Uis
    BY ApplyDoes DEF Typed, UiTyped
  <1>2. ASSUME Asks, e.kind # "Written", ui'.pending = ui.pending
        PROVE  Asks /\ ui'.pending = ui.pending \ Says(e, "Written")
    BY <1>2 DEF Says
  <1>3. CASE Stale(e)
    <2>1. UNCHANGED <<ui, outbox>>
      BY <1>3 DEF ApplyEvent
    <2>2. e.kind # "Written"
      BY <1>1, <1>3 DEF Stale, Reports, SocketKinds
    <2> QED
      BY <1>1, <1>2, <2>1, <2>2, AsksNothing
  <1>4. CASE ~Stale(e)
    <2>0. \/ ApplyConnected(e) \/ ApplyChannels(e) \/ ApplyTimeline(e)
          \/ ApplyGone(e) \/ ApplySwitching(e) \/ ApplyWritten(e)
          \/ ApplyMemberWrite(e) \/ ApplyMemberCancelled(e)
          \/ ApplyMembers(e) \/ ApplyOther(e)
      BY <1>4 DEF ApplyEvent
    <2> HIDE DEF e
    <2> DEFINE s == Seen(e)
    <2>s. s \in Uis /\ s.pending = ui.pending
      <3>1. s \in Uis /\ s = [ui EXCEPT !.generation = IF e.tagged THEN e.gen ELSE ui.generation]
        BY <1>1, SeenIs
      <3> QED
        BY <1>1, <3>1 DEF Uis
    <2>1. CASE ApplyConnected(e)
      <3>1. Asks /\ ui' = s /\ e.kind # "Written"
        BY <1>1, <2>1, ConnectedDoes DEF ApplyConnected
      <3> QED
        BY <1>2, <2>s, <3>1 DEF e
    <2>2. CASE ApplyChannels(e) \/ ApplyTimeline(e) \/ ApplyGone(e)
      <3>1. Asks
        BY <1>1, <2>2, ChannelsDoes
      <3>2. /\ e.kind # "Written"
            /\ \/ ui' = [s EXCEPT !.opened = TRUE] \/ ui' = s
               \/ ui' = [s EXCEPT !.locked = FALSE, !.left = {}, !.unknown = FALSE]
        BY <2>2 DEF ApplyChannels, ApplyTimeline, ApplyGone
      <3> HIDE DEF s
      <3>3. ui'.pending = ui.pending
        BY <2>s, <3>2 DEF Uis
      <3> QED
        BY <1>2, <3>1, <3>2, <3>3 DEF e
    <2>3. CASE ApplySwitching(e)
      BY <1>1, <2>3 DEF ApplySwitching, Uis
    <2>4. CASE ApplyWritten(e)
      <3>1. e.kind = "Written" /\ ui'.pending = ui.pending \ e.about
        BY <1>1, <2>4 DEF ApplyWritten, Uis
      <3>2. Asks
        BY <1>1, <2>4, WrittenDoes
      <3> QED
        BY <3>1, <3>2 DEF Says, e
    <2>5. CASE ApplyMemberWrite(e) \/ ApplyMemberCancelled(e)
      <3>1. Asks
        BY <1>1, <2>5, ResultDoes
      <3>2. e.kind # "Written"
        BY <2>5 DEF ApplyMemberWrite, ApplyMemberCancelled
      <3>3. ui' = ui \/ \E left, unknown : Settle(left, unknown)
        BY <2>5 DEF ApplyMemberWrite, ApplyMemberCancelled
      <3>4. ui'.pending = ui.pending
        BY <1>1, <3>3 DEF Settle, Uis
      <3> QED
        BY <1>2, <3>1, <3>2, <3>4 DEF e
    <2>6. CASE ApplyMembers(e)
      <3>1. Asks
        BY <1>1, <2>6, WrittenDoes
      <3>2. ui'.pending = ui.pending /\ e.kind # "Written"
        BY <1>1, <2>6 DEF ApplyMembers, Uis
      <3> QED
        BY <1>2, <3>1, <3>2 DEF e
    <2>7. CASE ApplyOther(e)
      <3>1. Asks
        BY <1>1, <2>7, ResultDoes
      <3>2. ui'.pending = ui.pending /\ e.kind # "Written"
        BY <2>7, <2>s DEF ApplyOther
      <3> QED
        BY <1>2, <3>1, <3>2 DEF e
    <2> QED
      BY <2>0, <2>1, <2>2, <2>3, <2>4, <2>5, <2>6, <2>7 DEF e
  <1> QED
    BY <1>3, <1>4

\* Links of the chain that lose elements, and the ways an element moves up it.
LEMMA ChainShrinks ==
  ASSUME NEW A, NEW B, NEW C, NEW D, NEW E, NEW A2, NEW E2, Chain(A, B, C, D, E), A2 \subseteq A, E2 \subseteq E
  PROVE  Chain(A2, B, C, D, E2)
  BY DEF Chain, Below

LEMMA ChainSends ==
  ASSUME NEW A, NEW B, NEW C, NEW D, NEW E, NEW x, Chain(A, B, C, D, x \union E), Below(x, E)
  PROVE  Chain(A, B, C, D \union x, E) /\ Below(D, x)
  BY DEF Chain, Below

LEMMA ChainTurns ==
  ASSUME NEW A, NEW B, NEW C, NEW D, NEW E, Chain(A, B, C, D, E)
  PROVE  Chain(A, B, C \union D, {}, E) /\ Below(C, D)
  BY DEF Chain, Below

LEMMA ChainTakes ==
  ASSUME NEW A, NEW C, NEW D, NEW E, NEW x, Below(x, C), Chain(A, {}, x \union C, D, E)
  PROVE  Chain(A, x, C, D, E)
  BY DEF Chain, Below

LEMMA ChainTakesNext ==
  ASSUME NEW A, NEW D, NEW E, NEW x, Below(x, D), Chain(A, {}, {}, x \union D, E)
  PROVE  Chain(A, x, {}, D, E)
  BY DEF Chain, Below

LEMMA ChainTells ==
  ASSUME NEW A, NEW B, NEW C, NEW D, NEW E, NEW x, x = {} \/ B = {}, Chain(A, x \union B, C, D, E)
  PROVE  Chain(A \union x, B, C, D, E) /\ Below(A, x)
  BY DEF Chain, Below

LEMMA ChainGrows ==
  ASSUME NEW A, NEW B, NEW C, NEW D, NEW n \in Nat, Chain(A, B, C, D, {}),
         A \union B \union C \union D \subseteq 1..n
  PROVE  Chain(A, B, C, D, {n + 1})
  <1>1. \A m \in A \union B \union C \union D : m < n + 1
    OBVIOUS
  <1> QED
    BY <1>1 DEF Chain, Below

\* What the interface asks for on its own account writes nothing.
LEMMA AsksSay ==
  ASSUME QueuesTyped, Rising(outbox, "Send"), Asks
  PROVE  Said(outbox', "Send") = Said(outbox, "Send") /\ Rising(outbox', "Send")
  <1>1. PICK r : Errands(r) /\ outbox' = outbox \o r
    BY DEF Asks
  <1>2. r \in Seq(Requests) /\ \A i \in DOMAIN r : r[i].kind # "Send"
    BY <1>1 DEF Errands, ErrandKinds
  <1>3. Said(r, "Send") = {} /\ Rising(r, "Send")
    BY <1>2, SaidNothing
  <1>4. outbox \in Seq(Requests)
    BY DEF QueuesTyped
  <1>5. /\ Said(outbox \o r, "Send") = Said(outbox, "Send") \union Said(r, "Send")
        /\ Rising(outbox, "Send") /\ Rising(r, "Send") /\ Below(Said(outbox, "Send"), Said(r, "Send"))
             => Rising(outbox \o r, "Send")
    BY <1>2, <1>4, SaidJoined
  <1>6. Below(Said(outbox, "Send"), Said(r, "Send"))
    BY <1>3 DEF Below
  <1> QED
    BY <1>1, <1>3, <1>5, <1>6

\* The message order over five sets and the interface's two numbers.
Flows(A, B, C, D, E, pending, sends) ==
  /\ Chain(A, B, C, D, E)
  /\ A \union B \union C \union D \union E \subseteq 1..sends
  /\ pending \subseteq A \union B \union C \union D \union E

LEMMA FlowingIs ==
  Flowing <=>
    /\ Rising(events, "Written") /\ Rising(queued, "Send") /\ Rising(commands, "Send") /\ Rising(outbox, "Send")
    /\ Sole(pump.work)
    /\ Flows(Said(events, "Written"), Writing(pump.work), Said(queued, "Send"), Said(commands, "Send"),
             Said(outbox, "Send"), ui.pending, ui.sends)
  BY DEF Flowing, Flows, UnderWay

LEMMA EventFlows ==
  ASSUME Typed, Flowing, ApplyEvent
  PROVE  Flowing'
  <1> DEFINE x == Says(Head(events), "Written")
             A == Said(events, "Written")
             A2 == Said(Tail(events), "Written")
             B == Writing(pump.work)
             C == Said(queued, "Send")
             D == Said(commands, "Send")
             E == Said(outbox, "Send")
             E2 == Said(outbox', "Send")
  <1>1. /\ events # <<>> /\ events' = Tail(events) /\ ui'.sends = ui.sends
        /\ queued' = queued /\ commands' = commands /\ pump' = pump
    BY ApplyDoes DEF Kept
  <1>2. QueuesTyped /\ events \in Seq(Reports) /\ Rising(events, "Written") /\ Rising(outbox, "Send")
    BY DEF Typed, QueuesTyped, Flowing
  <1>3. A = x \union A2 /\ Rising(events', "Written") /\ A2 = Said(events', "Written")
    BY <1>1, <1>2, SaidTaken
  <1>4. /\ Rising(outbox', "Send")
        /\ \/ E2 = {} /\ ui'.pending = {}
           \/ E2 = E /\ ui'.pending = ui.pending \ x
    <2>1. CASE outbox' = <<>> /\ ui'.pending = {}
      BY <2>1, SaidEmpty
    <2>2. CASE Asks /\ ui'.pending = ui.pending \ x
      BY <1>2, <2>2, AsksSay
    <2> QED
      BY <2>1, <2>2, PendingDoes
  <1>5. Flows(A, B, C, D, E, ui.pending, ui.sends)
    BY FlowingIs
  <1> HIDE DEF x, A, A2, B, C, D, E, E2
  <1>6. Chain(A2, B, C, D, E2)
    <2>1. Chain(A, B, C, D, E) /\ A2 \subseteq A /\ E2 \subseteq E
      BY <1>3, <1>4, <1>5 DEF Flows
    <2> QED
      BY <2>1, ChainShrinks
  <1>7. Flows(A2, B, C, D, E2, ui'.pending, ui'.sends)
    BY <1>1, <1>3, <1>4, <1>5, <1>6 DEF Flows
  <1>8. /\ Rising(events', "Written") /\ Rising(queued', "Send") /\ Rising(commands', "Send") /\ Rising(outbox', "Send")
        /\ Sole(pump'.work)
    BY <1>1, <1>3, <1>4 DEF Flowing
  <1>9. Flows(Said(events', "Written"), Writing(pump'.work), Said(queued', "Send"), Said(commands', "Send"),
              Said(outbox', "Send"), ui'.pending, ui'.sends)
    BY <1>1, <1>3, <1>7 DEF A2, B, C, D, E2
  <1> QED
    BY <1>8, <1>9 DEF Flowing, Flows, UnderWay

LEMMA SendFlows ==
  ASSUME Typed, Flowing, SendOutbox
  PROVE  Flowing'
  <1> DEFINE x == Says(Head(outbox), "Send")
             A == Said(events, "Written")
             B == Writing(pump.work)
             C == Said(queued, "Send")
             D == Said(commands, "Send")
             E == Said(outbox, "Send")
             E2 == Said(Tail(outbox), "Send")
             D2 == Said(commands', "Send")
  <1>1. /\ outbox # <<>> /\ commands' = Append(commands, Head(outbox)) /\ outbox' = Tail(outbox)
        /\ ui' = ui /\ events' = events /\ queued' = queued /\ pump' = pump
    BY DEF SendOutbox
  <1>2. outbox \in Seq(Requests) /\ commands \in Seq(Requests) /\ Rising(outbox, "Send") /\ Rising(commands, "Send")
    BY DEF Typed, QueuesTyped, Flowing
  <1>3. E = x \union E2 /\ Rising(outbox', "Send") /\ Below(x, E2)
    BY <1>1, <1>2, SaidTaken
  <1>4. Head(outbox) \in Requests
    BY <1>1, <1>2
  <1>5. D2 = D \union x /\ (Below(D, x) => Rising(commands', "Send"))
    BY <1>1, <1>2, <1>4, SaidAdded
  <1>6. Flows(A, B, C, D, E, ui.pending, ui.sends)
    BY FlowingIs
  <1> HIDE DEF x, A, B, C, D, E, D2, E2
  <1>7. Chain(A, B, C, D \union x, E2) /\ Below(D, x)
    <2>1. Chain(A, B, C, D, x \union E2)
      BY <1>3, <1>6 DEF Flows
    <2> QED
      BY <1>3, <2>1, ChainSends
  <1>8. Flows(A, B, C, D2, E2, ui.pending, ui.sends)
    BY <1>3, <1>5, <1>6, <1>7 DEF Flows
  <1>9. /\ Rising(events', "Written") /\ Rising(queued', "Send") /\ Rising(commands', "Send") /\ Rising(outbox', "Send")
        /\ Sole(pump'.work)
    BY <1>1, <1>3, <1>5, <1>7 DEF Flowing
  <1>10. Flows(Said(events', "Written"), Writing(pump'.work), Said(queued', "Send"), Said(commands', "Send"),
               Said(outbox', "Send"), ui'.pending, ui'.sends)
    BY <1>1, <1>8 DEF A, B, C, D2, E2
  <1> QED
    BY <1>9, <1>10 DEF Flowing, Flows, UnderWay

\* What a key does to the messages that are awaited.
LEMMA KeySays ==
  ASSUME Typed, TakeKey
  PROVE  \/ /\ outbox' = <<Command("Send", {ui.sends + 1})>> /\ Command("Send", {ui.sends + 1}).kind = "Send"
            /\ Command("Send", {ui.sends + 1}).about = {ui.sends + 1}
            /\ ui'.sends = ui.sends + 1 /\ ui'.pending = ui.pending \union {ui.sends + 1}
         \/ /\ Said(outbox', "Send") = {} /\ Rising(outbox', "Send")
            /\ ui'.sends = ui.sends /\ ui'.pending = ui.pending
  <1>1. ui \in Uis /\ outbox = <<>>
    BY DEF Typed, UiTyped, TakeKey
  <1>2. CASE WriteMessage
    <2>1. outbox' = <<Command("Send", {ui.sends + 1})>>
      BY <1>2 DEF WriteMessage
    <2>2. ui'.sends = ui.sends + 1 /\ ui'.pending = ui.pending \union {ui.sends + 1}
      BY <1>1, <1>2 DEF WriteMessage, Uis
    <2> QED
      BY <2>1, <2>2 DEF Command
  <1>3. CASE ClaimRead \/ SubmitMembers \/ ConfirmCommunity
    <2>1. ui'.sends = ui.sends /\ ui'.pending = ui.pending
      BY <1>1, <1>3 DEF ClaimRead, SubmitMembers, ConfirmCommunity, Uis
    <2>2. PICK kind, about : /\ kind \in {"ReadProgress", "AddMembers", "SwitchCommunity"}
                             /\ outbox' = <<Command(kind, about)>>
      BY <1>3 DEF ClaimRead, SubmitMembers, ConfirmCommunity
    <2>3. Says(Command(kind, about), "Send") = {}
      BY <2>2 DEF Says, Command
    <2>4. Said(outbox', "Send") = {} /\ Rising(outbox', "Send")
      BY <2>2, <2>3, SaidOne
    <2> QED
      BY <2>1, <2>4
  <1>4. CASE QuitKey \/ NoKey
    <2>1. outbox' = <<>> /\ ui'.sends = ui.sends /\ ui'.pending = ui.pending
      BY <1>1, <1>4 DEF QuitKey, NoKey, Uis
    <2> QED
      BY <2>1, SaidEmpty
  <1> QED
    BY <1>2, <1>3, <1>4 DEF TakeKey

LEMMA KeyFlows ==
  ASSUME Typed, Flowing, TakeKey
  PROVE  Flowing'
  <1> DEFINE A == Said(events, "Written")
             B == Writing(pump.work)
             C == Said(queued, "Send")
             D == Said(commands, "Send")
             E == Said(outbox, "Send")
             E2 == Said(outbox', "Send")
  <1>1. /\ outbox = <<>> /\ events' = events /\ queued' = queued /\ pump' = pump /\ commands' = commands
    BY DEF TakeKey
  <1>2. ui.sends \in Nat
    BY Constants DEF Typed, UiTyped, Uis
  <1>3. E = {}
    BY <1>1, SaidEmpty
  <1>4. Flows(A, B, C, D, E, ui.pending, ui.sends)
    BY FlowingIs
  <1>5. /\ Rising(outbox', "Send")
        /\ \/ E2 = {ui.sends + 1} /\ ui'.sends = ui.sends + 1 /\ ui'.pending = ui.pending \union {ui.sends + 1}
           \/ E2 = {} /\ ui'.sends = ui.sends /\ ui'.pending = ui.pending
    <2>1. Said(<<Command("Send", {ui.sends + 1})>>, "Send") = Says(Command("Send", {ui.sends + 1}), "Send")
          /\ Rising(<<Command("Send", {ui.sends + 1})>>, "Send")
      BY SaidOne
    <2> QED
      BY <2>1, KeySays DEF Says
  <1> HIDE DEF A, B, C, D, E, E2
  <1>6. Flows(A, B, C, D, E2, ui'.pending, ui'.sends)
    <2>1. CASE E2 = {} /\ ui'.sends = ui.sends /\ ui'.pending = ui.pending
      BY <1>3, <1>4, <2>1
    <2>2. CASE E2 = {ui.sends + 1} /\ ui'.sends = ui.sends + 1 /\ ui'.pending = ui.pending \union {ui.sends + 1}
      <3>1. Chain(A, B, C, D, {}) /\ A \union B \union C \union D \subseteq 1..ui.sends
        BY <1>3, <1>4 DEF Flows
      <3>2. Chain(A, B, C, D, {ui.sends + 1})
        BY <1>2, <3>1, ChainGrows
      <3>3. 1..ui.sends \subseteq 1..(ui.sends + 1) /\ ui.sends + 1 \in 1..(ui.sends + 1)
        BY <1>2
      <3>4. ui.pending \subseteq A \union B \union C \union D
        BY <1>3, <1>4 DEF Flows
      <3>5. A \union B \union C \union D \union {ui.sends + 1} \subseteq 1..(ui.sends + 1)
        BY <3>1, <3>3
      <3>6. ui.pending \union {ui.sends + 1} \subseteq A \union B \union C \union D \union {ui.sends + 1}
        BY <3>4
      <3> QED
        BY <2>2, <3>2, <3>5, <3>6 DEF Flows
    <2> QED
      BY <1>5, <2>1, <2>2
  <1>7. /\ Rising(events', "Written") /\ Rising(queued', "Send") /\ Rising(commands', "Send") /\ Rising(outbox', "Send")
        /\ Sole(pump'.work)
    BY <1>1, <1>5 DEF Flowing
  <1>8. Flows(Said(events', "Written"), Writing(pump'.work), Said(queued', "Send"), Said(commands', "Send"),
              Said(outbox', "Send"), ui'.pending, ui'.sends)
    BY <1>1, <1>6 DEF A, B, C, D, E2
  <1> QED
    BY <1>7, <1>8 DEF Flowing, Flows, UnderWay

LEMMA ShutdownFlows ==
  ASSUME Typed, Flowing, SendShutdown
  PROVE  Flowing'
  <1>1. /\ commands' = Append(commands, Command("Shutdown", {})) /\ outbox' = outbox
        /\ ui' = ui /\ events' = events /\ queued' = queued /\ pump' = pump
    BY DEF SendShutdown
  <1>2. Command("Shutdown", {}) \in Requests /\ Command("Shutdown", {}).kind = "Shutdown"
    BY CommandTyped DEF Typed, CommandKinds
  <1>3. Says(Command("Shutdown", {}), "Send") = {}
    BY <1>2 DEF Says
  <1>4. commands \in Seq(Requests) /\ Rising(commands, "Send")
    BY DEF Typed, QueuesTyped, Flowing
  <1>5. /\ Said(Append(commands, Command("Shutdown", {})), "Send")
              = Said(commands, "Send") \union Says(Command("Shutdown", {}), "Send")
        /\ Below(Said(commands, "Send"), Says(Command("Shutdown", {}), "Send"))
             => Rising(Append(commands, Command("Shutdown", {})), "Send")
    BY <1>2, <1>4, SaidAdded
  <1>6. Said(commands', "Send") = Said(commands, "Send") /\ Rising(commands', "Send")
    BY <1>1, <1>3, <1>5 DEF Below
  <1> QED
    BY <1>1, <1>6 DEF Flowing, UnderWay

LEMMA DrainedFlows ==
  ASSUME Typed, Flowing, Drained
  PROVE  Flowing'
  <1>1. commands' = commands /\ outbox' = outbox /\ events' = events /\ queued' = queued /\ pump' = pump
    BY DEF Drained
  <1>2. ui'.pending = ui.pending /\ ui'.sends = ui.sends
    BY DEF Drained, Typed, UiTyped, Uis
  <1> QED
    BY <1>1, <1>2 DEF Flowing, UnderWay

LEMMA QuietWritesNothing ==
  ASSUME NEW w, Quiet(w)
  PROVE  Writing(w) = {} /\ Sole(w)
  <1>1. \A i \in DOMAIN w : ~Writes(w[i])
    BY DEF Quiet, Writes, Silent
  <1> QED
    BY <1>1, WritingNone

\* A command's work answers what the command writes, and only that.
LEMMA WorkSays ==
  ASSUME Typed, SwitchesCounted, NEW c, Takes(c)
  PROVE  Sole(pump'.work) /\ Writing(pump'.work) = Says(c, "Send")
  <1>1. pump \in Pumps /\ pump.gen \in Gens /\ pump.work = <<>>
    BY DEF Typed, Pumps, Takes
  <1>2. CASE c.kind = "Send" /\ pump' = [pump EXCEPT !.work = <<Tell("Written", c.about)>>]
    <2>1. pump'.work = <<Tell("Written", c.about)>>
      BY <1>1, <1>2 DEF Pumps
    <2>2. Answering(Tell("Written", c.about)) = c.about
      BY DEF Answering, Writes, Tell, Event
    <2> QED
      BY <1>2, <2>1, <2>2, WritingOne DEF Says
  <1>3. CASE c.kind # "Send" /\ Quiet(pump'.work)
    BY <1>3, QuietWritesNothing DEF Says
  <1>4. CASE c.kind # "Send" /\ pump'.work = <<>>
    <2>1. \A i \in DOMAIN pump'.work : ~Writes(pump'.work[i])
      BY <1>4
    <2> QED
      BY <1>4, <2>1, WritingNone DEF Says
  <1>5. CASE c.kind = "SwitchCommunity" /\ Moves(pump'.work)
    <2>1. pump.gen + 1 \in Gens
      BY <1>5, SwitchTaken
    <2>2. \A i \in DOMAIN pump'.work : ~Writes(pump'.work[i])
      BY <1>1, <1>5, <2>1, MovesIs, AnnounceIs DEF Writes, Silent, Announces
    <2> QED
      BY <1>5, <2>2, WritingNone DEF Says
  <1>6. CASE c.kind = "Shutdown" /\ Ends(pump'.work)
    <2>1. \A i \in DOMAIN pump'.work : ~Writes(pump'.work[i])
      BY <1>1, <1>6, FlushInStep DEF Writes, Silent
    <2> QED
      BY <1>6, <2>1, WritingNone DEF Says
  <1> QED
    BY <1>1, <1>2, <1>3, <1>4, <1>5, <1>6, ExecuteTyped DEF Ends, ErrandKinds, Pumps

LEMMA TakeFlows ==
  ASSUME Typed, SwitchesCounted, Flowing, TakeCommand
  PROVE  Flowing'
  <1> DEFINE A == Said(events, "Written")
             B == Writing(pump.work)
             C == Said(queued, "Send")
             D == Said(commands, "Send")
             E == Said(outbox, "Send")
             B2 == Writing(pump'.work)
             C2 == Said(queued', "Send")
             D2 == Said(commands', "Send")
  <1>1. PICK c : Takes(c)
    BY TakeCommandDoes
  <1> DEFINE x == Says(c, "Send")
  <1>2. events' = events /\ outbox' = outbox /\ ui' = ui /\ pump.work = <<>>
    BY <1>1 DEF Takes
  <1>3. B2 = x /\ Sole(pump'.work)
    BY <1>1, WorkSays
  <1>4. B = {}
    <2>1. \A i \in DOMAIN pump.work : ~Writes(pump.work[i])
      BY <1>2
    <2> QED
      BY <2>1, WritingNone
  <1>5. /\ queued \in Seq(Requests) /\ commands \in Seq(Requests)
        /\ Rising(queued, "Send") /\ Rising(commands, "Send") /\ Rising(events, "Written") /\ Rising(outbox, "Send")
    BY DEF Typed, QueuesTyped, Flowing
  <1>6. Flows(A, {}, C, D, E, ui.pending, ui.sends)
    BY <1>4, FlowingIs
  <1>7. ASSUME queued # <<>> /\ c = Head(queued) /\ queued' = Tail(queued) /\ commands' = commands
        PROVE  /\ Flows(A, B2, C2, D2, E, ui.pending, ui.sends)
               /\ Rising(queued', "Send") /\ Rising(commands', "Send")
    <2>1. C = x \union C2 /\ Rising(queued', "Send") /\ Below(x, C2)
      BY <1>5, <1>7, SaidTaken
    <2>2. D2 = D
      BY <1>7
    <2> HIDE DEF A, B, C, D, E, B2, C2, D2, x
    <2>3. Chain(A, {}, x \union C2, D, E)
      BY <1>6, <2>1 DEF Flows
    <2>4. Chain(A, x, C2, D, E)
      BY <2>1, <2>3, ChainTakes
    <2>5. Flows(A, B2, C2, D2, E, ui.pending, ui.sends)
      BY <1>3, <1>6, <2>1, <2>2, <2>4 DEF Flows
    <2> QED
      BY <1>5, <1>7, <2>1, <2>5
  <1>8. ASSUME queued = <<>> /\ commands # <<>> /\ c = Head(commands) /\ commands' = Tail(commands) /\ queued' = queued
        PROVE  /\ Flows(A, B2, C2, D2, E, ui.pending, ui.sends)
               /\ Rising(queued', "Send") /\ Rising(commands', "Send")
    <2>1. D = x \union D2 /\ Rising(commands', "Send") /\ Below(x, D2)
      BY <1>5, <1>8, SaidTaken
    <2>2. C = {} /\ C2 = {}
      BY <1>8, SaidEmpty
    <2> HIDE DEF A, B, C, D, E, B2, C2, D2, x
    <2>3. Chain(A, {}, {}, x \union D2, E)
      BY <1>6, <2>1, <2>2 DEF Flows
    <2>4. Chain(A, x, {}, D2, E)
      BY <2>1, <2>3, ChainTakesNext
    <2>5. Flows(A, B2, C2, D2, E, ui.pending, ui.sends)
      BY <1>3, <1>6, <2>1, <2>2, <2>4 DEF Flows
    <2> QED
      BY <1>5, <1>8, <2>1, <2>5
  <1>9. /\ Flows(A, B2, C2, D2, E, ui.pending, ui.sends)
        /\ Rising(queued', "Send") /\ Rising(commands', "Send")
    BY <1>1, <1>5, <1>7, <1>8 DEF Takes
  <1> HIDE DEF x
  <1>10. /\ Rising(events', "Written") /\ Rising(queued', "Send") /\ Rising(commands', "Send") /\ Rising(outbox', "Send")
        /\ Sole(pump'.work)
    BY <1>2, <1>3, <1>5, <1>9
  <1>11. Flows(Said(events', "Written"), Writing(pump'.work), Said(queued', "Send"), Said(commands', "Send"),
              Said(outbox', "Send"), ui'.pending, ui'.sends)
    BY <1>2, <1>9
  <1> QED
    BY <1>10, <1>11 DEF Flowing, Flows, UnderWay

LEMMA TurnFlows ==
  ASSUME Typed, Flowing, BatchTurn
  PROVE  Flowing'
  <1> DEFINE A == Said(events, "Written")
             C == Said(queued, "Send")
             D == Said(commands, "Send")
             E == Said(outbox, "Send")
             C2 == Said(queued', "Send")
  <1>1. /\ pump.work = <<>> /\ queued' = queued \o commands /\ commands' = <<>>
        /\ events' = events /\ outbox' = outbox /\ ui' = ui
    BY BatchTurnDoes
  <1>2. PICK kind, about : Turns(kind, about)
    BY BatchTurnDoes
  <1>3. Writing(pump'.work) = {} /\ Sole(pump'.work)
    <2>1. pump'.work = <<Tell(kind, about)>>
      BY <1>2 DEF Turns, Typed, Pumps
    <2>2. Answering(Tell(kind, about)) = {}
      BY <1>2 DEF Turns, ResultKinds, Answering, Writes, Tell, Event
    <2> QED
      BY <2>1, <2>2, WritingOne
  <1>4. Writing(pump.work) = {}
    <2>1. \A i \in DOMAIN pump.work : ~Writes(pump.work[i])
      BY <1>1
    <2> QED
      BY <2>1, WritingNone
  <1>5. /\ queued \in Seq(Requests) /\ commands \in Seq(Requests)
        /\ Rising(queued, "Send") /\ Rising(commands, "Send") /\ Rising(events, "Written") /\ Rising(outbox, "Send")
    BY DEF Typed, QueuesTyped, Flowing
  <1>6. Flows(A, {}, C, D, E, ui.pending, ui.sends)
    BY <1>4, FlowingIs
  <1>7. C2 = C \union D /\ (Below(C, D) => Rising(queued', "Send"))
    BY <1>1, <1>5, SaidJoined
  <1>8. Said(commands', "Send") = {} /\ Rising(commands', "Send")
    BY <1>1, SaidEmpty
  <1> HIDE DEF A, C, D, E, C2
  <1>9. Chain(A, {}, C2, {}, E) /\ Below(C, D)
    <2>1. Chain(A, {}, C, D, E)
      BY <1>6 DEF Flows
    <2> QED
      BY <1>7, <2>1, ChainTurns
  <1>10. Flows(A, {}, C2, {}, E, ui.pending, ui.sends)
    BY <1>6, <1>7, <1>9 DEF Flows
  <1>11. /\ Rising(events', "Written") /\ Rising(queued', "Send") /\ Rising(commands', "Send") /\ Rising(outbox', "Send")
        /\ Sole(pump'.work)
    BY <1>1, <1>3, <1>5, <1>7, <1>8, <1>9
  <1>12. Flows(Said(events', "Written"), Writing(pump'.work), Said(queued', "Send"), Said(commands', "Send"),
              Said(outbox', "Send"), ui'.pending, ui'.sends)
    BY <1>1, <1>3, <1>8, <1>10 DEF A, C2, E
  <1> QED
    BY <1>11, <1>12 DEF Flowing, Flows, UnderWay

LEMMA PublishFlows ==
  ASSUME Typed, Flowing, PublishDue
  PROVE  Flowing'
  <1>1. /\ pump.work = <<>> /\ Quiet(pump'.work)
        /\ queued' = queued /\ commands' = commands /\ events' = events /\ outbox' = outbox /\ ui' = ui
    BY PublishDueDoes
  <1>2. Writing(pump'.work) = {} /\ Sole(pump'.work)
    BY <1>1, QuietWritesNothing
  <1>3. Writing(pump.work) = {}
    <2>1. \A i \in DOMAIN pump.work : ~Writes(pump.work[i])
      BY <1>1
    <2> QED
      BY <2>1, WritingNone
  <1> QED
    BY <1>1, <1>2, <1>3 DEF Flowing, UnderWay

\* A step of the pump's work that answers no write.
LEMMA OtherStepFlows ==
  ASSUME Typed, Flowing, pump.work # <<>>, pump'.work = Tail(pump.work), ~Writes(pump.work[1]),
         Said(events', "Written") = Said(events, "Written"), Rising(events', "Written"),
         UNCHANGED <<ui, outbox, commands, queued>>
  PROVE  Flowing'
  <1>1. pump.work \in Seq(Steps) /\ Sole(pump.work)
    BY DEF Typed, Pumps, Flowing
  <1>2. Writing(pump.work) = Answering(pump.work[1]) \union Writing(Tail(pump.work)) /\ Sole(Tail(pump.work))
    BY <1>1, WritingTaken
  <1>3. Writing(pump'.work) = Writing(pump.work) /\ Sole(pump'.work)
    BY <1>2 DEF Answering
  <1> QED
    BY <1>3 DEF Flowing, UnderWay

LEMMA TellFlows ==
  ASSUME Typed, Flowing, PumpTell
  PROVE  Flowing'
  <1> DEFINE A == Said(events, "Written")
             B == Writing(pump.work)
             C == Said(queued, "Send")
             D == Said(commands, "Send")
             E == Said(outbox, "Send")
             x == Answering(pump.work[1])
             A2 == Said(events', "Written")
             B2 == Writing(pump'.work)
  <1>1. /\ pump' = Done /\ pump.work # <<>> /\ NextStep.do = "tell" /\ NextStep.event \in Reports
        /\ events' = Append(events, NextStep.event)
        /\ UNCHANGED <<ui, outbox, commands, queued>>
    BY PumpTellDoes
  <1>2. NextStep = pump.work[1] /\ pump'.work = Tail(pump.work)
    BY <1>1, WorkDoes DEF Typed
  <1>3. events \in Seq(Reports) /\ pump.work \in Seq(Steps) /\ Rising(events, "Written") /\ Sole(pump.work)
    BY DEF Typed, QueuesTyped, Pumps, Flowing
  <1>4. x = Says(NextStep.event, "Written")
    BY <1>1, <1>2 DEF Answering, Writes, Says
  <1>5. A2 = A \union x /\ (Below(A, x) => Rising(events', "Written"))
    BY <1>1, <1>3, <1>4, SaidAdded
  <1>6. B = x \union B2 /\ Sole(pump'.work) /\ (x = {} \/ B2 = {})
    BY <1>1, <1>2, <1>3, WritingTaken
  <1>7. Flows(A, B, C, D, E, ui.pending, ui.sends)
    BY FlowingIs
  <1> HIDE DEF A, B, C, D, E, x, A2, B2
  <1>8. Chain(A2, B2, C, D, E) /\ Below(A, x)
    <2>1. Chain(A, x \union B2, C, D, E)
      BY <1>6, <1>7 DEF Flows
    <2> QED
      BY <1>5, <1>6, <2>1, ChainTells
  <1>9. Flows(A2, B2, C, D, E, ui.pending, ui.sends)
    BY <1>5, <1>6, <1>7, <1>8 DEF Flows
  <1>10. /\ Rising(events', "Written") /\ Rising(queued', "Send") /\ Rising(commands', "Send") /\ Rising(outbox', "Send")
        /\ Sole(pump'.work)
    BY <1>1, <1>5, <1>6, <1>8 DEF Flowing
  <1>11. Flows(Said(events', "Written"), Writing(pump'.work), Said(queued', "Send"), Said(commands', "Send"),
              Said(outbox', "Send"), ui'.pending, ui'.sends)
    BY <1>1, <1>9 DEF A2, B2, C, D, E
  <1> QED
    BY <1>10, <1>11 DEF Flowing, Flows, UnderWay

LEMMA SocketFlows ==
  ASSUME Typed, Fed, Flowing, NEW g \in Gens, WebSocketPump(g)
  PROVE  Flowing'
  <1>1. Reporting(g) /\ UNCHANGED <<loop, ui, outbox, commands, pump, queued>>
    BY SocketDoes
  <1>2. events \in Seq(Reports) /\ Rising(events, "Written")
    BY DEF Typed, QueuesTyped, Flowing
  <1>3. Said(events', "Written") = Said(events, "Written") /\ Rising(events', "Written")
    <2>1. CASE UNCHANGED events
      BY <1>2, <2>1
    <2>2. CASE \E e \in Reports : e.tagged /\ events' = Append(events, e)
      <3>1. PICK e \in Reports : e.tagged /\ events' = Append(events, e)
        BY <2>2
      <3>2. Says(e, "Written") = {}
        BY <3>1 DEF Reports, SocketKinds, Says
      <3>3. /\ Said(Append(events, e), "Written") = Said(events, "Written") \union Says(e, "Written")
            /\ Below(Said(events, "Written"), Says(e, "Written")) => Rising(Append(events, e), "Written")
        BY <1>2, SaidAdded
      <3> QED
        BY <3>1, <3>2, <3>3 DEF Below
    <2> QED
      BY <1>1, <2>1, <2>2 DEF Reporting
  <1> QED
    BY <1>1, <1>3 DEF Flowing, UnderWay

LEMMA FlowingStep ==
  ASSUME Apart, Flowing, [Next]_vars
  PROVE  Flowing'
  <1>0. Typed /\ SwitchesCounted /\ Working /\ Fed
    BY DEF Apart
  <1>1. CASE Interface
    BY <1>0, <1>1, EventFlows, DrainedFlows, SendFlows, KeyFlows, ShutdownFlows DEF Interface
  <1>2. CASE TakeCommand \/ PublishDue \/ BatchTurn \/ PumpTell
    BY <1>0, <1>2, TakeFlows, PublishFlows, TurnFlows, TellFlows
  <1>3. CASE PumpControl \/ PumpSpawn \/ PumpEnd
    <2>1. UNCHANGED <<ui, outbox, commands, queued, events>>
      BY <1>3 DEF PumpControl, PumpSpawn, PumpEnd
    <2>2. pump.work # <<>> /\ pump'.work = Tail(pump.work)
      BY <1>0, <1>3, StepInStep
    <2>3. NextStep.do # "tell"
      BY <1>3 DEF PumpControl, PumpSpawn, PumpEnd
    <2>4. ~Writes(pump.work[1])
      BY <1>0, <2>2, <2>3, WorkDoes DEF Writes, Typed
    <2>5. Rising(events, "Written")
      BY DEF Flowing
    <2> QED
      BY <1>0, <2>1, <2>2, <2>4, <2>5, OtherStepFlows
  <1>4. CASE \E g \in Gens : WebSocketPump(g)
    BY <1>0, <1>4, SocketFlows
  <1>5. CASE UNCHANGED vars
    BY <1>5 DEF vars, Flowing, UnderWay
  <1> QED
    BY <1>1, <1>2, <1>3, <1>4, <1>5 DEF Next, CommandPump

LEMMA InitFlowing == Init => Flowing
  <1> SUFFICES ASSUME Init
               PROVE  Flowing
    OBVIOUS
  <1>1. /\ outbox = <<>> /\ commands = <<>> /\ queued = <<>> /\ events = <<>> /\ pump.work = <<>>
        /\ ui.pending = {}
    BY DEF Init
  <1>2. /\ Said(events, "Written") = {} /\ Rising(events, "Written")
        /\ Said(queued, "Send") = {} /\ Rising(queued, "Send")
        /\ Said(commands, "Send") = {} /\ Rising(commands, "Send")
        /\ Said(outbox, "Send") = {} /\ Rising(outbox, "Send")
    BY <1>1, SaidEmpty
  <1>3. Writing(pump.work) = {} /\ Sole(pump.work)
    <2>1. \A i \in DOMAIN pump.work : ~Writes(pump.work[i])
      BY <1>1
    <2> QED
      BY <2>1, WritingNone
  <1>4. Chain({}, {}, {}, {}, {})
    BY DEF Chain, Below
  <1> QED
    BY <1>1, <1>2, <1>3, <1>4 DEF Flowing, UnderWay

LEMMA FlowingHolds == Spec => [](Apart /\ Flowing)
  <1>1. Init => Apart /\ Flowing
    BY InitApart, InitFlowing
  <1>2. Apart /\ Flowing /\ [Next]_vars => (Apart /\ Flowing)'
    BY ApartStep, FlowingStep
  <1> QED
    BY <1>1, <1>2, PTL DEF Spec

\* A sequence of sets: what it holds, and that it rises.
Mass(s) == UNION {s[i] : i \in DOMAIN s}
Climbing(s) == \A i, j \in DOMAIN s : i < j => Below(s[i], s[j])

LEMMA MassIn ==
  ASSUME NEW s, NEW m
  PROVE  m \in Mass(s) <=> \E i \in DOMAIN s : m \in s[i]
  BY DEF Mass

LEMMA ClimbingJoined ==
  ASSUME NEW S, NEW q \in Seq(S), NEW r \in Seq(S), Climbing(q), Climbing(r), Below(Mass(q), Mass(r))
  PROVE  q \o r \in Seq(S) /\ Climbing(q \o r) /\ Mass(q \o r) = Mass(q) \union Mass(r)
  <1> DEFINE s == q \o r
  <1>0. s \in Seq(S)
    OBVIOUS
  <1>1. /\ DOMAIN s = 1..Len(q) + Len(r) /\ DOMAIN q = 1..Len(q) /\ DOMAIN r = 1..Len(r)
        /\ Len(q) \in Nat /\ Len(r) \in Nat
        /\ \A i \in DOMAIN q : s[i] = q[i]
        /\ \A i \in DOMAIN r : s[i + Len(q)] = r[i]
    BY Joined
  <1> HIDE DEF s
  <1>2. \A i \in DOMAIN s : i \in DOMAIN q \/ (i \notin DOMAIN q /\ i - Len(q) \in DOMAIN r /\ s[i] = r[i - Len(q)])
    BY <1>1
  <1>3. \A i \in DOMAIN q : i \in DOMAIN s
    BY <1>1
  <1>4. \A i \in DOMAIN r : i + Len(q) \in DOMAIN s
    BY <1>1
  <1>5. \A m : m \in Mass(s) <=> m \in Mass(q) \union Mass(r)
    <2>1. ASSUME NEW m, m \in Mass(s)
          PROVE  m \in Mass(q) \union Mass(r)
      <3>1. PICK i \in DOMAIN s : m \in s[i]
        BY <2>1, MassIn
      <3>2. CASE i \in DOMAIN q
        BY <1>1, <3>1, <3>2, MassIn
      <3>3. CASE i - Len(q) \in DOMAIN r /\ s[i] = r[i - Len(q)]
        BY <3>1, <3>3, MassIn
      <3> QED
        BY <1>2, <3>2, <3>3
    <2>2. ASSUME NEW m, m \in Mass(q)
          PROVE  m \in Mass(s)
      BY <1>1, <1>3, <2>2, MassIn
    <2>3. ASSUME NEW m, m \in Mass(r)
          PROVE  m \in Mass(s)
      <3>1. PICK i \in DOMAIN r : m \in r[i]
        BY <2>3, MassIn
      <3> QED
        BY <1>1, <1>4, <3>1, MassIn
    <2> QED
      BY <2>1, <2>2, <2>3
  <1>6. ASSUME NEW i \in DOMAIN s, NEW j \in DOMAIN s, i < j, NEW m \in s[i], NEW n \in s[j]
        PROVE  m < n
    <2>1. CASE j \in DOMAIN q
      <3>1. i \in DOMAIN q
        BY <1>1, <1>6, <2>1
      <3> QED
        BY <1>1, <1>6, <2>1, <3>1 DEF Climbing, Below
    <2>2. CASE i \notin DOMAIN q
      <3>1. j \notin DOMAIN q
        BY <1>1, <1>6, <2>2
      <3>2. /\ i - Len(q) \in DOMAIN r /\ s[i] = r[i - Len(q)]
            /\ j - Len(q) \in DOMAIN r /\ s[j] = r[j - Len(q)]
        BY <1>2, <2>2, <3>1
      <3>3. i - Len(q) < j - Len(q)
        BY <1>1, <1>6
      <3> QED
        BY <1>6, <3>2, <3>3 DEF Climbing, Below
    <2>3. CASE i \in DOMAIN q /\ j \notin DOMAIN q
      <3>1. m \in Mass(q)
        BY <1>1, <1>6, <2>3, MassIn
      <3>2. n \in Mass(r)
        BY <1>2, <1>6, <2>3, MassIn
      <3> QED
        BY <3>1, <3>2 DEF Below
    <2> QED
      BY <2>1, <2>2, <2>3
  <1>7. Climbing(s)
    BY <1>6 DEF Climbing, Below
  <1> QED
    BY <1>0, <1>5, <1>7 DEF s

LEMMA AboutIs ==
  ASSUME NEW T, NEW q \in Seq(T), NEW kind, NEW S, {} \in S,
         \A i \in DOMAIN q : q[i].kind = kind => q[i].about \in S,
         Rising(q, kind)
  PROVE  About(q, kind) \in Seq(S) /\ Mass(About(q, kind)) = Said(q, kind) /\ Climbing(About(q, kind))
  <1> DEFINE s == About(q, kind)
  <1>1. DOMAIN s = DOMAIN q /\ \A i \in DOMAIN q : s[i] = IF q[i].kind = kind THEN q[i].about ELSE {}
    BY DEF About
  <1>2. s \in [1..Len(q) -> S] /\ Len(q) \in Nat
    BY DEF About
  <1>3. s \in Seq(S)
    BY <1>2
  <1> HIDE DEF s
  <1>4. \A m : m \in Mass(s) <=> m \in Said(q, kind)
    BY <1>1, MassIn, SaidIn
  <1>5. Climbing(s)
    BY <1>1 DEF Climbing, Rising, Below
  <1> QED
    BY <1>3, <1>4, <1>5 DEF s

LEMMA TellingIs ==
  ASSUME Typed
  PROVE  /\ Telling \in Seq(Reports) /\ DOMAIN Telling = DOMAIN pump.work
         /\ \A i \in DOMAIN pump.work :
              Telling[i] = IF pump.work[i].do = "tell" THEN pump.work[i].event ELSE Event("Answer", {}, pump.gen, FALSE)
  <1>1. pump.work \in Seq(Steps) /\ pump.gen \in Gens
    BY DEF Typed, Pumps
  <1>2. Event("Answer", {}, pump.gen, FALSE) \in Reports
    BY <1>1, EventReported DEF EventKinds, SocketKinds, ResultKinds
  <1>3. \A x \in Steps : x.do = "tell" => x.event \in Reports
    BY DEF Steps
  <1> DEFINE w == pump.work
             filler == Event("Answer", {}, pump.gen, FALSE)
             F(i) == IF w[i].do = "tell" THEN w[i].event ELSE filler
  <1>4. w \in Seq(Steps) /\ filler \in Reports /\ Telling = [i \in DOMAIN w |-> F(i)]
    BY <1>1, <1>2 DEF Telling
  <1> HIDE DEF w, filler
  <1>5. /\ DOMAIN w = 1..Len(w) /\ Len(w) \in Nat /\ \A i \in DOMAIN w : w[i] \in Steps
    BY <1>4
  <1>6. \A i \in DOMAIN w : F(i) \in Reports
    BY <1>3, <1>4, <1>5
  <1> HIDE DEF F
  <1>7. Telling \in [1..Len(w) -> Reports]
    BY <1>4, <1>5, <1>6
  <1>8. Telling \in Seq(Reports) /\ DOMAIN Telling = DOMAIN w /\ \A i \in DOMAIN w : Telling[i] = F(i)
    BY <1>4, <1>5, <1>7
  <1> QED
    BY <1>8 DEF w, filler, F

LEMMA TellingSays ==
  ASSUME Typed, Sole(pump.work)
  PROVE  Said(Telling, "Written") = Writing(pump.work) /\ Rising(Telling, "Written")
  <1>1. Event("Answer", {}, pump.gen, FALSE).kind # "Written"
    BY DEF Event
  <1>2. DOMAIN Telling = DOMAIN pump.work
        /\ \A i \in DOMAIN pump.work : Telling[i].kind = "Written" <=> Writes(pump.work[i])
    BY <1>1, TellingIs DEF Writes
  <1>3. \A i \in DOMAIN pump.work : Writes(pump.work[i]) => Telling[i] = pump.work[i].event
    BY TellingIs DEF Writes
  <1>4. \A m : m \in Said(Telling, "Written") <=> m \in Writing(pump.work)
    BY <1>2, <1>3, SaidIn, WritingIn
  <1>5. \A i, j \in DOMAIN pump.work : i < j => ~(Writes(pump.work[i]) /\ Writes(pump.work[j]))
    <2>1. pump.work \in Seq(Steps)
      BY DEF Typed, Pumps
    <2>2. \A i \in DOMAIN pump.work : i \in Nat
      BY <2>1
    <2> QED
      BY <2>2 DEF Sole
  <1>6. Rising(Telling, "Written")
    BY <1>2, <1>5 DEF Rising
  <1> QED
    BY <1>4, <1>6

\* Five queues in turn.
LEMMA ClimbingFive ==
  ASSUME NEW S, NEW a \in Seq(S), NEW b \in Seq(S), NEW c \in Seq(S), NEW d \in Seq(S), NEW e \in Seq(S),
         Climbing(a), Climbing(b), Climbing(c), Climbing(d), Climbing(e),
         Chain(Mass(a), Mass(b), Mass(c), Mass(d), Mass(e))
  PROVE  /\ Climbing(a \o b \o c \o d \o e)
         /\ Mass(a \o b \o c \o d \o e) = Mass(a) \union Mass(b) \union Mass(c) \union Mass(d) \union Mass(e)
  <1> DEFINE ab == a \o b
             abc == ab \o c
             abcd == abc \o d
             abcde == abcd \o e
  <1>j. ASSUME NEW q \in Seq(S), NEW r \in Seq(S), NEW s, s = q \o r,
               Climbing(q), Climbing(r), Below(Mass(q), Mass(r))
        PROVE  s \in Seq(S) /\ Climbing(s) /\ Mass(s) = Mass(q) \union Mass(r)
    BY <1>j, ClimbingJoined
  <1>0. ab = a \o b /\ abc = ab \o c /\ abcd = abc \o d /\ abcde = abcd \o e
    OBVIOUS
  <1> HIDE DEF ab, abc, abcd, abcde
  <1>1. ab \in Seq(S) /\ Climbing(ab) /\ Mass(ab) = Mass(a) \union Mass(b)
    <2>1. Below(Mass(a), Mass(b))
      BY DEF Chain
    <2> QED
      BY <1>0, <1>j, <2>1
  <1>2. Below(Mass(ab), Mass(c))
    BY <1>1 DEF Chain, Below
  <1>3. abc \in Seq(S) /\ Climbing(abc) /\ Mass(abc) = Mass(ab) \union Mass(c)
    <2>1. c \in Seq(S) /\ Climbing(c)
      OBVIOUS
    <2>2. abc = ab \o c
      BY <1>0
    <2>3. ab \in Seq(S) /\ Climbing(ab) /\ Below(Mass(ab), Mass(c))
      BY <1>1, <1>2
    <2> QED
      BY <1>j, <2>1, <2>2, <2>3
  <1>4. Below(Mass(abc), Mass(d))
    BY <1>1, <1>3 DEF Chain, Below
  <1>5. abcd \in Seq(S) /\ Climbing(abcd) /\ Mass(abcd) = Mass(abc) \union Mass(d)
    <2>1. d \in Seq(S) /\ Climbing(d)
      OBVIOUS
    <2>2. abcd = abc \o d
      BY <1>0
    <2>3. abc \in Seq(S) /\ Climbing(abc) /\ Below(Mass(abc), Mass(d))
      BY <1>3, <1>4
    <2> QED
      BY <1>j, <2>1, <2>2, <2>3
  <1>6. Below(Mass(abcd), Mass(e))
    BY <1>1, <1>3, <1>5 DEF Chain, Below
  <1>7. Climbing(abcde) /\ Mass(abcde) = Mass(abcd) \union Mass(e)
    <2>1. e \in Seq(S) /\ Climbing(e)
      OBVIOUS
    <2>2. abcde = abcd \o e
      BY <1>0
    <2>3. abcd \in Seq(S) /\ Climbing(abcd) /\ Below(Mass(abcd), Mass(e))
      BY <1>5, <1>6
    <2> QED
      BY <1>j, <2>1, <2>2, <2>3
  <1>8. Mass(abcde) = Mass(a) \union Mass(b) \union Mass(c) \union Mass(d) \union Mass(e)
    BY <1>1, <1>3, <1>5, <1>7
  <1> QED
    BY <1>7, <1>8 DEF abcde, abcd, abc, ab

LEMMA UnderWayIs ==
  ASSUME Typed, Flowing
  PROVE  Climbing(MessagesUnderWay) /\ Mass(MessagesUnderWay) = UnderWay
  <1> DEFINE a == About(events, "Written")
             b == About(Telling, "Written")
             c == About(queued, "Send")
             d == About(commands, "Send")
             e == About(outbox, "Send")
             S == SUBSET Messages
  <1>1. /\ events \in Seq(Reports) /\ queued \in Seq(Requests) /\ commands \in Seq(Requests) /\ outbox \in Seq(Requests)
        /\ Telling \in Seq(Reports)
    BY TellingIs DEF Typed, QueuesTyped
  <1>2. /\ \A x \in Reports : x.kind = "Written" => x.about \in SUBSET Messages
        /\ \A x \in Requests : x.kind = "Send" => x.about \in SUBSET Messages
    BY DEF Reports, Requests
  <1>3. /\ Rising(events, "Written") /\ Rising(queued, "Send") /\ Rising(commands, "Send") /\ Rising(outbox, "Send")
        /\ Sole(pump.work)
    BY DEF Flowing
  <1>4. Rising(Telling, "Written") /\ Said(Telling, "Written") = Writing(pump.work)
    BY <1>3, TellingSays
  <1>5. a \in Seq(S) /\ Mass(a) = Said(events, "Written") /\ Climbing(a)
    BY <1>1, <1>2, <1>3, AboutIs
  <1>6. b \in Seq(S) /\ Mass(b) = Writing(pump.work) /\ Climbing(b)
    <2>1. \A i \in DOMAIN Telling : Telling[i].kind = "Written" => Telling[i].about \in S
      BY <1>1, <1>2
    <2>2. b \in Seq(S) /\ Mass(b) = Said(Telling, "Written") /\ Climbing(b)
      BY <1>1, <1>4, <2>1, AboutIs
    <2> QED
      BY <1>4, <2>2
  <1>7. c \in Seq(S) /\ Mass(c) = Said(queued, "Send") /\ Climbing(c)
    <2>1. \A i \in DOMAIN queued : queued[i].kind = "Send" => queued[i].about \in S
      BY <1>1, <1>2
    <2> QED
      BY <1>1, <1>3, <2>1, AboutIs
  <1>8. d \in Seq(S) /\ Mass(d) = Said(commands, "Send") /\ Climbing(d)
    <2>1. \A i \in DOMAIN commands : commands[i].kind = "Send" => commands[i].about \in S
      BY <1>1, <1>2
    <2> QED
      BY <1>1, <1>3, <2>1, AboutIs
  <1>9. e \in Seq(S) /\ Mass(e) = Said(outbox, "Send") /\ Climbing(e)
    <2>1. \A i \in DOMAIN outbox : outbox[i].kind = "Send" => outbox[i].about \in S
      BY <1>1, <1>2
    <2> QED
      BY <1>1, <1>3, <2>1, AboutIs
  <1>10. MessagesUnderWay = a \o b \o c \o d \o e
    BY DEF MessagesUnderWay
  <1> HIDE DEF a, b, c, d, e, S
  <1>11. Chain(Mass(a), Mass(b), Mass(c), Mass(d), Mass(e))
    BY <1>5, <1>6, <1>7, <1>8, <1>9 DEF Flowing
  <1>12. /\ Climbing(a \o b \o c \o d \o e)
         /\ Mass(a \o b \o c \o d \o e) = Mass(a) \union Mass(b) \union Mass(c) \union Mass(d) \union Mass(e)
    BY <1>5, <1>6, <1>7, <1>8, <1>9, <1>11, ClimbingFive
  <1> QED
    BY <1>5, <1>6, <1>7, <1>8, <1>9, <1>10, <1>12 DEF UnderWay

LEMMA FlowingOrders ==
  ASSUME Typed, Flowing
  PROVE  SendsInOrder /\ PendingIsOwed
  <1>1. SendsInOrder
    BY UnderWayIs DEF SendsInOrder, Climbing, Below
  <1>2. PendingIsOwed
    <2>1. ui.pending \subseteq Mass(MessagesUnderWay)
      BY UnderWayIs DEF Flowing
    <2> QED
      BY <2>1, MassIn DEF PendingIsOwed
  <1> QED
    BY <1>1, <1>2

\* The messages on their way through the outbox, both command queues, the pump's work
\* and the event queue keep the order in which the user sent them, also when a member
\* batch sets commands aside (run_command_pump, run_tui_session).
THEOREM MessagesKeepTheirOrder == Spec => []SendsInOrder
  <1>1. Apart /\ Flowing => SendsInOrder
    BY FlowingOrders DEF Apart
  <1> QED
    BY <1>1, FlowingHolds, PTL

-----------------------------------------------------------------------------
(* Every target of a batch is accounted for.                                *)

LEMMA ToComeFits ==
  ASSUME Typed, NEW t
  PROVE  /\ Count(queued, Owed(t)) \in Nat /\ Count(commands, Owed(t)) \in Nat /\ Count(outbox, Owed(t)) \in Nat
         /\ Count(pump.work, Telleds(t)) \in Nat /\ Count(events, Results(t)) \in Nat
         /\ ToCome(t) \in Nat
  <1>1. /\ queued \in Seq(Requests) /\ commands \in Seq(Requests) /\ outbox \in Seq(Requests)
        /\ pump.work \in Seq(Steps) /\ events \in Seq(Reports)
    BY DEF Typed, QueuesTyped, Pumps
  <1>2. /\ Count(queued, Owed(t)) \in Nat /\ Count(commands, Owed(t)) \in Nat /\ Count(outbox, Owed(t)) \in Nat
        /\ Count(pump.work, Telleds(t)) \in Nat /\ Count(events, Results(t)) \in Nat
    BY <1>1, CountFits
  <1> QED
    BY <1>2 DEF ToCome

LEMMA AccountedKept ==
  ASSUME Accounted, \A t \in Targets : ToCome(t)' = ToCome(t),
         ui'.batches = ui.batches, ui'.locked = ui.locked, ui'.left = ui.left,
         ui'.lockedAt = ui.lockedAt, ui'.generation = ui.generation
  PROVE  Accounted'
  BY DEF Accounted

LEMMA TakenCount ==
  ASSUME Typed, NEW c, Takes(c), NEW S
  PROVE  Count(queued', S) + Count(commands', S)
           = Count(queued, S) + Count(commands, S) - (IF c \in S THEN 1 ELSE 0)
  <1>1. queued \in Seq(Requests) /\ commands \in Seq(Requests)
    BY DEF Typed, QueuesTyped
  <1>2. Count(queued, S) \in Nat /\ Count(commands, S) \in Nat
    BY <1>1, CountFits
  <1>3. CASE queued # <<>> /\ c = Head(queued) /\ queued' = Tail(queued) /\ commands' = commands
    <2>1. Count(queued', S) = Count(queued, S) - (IF c \in S THEN 1 ELSE 0)
      BY <1>1, <1>3, CountTaken
    <2> QED
      BY <1>2, <1>3, <2>1
  <1>4. CASE queued = <<>> /\ commands # <<>> /\ c = Head(commands) /\ commands' = Tail(commands) /\ queued' = queued
    <2>1. Count(commands', S) = Count(commands, S) - (IF c \in S THEN 1 ELSE 0)
      BY <1>1, <1>4, CountTaken
    <2> QED
      BY <1>2, <1>4, <2>1
  <1> QED
    BY <1>3, <1>4 DEF Takes

LEMMA TellsNothing ==
  ASSUME NEW w, NEW t, \A i \in DOMAIN w : w[i].do = "tell" => w[i].event.kind \notin ResultKinds
  PROVE  Count(w, Telleds(t)) = 0
  <1>1. \A x \in Telleds(t) : x.do = "tell" /\ x.event.kind \in ResultKinds
    BY DEF Telleds, Results
  <1> QED
    BY <1>1, CountZero

\* A command's work reports no target; a batch's command makes its targets the batch.
LEMMA TakesTells ==
  ASSUME Typed, SwitchesCounted, NEW c, Takes(c), NEW t \in Targets
  PROVE  /\ Count(pump'.work, Telleds(t)) = 0
         /\ t \in pump'.batch <=> c \in Owed(t)
  <1>1. pump \in Pumps /\ pump.gen \in Gens /\ pump.work = <<>> /\ pump.batch = {} /\ c \in Requests
    BY DEF Typed, Pumps, Takes
  <1>2. c.kind # "AddMembers" => c \notin Owed(t)
    BY DEF Owed
  <1>3. CASE c.kind = "Send" /\ pump' = [pump EXCEPT !.work = <<Tell("Written", c.about)>>]
    <2>1. pump'.work = <<Tell("Written", c.about)>> /\ pump'.batch = {}
      BY <1>1, <1>3 DEF Pumps
    <2>2. Tell("Written", c.about).event.kind \notin ResultKinds
      BY DEF Tell, Event, ResultKinds
    <2>3. \A i \in DOMAIN pump'.work : pump'.work[i].event.kind \notin ResultKinds
      BY <2>1, <2>2
    <2> QED
      BY <1>2, <1>3, <2>1, <2>3, TellsNothing
  <1>4. CASE c.kind \in ErrandKinds /\ Quiet(pump'.work) /\ pump' = [pump EXCEPT !.work = pump'.work]
    <2>1. pump'.batch = {} /\ c.kind # "AddMembers"
      BY <1>1, <1>4 DEF Pumps, ErrandKinds
    <2>2. \A i \in DOMAIN pump'.work : pump'.work[i].do = "tell" => pump'.work[i].event.kind \notin ResultKinds
      BY <1>4 DEF Quiet, Silent, ResultKinds
    <2> QED
      BY <1>2, <2>1, <2>2, TellsNothing
  <1>5. CASE c.kind = "ReadProgress" /\ pump' = [pump EXCEPT !.read = {c}, !.due = TRUE]
    <2>1. pump'.batch = {} /\ pump'.work = <<>>
      BY <1>1, <1>5 DEF Pumps
    <2> QED
      BY <1>2, <1>5, <2>1, CountNone
  <1>6. CASE c.kind = "AddMembers" /\ pump' = [pump EXCEPT !.batch = Targets]
    <2>1. pump'.batch = Targets /\ pump'.work = <<>>
      BY <1>1, <1>6 DEF Pumps
    <2>2. c.about = Targets
      BY <1>1, <1>6 DEF Requests
    <2> QED
      BY <1>1, <1>6, <2>1, <2>2, CountNone DEF Owed
  <1>7. CASE c.kind = "SwitchCommunity" /\ Moves(pump'.work) /\ pump' = [pump EXCEPT !.read = {}, !.work = pump'.work]
    <2>1. pump'.batch = {}
      BY <1>1, <1>7 DEF Pumps
    <2>2. pump.gen + 1 \in Gens
      BY <1>7, SwitchTaken
    <2>3. \A i \in DOMAIN pump'.work : pump'.work[i].do = "tell" => pump'.work[i].event.kind \notin ResultKinds
      BY <1>1, <1>7, <2>2, MovesIs DEF Silent, ResultKinds, Announces
    <2> QED
      BY <1>2, <1>7, <2>1, <2>3, TellsNothing
  <1>8. CASE c.kind = "Shutdown" /\ pump' = [pump EXCEPT !.read = {}, !.work = Flush \o <<End>>]
    <2>1. pump'.batch = {} /\ Ends(pump'.work)
      BY <1>1, <1>8 DEF Pumps, Ends
    <2>2. \A i \in DOMAIN pump'.work : pump'.work[i].do = "tell" => pump'.work[i].event.kind \notin ResultKinds
      BY <1>1, <2>1, FlushInStep DEF Silent, ResultKinds
    <2> QED
      BY <1>2, <1>8, <2>1, <2>2, TellsNothing
  <1> QED
    BY <1>3, <1>4, <1>5, <1>6, <1>7, <1>8, ExecuteTyped

LEMMA TakeAccounts ==
  ASSUME Typed, SwitchesCounted, TakeCommand, NEW t \in Targets
  PROVE  ToCome(t)' = ToCome(t)
  <1>1. PICK c : Takes(c)
    BY TakeCommandDoes
  <1>2. outbox' = outbox /\ events' = events /\ pump.work = <<>> /\ pump.batch = {}
    BY <1>1 DEF Takes
  <1> DEFINE k == IF c \in Owed(t) THEN 1 ELSE 0
             a == Count(queued, Owed(t))
             b == Count(commands, Owed(t))
             d == Count(outbox, Owed(t))
             f == Count(events, Results(t))
             a2 == Count(queued', Owed(t))
             b2 == Count(commands', Owed(t))
  <1>3. a2 + b2 = a + b - k
    BY <1>1, TakenCount
  <1>4. /\ Count(pump'.work, Telleds(t)) = 0
        /\ (IF t \in pump'.batch THEN 1 ELSE 0) = k
    BY <1>1, TakesTells
  <1>5. /\ Count(pump.work, Telleds(t)) = 0
        /\ (IF t \in pump.batch THEN 1 ELSE 0) = 0
    BY <1>2, CountNone
  <1>6. /\ Count(outbox', Owed(t)) = d /\ Count(events', Results(t)) = f
    BY <1>2
  <1>7. a \in Nat /\ b \in Nat /\ d \in Nat /\ f \in Nat /\ k \in Nat
    BY ToComeFits
  <1>8. queued' \in Seq(Requests) /\ commands' \in Seq(Requests)
    BY CommandPumpStep DEF CommandPump, QueuesTyped
  <1>9. a2 \in Nat /\ b2 \in Nat
    BY <1>8, CountFits
  <1>10. /\ ToCome(t) = a + b + d + 0 + 0 + f
         /\ ToCome(t)' = a2 + b2 + d + k + 0 + f
    BY <1>4, <1>5, <1>6 DEF ToCome
  <1> HIDE DEF a, b, d, f, a2, b2, k
  <1> QED
    BY <1>3, <1>7, <1>9, <1>10

LEMMA TurnAccounts ==
  ASSUME Typed, BatchTurn, NEW t \in Targets
  PROVE  ToCome(t)' = ToCome(t)
  <1>1. /\ pump.work = <<>> /\ queued' = queued \o commands /\ commands' = <<>>
        /\ events' = events /\ outbox' = outbox
    BY BatchTurnDoes
  <1>2. PICK kind, about : Turns(kind, about)
    BY BatchTurnDoes
  <1> DEFINE k == IF t \in about THEN 1 ELSE 0
             k2 == IF t \in pump'.batch THEN 1 ELSE 0
             a == Count(queued, Owed(t))
             b == Count(commands, Owed(t))
             d == Count(outbox, Owed(t))
             f == Count(events, Results(t))
  <1>3. Count(queued', Owed(t)) = a + b /\ Count(commands', Owed(t)) = 0
    BY <1>1, CountJoined, CountNone DEF Typed, QueuesTyped
  <1>4. pump \in Pumps /\ pump.gen \in Gens
    BY DEF Typed, Pumps
  <1>5. pump'.work = <<Tell(kind, about)>> /\ pump'.batch = pump.batch \ about
    BY <1>2, <1>4 DEF Turns, Pumps
  <1>6. Count(pump'.work, Telleds(t)) = k
    <2> DEFINE x == Tell(kind, about)
    <2>1. about \subseteq Targets /\ kind \in ResultKinds /\ (kind # "MemberBatchCancelled" => \E s \in Targets : about = {s})
      BY <1>2, <1>4 DEF Turns, Pumps
    <2>2. x \in [do : {"tell"}, event : Reports] /\ x.event.kind = kind /\ x.event.about = about
      BY <1>4, <2>1, ReportTell
    <2> HIDE DEF x
    <2>3. x \in Telleds(t) <=> t \in about
      BY <2>1, <2>2 DEF Telleds, Results
    <2>4. Count(<<x>>, Telleds(t)) = k
      BY <2>3, CountOne
    <2> QED
      BY <1>5, <2>4 DEF x
  <1>7. (IF t \in pump.batch THEN 1 ELSE 0) = k2 + k /\ k2 \in Nat /\ k \in Nat
    BY <1>2, <1>5 DEF Turns
  <1>8. a \in Nat /\ b \in Nat /\ d \in Nat /\ f \in Nat
    BY ToComeFits
  <1>9. Count(pump.work, Telleds(t)) = 0
    BY <1>1, CountNone
  <1>10. /\ ToCome(t) = a + b + d + (k2 + k) + 0 + f
         /\ ToCome(t)' = (a + b) + 0 + d + k2 + k + f
    BY <1>1, <1>3, <1>6, <1>7, <1>9 DEF ToCome
  <1> HIDE DEF a, b, d, f, k, k2
  <1> QED
    BY <1>7, <1>8, <1>10

LEMMA PublishAccounts ==
  ASSUME Typed, PublishDue, NEW t \in Targets
  PROVE  ToCome(t)' = ToCome(t)
  <1>1. /\ pump.work = <<>> /\ Quiet(pump'.work) /\ UNCHANGED <<outbox, commands, queued, events>>
        /\ pump' = [pump EXCEPT !.due = FALSE, !.read = {}, !.work = pump'.work]
    BY PublishDueDoes
  <1>2. pump'.batch = pump.batch
    BY <1>1 DEF Typed, Pumps
  <1>3. \A i \in DOMAIN pump'.work : pump'.work[i].do = "tell" => pump'.work[i].event.kind \notin ResultKinds
    BY <1>1 DEF Quiet, Silent, ResultKinds
  <1>4. Count(pump'.work, Telleds(t)) = Count(pump.work, Telleds(t))
    BY <1>1, <1>3, TellsNothing, CountNone
  <1> QED
    BY <1>1, <1>2, <1>4 DEF ToCome

LEMMA TellAccounts ==
  ASSUME Typed, PumpTell, NEW t \in Targets
  PROVE  ToCome(t)' = ToCome(t)
  <1> DEFINE x == pump.work[1]
             k == IF x.event \in Results(t) THEN 1 ELSE 0
             c == Count(queued, Owed(t)) + Count(commands, Owed(t)) + Count(outbox, Owed(t))
                    + (IF t \in pump.batch THEN 1 ELSE 0)
             w == Count(pump.work, Telleds(t))
             f == Count(events, Results(t))
  <1>1. /\ pump' = Done /\ pump.work # <<>> /\ NextStep.do = "tell" /\ NextStep.event \in Reports
        /\ events' = Append(events, NextStep.event)
        /\ UNCHANGED <<outbox, commands, queued>>
    BY PumpTellDoes
  <1>2. NextStep = x /\ pump'.work = Tail(pump.work) /\ pump'.batch = pump.batch /\ x \in Steps
    BY <1>1, WorkDoes DEF Typed
  <1>3. pump.work \in Seq(Steps) /\ events \in Seq(Reports)
    BY DEF Typed, Pumps, QueuesTyped
  <1>4. x \in Telleds(t) <=> x.event \in Results(t)
    <2> HIDE DEF x
    <2>1. x \in [do : {"tell"}, event : Reports]
      BY <1>1, <1>2 DEF Steps
    <2> QED
      BY <2>1 DEF Telleds
  <1>5. Count(pump'.work, Telleds(t)) = w - k
    <2>1. Head(pump.work) = x
      BY <1>1, <1>3, Taken
    <2> QED
      BY <1>1, <1>2, <1>3, <1>4, <2>1, CountTaken
  <1>6. Count(events', Results(t)) = f + k
    BY <1>1, <1>2, <1>3, CountAdded
  <1>7. w \in Nat /\ f \in Nat /\ c \in Nat /\ k \in Nat
    BY ToComeFits
  <1>8. ToCome(t) = c + w + f /\ ToCome(t)' = c + (w - k) + (f + k)
    BY <1>1, <1>2, <1>5, <1>6 DEF ToCome
  <1> HIDE DEF c, w, f, k
  <1> QED
    BY <1>7, <1>8

LEMMA OtherStepAccounts ==
  ASSUME Typed, NEW t \in Targets, pump.work # <<>>, pump'.work = Tail(pump.work), pump'.batch = pump.batch,
         pump.work[1].do # "tell", UNCHANGED <<outbox, commands, queued, events>>
  PROVE  ToCome(t)' = ToCome(t)
  <1>1. pump.work \in Seq(Steps)
    BY DEF Typed, Pumps
  <1>2. Head(pump.work) \notin Telleds(t)
    BY <1>1, Taken DEF Telleds
  <1>3. Count(pump'.work, Telleds(t)) = Count(pump.work, Telleds(t)) - 0
    BY <1>1, <1>2, CountTaken
  <1>4. Count(pump'.work, Telleds(t)) = Count(pump.work, Telleds(t))
    BY <1>3, ToComeFits
  <1> QED
    BY <1>4 DEF ToCome

LEMMA SocketAccounts ==
  ASSUME Typed, Fed, NEW g \in Gens, WebSocketPump(g), NEW t \in Targets
  PROVE  ToCome(t)' = ToCome(t)
  <1>1. Reporting(g) /\ UNCHANGED <<loop, ui, outbox, commands, pump, queued>>
    BY SocketDoes
  <1>2. events \in Seq(Reports) /\ Count(events, Results(t)) \in Nat
    BY ToComeFits DEF Typed, QueuesTyped
  <1>3. Count(events', Results(t)) = Count(events, Results(t))
    <2>1. CASE UNCHANGED events
      BY <2>1
    <2>2. CASE \E e \in Reports : e.tagged /\ events' = Append(events, e)
      <3>1. PICK e \in Reports : e.tagged /\ events' = Append(events, e)
        BY <2>2
      <3>2. e \notin Results(t)
        BY <3>1 DEF Reports, SocketKinds, Results, ResultKinds
      <3>3. Count(events', Results(t)) = Count(events, Results(t)) + 0
        BY <1>2, <3>1, <3>2, CountAdded
      <3> QED
        BY <1>2, <3>3
    <2> QED
      BY <1>1, <2>1, <2>2 DEF Reporting
  <1> QED
    BY <1>1, <1>3 DEF ToCome

LEMMA SendAccounts ==
  ASSUME Typed, SendOutbox \/ SendShutdown, NEW t \in Targets
  PROVE  ToCome(t)' = ToCome(t)
  <1>1. UNCHANGED <<pump, queued, events>>
    BY DEF SendOutbox, SendShutdown
  <1> DEFINE a == Count(queued, Owed(t))
             b == Count(commands, Owed(t))
             d == Count(outbox, Owed(t))
             b2 == Count(commands', Owed(t))
             d2 == Count(outbox', Owed(t))
             r == (IF t \in pump.batch THEN 1 ELSE 0)
             w == Count(pump.work, Telleds(t))
             f == Count(events, Results(t))
  <1>2. b2 + d2 = b + d
    <2>1. CASE SendOutbox
      <3>1. d2 + b2 = d + b
        BY <2>1, OutboxSent
      <3>2. outbox' \in Seq(Requests) /\ commands' \in Seq(Requests)
        BY <2>1, InterfaceStep DEF Interface, QueuesTyped
      <3>3. b2 \in Nat /\ d2 \in Nat
        BY <3>2, CountFits
      <3>4. b \in Nat /\ d \in Nat
        BY ToComeFits
      <3> HIDE DEF b, d, b2, d2
      <3> QED
        BY <3>1, <3>3, <3>4
    <2>2. CASE SendShutdown
      <3>1. \A c \in Owed(t) : c.kind # "Shutdown"
        BY DEF Owed
      <3>2. b2 = b
        BY <2>2, <3>1, ShutdownSent
      <3>3. d2 = d
        BY <2>2 DEF SendShutdown
      <3> QED
        BY <3>2, <3>3
    <2> QED
      BY <2>1, <2>2
  <1>3. a \in Nat /\ b \in Nat /\ d \in Nat /\ w \in Nat /\ f \in Nat /\ r \in Nat
    BY ToComeFits
  <1>4. b2 \in Nat /\ d2 \in Nat
    <2>1. outbox' \in Seq(Requests) /\ commands' \in Seq(Requests)
      BY InterfaceStep DEF Interface, QueuesTyped
    <2> QED
      BY <2>1, CountFits
  <1>5. ToCome(t) = a + b + d + r + w + f /\ ToCome(t)' = a + b2 + d2 + r + w + f
    BY <1>1 DEF ToCome
  <1> HIDE DEF a, b, d, b2, d2, r, w, f
  <1> QED
    BY <1>2, <1>3, <1>4, <1>5

\* Every step but a key's and an event's leaves the account as it is.
LEMMA AccountedElsewhere ==
  ASSUME Apart, Accounted, Drained \/ SendOutbox \/ SendShutdown \/ CommandPump \/ (\E g \in Gens : WebSocketPump(g))
  PROVE  Accounted'
  <1>0. Typed /\ SwitchesCounted /\ Working /\ Fed /\ ui \in Uis
    BY DEF Apart, Typed, UiTyped
  <1>1. CASE Drained
    <2>1. ui' = [ui EXCEPT !.quit = @ \/ ws[0].at = "failed"] /\ UNCHANGED <<outbox, commands, queued, events, pump>>
      BY <1>1 DEF Drained
    <2>2. /\ ui'.batches = ui.batches /\ ui'.locked = ui.locked /\ ui'.left = ui.left
          /\ ui'.lockedAt = ui.lockedAt /\ ui'.generation = ui.generation
      BY <1>0, <2>1 DEF Uis
    <2>3. \A t \in Targets : ToCome(t)' = ToCome(t)
      BY <2>1 DEF ToCome
    <2> QED
      BY <2>2, <2>3, AccountedKept
  <1>2. CASE SendOutbox \/ SendShutdown
    <2>1. ui' = ui
      BY <1>2 DEF SendOutbox, SendShutdown
    <2> QED
      BY <1>0, <1>2, <2>1, SendAccounts, AccountedKept
  <1>3. CASE TakeCommand \/ PublishDue \/ BatchTurn \/ PumpTell
    <2>1. ui' = ui
      BY <1>3 DEF TakeCommand, PublishDue, BatchTurn, PumpTell
    <2>2. \A t \in Targets : ToCome(t)' = ToCome(t)
      BY <1>0, <1>3, TakeAccounts, PublishAccounts, TurnAccounts, TellAccounts
    <2> QED
      BY <2>1, <2>2, AccountedKept
  <1>4. CASE PumpControl \/ PumpSpawn \/ PumpEnd
    <2>1. UNCHANGED <<ui, outbox, commands, queued, events>>
      BY <1>4 DEF PumpControl, PumpSpawn, PumpEnd
    <2>2. pump.work # <<>> /\ pump'.work = Tail(pump.work)
      BY <1>0, <1>4, StepInStep
    <2>3. NextStep.do # "tell"
      BY <1>4 DEF PumpControl, PumpSpawn, PumpEnd
    <2>4. pump.work[1].do # "tell"
      BY <1>0, <2>2, <2>3, WorkDoes DEF Typed
    <2>5. pump'.batch = pump.batch
      BY <1>0, <1>4 DEF PumpControl, PumpSpawn, PumpEnd, Done, Typed, Pumps
    <2>6. \A t \in Targets : ToCome(t)' = ToCome(t)
      BY <1>0, <2>1, <2>2, <2>4, <2>5, OtherStepAccounts
    <2> QED
      BY <2>1, <2>6, AccountedKept
  <1>5. CASE \E g \in Gens : WebSocketPump(g)
    <2>1. PICK g \in Gens : WebSocketPump(g)
      BY <1>5
    <2>2. ui' = ui
      BY <1>0, <2>1, SocketDoes
    <2>3. \A t \in Targets : ToCome(t)' = ToCome(t)
      BY <1>0, <2>1, SocketAccounts
    <2> QED
      BY <2>2, <2>3, AccountedKept
  <1> QED
    BY <1>1, <1>2, <1>3, <1>4, <1>5 DEF CommandPump

\* A key that submits a batch makes one report of each target to come.
LEMMA KeyAccounts ==
  ASSUME Apart, Accounted, TakeKey
  PROVE  Accounted'
  <1>0. Typed /\ UiTyped /\ ui \in Uis
    BY DEF Apart, Typed, UiTyped
  <1>1. outbox = <<>> /\ UNCHANGED <<commands, queued, events, pump>>
    BY DEF TakeKey
  <1>2. \A t : Count(outbox, Owed(t)) = 0
    BY <1>1, CountNone
  <1>3. ASSUME NEW t \in Targets, NEW k \in Nat, Count(outbox', Owed(t)) = k
        PROVE  ToCome(t)' = ToCome(t) + k
    <2> DEFINE a == Count(queued, Owed(t))
               b == Count(commands, Owed(t))
               r == (IF t \in pump.batch THEN 1 ELSE 0)
               w == Count(pump.work, Telleds(t))
               f == Count(events, Results(t))
    <2>1. a \in Nat /\ b \in Nat /\ r \in Nat /\ w \in Nat /\ f \in Nat
      BY <1>0, ToComeFits
    <2>2. ToCome(t) = a + b + 0 + r + w + f /\ ToCome(t)' = a + b + k + r + w + f
      BY <1>1, <1>2, <1>3 DEF ToCome
    <2> HIDE DEF a, b, r, w, f
    <2> QED
      BY <2>1, <2>2
  <1>4. CASE SubmitMembers
    <2>1. ~ui.locked /\ ui.batches < MaxBatches /\ outbox' = <<Command("AddMembers", Targets)>>
      BY <1>4 DEF SubmitMembers
    <2>2. ui.batches = 0
      BY <1>0, <2>1, Capacities DEF Uis
    <2>3. /\ ui'.batches = 1 /\ ui'.left = Targets /\ ui'.lockedAt = ui.generation /\ ui'.generation = ui.generation
      BY <1>0, <1>4, <2>2 DEF SubmitMembers, Uis
    <2> DEFINE c == Command("AddMembers", Targets)
    <2>4. c \in Requests /\ c.kind = "AddMembers" /\ c.about = Targets
      BY <1>0, CommandTyped DEF CommandKinds
    <2>5. outbox' = <<c>>
      BY <2>1
    <2> HIDE DEF c
    <2>6. \A t \in Targets : c \in Owed(t)
      BY <2>4 DEF Owed
    <2>7. \A t \in Targets : Count(outbox', Owed(t)) = 1
      BY <2>5, <2>6, CountOne
    <2>8. \A t \in Targets : ToCome(t)' = 1
      <3>1. \A t \in Targets : ToCome(t) = 0
        BY <2>2 DEF Accounted
      <3>2. \A t \in Targets : ToCome(t)' = ToCome(t) + 1
        BY <1>3, <2>7
      <3> QED
        BY <3>1, <3>2
    <2> QED
      BY <2>3, <2>8 DEF Accounted
  <1>5. CASE WriteMessage \/ ClaimRead \/ ConfirmCommunity \/ QuitKey \/ NoKey
    <2>1. /\ ui'.batches = ui.batches /\ ui'.locked = ui.locked /\ ui'.left = ui.left
          /\ ui'.lockedAt = ui.lockedAt /\ ui'.generation = ui.generation
      BY <1>0, <1>5 DEF WriteMessage, ClaimRead, ConfirmCommunity, QuitKey, NoKey, Uis
    <2>2. \A i \in DOMAIN outbox' : outbox'[i].kind # "AddMembers"
      BY <1>1, <1>5 DEF WriteMessage, ClaimRead, ConfirmCommunity, QuitKey, NoKey, Command
    <2>3. \A t \in Targets : Count(outbox', Owed(t)) = 0
      BY <2>2, CountZero DEF Owed
    <2>4. \A t \in Targets : ToCome(t)' = ToCome(t) + 0
      BY <1>3, <2>3
    <2>5. \A t \in Targets : ToCome(t)' = ToCome(t)
      BY <1>0, <2>4, ToComeFits
    <2> QED
      BY <2>1, <2>5, AccountedKept
  <1> QED
    BY <1>4, <1>5 DEF TakeKey

\* What an event does to a batch: it stays locked only as it was, and loses the
\* targets its results are about.
Settles(e) ==
  \/ ui'.left = ui.left \ e.about
  \/ /\ e.kind # "MemberBatchCancelled" /\ ui'.left = ui.left
     /\ ui.lockedAt # ui.generation \/ ~(e.about \subseteq ui.left)

LEMMA LockDoes ==
  ASSUME Typed, ApplyEvent, ui'.locked
  PROVE  /\ ui.locked /\ ui'.lockedAt = ui.lockedAt /\ Asks
         /\ Head(events).kind # "CommunitySwitching"
         /\ Head(events).kind \in ResultKinds => Settles(Head(events))
         /\ Head(events).kind \notin ResultKinds => ui'.left = ui.left
  <1> DEFINE e == Head(events)
  <1>1. e \in Reports /\ UiTyped /\ QueuesTyped /\ ui \in Uis
    BY ApplyDoes DEF Typed, UiTyped
  <1>2. CASE Stale(e)
    <2>1. UNCHANGED <<ui, outbox>>
      BY <1>2 DEF ApplyEvent
    <2>2. e.kind \notin ResultKinds \union {"CommunitySwitching"}
      BY <1>1, <1>2 DEF Stale, Reports, SocketKinds, ResultKinds
    <2> QED
      BY <1>1, <2>1, <2>2, AsksNothing
  <1>3. CASE ~Stale(e)
    <2>0. \/ ApplyConnected(e) \/ ApplyChannels(e) \/ ApplyTimeline(e)
          \/ ApplyGone(e) \/ ApplySwitching(e) \/ ApplyWritten(e)
          \/ ApplyMemberWrite(e) \/ ApplyMemberCancelled(e)
          \/ ApplyMembers(e) \/ ApplyOther(e)
      BY <1>3 DEF ApplyEvent
    <2> HIDE DEF e
    <2> DEFINE s == Seen(e)
    <2>s. s \in Uis /\ s.left = ui.left /\ s.locked = ui.locked /\ s.lockedAt = ui.lockedAt
      <3>1. s \in Uis /\ s = [ui EXCEPT !.generation = IF e.tagged THEN e.gen ELSE ui.generation]
        BY <1>1, SeenIs
      <3> QED
        BY <1>1, <3>1 DEF Uis
    <2>k. ASSUME Asks, e.kind \notin ResultKinds \union {"CommunitySwitching"},
                 ui'.locked = ui.locked, ui'.left = ui.left, ui'.lockedAt = ui.lockedAt
          PROVE  /\ ui.locked /\ ui'.lockedAt = ui.lockedAt /\ Asks
                 /\ e.kind # "CommunitySwitching"
                 /\ e.kind \in ResultKinds => Settles(e)
                 /\ e.kind \notin ResultKinds => ui'.left = ui.left
      BY <2>k
    <2>1. CASE ApplyConnected(e) \/ ApplyOther(e)
      <3>1. ui' = s /\ e.kind \notin ResultKinds \union {"CommunitySwitching"}
        BY <2>1 DEF ApplyConnected, ApplyOther, ResultKinds
      <3>2. Asks
        BY <1>1, <2>1, ConnectedDoes, ResultDoes
      <3> QED
        BY <2>s, <2>k, <3>1, <3>2 DEF e
    <2>2. CASE ApplyChannels(e) \/ ApplyTimeline(e) \/ ApplyGone(e)
      <3>1. Asks
        BY <1>1, <2>2, ChannelsDoes
      <3>2. /\ e.kind \notin ResultKinds \union {"CommunitySwitching"}
            /\ \/ ui' = [s EXCEPT !.opened = TRUE] \/ ui' = s
               \/ ui' = [s EXCEPT !.locked = FALSE, !.left = {}, !.unknown = FALSE]
        BY <2>2 DEF ApplyChannels, ApplyTimeline, ApplyGone, ResultKinds
      <3> HIDE DEF s
      <3>3. CASE ui' = [s EXCEPT !.opened = TRUE] \/ ui' = s
        <4>1. ui'.locked = ui.locked /\ ui'.left = ui.left /\ ui'.lockedAt = ui.lockedAt
          BY <2>s, <3>3 DEF Uis
        <4> QED
          BY <2>k, <3>1, <3>2, <4>1 DEF e
      <3>4. CASE ui' = [s EXCEPT !.locked = FALSE, !.left = {}, !.unknown = FALSE]
        <4>1. ~ui'.locked
          BY <2>s, <3>4 DEF Uis
        <4> QED
          BY <4>1
      <3> QED
        BY <3>2, <3>3, <3>4
    <2>3. CASE ApplySwitching(e)
      <3>1. ~ui'.locked
        BY <1>1, <2>3 DEF ApplySwitching, Uis
      <3> QED
        BY <3>1
    <2>4. CASE ApplyWritten(e)
      <3>1. /\ e.kind \notin ResultKinds \union {"CommunitySwitching"}
            /\ ui'.locked = ui.locked /\ ui'.left = ui.left /\ ui'.lockedAt = ui.lockedAt
        BY <1>1, <2>4 DEF ApplyWritten, Uis, ResultKinds
      <3>2. Asks
        BY <1>1, <2>4, WrittenDoes
      <3> QED
        BY <2>k, <3>1, <3>2 DEF e
    <2>5. CASE ApplyMemberWrite(e)
      <3>1. Asks
        BY <1>1, <2>5, ResultDoes
      <3>2. e.kind \in {"MemberResult", "MemberUnknown"}
        BY <2>5 DEF ApplyMemberWrite
      <3>3. CASE ui.locked /\ ui.lockedAt = ui.generation /\ e.about \subseteq ui.left
        <4>1. Settle(ui.left \ e.about, ui.unknown \/ e.kind = "MemberUnknown")
          BY <2>5, <3>3 DEF ApplyMemberWrite
        <4>2. ui'.left = ui.left \ e.about /\ ui'.lockedAt = ui.lockedAt
          BY <1>1, <4>1 DEF Settle, Uis
        <4> QED
          BY <3>1, <3>2, <3>3, <4>2 DEF e, Settles, ResultKinds
      <3>4. CASE ~(ui.locked /\ ui.lockedAt = ui.generation /\ e.about \subseteq ui.left)
        <4>1. ui' = ui
          BY <2>5, <3>4 DEF ApplyMemberWrite
        <4> QED
          BY <3>1, <3>2, <3>4, <4>1 DEF e, Settles, ResultKinds
      <3> QED
        BY <3>3, <3>4
    <2>6. CASE ApplyMemberCancelled(e)
      <3>1. Asks
        BY <1>1, <2>6, ResultDoes
      <3>2. e.kind = "MemberBatchCancelled"
        BY <2>6 DEF ApplyMemberCancelled
      <3>3. ui.locked
        <4>1. CASE ~ui.locked
          <5>1. ui' = ui
            BY <2>6, <4>1 DEF ApplyMemberCancelled
          <5> QED
            BY <4>1, <5>1
        <4> QED
          BY <4>1
      <3>4. Settle(ui.left \ e.about, ui.unknown)
        BY <2>6, <3>3 DEF ApplyMemberCancelled
      <3>5. ui'.left = ui.left \ e.about /\ ui'.lockedAt = ui.lockedAt
        BY <1>1, <3>4 DEF Settle, Uis
      <3> QED
        BY <3>1, <3>2, <3>3, <3>5 DEF e, Settles, ResultKinds
    <2>7. CASE ApplyMembers(e)
      <3>1. Asks
        BY <1>1, <2>7, WrittenDoes
      <3>2. e.kind \notin ResultKinds \union {"CommunitySwitching"}
        BY <2>7 DEF ApplyMembers, ResultKinds
      <3>3. ui' = ui \/ ui' = [ui EXCEPT !.locked = FALSE, !.unknown = FALSE]
        BY <2>7 DEF ApplyMembers
      <3>4. ui' = ui
        BY <1>1, <3>3 DEF Uis
      <3> QED
        BY <2>k, <3>1, <3>2, <3>4 DEF e
    <2> QED
      BY <2>0, <2>1, <2>2, <2>3, <2>4, <2>5, <2>6, <2>7
  <1> QED
    BY <1>2, <1>3

\* An event that reports a target takes one report from what is to come.
LEMMA EventCounts ==
  ASSUME Typed, ApplyEvent, NEW t \in Targets
  PROVE  /\ ToCome(t)' \in Nat /\ ToCome(t)' <= ToCome(t)
         /\ Head(events) \in Results(t) => ToCome(t) > 0
         /\ Asks => ToCome(t)' = ToCome(t) - (IF Head(events) \in Results(t) THEN 1 ELSE 0)
  <1> DEFINE a == Count(queued, Owed(t))
             b == Count(commands, Owed(t))
             d == Count(outbox, Owed(t))
             d2 == Count(outbox', Owed(t))
             r == (IF t \in pump.batch THEN 1 ELSE 0)
             w == Count(pump.work, Telleds(t))
             f == Count(events, Results(t))
             f2 == Count(events', Results(t))
             k == IF Head(events) \in Results(t) THEN 1 ELSE 0
  <1>1. /\ events # <<>> /\ events' = Tail(events) /\ UNCHANGED <<commands, pump, queued>>
        /\ outbox' = <<>> \/ Asks
    BY ApplyDoes
  <1>2. events \in Seq(Reports) /\ events' \in Seq(Reports)
    BY <1>1, Taken DEF Typed, QueuesTyped
  <1>3. f2 = f - k
    BY <1>1, <1>2, CountTaken
  <1>4. a \in Nat /\ b \in Nat /\ d \in Nat /\ r \in Nat /\ w \in Nat /\ f \in Nat /\ f2 \in Nat /\ k \in Nat
    BY <1>2, ToComeFits, CountFits
  <1>5. \A c \in Owed(t) : c.kind \notin ErrandKinds
    BY DEF Owed, ErrandKinds
  <1>6. d2 = 0 \/ d2 = d
    BY <1>1, <1>5, OutboxAsked
  <1>7. Asks => d2 = d
    <2>1. ASSUME Asks
          PROVE  d2 = d
      <3>1. PICK q : Errands(q) /\ outbox' = outbox \o q
        BY <2>1 DEF Asks
      <3>2. q \in Seq(Requests) /\ outbox \in Seq(Requests)
        BY <3>1 DEF Errands, Typed, QueuesTyped
      <3>3. \A i \in DOMAIN q : q[i] \notin Owed(t)
        BY <1>5, <3>1 DEF Errands
      <3>4. Count(q, Owed(t)) = 0
        BY <3>3, CountZero
      <3>5. d2 = d + 0
        BY <3>1, <3>2, <3>4, CountJoined
      <3> QED
        BY <1>4, <3>5
    <2> QED
      BY <2>1
  <1>8. ToCome(t) = a + b + d + r + w + f /\ ToCome(t)' = a + b + d2 + r + w + f2
    BY <1>1 DEF ToCome
  <1>9. Head(events) \in Results(t) => k = 1
    OBVIOUS
  <1> HIDE DEF a, b, d, d2, r, w, f, f2
  <1> QED
    BY <1>3, <1>4, <1>6, <1>7, <1>8, <1>9

LEMMA EventAccounts ==
  ASSUME Apart, Apart', Accounted, ApplyEvent
  PROVE  Accounted'
  <1> DEFINE e == Head(events)
  <1>1. Typed /\ ui \in Uis /\ ui' \in Uis /\ ui.generation = ui.community /\ ui'.generation = ui'.community
    BY DEF Apart, Typed, UiTyped, Ordered
  <1>2. Kept /\ e \in Reports /\ (Stale(e) => ui' = ui) /\ (~Stale(e) => Follows(e))
    BY <1>1, ApplyDoes
  <1>3. \A t \in Targets : /\ ToCome(t)' \in Nat /\ ToCome(t) \in Nat /\ ToCome(t)' <= ToCome(t)
                           /\ e \in Results(t) => ToCome(t) > 0
                           /\ Asks => ToCome(t)' = ToCome(t) - (IF e \in Results(t) THEN 1 ELSE 0)
    BY <1>1, EventCounts, ToComeFits
  <1> HIDE DEF e
  <1>4. ASSUME ui'.batches = 0
        PROVE  ~ui'.locked /\ \A t \in Targets : ToCome(t)' = 0
    <2>1. ~ui.locked /\ \A t \in Targets : ToCome(t) = 0
      BY <1>2, <1>4 DEF Kept, Accounted
    <2>2. \A t \in Targets : ToCome(t)' = 0
      BY <1>3, <2>1
    <2> QED
      BY <1>1, <2>1, <2>2, LockDoes
  <1>5. ASSUME ui'.locked
        PROVE  /\ ui'.lockedAt = ui'.generation
               /\ \A t \in Targets : ToCome(t)' = IF t \in ui'.left THEN 1 ELSE 0
    <2>1. /\ ui.locked /\ ui'.lockedAt = ui.lockedAt /\ Asks
          /\ e.kind # "CommunitySwitching"
          /\ e.kind \in ResultKinds => Settles(e)
          /\ e.kind \notin ResultKinds => ui'.left = ui.left
      BY <1>1, <1>5, LockDoes DEF e
    <2>2. ui.lockedAt = ui.generation /\ \A t \in Targets : ToCome(t) = IF t \in ui.left THEN 1 ELSE 0
      BY <2>1 DEF Accounted
    <2>3. ui'.generation = ui.generation
      BY <1>1, <1>2, <2>1 DEF Follows
    <2>4. \A t \in Targets : e \in Results(t) <=> e.kind \in ResultKinds /\ t \in e.about
      BY <1>2 DEF Results
    <2>5. \A t \in Targets : e \in Results(t) => t \in ui.left
      BY <1>3, <2>2
    <2>6. e.kind \in ResultKinds => ui'.left = ui.left \ e.about
      <3>1. ASSUME e.kind \in ResultKinds, e.kind # "MemberBatchCancelled"
            PROVE  e.about \subseteq ui.left
        <4>1. PICK t \in Targets : e.about = {t}
          BY <1>2, <3>1 DEF Reports, ResultKinds
        <4> QED
          BY <2>4, <2>5, <3>1, <4>1
      <3> QED
        BY <2>1, <2>2, <3>1 DEF Settles
    <2>7. ASSUME NEW t \in Targets
          PROVE  ToCome(t)' = IF t \in ui'.left THEN 1 ELSE 0
      <3>1. ToCome(t)' = ToCome(t) - (IF e \in Results(t) THEN 1 ELSE 0)
        BY <1>3, <2>1
      <3>2. CASE e \in Results(t)
        <4>1. ToCome(t) = 1
          BY <2>2, <2>5, <3>2
        <4>2. t \notin ui'.left
          BY <2>4, <2>6, <3>2
        <4>3. ToCome(t)' = ToCome(t) - 1
          BY <3>1, <3>2
        <4> QED
          BY <4>1, <4>2, <4>3
      <3>3. CASE e \notin Results(t)
        <4>1. t \in ui'.left <=> t \in ui.left
          BY <2>1, <2>4, <2>6, <3>3
        <4>2. ToCome(t)' = ToCome(t) - 0
          BY <3>1, <3>3
        <4>3. ToCome(t)' = ToCome(t)
          BY <1>3, <4>2
        <4> QED
          BY <2>2, <4>1, <4>3
      <3> QED
        BY <3>2, <3>3
    <2> QED
      BY <2>1, <2>2, <2>3, <2>7
  <1> QED
    BY <1>4, <1>5 DEF Accounted

LEMMA AccountedStep ==
  ASSUME Apart, Apart', Accounted, [Next]_vars
  PROVE  Accounted'
  <1>1. CASE ApplyEvent
    BY <1>1, EventAccounts
  <1>2. CASE TakeKey
    BY <1>2, KeyAccounts
  <1>3. CASE Drained \/ SendOutbox \/ SendShutdown \/ CommandPump \/ (\E g \in Gens : WebSocketPump(g))
    BY <1>3, AccountedElsewhere
  <1>4. CASE UNCHANGED vars
    BY <1>4 DEF vars, Accounted, ToCome
  <1> QED
    BY <1>1, <1>2, <1>3, <1>4 DEF Next, Interface

LEMMA InitAccounted == Init => Accounted
  <1> SUFFICES ASSUME Init
               PROVE  Accounted
    OBVIOUS
  <1>1. /\ outbox = <<>> /\ commands = <<>> /\ queued = <<>> /\ events = <<>> /\ pump.work = <<>>
        /\ pump.batch = {} /\ ~ui.locked
    BY DEF Init
  <1>2. \A t : ToCome(t) = 0
    BY <1>1, CountNone DEF ToCome
  <1> QED
    BY <1>1, <1>2 DEF Accounted

LEMMA AccountedHolds == Spec => [](Apart /\ Accounted)
  <1>1. Init => Apart /\ Accounted
    BY InitApart, InitAccounted
  <1>2. Apart /\ Accounted /\ [Next]_vars => (Apart /\ Accounted)'
    BY ApartStep, AccountedStep
  <1> QED
    BY <1>1, <1>2, PTL DEF Spec

\* Numbering the elements of a set under a tag does not change how many there are.
LEMMA TaggedMany ==
  ASSUME NEW S, IsFiniteSet(S), NEW tag
  PROVE  IsFiniteSet({<<tag, i>> : i \in S}) /\ Cardinality({<<tag, i>> : i \in S}) = Cardinality(S)
  <1> DEFINE T == {<<tag, i>> : i \in S}
             f == [i \in S |-> <<tag, i>>]
  <1>1. f \in Bijection(S, T)
    BY DEF Bijection, Injection, Surjection, IsInjective
  <1>2. ExistsBijection(S, T)
    BY <1>1 DEF ExistsBijection
  <1> QED
    BY <1>2, FS_Bijection

\* The reports of a target, one by one, are as many as are to come.
LEMMA ReportsCounted ==
  ASSUME Typed, NEW t \in Targets
  PROVE  Cardinality(ReportsOf(t)) = ToCome(t)
  <1> DEFINE asked == Line \o outbox
             told == events \o Telling
             I == {j \in DOMAIN asked : asked[j].kind = "AddMembers" /\ t \in asked[j].about}
             J == {j \in DOMAIN told : told[j].kind \in ResultKinds /\ t \in told[j].about}
             A == {<<"request", i>> : i \in I}
             B == IF t \in pump.batch THEN {<<"batch", 0>>} ELSE {}
             C == {<<"report", i>> : i \in J}
  <1>1. /\ queued \in Seq(Requests) /\ commands \in Seq(Requests) /\ outbox \in Seq(Requests)
        /\ events \in Seq(Reports) /\ Telling \in Seq(Reports) /\ pump.work \in Seq(Steps)
    BY TellingIs DEF Typed, QueuesTyped, Pumps
  <1>2. /\ Line \in Seq(Requests) /\ Count(Line, Owed(t)) = Count(queued, Owed(t)) + Count(commands, Owed(t))
    BY <1>1, CountJoined, Joined DEF Line
  <1>3. asked \in Seq(Requests)
        /\ Count(asked, Owed(t)) = Count(queued, Owed(t)) + Count(commands, Owed(t)) + Count(outbox, Owed(t))
    BY <1>1, <1>2, CountJoined, Joined
  <1>4. told \in Seq(Reports) /\ Count(told, Results(t)) = Count(events, Results(t)) + Count(Telling, Results(t))
    BY <1>1, CountJoined, Joined
  <1>5. Count(Telling, Results(t)) = Count(pump.work, Telleds(t))
    <2>1. Event("Answer", {}, pump.gen, FALSE) \notin Results(t)
      BY DEF Event, Results, ResultKinds
    <2>2. ASSUME NEW i \in DOMAIN pump.work
          PROVE  Telling[i] \in Results(t) <=> pump.work[i] \in Telleds(t)
      <3> DEFINE x == pump.work[i]
      <3>0. x \in Steps
        BY <1>1
      <3>1. x \in Steps /\ Telling[i] = IF x.do = "tell" THEN x.event ELSE Event("Answer", {}, pump.gen, FALSE)
        BY <3>0, TellingIs, Zenon
      <3> HIDE DEF x
      <3>2. CASE x.do = "tell"
        <4>1. x \in [do : {"tell"}, event : Reports]
          BY <3>1, <3>2 DEF Steps
        <4>2. x \in Telleds(t) <=> x.event \in Results(t)
          BY <4>1 DEF Telleds
        <4> QED
          BY <3>1, <3>2, <4>2 DEF x
      <3>3. CASE x.do # "tell"
        <4>1. x \notin Telleds(t)
          BY <3>3 DEF Telleds
        <4> QED
          BY <2>1, <3>1, <3>3, <4>1 DEF x
      <3> QED
        BY <3>2, <3>3
    <2>3. {i \in DOMAIN Telling : Telling[i] \in Results(t)} = {i \in DOMAIN pump.work : pump.work[i] \in Telleds(t)}
      BY <2>2, TellingIs
    <2> QED
      BY <2>3 DEF Count
  <1>6. IsFiniteSet(I) /\ Cardinality(I) = Count(asked, Owed(t))
    <2> HIDE DEF asked
    <2>1. \A j \in DOMAIN asked : asked[j] \in Requests
      BY <1>3
    <2>2. I = {j \in DOMAIN asked : asked[j] \in Owed(t)}
      BY <2>1 DEF Owed
    <2> HIDE DEF I
    <2> QED
      BY <1>3, <2>2, CountFits DEF Count
  <1>7. IsFiniteSet(J) /\ Cardinality(J) = Count(told, Results(t))
    <2> HIDE DEF told
    <2>1. \A j \in DOMAIN told : told[j] \in Reports
      BY <1>4
    <2>2. J = {j \in DOMAIN told : told[j] \in Results(t)}
      BY <2>1 DEF Results
    <2> HIDE DEF J
    <2> QED
      BY <1>4, <2>2, CountFits DEF Count
  <1>8. ReportsOf(t) = (A \union B) \union C
    BY DEF ReportsOf
  <1> HIDE DEF asked, told, I, J
  <1>9. /\ IsFiniteSet(A) /\ Cardinality(A) = Cardinality(I)
        /\ IsFiniteSet(C) /\ Cardinality(C) = Cardinality(J)
    BY <1>6, <1>7, TaggedMany
  <1>10. IsFiniteSet(B) /\ Cardinality(B) = IF t \in pump.batch THEN 1 ELSE 0
    BY FS_EmptySet, FS_Singleton
  <1>11. A \intersect B = {} /\ (A \union B) \intersect C = {}
    OBVIOUS
  <1> HIDE DEF A, B, C
  <1>12. Cardinality({}) = 0
    BY FS_EmptySet
  <1>13. IsFiniteSet(A \union B) /\ Cardinality(A \union B) = Cardinality(A) + Cardinality(B) - 0
    BY <1>9, <1>10, <1>11, <1>12, FS_Union
  <1>14. Cardinality((A \union B) \union C) = Cardinality(A \union B) + Cardinality(C) - 0
    BY <1>9, <1>11, <1>12, <1>13, FS_Union
  <1> DEFINE q == Count(queued, Owed(t))
             c == Count(commands, Owed(t))
             o == Count(outbox, Owed(t))
             r == (IF t \in pump.batch THEN 1 ELSE 0)
             w == Count(pump.work, Telleds(t))
             f == Count(events, Results(t))
  <1>15. q \in Nat /\ c \in Nat /\ o \in Nat /\ r \in Nat /\ w \in Nat /\ f \in Nat
    BY ToComeFits
  <1>16. Cardinality(A) = q + c + o /\ Cardinality(B) = r /\ Cardinality(C) = f + w
    BY <1>3, <1>4, <1>5, <1>6, <1>7, <1>9, <1>10
  <1>17. ToCome(t) = q + c + o + r + w + f
    BY DEF ToCome
  <1> HIDE DEF q, c, o, r, w, f
  <1> QED
    BY <1>8, <1>13, <1>14, <1>15, <1>16, <1>17

\* A message shown as pending is always on its way to an answer, and each target of an
\* unsettled batch is owed exactly one report until it has its result, through switches,
\* shutdowns and cancellations (run_command_pump's batch turn, App::apply).
THEOREM NoWriteOrTargetIsForgotten == Spec => []NothingIsForgotten
  <1>1. Apart /\ Flowing /\ Accounted => NothingIsForgotten
    <2> SUFFICES ASSUME Apart, Flowing, Accounted
                 PROVE  NothingIsForgotten
      OBVIOUS
    <2>1. Typed
      BY DEF Apart
    <2>2. PendingIsOwed
      BY <2>1, FlowingOrders
    <2>3. BatchAccounted
      BY <2>1, ReportsCounted DEF BatchAccounted, Accounted
    <2> QED
      BY <2>2, <2>3 DEF NothingIsForgotten
  <1> QED
    BY <1>1, FlowingHolds, AccountedHolds, PTL
=============================================================================
