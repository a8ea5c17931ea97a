-------------------------- MODULE LifecycleProofs --------------------------
(* Theorems about Lifecycle, for any channels, people and numbers of writes, *)
(* reads, faults and changes made elsewhere.                                 *)
EXTENDS Lifecycle, FiniteSetTheorems, SequenceTheorems, TLAPS

-----------------------------------------------------------------------------
(* Types.                                                                   *)

Tags == {"create", "life"} \X Nat
Results == {"stored", "refused", "unknown"}
Given == Roles \cup {None}

Relays == [Channels -> [there : BOOLEAN, archived : BOOLEAN, label : Labels, role : [People -> Given]]]

Effects ==
  [kind : {"create"}, channel : NewIds, who : {Me}, value : Labels]
    \cup [kind : {"label"}, channel : Channels, who : {Me}, value : Labels]
    \cup [kind : {"archive"}, channel : Channels, who : {Me}, value : BOOLEAN]
    \cup [kind : {"role"}, channel : Channels, who : People, value : Given]

\* A row that is described has a label.
Described == {r \in Rosters : \A c \in Channels : r[c].described => r[c].label \in Labels}

\* Each target of a batch is written once.
Batches == {q \in Seq(People) : q # <<>> /\ IsInjective(q)}

CreateCommands == [kind : {"Create"}, request : Nat]
EditCommands == [kind : {"Edit"}, channel : Channels, label : Labels, request : Nat]
ArchiveCommands == [kind : {"SetArchived"}, channel : Channels, archived : BOOLEAN, request : Nat]
MemberCommands ==
  [kind : {"MemberWrite"}, channel : Channels, op : {"role", "remove", "leave"}, who : People,
   role : Given, request : Nat]
AddCommands == [kind : {"AddMembers"}, channel : Channels, targets : Batches, role : Given, request : Nat]

Commands ==
  [kind : {"LoadChannels"}] \cup CreateCommands \cup EditCommands \cup ArchiveCommands
    \cup MemberCommands \cup AddCommands
    \cup [kind : {"LoadMembers"}, channel : Channels, request : Nat]
    \cup [kind : {"MemberCandidates"}, channel : Channels, request : Nat, who : People]

Events ==
  [kind : {"Channels"}, roster : Described, complete : BOOLEAN, after : SUBSET Tags]
    \cup [kind : {"Status"}]
    \cup [kind : {"Created"}, request : Nat, id : NewIds, outcome : Results]
    \cup [kind : {"Written"}, slot : {"edit", "archive"}, request : Nat, channel : Channels, outcome : Results]
    \cup [kind : {"Members"}, channel : Channels, request : Nat, ok : BOOLEAN, complete : BOOLEAN,
          rows : [People -> Given], after : SUBSET Tags]
    \cup [kind : {"Candidates"}, channel : Channels, request : Nat, who : People, ok : BOOLEAN]
    \cup [kind : {"MemberWrite"}, channel : Channels, request : Nat, who : People, leave : BOOLEAN,
          outcome : Results]
    \cup [kind : {"Gone"}, channel : Channels]

Pickers == [open : BOOLEAN, selected : SUBSET People, role : Given, candidates : SUBSET People, loading : BOOLEAN]
Confirms ==
  {NoConfirm} \cup [op : {"role", "remove", "leave"}, who : People, role : Roles, warned : BOOLEAN]
Panels ==
  [kind : {"members"}, channel : Channels, loading : BOOLEAN, complete : BOOLEAN, rows : [People -> Given],
   last : SUBSET People, picker : Pickers, confirm : Confirms]
Forms ==
  {NoForm} \cup [kind : {"create"}, state : States]
    \cup [kind : {"edit"}, channel : Channels, label : Labels, state : States]
    \cup [kind : {"archive"}, channel : Channels, archived : BOOLEAN, state : States]
    \cup Panels

Creates == Slot([request : Nat, id : NewIds \cup {None}, known : SUBSET Channels, state : States])
Edits == Slot([request : Nat, channel : Channels, label : Labels, state : States])
Archives == Slot([request : Nat, channel : Channels, archived : BOOLEAN, state : States])
Expecteds == UNION {[S -> Given] : S \in SUBSET People}
Outcomeses == UNION {[S -> Results] : S \in SUBSET People}
MemberWrites ==
  Slot({w \in [request : Nat, channel : Channels, expected : Expecteds, results : Outcomeses, readAfter : Nat] :
          DOMAIN w.results \subseteq DOMAIN w.expected})

Uis ==
  [roster : Described, complete : BOOLEAN, form : Forms, pendingOpen : NewIds \cup {None},
   told : SUBSET NewIds, create : Creates, edit : Edits, archive : Archives, member : MemberWrites,
   createRefresh : BOOLEAN, editRefresh : BOOLEAN, archiveRefresh : BOOLEAN,
   createRequest : Nat, lifeRequest : Nat, memberRead : Nat, memberSearch : Nat, out : Seq(Commands)]

Typed ==
  /\ relay \in Relays /\ settling \subseteq Effects
  /\ ui \in Uis /\ ui.out = <<>>
  /\ commands \in Seq(Commands) /\ events \in Seq(Events)
  /\ batch \in {NoWrite} \cup AddCommands
  /\ done \subseteq Tags /\ displaced \subseteq 1..ui.lifeRequest
  /\ writes \in 0..MaxWrites /\ ui.createRequest + ui.lifeRequest <= writes

-----------------------------------------------------------------------------
(* The course of a write: its command, its answer, its record.              *)

IsWrite(c, k) == c.kind = k
IsAnswer(e, k) ==
  CASE k = "Create"      -> e.kind = "Created"
    [] k = "Edit"        -> e.kind = "Written" /\ e.slot = "edit"
    [] k = "SetArchived" -> e.kind = "Written" /\ e.slot = "archive"
TagOf(k, n) == <<IF k = "Create" THEN "create" ELSE "life", n>>

\* The roster e was read after the write k of number n.
ReadSince(e, k, n) == e.kind = "Channels" => TagOf(k, n) \in e.after

\* Writes of kind k are numbered in the order they are made, up to n, and answered
\* in that order; an answer comes after the write is done and before any roster
\* that was read before.
InCourse(k, n, cs, es, dn) ==
  /\ \A i \in DOMAIN cs : IsWrite(cs[i], k) => cs[i].request \in 1..n
  /\ \A i \in DOMAIN es : IsAnswer(es[i], k) => es[i].request \in 1..n
  /\ \A i, j \in DOMAIN cs : i < j /\ IsWrite(cs[i], k) /\ IsWrite(cs[j], k) => cs[i].request < cs[j].request
  /\ \A i, j \in DOMAIN es : i < j /\ IsAnswer(es[i], k) /\ IsAnswer(es[j], k) => es[i].request < es[j].request
  /\ \A i \in DOMAIN cs, j \in DOMAIN es :
       IsWrite(cs[i], k) /\ IsAnswer(es[j], k) => es[j].request < cs[i].request
  /\ \A i \in DOMAIN es : IsAnswer(es[i], k) =>
       /\ TagOf(k, es[i].request) \in dn
       /\ \A j \in DOMAIN es : i < j => ReadSince(es[j], k, es[i].request)

\* Write n of kind k is under way.
UnderWay(k, n, cs, es) ==
  \/ \E i \in DOMAIN cs : IsWrite(cs[i], k) /\ cs[i].request = n
  \/ \E i \in DOMAIN es : IsAnswer(es[i], k) /\ es[i].request = n

\* The record w of a write of kind k says whether it is under way.
Recorded(k, w, n, cs, es, dn) ==
  IsOpen(w) =>
    /\ w.request \in 1..n
    /\ w.state = "creating" <=> UnderWay(k, w.request, cs, es)
    /\ w.state # "creating" => /\ TagOf(k, w.request) \in dn
                               /\ \A i \in DOMAIN es : ReadSince(es[i], k, w.request)

\* What is under way for a record is about its channel.
SameChannel(k, w, cs, es) ==
  IsOpen(w) =>
    /\ \A i \in DOMAIN cs : IsWrite(cs[i], k) /\ cs[i].request = w.request => cs[i].channel = w.channel
    /\ \A i \in DOMAIN es : IsAnswer(es[i], k) /\ es[i].request = w.request => es[i].channel = w.channel

\* A creation has no id before it is answered, and there is only one.
Creating(w, cs, es) ==
  /\ IsOpen(w) => (w.id = None <=> w.state = "creating")
  /\ \A i \in DOMAIN cs : cs[i].kind = "Create" => IsOpen(w) /\ cs[i].request = w.request
  /\ \A i \in DOMAIN es : es[i].kind = "Created" => IsOpen(w) /\ es[i].request = w.request

Creations(u, cs, es, dn) ==
  /\ InCourse("Create", u.createRequest, cs, es, dn)
  /\ Recorded("Create", u.create, u.createRequest, cs, es, dn)
  /\ Creating(u.create, cs, es)

Changed(k, w, n, cs, es, dn) ==
  InCourse(k, n, cs, es, dn) /\ Recorded(k, w, n, cs, es, dn) /\ SameChannel(k, w, cs, es)

\* The new channels of a relay that are there, or will be, and what is known of them.
Founds(r, effects) == {id \in NewIds : r[id].there \/ \E e \in effects : e.kind = "create" /\ e.channel = id}
Accounts(ids, u, es) ==
  \A id \in ids :
    \/ id \in u.told
    \/ IsOpen(u.create) /\ u.create.id = id
    \/ \E i \in DOMAIN es : es[i].kind = "Created" /\ es[i].id = id /\ es[i].outcome # "refused"

-----------------------------------------------------------------------------
(* The course of a write to members.                                        *)

MemberKinds == {"MemberWrite", "AddMembers"}
Targets(c) == IF c.kind = "AddMembers" THEN Range(c.targets) ELSE {c.who}

\* Member writes are numbered in the order they are made and run in that order,
\* one of a batch after the other.
MemberCourse(n, cs, b, es) ==
  /\ \A i \in DOMAIN cs : cs[i].kind \in MemberKinds => cs[i].request \in 1..n
  /\ b # NoWrite => b.request \in 1..n
  /\ \A i \in DOMAIN es : es[i].kind = "MemberWrite" => es[i].request \in 1..n
  /\ \A i, j \in DOMAIN cs : i < j /\ cs[i].kind \in MemberKinds /\ cs[j].kind \in MemberKinds =>
       cs[i].request < cs[j].request
  /\ \A i \in DOMAIN cs : cs[i].kind \in MemberKinds =>
       /\ b # NoWrite => b.request < cs[i].request
       /\ \A j \in DOMAIN es : es[j].kind = "MemberWrite" => es[j].request < cs[i].request
  /\ b # NoWrite => \A j \in DOMAIN es : es[j].kind = "MemberWrite" =>
       /\ es[j].request <= b.request
       /\ es[j].request = b.request => es[j].who \notin Range(b.targets)

\* The result of target p of write n is on its way.
ToCome(n, p, cs, b, es) ==
  \/ \E i \in DOMAIN cs : cs[i].kind \in MemberKinds /\ cs[i].request = n /\ p \in Targets(cs[i])
  \/ b # NoWrite /\ b.request = n /\ p \in Range(b.targets)
  \/ \E i \in DOMAIN es : es[i].kind = "MemberWrite" /\ es[i].request = n /\ es[i].who = p

\* The record w of a member write: what is under way for it is about its channel
\* and its targets, those without a result are owed one, and once every target has
\* one no read asked for later was made before the write.
MemberRecord(w, n, read, cs, b, es, dn) ==
  IsOpen(w) =>
    /\ w.request \in 1..n /\ w.readAfter <= read
    /\ \A i \in DOMAIN cs : cs[i].kind \in MemberKinds /\ cs[i].request = w.request =>
         /\ cs[i].channel = w.channel
         /\ Targets(cs[i]) \subseteq DOMAIN w.expected \ DOMAIN w.results
    /\ b # NoWrite /\ b.request = w.request =>
         b.channel = w.channel /\ Range(b.targets) \subseteq DOMAIN w.expected \ DOMAIN w.results
    /\ \A i \in DOMAIN es : es[i].kind = "MemberWrite" /\ es[i].request = w.request =>
         es[i].channel = w.channel
    /\ \A p \in DOMAIN w.expected \ DOMAIN w.results : ToCome(w.request, p, cs, b, es)
    /\ \/ <<"life", w.request>> \in dn
       \/ b # NoWrite /\ b.request = w.request
       \/ \E i \in DOMAIN cs : cs[i].kind \in MemberKinds /\ cs[i].request = w.request
    /\ DOMAIN w.results = DOMAIN w.expected =>
         \A i \in DOMAIN es : es[i].kind = "Members" /\ es[i].request > w.readAfter =>
           <<"life", w.request>> \in es[i].after

-----------------------------------------------------------------------------
(* What the panel reads.                                                    *)

\* Reads are numbered up to the last; while a panel of channel c has made it, the
\* last is about c, and while the panel waits it is on its way.
Reading(asks, answers, last, c, made, waits, cs, es) ==
  /\ \A i \in DOMAIN cs : cs[i].kind = asks => cs[i].request <= last
  /\ \A i \in DOMAIN es : es[i].kind = answers => es[i].request <= last
  /\ made => /\ \A i \in DOMAIN cs : cs[i].kind = asks /\ cs[i].request = last => cs[i].channel = c
             /\ \A i \in DOMAIN es : es[i].kind = answers /\ es[i].request = last => es[i].channel = c
  /\ waits => \/ \E i \in DOMAIN cs : cs[i].kind = asks /\ cs[i].request = last
              \/ \E i \in DOMAIN es : es[i].kind = answers /\ es[i].request = last

PanelReads(u, cs, es) ==
  LET on == Showing(u, "members") IN
  /\ Reading("LoadMembers", "Members", u.memberRead, u.form.channel, on, on /\ u.form.loading, cs, es)
  /\ Reading("MemberCandidates", "Candidates", u.memberSearch, u.form.channel,
             on /\ u.form.picker.loading, on /\ u.form.picker.loading, cs, es)

\* What is recorded, queued and shown agrees.
Flow(u, cs, b, es, dn) ==
  /\ Creations(u, cs, es, dn)
  /\ Changed("Edit", u.edit, u.lifeRequest, cs, es, dn)
  /\ Changed("SetArchived", u.archive, u.lifeRequest, cs, es, dn)
  /\ MemberCourse(u.lifeRequest, cs, b, es)
  /\ MemberRecord(u.member, u.lifeRequest, u.memberRead, cs, b, es, dn)
  /\ PanelReads(u, cs, es)

IInv ==
  /\ Typed
  /\ Accounts(Founds(relay, settling), ui, events)
  /\ Flow(ui, commands, batch, events, done)
-----------------------------------------------------------------------------
(* What is known of a command, an event or a form from its kind.            *)

LEMMA CommandKinds ==
  ASSUME NEW c \in Commands
  PROVE  /\ c.kind \in {"LoadChannels", "Create", "Edit", "SetArchived", "MemberWrite", "AddMembers",
                        "LoadMembers", "MemberCandidates"}
         /\ c.kind = "Create" => c \in CreateCommands
         /\ c.kind = "Edit" => c \in EditCommands
         /\ c.kind = "SetArchived" => c \in ArchiveCommands
         /\ c.kind = "MemberWrite" => c \in MemberCommands
         /\ c.kind = "AddMembers" => c \in AddCommands
         /\ c.kind = "LoadMembers" => c.channel \in Channels /\ c.request \in Nat
         /\ c.kind = "MemberCandidates" => c.channel \in Channels /\ c.request \in Nat /\ c.who \in People
  BY DEF Commands, CreateCommands, EditCommands, ArchiveCommands, MemberCommands, AddCommands

ChannelsEvents == [kind : {"Channels"}, roster : Described, complete : BOOLEAN, after : SUBSET Tags]
CreatedEvents == [kind : {"Created"}, request : Nat, id : NewIds, outcome : Results]
WrittenEvents ==
  [kind : {"Written"}, slot : {"edit", "archive"}, request : Nat, channel : Channels, outcome : Results]
MembersEvents ==
  [kind : {"Members"}, channel : Channels, request : Nat, ok : BOOLEAN, complete : BOOLEAN,
   rows : [People -> Given], after : SUBSET Tags]
CandidatesEvents == [kind : {"Candidates"}, channel : Channels, request : Nat, who : People, ok : BOOLEAN]
MemberWriteEvents ==
  [kind : {"MemberWrite"}, channel : Channels, request : Nat, who : People, leave : BOOLEAN, outcome : Results]

LEMMA EventKinds ==
  ASSUME NEW e \in Events
  PROVE  /\ e.kind \in {"Channels", "Status", "Created", "Written", "Members", "Candidates", "MemberWrite", "Gone"}
         /\ e.kind = "Channels" => e \in ChannelsEvents
         /\ e.kind = "Created" => e \in CreatedEvents
         /\ e.kind = "Written" => e \in WrittenEvents
         /\ e.kind = "Members" => e \in MembersEvents
         /\ e.kind = "Candidates" => e \in CandidatesEvents
         /\ e.kind = "MemberWrite" => e \in MemberWriteEvents
         /\ e.kind = "Gone" => e.channel \in Channels
  BY DEF Events, ChannelsEvents, CreatedEvents, WrittenEvents, MembersEvents, CandidatesEvents, MemberWriteEvents

EditForms == [kind : {"edit"}, channel : Channels, label : Labels, state : States]
ArchiveForms == [kind : {"archive"}, channel : Channels, archived : BOOLEAN, state : States]
CreateForms == [kind : {"create"}, state : States]

LEMMA FormKinds ==
  ASSUME NEW f \in Forms
  PROVE  /\ f.kind \in {"none", "create", "edit", "archive", "members"}
         /\ f.kind = "none" => f = NoForm
         /\ f.kind = "create" => f \in CreateForms
         /\ f.kind = "edit" => f \in EditForms
         /\ f.kind = "archive" => f \in ArchiveForms
         /\ f.kind = "members" => f \in Panels
  BY DEF Forms, NoForm, None, Panels, EditForms, ArchiveForms, CreateForms

LEMMA KindsOfForms ==
  Forms = {NoForm} \cup CreateForms \cup EditForms \cup ArchiveForms \cup Panels
  BY DEF Forms, EditForms, ArchiveForms, CreateForms

LEMMA KindsOfEvents ==
  Events = ChannelsEvents \cup [kind : {"Status"}] \cup CreatedEvents \cup WrittenEvents \cup MembersEvents
             \cup CandidatesEvents \cup MemberWriteEvents \cup [kind : {"Gone"}, channel : Channels]
  BY DEF Events, ChannelsEvents, CreatedEvents, WrittenEvents, MembersEvents, CandidatesEvents, MemberWriteEvents

LEMMA Slots ==
  ASSUME NEW u \in Uis
  PROVE  /\ IsOpen(u.create) => u.create \in [request : Nat, id : NewIds \cup {None}, known : SUBSET Channels, state : States]
         /\ IsOpen(u.edit) => u.edit \in [request : Nat, channel : Channels, label : Labels, state : States]
         /\ IsOpen(u.archive) => u.archive \in [request : Nat, channel : Channels, archived : BOOLEAN, state : States]
         /\ IsOpen(u.member) => u.member \in {w \in [request : Nat, channel : Channels, expected : Expecteds, results : Outcomeses, readAfter : Nat] :
          DOMAIN w.results \subseteq DOMAIN w.expected}
  BY DEF Uis, Creates, Edits, Archives, MemberWrites, Slot, IsOpen, NoWrite

LEMMA Fields ==
  ASSUME NEW u \in Uis
  PROVE  /\ u.roster \in Described /\ u.complete \in BOOLEAN /\ u.form \in Forms
         /\ u.pendingOpen \in NewIds \cup {None} /\ u.told \in SUBSET NewIds
         /\ u.create \in Creates /\ u.edit \in Edits /\ u.archive \in Archives /\ u.member \in MemberWrites
         /\ u.createRefresh \in BOOLEAN /\ u.editRefresh \in BOOLEAN /\ u.archiveRefresh \in BOOLEAN
         /\ u.createRequest \in Nat /\ u.lifeRequest \in Nat /\ u.memberRead \in Nat /\ u.memberSearch \in Nat
         /\ u.out \in Seq(Commands)
  BY DEF Uis

LEMMA PushTyped ==
  ASSUME NEW u \in Uis, NEW c \in Commands
  PROVE  Push(u, c) \in Uis
<1>1. u.out \in Seq(Commands)
  BY DEF Uis
<1>2. Append(u.out, c) \in Seq(Commands)
  BY <1>1
<1>3. \A q \in Seq(Commands) : [u EXCEPT !.out = q] \in Uis
  BY DEF Uis
<1> QED
  BY <1>2, <1>3 DEF Push

\* The record with another form.
LEMMA FormTyped ==
  ASSUME NEW u \in Uis, NEW f \in Forms
  PROVE  [u EXCEPT !.form = f] \in Uis
  BY DEF Uis

LEMMA SetStateForm ==
  ASSUME NEW u \in Uis, NEW kind \in {"create", "edit", "archive"}, NEW state \in States
  PROVE  \E f \in Forms : /\ SetState(u, kind, state) = [u EXCEPT !.form = f]
                          /\ f.kind = u.form.kind
                          /\ f.kind = "members" => f = u.form
<1>1. u = [u EXCEPT !.form = u.form] /\ u.form \in Forms
  BY DEF Uis
<1>2. CASE Showing(u, kind)
  <2> DEFINE f == [u.form EXCEPT !.state = state]
  <2>1. SetState(u, kind, state) = [u EXCEPT !.form = f]
    BY <1>2 DEF SetState
  <2>2. f \in Forms /\ f.kind = u.form.kind /\ f.kind # "members"
    BY <1>1, <1>2, FormKinds, KindsOfForms DEF Showing, CreateForms, EditForms, ArchiveForms
  <2> QED BY <2>1, <2>2
<1>3. CASE ~Showing(u, kind)
  BY <1>1, <1>3 DEF SetState
<1> QED BY <1>2, <1>3

LEMMA CloseIsForm ==
  ASSUME NEW u \in Uis, NEW kind \in {"create", "edit", "archive"}
  PROVE  \E f \in Forms : /\ Close(u, kind) = [u EXCEPT !.form = f]
                          /\ f.kind = "members" => f = u.form
<1>1. u = [u EXCEPT !.form = u.form] /\ u.form \in Forms
  BY DEF Uis
<1> QED
  BY <1>1 DEF Close, Showing, Forms, NoForm, None

-----------------------------------------------------------------------------
(* Sequences: what joins one, and what remains of it.                       *)

LEMMA Joined ==
  ASSUME NEW S, NEW s \in Seq(S), NEW t \in Seq(S)
  PROVE  /\ s \o t \in Seq(S)
         /\ \A i \in DOMAIN s : i \in DOMAIN (s \o t) /\ (s \o t)[i] = s[i]
         /\ \A j \in DOMAIN t : Len(s) + j \in DOMAIN (s \o t) /\ (s \o t)[Len(s) + j] = t[j]
         /\ \A i \in DOMAIN (s \o t) : \/ i \in DOMAIN s
                                       \/ i - Len(s) \in DOMAIN t /\ i = Len(s) + (i - Len(s))
         /\ \A i \in DOMAIN s : i \in 1..Len(s)
  OBVIOUS

LEMMA Added ==
  ASSUME NEW S, NEW s \in Seq(S), NEW e \in S
  PROVE  /\ Append(s, e) \in Seq(S)
         /\ DOMAIN Append(s, e) = DOMAIN s \cup {Len(s) + 1}
         /\ \A i \in DOMAIN s : Append(s, e)[i] = s[i] /\ i \in Nat /\ i < Len(s) + 1
         /\ Append(s, e)[Len(s) + 1] = e
         /\ Len(s) \in Nat
  OBVIOUS

LEMMA Rest ==
  ASSUME NEW S, NEW s \in Seq(S), s # <<>>
  PROVE  /\ Tail(s) \in Seq(S) /\ Head(s) \in S /\ Head(s) = s[1] /\ 1 \in DOMAIN s
         /\ \A i \in DOMAIN Tail(s) : /\ i \in Nat /\ i + 1 \in DOMAIN s /\ i + 1 > 1
                                      /\ Tail(s)[i] = s[i + 1]
         /\ \A i \in DOMAIN s : i \in Nat /\ (i = 1 \/ (i - 1 \in DOMAIN Tail(s) /\ (i - 1) + 1 = i))
  OBVIOUS
-----------------------------------------------------------------------------
(* The course of a write, as commands and events come and go.               *)

Quiet(q, k) == \A i \in DOMAIN q : ~IsWrite(q[i], k)

\* Commands of other kinds join.
LEMMA CourseJoined ==
  ASSUME NEW k, NEW n \in Nat, NEW m \in Nat, n <= m, NEW cs \in Seq(Commands), NEW q \in Seq(Commands),
         NEW es \in Seq(Events), NEW dn, InCourse(k, n, cs, es, dn), Quiet(q, k)
  PROVE  InCourse(k, m, cs \o q, es, dn)
<1> DEFINE t == cs \o q
<1>1. \A i \in DOMAIN t : IsWrite(t[i], k) => i \in DOMAIN cs /\ t[i] = cs[i]
  BY Joined DEF Quiet
<1>2. 1..n \subseteq 1..m
  OBVIOUS
<1> HIDE DEF t
<1>3. InCourse(k, m, t, es, dn)
  <2>1. \A i \in DOMAIN t : IsWrite(t[i], k) => t[i].request \in 1..m
    BY <1>1, <1>2 DEF InCourse
  <2>2. \A i \in DOMAIN es : IsAnswer(es[i], k) => es[i].request \in 1..m
    BY <1>2 DEF InCourse
  <2>3. \A i, j \in DOMAIN t : i < j /\ IsWrite(t[i], k) /\ IsWrite(t[j], k) => t[i].request < t[j].request
    BY <1>1 DEF InCourse
  <2>4. \A i \in DOMAIN t, j \in DOMAIN es :
          IsWrite(t[i], k) /\ IsAnswer(es[j], k) => es[j].request < t[i].request
    BY <1>1 DEF InCourse
  <2> QED BY <2>1, <2>2, <2>3, <2>4 DEF InCourse
<1> QED BY <1>3 DEF t

\* A new write joins.
LEMMA CourseWrite ==
  ASSUME NEW k, NEW n \in Nat, NEW cs \in Seq(Commands), NEW c \in Commands,
         NEW es \in Seq(Events), NEW dn, InCourse(k, n, cs, es, dn), c.request = n + 1
  PROVE  InCourse(k, n + 1, Append(cs, c), es, dn)
<1> DEFINE t == Append(cs, c)
<1>0. DOMAIN t = DOMAIN cs \cup {Len(cs) + 1} /\ Len(cs) \in Nat
  BY Added
<1>1. \A i \in DOMAIN t : \/ i \in DOMAIN cs /\ t[i] = cs[i] /\ i < Len(cs) + 1 /\ i \in Nat
                          \/ i = Len(cs) + 1 /\ t[i] = c
  BY Added
<1>2. 1..n \subseteq 1..(n + 1) /\ n + 1 \in 1..(n + 1)
  OBVIOUS
<1>3. \A m \in 1..n : m < n + 1
  OBVIOUS
<1> HIDE DEF t
<1>4. InCourse(k, n + 1, t, es, dn)
  <2>1. \A i \in DOMAIN t : IsWrite(t[i], k) => t[i].request \in 1..(n + 1)
    BY <1>1, <1>2 DEF InCourse
  <2>2. \A i \in DOMAIN es : IsAnswer(es[i], k) => es[i].request \in 1..(n + 1)
    BY <1>2 DEF InCourse
  <2>3. \A i, j \in DOMAIN t : i < j /\ IsWrite(t[i], k) /\ IsWrite(t[j], k) => t[i].request < t[j].request
    <3> SUFFICES ASSUME NEW i \in DOMAIN t, NEW j \in DOMAIN t, i < j, IsWrite(t[i], k), IsWrite(t[j], k)
                 PROVE  t[i].request < t[j].request
      OBVIOUS
    <3>1. i \in DOMAIN cs /\ t[i] = cs[i] /\ i \in Nat
      BY <1>0, <1>1
    <3> QED BY <3>1, <1>1, <1>3 DEF InCourse
  <2>4. \A i \in DOMAIN t, j \in DOMAIN es :
          IsWrite(t[i], k) /\ IsAnswer(es[j], k) => es[j].request < t[i].request
    BY <1>1, <1>3 DEF InCourse
  <2> QED BY <2>1, <2>2, <2>3, <2>4 DEF InCourse
<1> QED BY <1>4 DEF t

\* An event is applied, a command is taken.
LEMMA CourseApplied ==
  ASSUME NEW k, NEW n \in Nat, NEW cs \in Seq(Commands), NEW es \in Seq(Events), es # <<>>, NEW dn,
         InCourse(k, n, cs, es, dn)
  PROVE  InCourse(k, n, cs, Tail(es), dn)
<1> DEFINE t == Tail(es)
<1>1. \A i \in DOMAIN t : i \in Nat /\ i + 1 \in DOMAIN es /\ t[i] = es[i + 1]
  BY Rest
<1>2. \A i, j \in Nat : i < j => i + 1 < j + 1
  OBVIOUS
<1> HIDE DEF t
<1> QED BY <1>1, <1>2 DEF InCourse, t

LEMMA CourseTaken ==
  ASSUME NEW k, NEW n \in Nat, NEW cs \in Seq(Commands), NEW es \in Seq(Events), cs # <<>>, NEW dn,
         InCourse(k, n, cs, es, dn)
  PROVE  InCourse(k, n, Tail(cs), es, dn)
<1> DEFINE t == Tail(cs)
<1>1. \A i \in DOMAIN t : i \in Nat /\ i + 1 \in DOMAIN cs /\ t[i] = cs[i + 1]
  BY Rest
<1>2. \A i, j \in Nat : i < j => i + 1 < j + 1
  OBVIOUS
<1> HIDE DEF t
<1> QED BY <1>1, <1>2 DEF InCourse, t

LEMMA CourseDone ==
  ASSUME NEW k, NEW n, NEW cs, NEW es, NEW dn, NEW dn2, InCourse(k, n, cs, es, dn), dn \subseteq dn2
  PROVE  InCourse(k, n, cs, es, dn2)
  BY DEF InCourse

\* An event that answers no write of the kind joins; a roster has seen what is done.
Fresh(e, dn) == e.kind = "Channels" => dn \subseteq e.after

LEMMA CourseEvent ==
  ASSUME NEW k, NEW n \in Nat, NEW cs \in Seq(Commands), NEW es \in Seq(Events), NEW e \in Events, NEW dn,
         InCourse(k, n, cs, es, dn), ~IsAnswer(e, k), Fresh(e, dn)
  PROVE  InCourse(k, n, cs, Append(es, e), dn)
<1> DEFINE t == Append(es, e)
<1>1. \A i \in DOMAIN t : \/ i \in DOMAIN es /\ t[i] = es[i]
                          \/ i = Len(es) + 1 /\ t[i] = e
  BY Added
<1> HIDE DEF t
<1>2. \A i \in DOMAIN t : IsAnswer(t[i], k) => i \in DOMAIN es /\ t[i] = es[i]
  BY <1>1
<1>3. \A i \in DOMAIN t : IsAnswer(t[i], k) =>
        /\ TagOf(k, t[i].request) \in dn
        /\ \A j \in DOMAIN t : i < j => ReadSince(t[j], k, t[i].request)
  <2> SUFFICES ASSUME NEW i \in DOMAIN t, IsAnswer(t[i], k)
               PROVE  /\ TagOf(k, t[i].request) \in dn
                      /\ \A j \in DOMAIN t : i < j => ReadSince(t[j], k, t[i].request)
    OBVIOUS
  <2>1. i \in DOMAIN es /\ t[i] = es[i]
    BY <1>2
  <2>2. TagOf(k, t[i].request) \in dn /\ \A j \in DOMAIN es : i < j => ReadSince(es[j], k, t[i].request)
    BY <2>1 DEF InCourse
  <2>3. ReadSince(e, k, t[i].request)
    BY <2>2 DEF ReadSince, Fresh
  <2> QED BY <1>1, <2>2, <2>3
<1> QED BY <1>2, <1>3 DEF InCourse, t

\* The first command is a write of the kind; it is done and its answer joins.
LEMMA CourseAnswered ==
  ASSUME NEW k, NEW n \in Nat, NEW cs \in Seq(Commands), NEW es \in Seq(Events), cs # <<>>, NEW e \in Events,
         NEW dn, InCourse(k, n, cs, es, dn), IsWrite(Head(cs), k), IsAnswer(e, k), e.kind # "Channels",
         e.request = Head(cs).request
  PROVE  InCourse(k, n, Tail(cs), Append(es, e), dn \cup {TagOf(k, e.request)})
<1> DEFINE t == Append(es, e)
           d == Tail(cs)
           dn2 == dn \cup {TagOf(k, e.request)}
<1>1. \A i \in DOMAIN t : \/ i \in DOMAIN es /\ t[i] = es[i] /\ i \in Nat /\ i < Len(es) + 1
                          \/ i = Len(es) + 1 /\ t[i] = e
  BY Added
<1>0. Len(es) + 1 \in Nat
  OBVIOUS
<1>2. \A i \in DOMAIN d : i \in Nat /\ i + 1 \in DOMAIN cs /\ d[i] = cs[i + 1] /\ 1 < i + 1
  BY Rest
<1>3. Head(cs) = cs[1] /\ 1 \in DOMAIN cs
  BY Rest
<1> HIDE DEF t, d, dn2
<1>4. e.request \in 1..n
  BY <1>3 DEF InCourse
<1>5. \A i \in DOMAIN d : IsWrite(d[i], k) => d[i].request \in 1..n /\ e.request < d[i].request
  BY <1>2, <1>3 DEF InCourse
<1>6. \A j \in DOMAIN es : IsAnswer(es[j], k) => es[j].request \in 1..n /\ es[j].request < e.request
  BY <1>3 DEF InCourse
<1>7. \A i, j \in DOMAIN d : i < j /\ IsWrite(d[i], k) /\ IsWrite(d[j], k) => d[i].request < d[j].request
  <2> SUFFICES ASSUME NEW i \in DOMAIN d, NEW j \in DOMAIN d, i < j, IsWrite(d[i], k), IsWrite(d[j], k)
               PROVE  d[i].request < d[j].request
    OBVIOUS
  <2>1. i + 1 < j + 1
    BY <1>2
  <2> QED BY <2>1, <1>2 DEF InCourse
<1>8. \A i \in DOMAIN t : IsAnswer(t[i], k) => t[i].request \in 1..n
  BY <1>1, <1>4, <1>6
<1>9. \A i, j \in DOMAIN t : i < j /\ IsAnswer(t[i], k) /\ IsAnswer(t[j], k) => t[i].request < t[j].request
  <2> SUFFICES ASSUME NEW i \in DOMAIN t, NEW j \in DOMAIN t, i < j, IsAnswer(t[i], k), IsAnswer(t[j], k)
               PROVE  t[i].request < t[j].request
    OBVIOUS
  <2>1. i \in DOMAIN es /\ t[i] = es[i]
    BY <1>0, <1>1
  <2>2. CASE j \in DOMAIN es /\ t[j] = es[j]
    BY <2>1, <2>2 DEF InCourse
  <2>3. CASE t[j] = e
    BY <2>1, <2>3, <1>6
  <2> QED BY <1>1, <2>2, <2>3
<1>10. \A i \in DOMAIN d, j \in DOMAIN t :
         IsWrite(d[i], k) /\ IsAnswer(t[j], k) => t[j].request < d[i].request
  <2> SUFFICES ASSUME NEW i \in DOMAIN d, NEW j \in DOMAIN t, IsWrite(d[i], k), IsAnswer(t[j], k)
               PROVE  t[j].request < d[i].request
    OBVIOUS
  <2>1. CASE t[j] = e
    BY <2>1, <1>5
  <2>2. CASE j \in DOMAIN es /\ t[j] = es[j]
    BY <2>2, <1>2 DEF InCourse
  <2> QED BY <1>1, <2>1, <2>2
<1>11. \A i \in DOMAIN t : IsAnswer(t[i], k) =>
         /\ TagOf(k, t[i].request) \in dn2
         /\ \A j \in DOMAIN t : i < j => ReadSince(t[j], k, t[i].request)
  <2> SUFFICES ASSUME NEW i \in DOMAIN t, IsAnswer(t[i], k)
               PROVE  /\ TagOf(k, t[i].request) \in dn2
                      /\ \A j \in DOMAIN t : i < j => ReadSince(t[j], k, t[i].request)
    OBVIOUS
  <2>1. \A r : ReadSince(e, k, r)
    BY DEF ReadSince
  <2>2. CASE i = Len(es) + 1 /\ t[i] = e
    <3>1. \A j \in DOMAIN t : ~(i < j)
      BY <2>2, <1>0, <1>1
    <3> QED BY <3>1, <2>2 DEF dn2
  <2>3. CASE i \in DOMAIN es /\ t[i] = es[i]
    <3>1. TagOf(k, t[i].request) \in dn /\ \A j \in DOMAIN es : i < j => ReadSince(es[j], k, t[i].request)
      BY <2>3 DEF InCourse
    <3> QED BY <3>1, <2>1, <1>1 DEF dn2
  <2> QED BY <1>1, <2>2, <2>3
<1>12. InCourse(k, n, d, t, dn2)
  BY <1>5, <1>7, <1>8, <1>9, <1>10, <1>11 DEF InCourse
<1> QED BY <1>12 DEF d, t, dn2

\* The first event answers a write: nothing of the write is under way any more.
LEMMA CourseHead ==
  ASSUME NEW k, NEW n \in Nat, NEW cs \in Seq(Commands), NEW es \in Seq(Events), es # <<>>, NEW dn,
         InCourse(k, n, cs, es, dn), IsAnswer(Head(es), k)
  PROVE  /\ Head(es).request \in 1..n
         /\ TagOf(k, Head(es).request) \in dn
         /\ UnderWay(k, Head(es).request, cs, es)
         /\ ~UnderWay(k, Head(es).request, cs, Tail(es))
         /\ \A i \in DOMAIN Tail(es) : ReadSince(Tail(es)[i], k, Head(es).request)
<1> DEFINE t == Tail(es)
           m == Head(es).request
<1>1. \A i \in DOMAIN t : i \in Nat /\ i + 1 \in DOMAIN es /\ t[i] = es[i + 1] /\ 1 < i + 1
  BY Rest
<1>2. Head(es) = es[1] /\ 1 \in DOMAIN es
  BY Rest
<1>3. m \in 1..n /\ TagOf(k, m) \in dn /\ UnderWay(k, m, cs, es)
  BY <1>2 DEF InCourse, UnderWay
<1> HIDE DEF t
<1>4. \A i \in DOMAIN t : IsAnswer(t[i], k) => t[i].request # m /\ t[i].request \in 1..n
  <2> SUFFICES ASSUME NEW i \in DOMAIN t, IsAnswer(t[i], k)
               PROVE  t[i].request # m /\ t[i].request \in 1..n
    OBVIOUS
  <2>1. es[1].request < es[i + 1].request /\ es[i + 1].request \in 1..n
    BY <1>1, <1>2 DEF InCourse
  <2> QED BY <2>1, <1>1, <1>2, <1>3
<1>5. \A i \in DOMAIN cs : IsWrite(cs[i], k) => cs[i].request # m
  BY <1>2, <1>3 DEF InCourse
<1>6. \A i \in DOMAIN t : ReadSince(t[i], k, m)
  BY <1>1, <1>2 DEF InCourse
<1> QED BY <1>3, <1>4, <1>5, <1>6 DEF UnderWay, t
-----------------------------------------------------------------------------
(* What the record of a write says, as commands and events come and go.     *)

LEMMA UnderWayJoined ==
  ASSUME NEW k, NEW r, NEW cs \in Seq(Commands), NEW q \in Seq(Commands), NEW es, Quiet(q, k)
  PROVE  UnderWay(k, r, cs \o q, es) <=> UnderWay(k, r, cs, es)
<1> DEFINE t == cs \o q
<1>1. \A i \in DOMAIN t : IsWrite(t[i], k) => i \in DOMAIN cs /\ t[i] = cs[i]
  BY Joined DEF Quiet
<1>2. \A i \in DOMAIN cs : i \in DOMAIN t /\ t[i] = cs[i]
  BY Joined
<1> HIDE DEF t
<1> QED BY <1>1, <1>2 DEF UnderWay, t

LEMMA UnderWayApplied ==
  ASSUME NEW k, NEW r, NEW cs, NEW es \in Seq(Events), es # <<>>,
         ~(IsAnswer(Head(es), k) /\ Head(es).request = r)
  PROVE  UnderWay(k, r, cs, Tail(es)) <=> UnderWay(k, r, cs, es)
<1> DEFINE t == Tail(es)
<1>1. \A i \in DOMAIN t : i + 1 \in DOMAIN es /\ t[i] = es[i + 1]
  BY Rest
<1>2. \A i \in DOMAIN es : i = 1 \/ (i - 1 \in DOMAIN t /\ t[i - 1] = es[i])
  BY Rest
<1>3. Head(es) = es[1]
  BY Rest
<1> HIDE DEF t
<1>4. UnderWay(k, r, cs, t) => UnderWay(k, r, cs, es)
  BY <1>1 DEF UnderWay
<1>5. ASSUME NEW i \in DOMAIN es, IsAnswer(es[i], k), es[i].request = r
      PROVE  \E j \in DOMAIN t : IsAnswer(t[j], k) /\ t[j].request = r
  <2>1. i # 1
    BY <1>3, <1>5
  <2> QED BY <1>2, <1>5, <2>1
<1>6. UnderWay(k, r, cs, es) => UnderWay(k, r, cs, t)
  BY <1>5 DEF UnderWay
<1> QED BY <1>4, <1>6 DEF t

LEMMA UnderWayTaken ==
  ASSUME NEW k, NEW r, NEW cs \in Seq(Commands), NEW es, cs # <<>>,
         ~(IsWrite(Head(cs), k) /\ Head(cs).request = r)
  PROVE  UnderWay(k, r, Tail(cs), es) <=> UnderWay(k, r, cs, es)
<1> DEFINE t == Tail(cs)
<1>1. \A i \in DOMAIN t : i + 1 \in DOMAIN cs /\ t[i] = cs[i + 1]
  BY Rest
<1>2. \A i \in DOMAIN cs : i = 1 \/ (i - 1 \in DOMAIN t /\ t[i - 1] = cs[i])
  BY Rest
<1>3. Head(cs) = cs[1]
  BY Rest
<1> HIDE DEF t
<1>4. UnderWay(k, r, t, es) => UnderWay(k, r, cs, es)
  BY <1>1 DEF UnderWay
<1>5. ASSUME NEW i \in DOMAIN cs, IsWrite(cs[i], k), cs[i].request = r
      PROVE  \E j \in DOMAIN t : IsWrite(t[j], k) /\ t[j].request = r
  <2>1. i # 1
    BY <1>3, <1>5
  <2> QED BY <1>2, <1>5, <2>1
<1>6. UnderWay(k, r, cs, es) => UnderWay(k, r, t, es)
  BY <1>5 DEF UnderWay
<1> QED BY <1>4, <1>6 DEF t

LEMMA UnderWayEvent ==
  ASSUME NEW k, NEW r, NEW cs, NEW es \in Seq(Events), NEW e \in Events,
         ~(IsAnswer(e, k) /\ e.request = r)
  PROVE  UnderWay(k, r, cs, Append(es, e)) <=> UnderWay(k, r, cs, es)
<1> DEFINE t == Append(es, e)
<1>1. \A i \in DOMAIN t : (i \in DOMAIN es /\ t[i] = es[i]) \/ t[i] = e
  BY Added
<1>2. \A i \in DOMAIN es : i \in DOMAIN t /\ t[i] = es[i]
  BY Added
<1> HIDE DEF t
<1> QED BY <1>1, <1>2 DEF UnderWay, t

LEMMA UnderWayAnswered ==
  ASSUME NEW k, NEW r, NEW cs \in Seq(Commands), NEW es \in Seq(Events), cs # <<>>, NEW e \in Events,
         IsWrite(Head(cs), k), IsAnswer(e, k), e.request = Head(cs).request
  PROVE  UnderWay(k, r, Tail(cs), Append(es, e)) <=> UnderWay(k, r, cs, es)
<1>1. CASE e.request # r
  BY <1>1, UnderWayTaken, UnderWayEvent
<1>2. CASE e.request = r
  <2>1. UnderWay(k, r, cs, es)
    BY <1>2, Rest DEF UnderWay
  <2>2. Append(es, e)[Len(es) + 1] = e /\ Len(es) + 1 \in DOMAIN Append(es, e)
    BY Added
  <2>3. UnderWay(k, r, Tail(cs), Append(es, e))
    BY <2>2, <1>2 DEF UnderWay
  <2> QED BY <2>1, <2>3
<1> QED BY <1>1, <1>2

LEMMA RecordedJoined ==
  ASSUME NEW k, NEW w, NEW n \in Nat, NEW m \in Nat, n <= m, NEW cs \in Seq(Commands), NEW q \in Seq(Commands),
         NEW es \in Seq(Events), NEW dn, Recorded(k, w, n, cs, es, dn), Quiet(q, k)
  PROVE  Recorded(k, w, m, cs \o q, es, dn)
<1>1. 1..n \subseteq 1..m
  OBVIOUS
<1>2. UnderWay(k, w.request, cs \o q, es) <=> UnderWay(k, w.request, cs, es)
  BY UnderWayJoined
<1> QED BY <1>1, <1>2 DEF Recorded

LEMMA RecordedApplied ==
  ASSUME NEW k, NEW w, NEW n \in Nat, NEW cs \in Seq(Commands), NEW es \in Seq(Events), es # <<>>, NEW dn,
         Recorded(k, w, n, cs, es, dn), ~(IsAnswer(Head(es), k) /\ Head(es).request = w.request)
  PROVE  Recorded(k, w, n, cs, Tail(es), dn)
<1>1. UnderWay(k, w.request, cs, Tail(es)) <=> UnderWay(k, w.request, cs, es)
  BY UnderWayApplied
<1>2. \A i \in DOMAIN Tail(es) : i + 1 \in DOMAIN es /\ Tail(es)[i] = es[i + 1]
  BY Rest
<1> QED BY <1>1, <1>2 DEF Recorded

LEMMA RecordedTaken ==
  ASSUME NEW k, NEW w, NEW n \in Nat, NEW cs \in Seq(Commands), NEW es \in Seq(Events), cs # <<>>, NEW dn,
         Recorded(k, w, n, cs, es, dn), ~IsWrite(Head(cs), k)
  PROVE  Recorded(k, w, n, Tail(cs), es, dn)
<1>1. UnderWay(k, w.request, Tail(cs), es) <=> UnderWay(k, w.request, cs, es)
  BY UnderWayTaken
<1> QED BY <1>1 DEF Recorded

LEMMA RecordedDone ==
  ASSUME NEW k, NEW w, NEW n, NEW cs, NEW es, NEW dn, NEW dn2, dn \subseteq dn2, Recorded(k, w, n, cs, es, dn)
  PROVE  Recorded(k, w, n, cs, es, dn2)
  BY DEF Recorded

LEMMA RecordedEvent ==
  ASSUME NEW k, NEW w, NEW n \in Nat, NEW cs \in Seq(Commands), NEW es \in Seq(Events), NEW e \in Events, NEW dn,
         Recorded(k, w, n, cs, es, dn), ~IsAnswer(e, k), Fresh(e, dn)
  PROVE  Recorded(k, w, n, cs, Append(es, e), dn)
<1>1. UnderWay(k, w.request, cs, Append(es, e)) <=> UnderWay(k, w.request, cs, es)
  BY UnderWayEvent
<1>2. \A i \in DOMAIN Append(es, e) :
        (i \in DOMAIN es /\ Append(es, e)[i] = es[i]) \/ Append(es, e)[i] = e
  BY Added
<1>3. TagOf(k, w.request) \in dn => ReadSince(e, k, w.request)
  BY DEF ReadSince, Fresh
<1> QED BY <1>1, <1>2, <1>3 DEF Recorded

LEMMA RecordedAnswered ==
  ASSUME NEW k, NEW w, NEW n \in Nat, NEW cs \in Seq(Commands), NEW es \in Seq(Events), cs # <<>>, NEW e \in Events,
         NEW dn, Recorded(k, w, n, cs, es, dn), IsWrite(Head(cs), k), IsAnswer(e, k), e.kind # "Channels",
         e.request = Head(cs).request
  PROVE  Recorded(k, w, n, Tail(cs), Append(es, e), dn \cup {TagOf(k, e.request)})
<1>1. UnderWay(k, w.request, Tail(cs), Append(es, e)) <=> UnderWay(k, w.request, cs, es)
  BY UnderWayAnswered
<1>2. \A i \in DOMAIN Append(es, e) :
        (i \in DOMAIN es /\ Append(es, e)[i] = es[i]) \/ Append(es, e)[i] = e
  BY Added
<1>3. ReadSince(e, k, w.request)
  BY DEF ReadSince
<1> QED BY <1>1, <1>2, <1>3 DEF Recorded

\* The answer of the recorded write is applied, and the record kept.
LEMMA RecordedKept ==
  ASSUME NEW k, NEW w, NEW n \in Nat, NEW cs \in Seq(Commands), NEW es \in Seq(Events), es # <<>>, NEW dn,
         InCourse(k, n, cs, es, dn), IsAnswer(Head(es), k), Head(es).request = w.request, w.state # "creating"
  PROVE  Recorded(k, w, n, cs, Tail(es), dn)
  BY CourseHead DEF Recorded

\* A write that was just submitted.
LEMMA RecordedWrite ==
  ASSUME NEW k, NEW w, NEW n \in Nat, NEW cs \in Seq(Commands), NEW c \in Commands, NEW es, NEW dn,
         w.request = n + 1, w.state = "creating", IsWrite(c, k), c.request = n + 1
  PROVE  Recorded(k, w, n + 1, Append(cs, c), es, dn)
<1>1. Append(cs, c)[Len(cs) + 1] = c /\ Len(cs) + 1 \in DOMAIN Append(cs, c)
  BY Added
<1>2. UnderWay(k, w.request, Append(cs, c), es)
  BY <1>1 DEF UnderWay
<1>3. n + 1 \in 1..(n + 1)
  OBVIOUS
<1> QED BY <1>2, <1>3 DEF Recorded

LEMMA RecordedNone ==
  ASSUME NEW k, NEW n, NEW cs, NEW es, NEW dn
  PROVE  Recorded(k, NoWrite, n, cs, es, dn) /\ SameChannel(k, NoWrite, cs, es)
  BY DEF Recorded, SameChannel, IsOpen, NoWrite
-----------------------------------------------------------------------------
(* The channel of what is under way.                                        *)

LEMMA ChannelJoined ==
  ASSUME NEW k, NEW w, NEW cs \in Seq(Commands), NEW q \in Seq(Commands), NEW es, SameChannel(k, w, cs, es),
         Quiet(q, k)
  PROVE  SameChannel(k, w, cs \o q, es)
<1> DEFINE t == cs \o q
<1>1. \A i \in DOMAIN t : IsWrite(t[i], k) => i \in DOMAIN cs /\ t[i] = cs[i]
  BY Joined DEF Quiet
<1> HIDE DEF t
<1> QED BY <1>1 DEF SameChannel, t

LEMMA ChannelApplied ==
  ASSUME NEW k, NEW w, NEW v, v.request = w.request, v.channel = w.channel,
         NEW cs, NEW es \in Seq(Events), es # <<>>, SameChannel(k, w, cs, es)
  PROVE  SameChannel(k, v, cs, Tail(es))
<1>1. \A i \in DOMAIN Tail(es) : i + 1 \in DOMAIN es /\ Tail(es)[i] = es[i + 1]
  BY Rest
<1> QED BY <1>1 DEF SameChannel, IsOpen

LEMMA ChannelTaken ==
  ASSUME NEW k, NEW w, NEW cs \in Seq(Commands), NEW es, cs # <<>>, SameChannel(k, w, cs, es)
  PROVE  SameChannel(k, w, Tail(cs), es)
<1>1. \A i \in DOMAIN Tail(cs) : i + 1 \in DOMAIN cs /\ Tail(cs)[i] = cs[i + 1]
  BY Rest
<1> QED BY <1>1 DEF SameChannel

LEMMA ChannelEvent ==
  ASSUME NEW k, NEW w, NEW cs, NEW es \in Seq(Events), NEW e \in Events, SameChannel(k, w, cs, es),
         IsOpen(w) /\ IsAnswer(e, k) /\ e.request = w.request => e.channel = w.channel
  PROVE  SameChannel(k, w, cs, Append(es, e))
<1>1. \A i \in DOMAIN Append(es, e) :
        (i \in DOMAIN es /\ Append(es, e)[i] = es[i]) \/ Append(es, e)[i] = e
  BY Added
<1> QED BY <1>1 DEF SameChannel

LEMMA ChannelWrite ==
  ASSUME NEW k, NEW w, NEW n \in Nat, NEW cs \in Seq(Commands), NEW c \in Commands, NEW es \in Seq(Events),
         NEW dn, InCourse(k, n, cs, es, dn), w.request = n + 1, c.channel = w.channel
  PROVE  SameChannel(k, w, Append(cs, c), es)
<1>1. \A i \in DOMAIN Append(cs, c) :
        (i \in DOMAIN cs /\ Append(cs, c)[i] = cs[i]) \/ Append(cs, c)[i] = c
  BY Added
<1>2. \A m \in 1..n : m # n + 1
  OBVIOUS
<1> QED BY <1>1, <1>2 DEF SameChannel, InCourse
-----------------------------------------------------------------------------
(* All that is known of one kind of change.                                 *)

LEMMA ChangedJoined ==
  ASSUME NEW k, NEW w, NEW n \in Nat, NEW m \in Nat, n <= m, NEW cs \in Seq(Commands), NEW q \in Seq(Commands),
         NEW es \in Seq(Events), NEW dn, Changed(k, w, n, cs, es, dn), Quiet(q, k)
  PROVE  Changed(k, w, m, cs \o q, es, dn)
  BY CourseJoined, RecordedJoined, ChannelJoined DEF Changed

LEMMA ChangedWrite ==
  ASSUME NEW k, NEW w, NEW v, NEW n \in Nat, NEW cs \in Seq(Commands), NEW c \in Commands,
         NEW es \in Seq(Events), NEW dn, Changed(k, w, n, cs, es, dn),
         v.request = n + 1, v.state = "creating", IsWrite(c, k), c.request = n + 1, c.channel = v.channel
  PROVE  Changed(k, v, n + 1, Append(cs, c), es, dn)
  BY CourseWrite, RecordedWrite, ChannelWrite DEF Changed

LEMMA ChangedApplied ==
  ASSUME NEW k, NEW w, NEW n \in Nat, NEW cs \in Seq(Commands), NEW es \in Seq(Events), es # <<>>, NEW dn,
         Changed(k, w, n, cs, es, dn), ~(IsAnswer(Head(es), k) /\ Head(es).request = w.request)
  PROVE  Changed(k, w, n, cs, Tail(es), dn)
  BY CourseApplied, RecordedApplied, ChannelApplied DEF Changed

LEMMA ChangedKept ==
  ASSUME NEW k, NEW w, NEW v, NEW n \in Nat, NEW cs \in Seq(Commands), NEW es \in Seq(Events), es # <<>>, NEW dn,
         Changed(k, w, n, cs, es, dn), IsAnswer(Head(es), k), Head(es).request = w.request,
         v.request = w.request, v.channel = w.channel, v.state # "creating"
  PROVE  Changed(k, v, n, cs, Tail(es), dn)
<1>1. InCourse(k, n, cs, Tail(es), dn)
  BY CourseApplied DEF Changed
<1>2. Recorded(k, v, n, cs, Tail(es), dn)
  BY RecordedKept DEF Changed
<1>3. SameChannel(k, v, cs, Tail(es))
  BY ChannelApplied DEF Changed
<1> QED BY <1>1, <1>2, <1>3 DEF Changed

LEMMA ChangedClosed ==
  ASSUME NEW k, NEW w, NEW n \in Nat, NEW cs \in Seq(Commands), NEW es \in Seq(Events), NEW dn,
         Changed(k, w, n, cs, es, dn)
  PROVE  Changed(k, NoWrite, n, cs, es, dn) /\ (es # <<>> => Changed(k, NoWrite, n, cs, Tail(es), dn))
  BY CourseApplied, RecordedNone DEF Changed

LEMMA ChangedTaken ==
  ASSUME NEW k, NEW w, NEW n \in Nat, NEW cs \in Seq(Commands), NEW es \in Seq(Events), cs # <<>>, NEW dn,
         Changed(k, w, n, cs, es, dn), ~IsWrite(Head(cs), k)
  PROVE  Changed(k, w, n, Tail(cs), es, dn)
  BY CourseTaken, RecordedTaken, ChannelTaken DEF Changed

LEMMA ChangedDone ==
  ASSUME NEW k, NEW w, NEW n, NEW cs, NEW es, NEW dn, NEW dn2, dn \subseteq dn2, Changed(k, w, n, cs, es, dn)
  PROVE  Changed(k, w, n, cs, es, dn2)
  BY CourseDone, RecordedDone DEF Changed

LEMMA ChangedEvent ==
  ASSUME NEW k, NEW w, NEW n \in Nat, NEW cs \in Seq(Commands), NEW es \in Seq(Events), NEW e \in Events, NEW dn,
         Changed(k, w, n, cs, es, dn), ~IsAnswer(e, k), Fresh(e, dn)
  PROVE  Changed(k, w, n, cs, Append(es, e), dn)
  BY CourseEvent, RecordedEvent, ChannelEvent DEF Changed

LEMMA ChangedAnswered ==
  ASSUME NEW k, NEW w, NEW n \in Nat, NEW cs \in Seq(Commands), NEW es \in Seq(Events), cs # <<>>, NEW e \in Events,
         NEW dn, Changed(k, w, n, cs, es, dn), IsWrite(Head(cs), k), IsAnswer(e, k), e.kind # "Channels",
         e.request = Head(cs).request, e.channel = Head(cs).channel
  PROVE  Changed(k, w, n, Tail(cs), Append(es, e), dn \cup {TagOf(k, e.request)})
<1>1. InCourse(k, n, Tail(cs), Append(es, e), dn \cup {TagOf(k, e.request)})
  BY CourseAnswered DEF Changed
<1>2. Recorded(k, w, n, Tail(cs), Append(es, e), dn \cup {TagOf(k, e.request)})
  BY RecordedAnswered DEF Changed
<1>3. SameChannel(k, w, Tail(cs), es)
  BY ChannelTaken DEF Changed
<1>4. IsOpen(w) /\ e.request = w.request => e.channel = w.channel
  BY Rest DEF Changed, SameChannel
<1>5. SameChannel(k, w, Tail(cs), Append(es, e))
  BY <1>3, <1>4, ChannelEvent
<1> QED BY <1>1, <1>2, <1>5 DEF Changed
-----------------------------------------------------------------------------
(* All that is known of a creation.                                         *)

LEMMA CreationsJoined ==
  ASSUME NEW u, NEW v, v.create = u.create, v.createRequest = u.createRequest, u.createRequest \in Nat,
         NEW cs \in Seq(Commands), NEW q \in Seq(Commands), NEW es \in Seq(Events), NEW dn,
         Creations(u, cs, es, dn), Quiet(q, "Create")
  PROVE  Creations(v, cs \o q, es, dn)
<1> DEFINE t == cs \o q
<1>1. \A i \in DOMAIN t : IsWrite(t[i], "Create") => i \in DOMAIN cs /\ t[i] = cs[i]
  BY Joined DEF Quiet
<1>2. InCourse("Create", v.createRequest, t, es, dn) /\ Recorded("Create", v.create, v.createRequest, t, es, dn)
  BY CourseJoined, RecordedJoined DEF Creations
<1> HIDE DEF t
<1>3. Creating(v.create, t, es)
  BY <1>1 DEF Creations, Creating, IsWrite
<1> QED BY <1>2, <1>3 DEF Creations, t

LEMMA CreationsWrite ==
  ASSUME NEW u, NEW v, u.createRequest \in Nat, v.createRequest = u.createRequest + 1, ~IsOpen(u.create),
         v.create.request = u.createRequest + 1, v.create.id = None, v.create.state = "creating",
         NEW cs \in Seq(Commands), NEW c \in Commands, c.kind = "Create", c.request = u.createRequest + 1,
         NEW es \in Seq(Events), NEW dn, Creations(u, cs, es, dn)
  PROVE  Creations(v, Append(cs, c), es, dn)
<1> DEFINE t == Append(cs, c)
<1>1. \A i \in DOMAIN t : (i \in DOMAIN cs /\ t[i] = cs[i]) \/ t[i] = c
  BY Added
<1>2. InCourse("Create", v.createRequest, t, es, dn)
  BY CourseWrite DEF Creations
<1>3. Recorded("Create", v.create, v.createRequest, t, es, dn)
  BY RecordedWrite DEF IsWrite
<1>4. IsOpen(v.create)
  BY DEF IsOpen
<1> HIDE DEF t
<1>5. Creating(v.create, t, es)
  BY <1>1, <1>4 DEF Creations, Creating
<1> QED BY <1>2, <1>3, <1>5 DEF Creations, t

LEMMA CreationsApplied ==
  ASSUME NEW u, NEW v, v.create = u.create, v.createRequest = u.createRequest, u.createRequest \in Nat,
         NEW cs \in Seq(Commands), NEW es \in Seq(Events), es # <<>>, NEW dn,
         Creations(u, cs, es, dn), Head(es).kind # "Created"
  PROVE  Creations(v, cs, Tail(es), dn)
<1>1. \A i \in DOMAIN Tail(es) : i + 1 \in DOMAIN es /\ Tail(es)[i] = es[i + 1]
  BY Rest
<1>2. InCourse("Create", v.createRequest, cs, Tail(es), dn)
  BY CourseApplied DEF Creations
<1>3. Recorded("Create", v.create, v.createRequest, cs, Tail(es), dn)
  BY RecordedApplied DEF Creations, IsAnswer
<1>4. Creating(v.create, cs, Tail(es))
  BY <1>1 DEF Creations, Creating
<1> QED BY <1>2, <1>3, <1>4 DEF Creations

\* The answer of a creation: it was the only one under way.
LEMMA CreationsHead ==
  ASSUME NEW u, u.createRequest \in Nat, NEW cs \in Seq(Commands), NEW es \in Seq(Events), es # <<>>, NEW dn,
         Creations(u, cs, es, dn), Head(es).kind = "Created"
  PROVE  /\ IsOpen(u.create) /\ Head(es).request = u.create.request
         /\ u.create.id = None /\ u.create.state = "creating"
         /\ \A i \in DOMAIN cs : cs[i].kind # "Create"
         /\ \A i \in DOMAIN Tail(es) : Tail(es)[i].kind # "Created"
<1>1. \A i \in DOMAIN Tail(es) : i + 1 \in DOMAIN es /\ Tail(es)[i] = es[i + 1]
  BY Rest
<1>2. Head(es) = es[1] /\ 1 \in DOMAIN es
  BY Rest
<1>3. IsOpen(u.create) /\ Head(es).request = u.create.request
  BY <1>2 DEF Creations, Creating
<1>4. IsAnswer(Head(es), "Create")
  BY DEF IsAnswer
<1>5. UnderWay("Create", u.create.request, cs, es) /\ ~UnderWay("Create", u.create.request, cs, Tail(es))
  BY <1>3, <1>4, CourseHead DEF Creations
<1>6. u.create.state = "creating" /\ u.create.id = None
  BY <1>3, <1>5 DEF Creations, Recorded, Creating
<1>7. \A i \in DOMAIN cs : cs[i].kind # "Create"
  BY <1>5 DEF UnderWay, IsWrite, Creations, Creating
<1>8. \A i \in DOMAIN Tail(es) : Tail(es)[i].kind # "Created"
  BY <1>5, <1>1 DEF UnderWay, IsAnswer, Creations, Creating
<1> QED BY <1>3, <1>6, <1>7, <1>8

LEMMA CreationsKept ==
  ASSUME NEW u, NEW v, v.createRequest = u.createRequest, u.createRequest \in Nat,
         NEW cs \in Seq(Commands), NEW es \in Seq(Events), es # <<>>, NEW dn,
         Creations(u, cs, es, dn), Head(es).kind = "Created",
         \/ v.create = NoWrite
         \/ v.create.request = u.create.request /\ v.create.id # None /\ v.create.state # "creating"
  PROVE  Creations(v, cs, Tail(es), dn)
<1>1. InCourse("Create", v.createRequest, cs, Tail(es), dn)
  BY CourseApplied DEF Creations
<1>2. Recorded("Create", v.create, v.createRequest, cs, Tail(es), dn)
  <2>1. CASE v.create = NoWrite
    BY <2>1, RecordedNone
  <2>2. CASE v.create.request = u.create.request /\ v.create.id # None /\ v.create.state # "creating"
    BY <2>2, RecordedKept, CreationsHead DEF Creations, IsAnswer
  <2> QED BY <2>1, <2>2
<1>3. Creating(v.create, cs, Tail(es))
  BY CreationsHead DEF Creating, NoWrite, IsOpen
<1> QED BY <1>1, <1>2, <1>3 DEF Creations

\* A creation that was answered is closed.
LEMMA CreationsClosed ==
  ASSUME NEW u, NEW v, v.createRequest = u.createRequest, u.createRequest \in Nat,
         NEW cs \in Seq(Commands), NEW es \in Seq(Events), NEW dn,
         Creations(u, cs, es, dn), IsOpen(u.create), u.create.id # None, v.create = NoWrite
  PROVE  Creations(v, cs, es, dn)
<1>1. ~UnderWay("Create", u.create.request, cs, es)
  BY DEF Creations, Recorded, Creating
<1>2. Creating(v.create, cs, es)
  BY <1>1 DEF Creations, Creating, UnderWay, IsWrite, IsAnswer, NoWrite, IsOpen
<1> QED BY <1>2, RecordedNone DEF Creations

LEMMA CreationsTaken ==
  ASSUME NEW u, u.createRequest \in Nat, NEW cs \in Seq(Commands), NEW es \in Seq(Events), cs # <<>>, NEW dn,
         Creations(u, cs, es, dn), Head(cs).kind # "Create"
  PROVE  Creations(u, Tail(cs), es, dn)
<1>1. \A i \in DOMAIN Tail(cs) : i + 1 \in DOMAIN cs /\ Tail(cs)[i] = cs[i + 1]
  BY Rest
<1> QED BY <1>1, CourseTaken, RecordedTaken DEF Creations, Creating, IsWrite

LEMMA CreationsDone ==
  ASSUME NEW u, NEW cs, NEW es, NEW dn, NEW dn2, dn \subseteq dn2, Creations(u, cs, es, dn)
  PROVE  Creations(u, cs, es, dn2)
  BY CourseDone, RecordedDone DEF Creations

LEMMA CreationsEvent ==
  ASSUME NEW u, u.createRequest \in Nat, NEW cs \in Seq(Commands), NEW es \in Seq(Events), NEW e \in Events, NEW dn,
         Creations(u, cs, es, dn), e.kind # "Created", Fresh(e, dn)
  PROVE  Creations(u, cs, Append(es, e), dn)
<1>1. \A i \in DOMAIN Append(es, e) :
        (i \in DOMAIN es /\ Append(es, e)[i] = es[i]) \/ Append(es, e)[i] = e
  BY Added
<1> QED BY <1>1, CourseEvent, RecordedEvent DEF Creations, Creating, IsAnswer

LEMMA CreationsAnswered ==
  ASSUME NEW u, u.createRequest \in Nat, NEW cs \in Seq(Commands), NEW es \in Seq(Events), cs # <<>>,
         NEW e \in Events, NEW dn, Creations(u, cs, es, dn),
         Head(cs).kind = "Create", e.kind = "Created", e.request = Head(cs).request
  PROVE  Creations(u, Tail(cs), Append(es, e), dn \cup {<<"create", e.request>>})
<1>1. IsWrite(Head(cs), "Create") /\ IsAnswer(e, "Create") /\ TagOf("Create", e.request) = <<"create", e.request>>
  BY DEF IsWrite, IsAnswer, TagOf
<1>2. InCourse("Create", u.createRequest, Tail(cs), Append(es, e), dn \cup {<<"create", e.request>>})
  BY <1>1, CourseAnswered DEF Creations
<1>3. Recorded("Create", u.create, u.createRequest, Tail(cs), Append(es, e), dn \cup {<<"create", e.request>>})
  BY <1>1, RecordedAnswered DEF Creations
<1>4. \A i \in DOMAIN Append(es, e) :
        (i \in DOMAIN es /\ Append(es, e)[i] = es[i]) \/ Append(es, e)[i] = e
  BY Added
<1>5. \A i \in DOMAIN Tail(cs) : i + 1 \in DOMAIN cs /\ Tail(cs)[i] = cs[i + 1]
  BY Rest
<1>6. Head(cs) = cs[1] /\ 1 \in DOMAIN cs
  BY Rest
<1>7. Creating(u.create, Tail(cs), Append(es, e))
  BY <1>4, <1>5, <1>6 DEF Creations, Creating
<1> QED BY <1>2, <1>3, <1>7 DEF Creations
-----------------------------------------------------------------------------
(* All that is known of a write to members.                                 *)

NoMembers(q) == \A i \in DOMAIN q : q[i].kind \notin MemberKinds

LEMMA WriteToMembers ==
  ASSUME NEW c \in Commands, c.kind \in MemberKinds
  PROVE  /\ c.channel \in Channels /\ c.request \in Nat
         /\ Targets(c) \subseteq People /\ Targets(c) # {}
<1>1. CASE c.kind = "MemberWrite"
  BY <1>1, CommandKinds DEF MemberCommands, Targets
<1>2. CASE c.kind = "AddMembers"
  <2>1. c.targets \in Seq(People) /\ c.targets # <<>> /\ c.channel \in Channels /\ c.request \in Nat
    BY <1>2, CommandKinds DEF AddCommands, Batches
  <2>2. 1 \in DOMAIN c.targets /\ \A i \in DOMAIN c.targets : c.targets[i] \in People
    BY <2>1
  <2> QED BY <1>2, <2>1, <2>2 DEF Targets, Range
<1> QED BY <1>1, <1>2 DEF MemberKinds

LEMMA BatchFacts ==
  ASSUME NEW b \in AddCommands
  PROVE  /\ b.kind = "AddMembers" /\ b \in Commands
         /\ b.channel \in Channels /\ b.request \in Nat /\ b.role \in Given
         /\ b.targets \in Seq(People) /\ b.targets # <<>> /\ IsInjective(b.targets)
         /\ Head(b.targets) \in People /\ Head(b.targets) \in Range(b.targets)
         /\ Range(b.targets) # {} /\ Range(b.targets) \subseteq People
<1>1. /\ b.kind = "AddMembers" /\ b \in Commands
      /\ b.channel \in Channels /\ b.request \in Nat /\ b.role \in Given
      /\ b.targets \in Seq(People) /\ b.targets # <<>> /\ IsInjective(b.targets)
  BY DEF AddCommands, Commands, Batches
<1>2. 1 \in DOMAIN b.targets /\ Head(b.targets) = b.targets[1] /\ \A i \in DOMAIN b.targets : b.targets[i] \in People
  BY <1>1
<1> QED BY <1>1, <1>2 DEF Range

LEMMA RangeRest ==
  ASSUME NEW S, NEW s \in Seq(S), s # <<>>
  PROVE  Range(s) = {Head(s)} \cup Range(Tail(s))
<1>1. /\ \A i \in DOMAIN Tail(s) : i + 1 \in DOMAIN s /\ Tail(s)[i] = s[i + 1]
      /\ \A i \in DOMAIN s : i = 1 \/ (i - 1 \in DOMAIN Tail(s) /\ (i - 1) + 1 = i)
      /\ Head(s) = s[1] /\ 1 \in DOMAIN s
  BY Rest
<1>2. \A p \in Range(s) : p \in {Head(s)} \cup Range(Tail(s))
  <2> SUFFICES ASSUME NEW i \in DOMAIN s
               PROVE  s[i] \in {Head(s)} \cup Range(Tail(s))
    BY DEF Range
  <2>1. CASE i = 1
    BY <2>1, <1>1
  <2>2. CASE i # 1
    <3>1. i - 1 \in DOMAIN Tail(s) /\ Tail(s)[i - 1] = s[i]
      BY <2>2, <1>1
    <3> QED BY <3>1 DEF Range
  <2> QED BY <2>1, <2>2
<1>3. \A p \in {Head(s)} \cup Range(Tail(s)) : p \in Range(s)
  BY <1>1 DEF Range
<1> QED BY <1>2, <1>3

LEMMA MembersJoined ==
  ASSUME NEW w, NEW n \in Nat, NEW m \in Nat, n <= m, NEW read \in Nat, NEW last \in Nat, read <= last,
         IsOpen(w) => w.readAfter \in Nat,
         NEW cs \in Seq(Commands), NEW q \in Seq(Commands), NEW b, NEW es \in Seq(Events), NEW dn,
         MemberCourse(n, cs, b, es), MemberRecord(w, n, read, cs, b, es, dn), NoMembers(q)
  PROVE  MemberCourse(m, cs \o q, b, es) /\ MemberRecord(w, m, last, cs \o q, b, es, dn)
<1> DEFINE t == cs \o q
<1>1. \A i \in DOMAIN t : t[i].kind \in MemberKinds => i \in DOMAIN cs /\ t[i] = cs[i]
  BY Joined DEF NoMembers
<1>2. \A i \in DOMAIN cs : i \in DOMAIN t /\ t[i] = cs[i]
  BY Joined
<1>3. 1..n \subseteq 1..m
  OBVIOUS
<1> HIDE DEF t
<1>4. MemberCourse(m, t, b, es)
  BY <1>1, <1>3 DEF MemberCourse
<1>5. \A r, p : ToCome(r, p, cs, b, es) => ToCome(r, p, t, b, es)
  BY <1>2 DEF ToCome
<1>6. MemberRecord(w, m, last, t, b, es, dn)
  <2> SUFFICES ASSUME IsOpen(w)
               PROVE  MemberRecord(w, m, last, t, b, es, dn)
    BY DEF MemberRecord
  <2>1. w.request \in 1..m /\ w.readAfter <= last
    BY <1>3 DEF MemberRecord
  <2> QED BY <2>1, <1>1, <1>2, <1>5 DEF MemberRecord
<1> QED BY <1>4, <1>6 DEF t

LEMMA MembersWrite ==
  ASSUME NEW w, NEW v, NEW n \in Nat, NEW read \in Nat,
         NEW cs \in Seq(Commands), NEW c \in Commands, NEW b, NEW es \in Seq(Events), NEW dn,
         MemberCourse(n, cs, b, es), MemberRecord(w, n, read, cs, b, es, dn),
         c.kind \in MemberKinds, c.request = n + 1,
         v.request = n + 1, v.channel = c.channel, v.readAfter = read,
         DOMAIN v.expected = Targets(c), DOMAIN v.results = {}
  PROVE  MemberCourse(n + 1, Append(cs, c), b, es) /\ MemberRecord(v, n + 1, read, Append(cs, c), b, es, dn)
<1> DEFINE t == Append(cs, c)
<1>1. \A i \in DOMAIN t : \/ i \in DOMAIN cs /\ t[i] = cs[i] /\ i \in Nat /\ i < Len(cs) + 1
                          \/ i = Len(cs) + 1 /\ t[i] = c
  BY Added
<1>2. Len(cs) + 1 \in DOMAIN t /\ t[Len(cs) + 1] = c /\ Len(cs) + 1 \in Nat
  BY Added
<1>3. 1..n \subseteq 1..(n + 1) /\ n + 1 \in 1..(n + 1) /\ \A r \in 1..n : r < n + 1 /\ r # n + 1
  OBVIOUS
<1>4. Targets(c) # {}
  BY WriteToMembers
<1> HIDE DEF t
<1>5. MemberCourse(n + 1, t, b, es)
  <2>1. /\ \A i \in DOMAIN t : t[i].kind \in MemberKinds => t[i].request \in 1..(n + 1)
        /\ b # NoWrite => b.request \in 1..(n + 1)
        /\ \A i \in DOMAIN es : es[i].kind = "MemberWrite" => es[i].request \in 1..(n + 1)
    BY <1>1, <1>3 DEF MemberCourse
  <2>2. \A i, j \in DOMAIN t : i < j /\ t[i].kind \in MemberKinds /\ t[j].kind \in MemberKinds =>
          t[i].request < t[j].request
    <3> SUFFICES ASSUME NEW i \in DOMAIN t, NEW j \in DOMAIN t, i < j,
                        t[i].kind \in MemberKinds, t[j].kind \in MemberKinds
                 PROVE  t[i].request < t[j].request
      OBVIOUS
    <3>1. i \in DOMAIN cs /\ t[i] = cs[i]
      BY <1>1, <1>2
    <3>2. t[i].request \in 1..n
      BY <3>1 DEF MemberCourse
    <3>3. CASE j \in DOMAIN cs /\ t[j] = cs[j]
      BY <3>1, <3>3 DEF MemberCourse
    <3>4. CASE t[j] = c
      BY <3>2, <3>4, <1>3
    <3> QED BY <1>1, <3>3, <3>4
  <2>3. \A i \in DOMAIN t : t[i].kind \in MemberKinds =>
          /\ b # NoWrite => b.request < t[i].request
          /\ \A j \in DOMAIN es : es[j].kind = "MemberWrite" => es[j].request < t[i].request
    BY <1>1, <1>3 DEF MemberCourse
  <2> QED BY <2>1, <2>2, <2>3 DEF MemberCourse
<1>6. \A p \in Targets(c) : ToCome(n + 1, p, t, b, es)
  BY <1>2 DEF ToCome
<1>7. MemberRecord(v, n + 1, read, t, b, es, dn)
  <2>1. v.request \in 1..(n + 1) /\ v.readAfter <= read
    BY <1>3
  <2>2. \A i \in DOMAIN t : t[i].kind \in MemberKinds /\ t[i].request = v.request => t[i] = c
    BY <1>1, <1>3 DEF MemberCourse
  <2>3. b # NoWrite => b.request # v.request
    BY <1>3 DEF MemberCourse
  <2>4. \A i \in DOMAIN es : es[i].kind = "MemberWrite" => es[i].request # v.request
    BY <1>3 DEF MemberCourse
  <2>5. \E i \in DOMAIN t : t[i].kind \in MemberKinds /\ t[i].request = v.request
    BY <1>2
  <2> QED BY <2>1, <2>2, <2>3, <2>4, <2>5, <1>4, <1>6 DEF MemberRecord
<1> QED BY <1>5, <1>7 DEF t

\* An event is applied that is no result of the recorded write.
LEMMA MembersApplied ==
  ASSUME NEW w, NEW n \in Nat, NEW read \in Nat,
         NEW cs \in Seq(Commands), NEW b, NEW es \in Seq(Events), es # <<>>, NEW dn,
         MemberCourse(n, cs, b, es), MemberRecord(w, n, read, cs, b, es, dn)
  PROVE  /\ MemberCourse(n, cs, b, Tail(es))
         /\ MemberRecord(NoWrite, n, read, cs, b, Tail(es), dn)
         /\ ~(Head(es).kind = "MemberWrite" /\ Head(es).request = w.request) =>
              MemberRecord(w, n, read, cs, b, Tail(es), dn)
<1> DEFINE t == Tail(es)
<1>1. \A i \in DOMAIN t : i + 1 \in DOMAIN es /\ t[i] = es[i + 1]
  BY Rest
<1>2. \A i \in DOMAIN es : i = 1 \/ (i - 1 \in DOMAIN t /\ t[i - 1] = es[i])
  BY Rest
<1>3. Head(es) = es[1]
  BY Rest
<1> HIDE DEF t
<1>4. MemberCourse(n, cs, b, t)
  BY <1>1 DEF MemberCourse
<1>5. MemberRecord(NoWrite, n, read, cs, b, t, dn)
  BY DEF MemberRecord, NoWrite, IsOpen
<1>6. ASSUME ~(Head(es).kind = "MemberWrite" /\ Head(es).request = w.request)
      PROVE  MemberRecord(w, n, read, cs, b, t, dn)
  <2>1. \A p : ToCome(w.request, p, cs, b, es) => ToCome(w.request, p, cs, b, t)
    BY <1>2, <1>3, <1>6 DEF ToCome
  <2> QED BY <1>1, <2>1 DEF MemberRecord
<1> QED BY <1>4, <1>5, <1>6 DEF t

\* A result of the recorded write joins the record v.
LEMMA MembersResult ==
  ASSUME NEW w, NEW v, NEW n \in Nat, NEW read \in Nat, NEW last \in Nat, read <= last,
         NEW cs \in Seq(Commands), NEW b, NEW es \in Seq(Events), es # <<>>, NEW dn,
         MemberCourse(n, cs, b, es), MemberRecord(w, n, read, cs, b, es, dn),
         IsOpen(w), w.readAfter \in Nat, Head(es).kind = "MemberWrite", Head(es).request = w.request,
         v.request = w.request, v.channel = w.channel, v.expected = w.expected,
         DOMAIN v.results = DOMAIN w.results \cup {Head(es).who},
         v.readAfter \in {w.readAfter, read},
         DOMAIN v.results = DOMAIN v.expected => v.readAfter = read,
         \A i \in DOMAIN es : es[i].kind = "Members" => es[i].request <= read /\ es[i].request \in Nat
  PROVE  MemberRecord(v, n, last, cs, b, Tail(es), dn)
<1> DEFINE t == Tail(es)
           who == Head(es).who
<1>1. \A i \in DOMAIN t : i + 1 \in DOMAIN es /\ t[i] = es[i + 1]
  BY Rest
<1>2. \A i \in DOMAIN es : i = 1 \/ (i - 1 \in DOMAIN t /\ t[i - 1] = es[i])
  BY Rest
<1>3. Head(es) = es[1] /\ 1 \in DOMAIN es
  BY Rest
<1> HIDE DEF t
<1>4. w.request \in 1..n
  BY DEF MemberRecord
<1>5. \A i \in DOMAIN cs : cs[i].kind \in MemberKinds => cs[i].request # w.request
  BY <1>3, <1>4 DEF MemberCourse
<1>6. b # NoWrite /\ b.request = w.request => who \notin Range(b.targets)
  BY <1>3 DEF MemberCourse
<1>7. \A p \in DOMAIN v.expected \ DOMAIN v.results : ToCome(w.request, p, cs, b, t)
  <2> SUFFICES ASSUME NEW p \in DOMAIN v.expected \ DOMAIN v.results
               PROVE  ToCome(w.request, p, cs, b, t)
    OBVIOUS
  <2>1. ToCome(w.request, p, cs, b, es)
    BY DEF MemberRecord
  <2> QED BY <2>1, <1>2, <1>3 DEF ToCome
<1>8. v.readAfter <= last
  BY DEF MemberRecord
<1>9. DOMAIN v.results = DOMAIN v.expected =>
        \A i \in DOMAIN t : es[i + 1].kind = "Members" => ~(es[i + 1].request > v.readAfter)
  BY <1>1
<1>10. \A i \in DOMAIN t : t[i].kind = "MemberWrite" /\ t[i].request = w.request => t[i].channel = w.channel
  BY <1>1 DEF MemberRecord
<1>11. b # NoWrite /\ b.request = w.request =>
         b.channel = w.channel /\ Range(b.targets) \subseteq DOMAIN v.expected \ DOMAIN v.results
  BY <1>6 DEF MemberRecord
<1>12. <<"life", w.request>> \in dn \/ (b # NoWrite /\ b.request = w.request)
  BY <1>5 DEF MemberRecord
<1>13. DOMAIN v.results = DOMAIN v.expected =>
         \A i \in DOMAIN t : t[i].kind = "Members" /\ t[i].request > v.readAfter => <<"life", v.request>> \in t[i].after
  BY <1>1, <1>9
<1>14. MemberRecord(v, n, last, cs, b, t, dn)
  BY <1>4, <1>5, <1>7, <1>8, <1>10, <1>11, <1>12, <1>13 DEF MemberRecord
<1> QED BY <1>14 DEF t

LEMMA MembersDone ==
  ASSUME NEW w, NEW n, NEW read, NEW cs, NEW b, NEW es, NEW dn, NEW dn2, dn \subseteq dn2,
         MemberRecord(w, n, read, cs, b, es, dn)
  PROVE  MemberRecord(w, n, read, cs, b, es, dn2)
  BY DEF MemberRecord

\* A command that writes to no member is taken.
LEMMA MembersTaken ==
  ASSUME NEW w, NEW n \in Nat, NEW read \in Nat, NEW cs \in Seq(Commands), cs # <<>>, NEW b,
         NEW es \in Seq(Events), NEW dn,
         MemberCourse(n, cs, b, es), MemberRecord(w, n, read, cs, b, es, dn), Head(cs).kind \notin MemberKinds
  PROVE  MemberCourse(n, Tail(cs), b, es) /\ MemberRecord(w, n, read, Tail(cs), b, es, dn)
<1> DEFINE t == Tail(cs)
<1>1. \A i \in DOMAIN t : i \in Nat /\ i + 1 \in DOMAIN cs /\ t[i] = cs[i + 1]
  BY Rest
<1>2. \A i \in DOMAIN cs : i = 1 \/ (i - 1 \in DOMAIN t /\ t[i - 1] = cs[i])
  BY Rest
<1>3. Head(cs) = cs[1]
  BY Rest
<1>4. \A i, j \in Nat : i < j => i + 1 < j + 1
  OBVIOUS
<1> HIDE DEF t
<1>5. MemberCourse(n, t, b, es)
  BY <1>1, <1>4 DEF MemberCourse
<1>6. \A p : ToCome(w.request, p, cs, b, es) => ToCome(w.request, p, t, b, es)
  BY <1>2, <1>3 DEF ToCome
<1>7. MemberRecord(w, n, read, t, b, es, dn)
  <2> SUFFICES ASSUME IsOpen(w)
               PROVE  MemberRecord(w, n, read, t, b, es, dn)
    BY DEF MemberRecord
  <2>1. \A p \in DOMAIN w.expected \ DOMAIN w.results : ToCome(w.request, p, t, b, es)
    BY <1>6 DEF MemberRecord
  <2>2. \/ <<"life", w.request>> \in dn
        \/ b # NoWrite /\ b.request = w.request
        \/ \E i \in DOMAIN t : t[i].kind \in MemberKinds /\ t[i].request = w.request
    BY <1>2, <1>3 DEF MemberRecord
  <2>3. \A i \in DOMAIN t : t[i].kind \in MemberKinds /\ t[i].request = w.request =>
          /\ t[i].channel = w.channel
          /\ Targets(t[i]) \subseteq DOMAIN w.expected \ DOMAIN w.results
    BY <1>1 DEF MemberRecord
  <2>4. /\ w.request \in 1..n /\ w.readAfter <= read
        /\ b # NoWrite /\ b.request = w.request =>
             b.channel = w.channel /\ Range(b.targets) \subseteq DOMAIN w.expected \ DOMAIN w.results
        /\ \A i \in DOMAIN es : es[i].kind = "MemberWrite" /\ es[i].request = w.request =>
             es[i].channel = w.channel
        /\ DOMAIN w.results = DOMAIN w.expected =>
             \A i \in DOMAIN es : es[i].kind = "Members" /\ es[i].request > w.readAfter =>
               <<"life", w.request>> \in es[i].after
    BY DEF MemberRecord
  <2> QED BY <2>1, <2>2, <2>3, <2>4 DEF MemberRecord
<1> QED BY <1>5, <1>7 DEF t

\* An event that is no result of a member write joins; a read has seen what is done.
FreshRead(e, dn) == e.kind = "Members" => dn \subseteq e.after

LEMMA MembersEvent ==
  ASSUME NEW w, NEW n \in Nat, NEW read \in Nat, NEW cs \in Seq(Commands), NEW b \in {NoWrite} \cup AddCommands,
         NEW es \in Seq(Events), NEW e \in Events, NEW dn,
         MemberCourse(n, cs, b, es), MemberRecord(w, n, read, cs, b, es, dn),
         e.kind # "MemberWrite", FreshRead(e, dn)
  PROVE  MemberCourse(n, cs, b, Append(es, e)) /\ MemberRecord(w, n, read, cs, b, Append(es, e), dn)
<1> DEFINE t == Append(es, e)
<1>1. \A i \in DOMAIN t : (i \in DOMAIN es /\ t[i] = es[i]) \/ t[i] = e
  BY Added
<1>2. \A i \in DOMAIN es : i \in DOMAIN t /\ t[i] = es[i]
  BY Added
<1>3. \A i \in DOMAIN cs : cs[i] \in Commands
  OBVIOUS
<1> HIDE DEF t
<1>4. MemberCourse(n, cs, b, t)
  BY <1>1 DEF MemberCourse
<1>5. \A p : ToCome(w.request, p, cs, b, es) => ToCome(w.request, p, cs, b, t)
  BY <1>2 DEF ToCome
<1>6. IsOpen(w) /\ DOMAIN w.results = DOMAIN w.expected => <<"life", w.request>> \in dn
  <2> SUFFICES ASSUME IsOpen(w), DOMAIN w.results = DOMAIN w.expected
               PROVE  <<"life", w.request>> \in dn
    OBVIOUS
  <2>1. \A i \in DOMAIN cs : ~(cs[i].kind \in MemberKinds /\ cs[i].request = w.request)
    BY <1>3, WriteToMembers DEF MemberRecord
  <2>2. ~(b # NoWrite /\ b.request = w.request)
    BY BatchFacts DEF MemberRecord
  <2> QED BY <2>1, <2>2 DEF MemberRecord
<1>7. MemberRecord(w, n, read, cs, b, t, dn)
  <2> SUFFICES ASSUME IsOpen(w)
               PROVE  MemberRecord(w, n, read, cs, b, t, dn)
    BY DEF MemberRecord
  <2>1. DOMAIN w.results = DOMAIN w.expected =>
          \A i \in DOMAIN t : t[i].kind = "Members" /\ t[i].request > w.readAfter =>
            <<"life", w.request>> \in t[i].after
    BY <1>1, <1>6 DEF MemberRecord, FreshRead
  <2>2. \A i \in DOMAIN t : t[i].kind = "MemberWrite" /\ t[i].request = w.request => t[i].channel = w.channel
    BY <1>1 DEF MemberRecord
  <2>3. \A p \in DOMAIN w.expected \ DOMAIN w.results : ToCome(w.request, p, cs, b, t)
    BY <1>5 DEF MemberRecord
  <2>4. /\ w.request \in 1..n /\ w.readAfter <= read
        /\ \A i \in DOMAIN cs : cs[i].kind \in MemberKinds /\ cs[i].request = w.request =>
             /\ cs[i].channel = w.channel
             /\ Targets(cs[i]) \subseteq DOMAIN w.expected \ DOMAIN w.results
        /\ b # NoWrite /\ b.request = w.request =>
             b.channel = w.channel /\ Range(b.targets) \subseteq DOMAIN w.expected \ DOMAIN w.results
        /\ \/ <<"life", w.request>> \in dn
           \/ b # NoWrite /\ b.request = w.request
           \/ \E i \in DOMAIN cs : cs[i].kind \in MemberKinds /\ cs[i].request = w.request
    BY DEF MemberRecord
  <2> QED BY <2>1, <2>2, <2>3, <2>4 DEF MemberRecord
<1> QED BY <1>4, <1>7 DEF t

\* The first command writes to one member, and its result joins.
LEMMA MembersAnswered ==
  ASSUME NEW w, NEW n \in Nat, NEW read \in Nat, NEW cs \in Seq(Commands), cs # <<>>,
         NEW es \in Seq(Events), NEW e \in Events, NEW dn,
         MemberCourse(n, cs, NoWrite, es), MemberRecord(w, n, read, cs, NoWrite, es, dn),
         Head(cs).kind = "MemberWrite",
         e.kind = "MemberWrite", e.request = Head(cs).request, e.channel = Head(cs).channel, e.who = Head(cs).who
  PROVE  /\ MemberCourse(n, Tail(cs), NoWrite, Append(es, e))
         /\ MemberRecord(w, n, read, Tail(cs), NoWrite, Append(es, e), dn \cup {<<"life", e.request>>})
<1> DEFINE t == Append(es, e)
           d == Tail(cs)
           dn2 == dn \cup {<<"life", e.request>>}
<1>1. \A i \in DOMAIN t : (i \in DOMAIN es /\ t[i] = es[i]) \/ t[i] = e
  BY Added
<1>2. \A i \in DOMAIN es : i \in DOMAIN t /\ t[i] = es[i]
  BY Added
<1>3. Len(es) + 1 \in DOMAIN t /\ t[Len(es) + 1] = e
  BY Added
<1>4. \A i \in DOMAIN d : i \in Nat /\ i + 1 \in DOMAIN cs /\ d[i] = cs[i + 1] /\ 1 < i + 1
  BY Rest
<1>5. \A i \in DOMAIN cs : i = 1 \/ (i - 1 \in DOMAIN d /\ d[i - 1] = cs[i])
  BY Rest
<1>6. Head(cs) = cs[1] /\ 1 \in DOMAIN cs /\ Head(cs).kind \in MemberKinds
  BY Rest DEF MemberKinds
<1>7. Targets(Head(cs)) = {e.who}
  BY DEF Targets
<1> HIDE DEF t, d
<1>8. MemberCourse(n, d, NoWrite, t)
  <2>1. e.request \in 1..n
    BY <1>6 DEF MemberCourse
  <2>2. \A i \in DOMAIN d : d[i].kind \in MemberKinds => d[i].request \in 1..n /\ e.request < d[i].request
    BY <1>4, <1>6 DEF MemberCourse
  <2>3. \A i, j \in DOMAIN d : i < j /\ d[i].kind \in MemberKinds /\ d[j].kind \in MemberKinds =>
          d[i].request < d[j].request
    <3>1. \A i, j \in Nat : i < j => i + 1 < j + 1
      OBVIOUS
    <3> QED BY <3>1, <1>4 DEF MemberCourse
  <2>4. \A i \in DOMAIN d : d[i].kind \in MemberKinds =>
          \A j \in DOMAIN t : t[j].kind = "MemberWrite" => t[j].request < d[i].request
    BY <1>1, <1>4, <2>2 DEF MemberCourse
  <2>5. \A i \in DOMAIN t : t[i].kind = "MemberWrite" => t[i].request \in 1..n
    BY <1>1, <2>1 DEF MemberCourse
  <2> QED BY <2>2, <2>3, <2>4, <2>5 DEF MemberCourse
<1>9. MemberRecord(w, n, read, d, NoWrite, t, dn2)
  <2> SUFFICES ASSUME IsOpen(w)
               PROVE  MemberRecord(w, n, read, d, NoWrite, t, dn2)
    BY DEF MemberRecord
  <2>1. \A p : ToCome(w.request, p, cs, NoWrite, es) => ToCome(w.request, p, d, NoWrite, t)
    BY <1>2, <1>3, <1>5, <1>6, <1>7 DEF ToCome
  <2>2. \A i \in DOMAIN t : t[i].kind = "MemberWrite" /\ t[i].request = w.request => t[i].channel = w.channel
    BY <1>1, <1>6 DEF MemberRecord
  <2>3. <<"life", w.request>> \in dn2 \/ \E i \in DOMAIN d : d[i].kind \in MemberKinds /\ d[i].request = w.request
    BY <1>5, <1>6 DEF MemberRecord
  <2>4. \A i \in DOMAIN d : d[i].kind \in MemberKinds /\ d[i].request = w.request =>
          /\ d[i].channel = w.channel
          /\ Targets(d[i]) \subseteq DOMAIN w.expected \ DOMAIN w.results
    BY <1>4 DEF MemberRecord
  <2>5. DOMAIN w.results = DOMAIN w.expected =>
         \A i \in DOMAIN t : t[i].kind = "Members" /\ t[i].request > w.readAfter =>
           <<"life", w.request>> \in t[i].after
    BY <1>1 DEF MemberRecord
  <2> QED BY <2>1, <2>2, <2>3, <2>4, <2>5 DEF MemberRecord
<1> QED BY <1>8, <1>9 DEF t, d

\* The first command is a batch: it begins.
LEMMA MembersBegun ==
  ASSUME NEW w, NEW n \in Nat, NEW read \in Nat, NEW cs \in Seq(Commands), cs # <<>>,
         NEW es \in Seq(Events), NEW dn,
         MemberCourse(n, cs, NoWrite, es), MemberRecord(w, n, read, cs, NoWrite, es, dn),
         Head(cs).kind = "AddMembers"
  PROVE  /\ MemberCourse(n, Tail(cs), Head(cs), es)
         /\ MemberRecord(w, n, read, Tail(cs), Head(cs), es, dn)
<1> DEFINE d == Tail(cs)
           c == Head(cs)
<1>1. \A i \in DOMAIN d : i \in Nat /\ i + 1 \in DOMAIN cs /\ d[i] = cs[i + 1] /\ 1 < i + 1
  BY Rest
<1>2. \A i \in DOMAIN cs : i = 1 \/ (i - 1 \in DOMAIN d /\ d[i - 1] = cs[i])
  BY Rest
<1>3. c = cs[1] /\ 1 \in DOMAIN cs /\ c.kind \in MemberKinds
  BY Rest DEF MemberKinds
<1>4. Targets(c) = Range(c.targets)
  BY DEF Targets
<1> HIDE DEF d
<1>5. c.request \in 1..n
  BY <1>3 DEF MemberCourse
<1>6. c # NoWrite
  BY <1>5 DEF NoWrite
<1>7. \A j \in DOMAIN es : es[j].kind = "MemberWrite" => es[j].request \in 1..n /\ es[j].request < c.request
  BY <1>3 DEF MemberCourse
<1>8. \A i \in DOMAIN d : d[i].kind \in MemberKinds => c.request < d[i].request
  BY <1>1, <1>3 DEF MemberCourse
<1> HIDE DEF c
<1>9. MemberCourse(n, d, c, es)
  <2>3. \A i, j \in DOMAIN d : i < j /\ d[i].kind \in MemberKinds /\ d[j].kind \in MemberKinds =>
          d[i].request < d[j].request
    <3>1. \A i, j \in Nat : i < j => i + 1 < j + 1
      OBVIOUS
    <3> QED BY <3>1, <1>1 DEF MemberCourse
  <2>4. \A i \in DOMAIN d : d[i].kind \in MemberKinds =>
          /\ d[i].request \in 1..n
          /\ \A j \in DOMAIN es : es[j].kind = "MemberWrite" => es[j].request < d[i].request
    BY <1>1 DEF MemberCourse
  <2>5. \A j \in DOMAIN es : es[j].kind = "MemberWrite" =>
          es[j].request <= c.request /\ es[j].request # c.request
    BY <1>5, <1>7
  <2> QED BY <1>5, <1>7, <1>8, <2>3, <2>4, <2>5 DEF MemberCourse
<1>10. MemberRecord(w, n, read, d, c, es, dn)
  <2> SUFFICES ASSUME IsOpen(w)
               PROVE  MemberRecord(w, n, read, d, c, es, dn)
    BY DEF MemberRecord
  <2>1. \A p : ToCome(w.request, p, cs, NoWrite, es) => ToCome(w.request, p, d, c, es)
    BY <1>2, <1>3, <1>4, <1>6 DEF ToCome
  <2>2. c.request = w.request => c.channel = w.channel /\ Range(c.targets) \subseteq DOMAIN w.expected \ DOMAIN w.results
    BY <1>3, <1>4 DEF MemberRecord
  <2>3. \/ <<"life", w.request>> \in dn \/ c.request = w.request
        \/ \E i \in DOMAIN d : d[i].kind \in MemberKinds /\ d[i].request = w.request
    BY <1>2, <1>3 DEF MemberRecord
  <2>4. \A i \in DOMAIN d : d[i].kind \in MemberKinds /\ d[i].request = w.request =>
          /\ d[i].channel = w.channel
          /\ Targets(d[i]) \subseteq DOMAIN w.expected \ DOMAIN w.results
    BY <1>1 DEF MemberRecord
  <2> QED BY <1>6, <2>1, <2>2, <2>3, <2>4 DEF MemberRecord
<1> QED BY <1>9, <1>10 DEF d, c

\* One write of a batch is made, and its result joins.
LEMMA MembersTurn ==
  ASSUME NEW w, NEW n \in Nat, NEW read \in Nat, NEW cs \in Seq(Commands), NEW b \in AddCommands, b # NoWrite,
         NEW es \in Seq(Events), NEW e \in Events, NEW dn, NEW dn2, NEW d,
         MemberCourse(n, cs, b, es), MemberRecord(w, n, read, cs, b, es, dn),
         e.kind = "MemberWrite", e.request = b.request, e.channel = b.channel, e.who = Head(b.targets),
         \/ d = NoWrite /\ Len(b.targets) = 1 /\ dn2 = dn \cup {<<"life", b.request>>}
         \/ /\ d.request = b.request /\ d.channel = b.channel /\ d.targets = Tail(b.targets)
            /\ Len(b.targets) # 1 /\ dn2 = dn /\ d # NoWrite
  PROVE  MemberCourse(n, cs, d, Append(es, e)) /\ MemberRecord(w, n, read, cs, d, Append(es, e), dn2)
<1> DEFINE t == Append(es, e)
           q == b.targets
           r == b.request
<1>1. \A i \in DOMAIN t : (i \in DOMAIN es /\ t[i] = es[i]) \/ t[i] = e
  BY Added
<1>2. \A i \in DOMAIN es : i \in DOMAIN t /\ t[i] = es[i]
  BY Added
<1>3. Len(es) + 1 \in DOMAIN t /\ t[Len(es) + 1] = e
  BY Added
<1>4. q \in Seq(People) /\ q # <<>> /\ IsInjective(q)
  BY BatchFacts
<1>5. Range(q) = {e.who} \cup (IF Len(q) = 1 THEN {} ELSE Range(Tail(q)))
  <2>1. Range(q) = {e.who} \cup Range(Tail(q))
    BY <1>4, RangeRest
  <2>2. Len(q) = 1 => DOMAIN Tail(q) = {}
    <3>1. \A i \in DOMAIN Tail(q) : i \in Nat /\ i + 1 \in DOMAIN q /\ i + 1 > 1
      BY <1>4, Rest
    <3>2. DOMAIN q = 1..Len(q) /\ Len(q) \in Nat
      BY <1>4
    <3> QED BY <3>1, <3>2
  <2>3. Len(q) = 1 => Range(Tail(q)) = {}
    BY <2>2 DEF Range
  <2> QED BY <2>1, <2>3
<1>6. e.who \notin Range(Tail(q))
  <2>1. /\ \A i \in DOMAIN Tail(q) : i + 1 \in DOMAIN q /\ Tail(q)[i] = q[i + 1] /\ i \in Nat /\ i + 1 # 1
        /\ Head(q) = q[1] /\ 1 \in DOMAIN q
    BY <1>4, Rest
  <2> QED BY <2>1, <1>4 DEF Range, IsInjective
<1>7. d # NoWrite => d.request = r /\ d.channel = b.channel /\ Range(d.targets) \subseteq Range(q) \ {e.who}
  BY <1>5, <1>6
<1> HIDE DEF t, q, r
<1>8. r \in 1..n
  BY DEF MemberCourse, r
<1>9. \A i \in DOMAIN cs : cs[i].kind \in MemberKinds => cs[i].request # r
  BY <1>8 DEF MemberCourse, r
<1>10. MemberCourse(n, cs, d, t)
  <2>1. \A i \in DOMAIN t : t[i].kind = "MemberWrite" => t[i].request \in 1..n
    BY <1>1, <1>8 DEF MemberCourse, r
  <2>2. \A i \in DOMAIN cs : cs[i].kind \in MemberKinds =>
          /\ cs[i].request \in 1..n
          /\ r < cs[i].request
          /\ \A j \in DOMAIN t : t[j].kind = "MemberWrite" => t[j].request < cs[i].request
    BY <1>1 DEF MemberCourse, r
  <2>3. d # NoWrite => \A j \in DOMAIN t : t[j].kind = "MemberWrite" =>
          /\ t[j].request <= r
          /\ t[j].request = r => t[j].who \notin Range(d.targets)
    BY <1>1, <1>7, <1>8 DEF MemberCourse, r, q
  <2>4. \A i, j \in DOMAIN cs : i < j /\ cs[i].kind \in MemberKinds /\ cs[j].kind \in MemberKinds =>
          cs[i].request < cs[j].request
    BY DEF MemberCourse
  <2> QED BY <1>7, <1>8, <2>1, <2>2, <2>3, <2>4 DEF MemberCourse
<1>11. MemberRecord(w, n, read, cs, d, t, dn2)
  <2> SUFFICES ASSUME IsOpen(w)
               PROVE  MemberRecord(w, n, read, cs, d, t, dn2)
    BY DEF MemberRecord
  <2>1. \A p : ToCome(w.request, p, cs, b, es) => ToCome(w.request, p, cs, d, t)
    <3> SUFFICES ASSUME NEW p, ToCome(w.request, p, cs, b, es)
                 PROVE  ToCome(w.request, p, cs, d, t)
      OBVIOUS
    <3>1. CASE b.request = w.request /\ p \in Range(b.targets)
      <4>1. CASE p = e.who
        BY <3>1, <4>1, <1>3 DEF ToCome
      <4>2. CASE p # e.who
        <5>1. d # NoWrite /\ d.request = w.request /\ p \in Range(d.targets)
          BY <3>1, <4>2, <1>5 DEF q
        <5> QED BY <5>1 DEF ToCome
      <4> QED BY <4>1, <4>2
    <3>2. CASE \E i \in DOMAIN es : es[i].kind = "MemberWrite" /\ es[i].request = w.request /\ es[i].who = p
      BY <3>2, <1>2 DEF ToCome
    <3>3. CASE \E i \in DOMAIN cs : cs[i].kind \in MemberKinds /\ cs[i].request = w.request /\ p \in Targets(cs[i])
      BY <3>3 DEF ToCome
    <3> QED BY <3>1, <3>2, <3>3 DEF ToCome
  <2>2. \A i \in DOMAIN t : t[i].kind = "MemberWrite" /\ t[i].request = w.request => t[i].channel = w.channel
    BY <1>1 DEF MemberRecord
  <2>3. d # NoWrite /\ d.request = w.request =>
          d.channel = w.channel /\ Range(d.targets) \subseteq DOMAIN w.expected \ DOMAIN w.results
    BY <1>7 DEF MemberRecord, q, r
  <2>4. \/ <<"life", w.request>> \in dn2 \/ (d # NoWrite /\ d.request = w.request)
        \/ \E i \in DOMAIN cs : cs[i].kind \in MemberKinds /\ cs[i].request = w.request
    BY DEF MemberRecord
  <2>5. DOMAIN w.results = DOMAIN w.expected =>
         \A i \in DOMAIN t : t[i].kind = "Members" /\ t[i].request > w.readAfter =>
           <<"life", w.request>> \in t[i].after
    BY <1>1 DEF MemberRecord
  <2> QED BY <2>1, <2>2, <2>3, <2>4, <2>5 DEF MemberRecord
<1> QED BY <1>10, <1>11 DEF t
-----------------------------------------------------------------------------
(* What the panel reads, as commands and events come and go.                *)

\* Nothing more is made or waited for, in the same channel.
LEMMA ReadingLess ==
  ASSUME NEW asks, NEW answers, NEW last, NEW c, NEW d, NEW made, NEW waits, NEW made2, NEW waits2,
         NEW cs, NEW es, Reading(asks, answers, last, c, made, waits, cs, es),
         made2 => made /\ d = c, waits2 => waits
  PROVE  Reading(asks, answers, last, d, made2, waits2, cs, es)
  BY DEF Reading

LEMMA ReadingJoined ==
  ASSUME NEW asks, NEW answers, NEW last, NEW c, NEW made, NEW waits,
         NEW cs \in Seq(Commands), NEW q \in Seq(Commands), NEW es,
         Reading(asks, answers, last, c, made, waits, cs, es), \A i \in DOMAIN q : q[i].kind # asks
  PROVE  Reading(asks, answers, last, c, made, waits, cs \o q, es)
<1> DEFINE t == cs \o q
<1>1. \A i \in DOMAIN t : t[i].kind = asks => i \in DOMAIN cs /\ t[i] = cs[i]
  BY Joined
<1>2. \A i \in DOMAIN cs : i \in DOMAIN t /\ t[i] = cs[i]
  BY Joined
<1> HIDE DEF t
<1> QED BY <1>1, <1>2 DEF Reading, t

LEMMA ReadingAsked ==
  ASSUME NEW asks, NEW answers, NEW last \in Nat, NEW c, NEW d, NEW made, NEW waits, NEW made2, NEW waits2,
         NEW cs \in Seq(Commands), NEW a \in Commands, NEW es,
         Reading(asks, answers, last, c, made, waits, cs, es),
         \A i \in DOMAIN cs : cs[i].kind = asks => cs[i].request \in Nat,
         \A i \in DOMAIN es : es[i].kind = answers => es[i].request \in Nat,
         a.kind = asks, a.request = last + 1, a.channel = d
  PROVE  Reading(asks, answers, last + 1, d, made2, waits2, Append(cs, a), es)
<1> DEFINE t == Append(cs, a)
<1>1. \A i \in DOMAIN t : (i \in DOMAIN cs /\ t[i] = cs[i]) \/ t[i] = a
  BY Added
<1>2. Len(cs) + 1 \in DOMAIN t /\ t[Len(cs) + 1] = a
  BY Added
<1>3. \A r \in Nat : r <= last => r <= last + 1 /\ r # last + 1
  OBVIOUS
<1> HIDE DEF t
<1>4. \A i \in DOMAIN t : t[i].kind = asks => t[i].request <= last + 1 /\ (t[i].request = last + 1 => t[i].channel = d)
  BY <1>1, <1>3 DEF Reading
<1>5. \A i \in DOMAIN es : es[i].kind = answers => es[i].request <= last + 1 /\ es[i].request # last + 1
  BY <1>3 DEF Reading
<1> QED BY <1>2, <1>4, <1>5 DEF Reading, t

LEMMA ReadingApplied ==
  ASSUME NEW asks, NEW answers, NEW last, NEW c, NEW made, NEW waits, NEW cs,
         NEW es \in Seq(Events), es # <<>>, Reading(asks, answers, last, c, made, waits, cs, es),
         waits => ~(Head(es).kind = answers /\ Head(es).request = last)
  PROVE  Reading(asks, answers, last, c, made, waits, cs, Tail(es))
<1> DEFINE t == Tail(es)
<1>1. \A i \in DOMAIN t : i + 1 \in DOMAIN es /\ t[i] = es[i + 1]
  BY Rest
<1>2. \A i \in DOMAIN es : i = 1 \/ (i - 1 \in DOMAIN t /\ t[i - 1] = es[i])
  BY Rest
<1>3. Head(es) = es[1]
  BY Rest
<1> HIDE DEF t
<1>4. \A i \in DOMAIN t : t[i].kind = answers => t[i].request <= last
  BY <1>1 DEF Reading
<1>5. made => \A i \in DOMAIN t : t[i].kind = answers /\ t[i].request = last => t[i].channel = c
  BY <1>1 DEF Reading
<1>6. waits => \/ \E i \in DOMAIN cs : cs[i].kind = asks /\ cs[i].request = last
               \/ \E i \in DOMAIN t : t[i].kind = answers /\ t[i].request = last
  BY <1>2, <1>3 DEF Reading
<1>7. Reading(asks, answers, last, c, made, waits, cs, t)
  BY <1>4, <1>5, <1>6 DEF Reading
<1> QED BY <1>7 DEF t

LEMMA ReadingTaken ==
  ASSUME NEW asks, NEW answers, NEW last, NEW c, NEW made, NEW waits, NEW cs \in Seq(Commands), cs # <<>>,
         NEW es, Reading(asks, answers, last, c, made, waits, cs, es), Head(cs).kind # asks
  PROVE  Reading(asks, answers, last, c, made, waits, Tail(cs), es)
<1> DEFINE t == Tail(cs)
<1>1. \A i \in DOMAIN t : i + 1 \in DOMAIN cs /\ t[i] = cs[i + 1]
  BY Rest
<1>2. \A i \in DOMAIN cs : i = 1 \/ (i - 1 \in DOMAIN t /\ t[i - 1] = cs[i])
  BY Rest
<1>3. Head(cs) = cs[1]
  BY Rest
<1> HIDE DEF t
<1>4. \A i \in DOMAIN t : t[i].kind = asks => t[i].request <= last
  BY <1>1 DEF Reading
<1>5. made => \A i \in DOMAIN t : t[i].kind = asks /\ t[i].request = last => t[i].channel = c
  BY <1>1 DEF Reading
<1>6. waits => \/ \E i \in DOMAIN t : t[i].kind = asks /\ t[i].request = last
               \/ \E i \in DOMAIN es : es[i].kind = answers /\ es[i].request = last
  BY <1>2, <1>3 DEF Reading
<1>7. Reading(asks, answers, last, c, made, waits, t, es)
  BY <1>4, <1>5, <1>6 DEF Reading
<1> QED BY <1>7 DEF t

LEMMA ReadingEvent ==
  ASSUME NEW asks, NEW answers, NEW last, NEW c, NEW made, NEW waits, NEW cs,
         NEW es \in Seq(Events), NEW e \in Events, Reading(asks, answers, last, c, made, waits, cs, es),
         e.kind # answers
  PROVE  Reading(asks, answers, last, c, made, waits, cs, Append(es, e))
<1> DEFINE t == Append(es, e)
<1>1. \A i \in DOMAIN t : (i \in DOMAIN es /\ t[i] = es[i]) \/ t[i] = e
  BY Added
<1>2. \A i \in DOMAIN es : i \in DOMAIN t /\ t[i] = es[i]
  BY Added
<1> HIDE DEF t
<1> QED BY <1>1, <1>2 DEF Reading, t

LEMMA ReadingAnswered ==
  ASSUME NEW asks, NEW answers, NEW last, NEW c, NEW made, NEW waits, NEW cs \in Seq(Commands), cs # <<>>,
         NEW es \in Seq(Events), NEW e \in Events, Reading(asks, answers, last, c, made, waits, cs, es),
         Head(cs).kind = asks, e.kind = answers, e.request = Head(cs).request, e.channel = Head(cs).channel
  PROVE  Reading(asks, answers, last, c, made, waits, Tail(cs), Append(es, e))
<1> DEFINE t == Append(es, e)
           d == Tail(cs)
<1>1. \A i \in DOMAIN t : (i \in DOMAIN es /\ t[i] = es[i]) \/ t[i] = e
  BY Added
<1>2. \A i \in DOMAIN es : i \in DOMAIN t /\ t[i] = es[i]
  BY Added
<1>3. Len(es) + 1 \in DOMAIN t /\ t[Len(es) + 1] = e
  BY Added
<1>4. \A i \in DOMAIN d : i + 1 \in DOMAIN cs /\ d[i] = cs[i + 1]
  BY Rest
<1>5. \A i \in DOMAIN cs : i = 1 \/ (i - 1 \in DOMAIN d /\ d[i - 1] = cs[i])
  BY Rest
<1>6. Head(cs) = cs[1] /\ 1 \in DOMAIN cs
  BY Rest
<1> HIDE DEF t, d
<1>7. /\ \A i \in DOMAIN d : d[i].kind = asks => d[i].request <= last
      /\ \A i \in DOMAIN t : t[i].kind = answers => t[i].request <= last
  BY <1>1, <1>4, <1>6 DEF Reading
<1>8. made => /\ \A i \in DOMAIN d : d[i].kind = asks /\ d[i].request = last => d[i].channel = c
              /\ \A i \in DOMAIN t : t[i].kind = answers /\ t[i].request = last => t[i].channel = c
  BY <1>1, <1>4, <1>6 DEF Reading
<1>9. waits => \/ \E i \in DOMAIN d : d[i].kind = asks /\ d[i].request = last
               \/ \E i \in DOMAIN t : t[i].kind = answers /\ t[i].request = last
  <2> SUFFICES ASSUME waits
               PROVE  \/ \E i \in DOMAIN d : d[i].kind = asks /\ d[i].request = last
                      \/ \E i \in DOMAIN t : t[i].kind = answers /\ t[i].request = last
    OBVIOUS
  <2>1. CASE \E i \in DOMAIN es : es[i].kind = answers /\ es[i].request = last
    BY <2>1, <1>2
  <2>2. CASE \E i \in DOMAIN cs : cs[i].kind = asks /\ cs[i].request = last
    BY <2>2, <1>3, <1>5, <1>6
  <2> QED BY <2>1, <2>2 DEF Reading
<1>10. Reading(asks, answers, last, c, made, waits, d, t)
  BY <1>7, <1>8, <1>9 DEF Reading
<1> QED BY <1>10 DEF t, d
-----------------------------------------------------------------------------
(* What a handler leaves alone. u is the interface before it, v after it.    *)

Kept(u, v) ==
  /\ v.create = u.create /\ v.edit = u.edit /\ v.archive = u.archive /\ v.member = u.member
  /\ v.told = u.told /\ v.createRequest = u.createRequest /\ v.lifeRequest = u.lifeRequest

\* The panel waits for nothing it did not wait for.
CalmForm(f, g) ==
  g.kind = "members" =>
    /\ f.kind = "members" /\ g.channel = f.channel
    /\ g.loading => f.loading
    /\ g.picker.loading => f.picker.loading
Calm(u, v) ==
  v.memberRead = u.memberRead /\ v.memberSearch = u.memberSearch /\ CalmForm(u.form, v.form)

Only(q, kinds) == \A i \in DOMAIN q : q[i].kind \in kinds

\* A handler that changes what is on screen and asks for the roster at most.
Idle(u, v) == v \in Uis /\ Kept(u, v) /\ Calm(u, v) /\ Only(v.out, {"LoadChannels"})

LEMMA CalmTransitive ==
  ASSUME NEW u, NEW v, NEW x, Calm(u, v), Calm(v, x)
  PROVE  Calm(u, x)
  BY DEF Calm, CalmForm

LEMMA FormIdle ==
  ASSUME NEW u \in Uis, u.out = <<>>, NEW f \in Forms, CalmForm(u.form, f)
  PROVE  Idle(u, [u EXCEPT !.form = f])
<1> DEFINE v == [u EXCEPT !.form = f]
<1>1. v \in Uis
  BY FormTyped
<1>2. /\ v.create = u.create /\ v.edit = u.edit /\ v.archive = u.archive /\ v.member = u.member
      /\ v.told = u.told /\ v.createRequest = u.createRequest /\ v.lifeRequest = u.lifeRequest
      /\ v.memberRead = u.memberRead /\ v.memberSearch = u.memberSearch /\ v.form = f /\ v.out = <<>>
  BY DEF Uis
<1> HIDE DEF v
<1> QED BY <1>1, <1>2 DEF Idle, Kept, Calm, Only, v

LEMMA SelfIdle ==
  ASSUME NEW u \in Uis, u.out = <<>>
  PROVE  Idle(u, u)
  BY DEF Idle, Kept, Calm, CalmForm, Only

LEMMA PushEffect ==
  ASSUME NEW u \in Uis, NEW c \in Commands
  PROVE  /\ Push(u, c) \in Uis /\ Push(u, c) = [u EXCEPT !.out = Append(u.out, c)]
         /\ Push(u, c).out = Append(u.out, c)
         /\ Kept(u, Push(u, c)) /\ Calm(u, Push(u, c))
<1> DEFINE v == [u EXCEPT !.out = Append(u.out, c)]
<1>1. Push(u, c) = v
  BY DEF Push
<1>2. v \in Uis
  BY <1>1, PushTyped
<1>3. /\ v.create = u.create /\ v.edit = u.edit /\ v.archive = u.archive /\ v.member = u.member
      /\ v.told = u.told /\ v.createRequest = u.createRequest /\ v.lifeRequest = u.lifeRequest
      /\ v.memberRead = u.memberRead /\ v.memberSearch = u.memberSearch /\ v.form = u.form
      /\ v.out = Append(u.out, c)
  BY DEF Uis
<1> HIDE DEF v
<1> QED BY <1>1, <1>2, <1>3 DEF Kept, Calm, CalmForm, v

LEMMA AskIdle ==
  ASSUME NEW u \in Uis, u.out = <<>>, NEW v, Idle(u, v)
  PROVE  Idle(u, Ask(v))
<1> DEFINE c == [kind |-> "LoadChannels"]
<1>1. c \in Commands
  BY DEF Commands
<1>2. v \in Uis /\ v.out \in Seq(Commands)
  BY DEF Idle, Uis
<1>3. Ask(v) = Push(v, c)
  BY DEF Ask
<1> HIDE DEF c
<1>4. /\ Push(v, c) \in Uis /\ Push(v, c).out = Append(v.out, c)
      /\ Kept(v, Push(v, c)) /\ Calm(v, Push(v, c))
  BY <1>1, <1>2, PushEffect
<1>5. \A i \in DOMAIN Append(v.out, c) :
        (i \in DOMAIN v.out /\ Append(v.out, c)[i] = v.out[i]) \/ Append(v.out, c)[i] = c
  BY <1>1, <1>2, Added
<1>6. Only(Push(v, c).out, {"LoadChannels"})
  BY <1>4, <1>5 DEF Idle, Only, c
<1>7. Kept(u, Push(v, c))
  BY <1>4 DEF Idle, Kept
<1>8. Calm(u, Push(v, c))
  BY <1>4, CalmTransitive DEF Idle
<1> QED BY <1>3, <1>4, <1>6, <1>7, <1>8 DEF Idle

LEMMA SetStateIdle ==
  ASSUME NEW u \in Uis, u.out = <<>>, NEW kind \in {"create", "edit", "archive"}, NEW state \in States
  PROVE  Idle(u, SetState(u, kind, state))
<1>1. PICK f \in Forms : /\ SetState(u, kind, state) = [u EXCEPT !.form = f]
                         /\ f.kind = u.form.kind
                         /\ f.kind = "members" => f = u.form
  BY SetStateForm
<1>2. CalmForm(u.form, f)
  BY <1>1 DEF CalmForm
<1> QED BY <1>1, <1>2, FormIdle

-----------------------------------------------------------------------------
(* Keys that only change what is on screen.                                 *)

LEMMA OpenCreateIdle ==
  ASSUME NEW u \in Uis, u.out = <<>>
  PROVE  Idle(u, OpenCreate(u))
<1> DEFINE f == [kind |-> "create", state |-> IF IsOpen(u.create) THEN u.create.state ELSE "editing"]
<1>1. f \in Forms /\ f.kind # "members"
  BY Slots DEF Forms, States
<1>2. OpenCreate(u) = [u EXCEPT !.form = f]
  BY DEF OpenCreate
<1> HIDE DEF f
<1> QED BY <1>1, <1>2, FormIdle DEF CalmForm

LEMMA OpenEditIdle ==
  ASSUME NEW u \in Uis, u.out = <<>>, NEW c \in Channels
  PROVE  Idle(u, OpenEdit(u, c))
<1> DEFINE w == u.edit
           f == [kind |-> "edit", channel |-> c,
                 label |-> IF Holds(w, c) THEN w.label ELSE u.roster[c].label,
                 state |-> IF Holds(w, c) THEN w.state ELSE "editing"]
<1>1. CASE ~(Listed(u, c) /\ (Administrative(u, c) \/ Holds(w, c)) /\ u.roster[c].described)
  BY <1>1, SelfIdle DEF OpenEdit
<1>2. CASE Listed(u, c) /\ (Administrative(u, c) \/ Holds(w, c)) /\ u.roster[c].described
  <2>1. u.roster[c].label \in Labels
    BY <1>2 DEF Uis, Described
  <2>2. f \in Forms /\ f.kind # "members"
    BY <2>1, Slots DEF Forms, States, Holds
  <2>3. OpenEdit(u, c) = [u EXCEPT !.form = f]
    BY <1>2 DEF OpenEdit
  <2> HIDE DEF f
  <2> QED BY <2>2, <2>3, FormIdle DEF CalmForm
<1> QED BY <1>1, <1>2

LEMMA LabelIdle ==
  ASSUME NEW u \in Uis, u.out = <<>>, Showing(u, "edit"), NEW l \in Labels
  PROVE  Idle(u, [u EXCEPT !.form.label = l])
<1> DEFINE f == [u.form EXCEPT !.label = l]
<1>1. u.form \in EditForms
  BY Fields, FormKinds DEF Showing
<1>2. f \in Forms /\ f.kind # "members"
  BY <1>1, KindsOfForms DEF EditForms
<1>3. [u EXCEPT !.form.label = l] = [u EXCEPT !.form = f]
  OBVIOUS
<1> HIDE DEF f
<1> QED BY <1>2, <1>3, FormIdle DEF CalmForm

LEMMA OpenArchiveIdle ==
  ASSUME NEW u \in Uis, u.out = <<>>, NEW c \in Channels, NEW archived \in BOOLEAN
  PROVE  Idle(u, OpenArchive(u, c, archived))
<1> DEFINE f == [kind |-> "archive", channel |-> c, archived |-> archived,
                 state |-> IF Holds(u.archive, c) THEN u.archive.state ELSE "editing"]
<1>1. f \in Forms /\ f.kind # "members"
  BY Slots DEF Forms, States, Holds
<1>2. OpenArchive(u, c, archived) \in {u, [u EXCEPT !.form = f]}
  BY DEF OpenArchive
<1> HIDE DEF f
<1> QED BY <1>1, <1>2, FormIdle, SelfIdle DEF CalmForm

LEMMA CloseIdle ==
  ASSUME NEW u \in Uis, u.out = <<>>
  PROVE  Idle(u, [u EXCEPT !.form = NoForm])
<1>1. NoForm \in Forms /\ NoForm.kind # "members"
  BY DEF Forms, NoForm, None
<1> QED BY <1>1, FormIdle DEF CalmForm

\* The panel with another picker or another confirmation.
LEMMA PickerIdle ==
  ASSUME NEW u \in Uis, u.out = <<>>, Showing(u, "members"), NEW k \in Pickers,
         k.loading => u.form.picker.loading
  PROVE  Idle(u, [u EXCEPT !.form.picker = k])
<1> DEFINE f == [u.form EXCEPT !.picker = k]
<1>1. u.form \in Panels /\ u.form.kind = "members"
  BY Fields, FormKinds DEF Showing
<1>2. f \in Panels
  BY <1>1 DEF Panels
<1>3. f.kind = "members" /\ f.channel = u.form.channel /\ f.loading = u.form.loading /\ f.picker = k
  BY <1>1 DEF Panels
<1>4. [u EXCEPT !.form.picker = k] = [u EXCEPT !.form = f]
  OBVIOUS
<1> HIDE DEF f
<1>5. f \in Forms /\ CalmForm(u.form, f)
  BY <1>1, <1>2, <1>3, KindsOfForms DEF CalmForm
<1> QED BY <1>4, <1>5, FormIdle

LEMMA ConfirmIdle ==
  ASSUME NEW u \in Uis, u.out = <<>>, Showing(u, "members"), NEW k \in Confirms
  PROVE  Idle(u, [u EXCEPT !.form.confirm = k])
<1> DEFINE f == [u.form EXCEPT !.confirm = k]
<1>1. u.form \in Panels /\ u.form.kind = "members"
  BY Fields, FormKinds DEF Showing
<1>2. f \in Panels
  BY <1>1 DEF Panels
<1>3. /\ f.kind = "members" /\ f.channel = u.form.channel /\ f.loading = u.form.loading
      /\ f.picker = u.form.picker
  BY <1>1 DEF Panels
<1>4. [u EXCEPT !.form.confirm = k] = [u EXCEPT !.form = f]
  OBVIOUS
<1> HIDE DEF f
<1>5. f \in Forms /\ CalmForm(u.form, f)
  BY <1>1, <1>2, <1>3, KindsOfForms DEF CalmForm
<1> QED BY <1>4, <1>5, FormIdle

LEMMA PickerTyped ==
  ASSUME NEW u \in Uis, Showing(u, "members")
  PROVE  /\ u.form \in Panels /\ u.form.picker \in Pickers /\ u.form.channel \in Channels
         /\ u.form.picker.selected \in SUBSET People /\ u.form.picker.role \in Given
         /\ u.form.picker.candidates \in SUBSET People
         /\ u.form.confirm \in Confirms /\ u.form.rows \in [People -> Given]
         /\ u.form.picker.loading \in BOOLEAN /\ u.form.loading \in BOOLEAN
<1>1. u.form \in Panels
  BY Fields, FormKinds DEF Showing
<1> QED BY <1>1 DEF Panels, Pickers

LEMMA PickerKeysIdle ==
  ASSUME NEW u \in Uis, u.out = <<>>, Showing(u, "members")
  PROVE  /\ Idle(u, OpenPicker(u))
         /\ \A p \in People : Idle(u, Toggle(u, p))
         /\ \A role \in Roles : Idle(u, PickRole(u, role))
         /\ Idle(u, [u EXCEPT !.form.picker.open = FALSE])
<1> DEFINE k == u.form.picker
<1>0. k \in Pickers
  BY PickerTyped
<1>1. ASSUME NEW b \in BOOLEAN
      PROVE  Idle(u, [u EXCEPT !.form.picker.open = b])
  <2>1. [k EXCEPT !.open = b] \in Pickers /\ [k EXCEPT !.open = b].loading = k.loading
    BY <1>0 DEF Pickers
  <2>2. [u EXCEPT !.form.picker.open = b] = [u EXCEPT !.form.picker = [k EXCEPT !.open = b]]
    OBVIOUS
  <2> QED BY <2>1, <2>2, PickerIdle
<1>2. Idle(u, OpenPicker(u))
  BY <1>1, SelfIdle DEF OpenPicker
<1>3. ASSUME NEW p \in People
      PROVE  Idle(u, Toggle(u, p))
  <2> DEFINE s == IF p \in k.selected THEN k.selected \ {p} ELSE k.selected \cup {p}
  <2>0. s \in SUBSET People
    BY PickerTyped
  <2>1. Toggle(u, p) \in {u, [u EXCEPT !.form.picker.selected = s]}
    BY DEF Toggle
  <2> HIDE DEF s
  <2>2. [k EXCEPT !.selected = s] \in Pickers /\ [k EXCEPT !.selected = s].loading = k.loading
    BY <1>0, <2>0 DEF Pickers
  <2>3. [u EXCEPT !.form.picker.selected = s] = [u EXCEPT !.form.picker = [k EXCEPT !.selected = s]]
    OBVIOUS
  <2> QED BY <2>1, <2>2, <2>3, PickerIdle, SelfIdle
<1>4. ASSUME NEW role \in Roles
      PROVE  Idle(u, PickRole(u, role))
  <2>1. [k EXCEPT !.role = role] \in Pickers /\ [k EXCEPT !.role = role].loading = k.loading
    BY <1>0 DEF Pickers, Given
  <2>2. [u EXCEPT !.form.picker.role = role] = [u EXCEPT !.form.picker = [k EXCEPT !.role = role]]
    OBVIOUS
  <2> QED BY <2>1, <2>2, PickerIdle DEF PickRole
<1> QED BY <1>1, <1>2, <1>3, <1>4

LEMMA OpenConfirmIdle ==
  ASSUME NEW u \in Uis, u.out = <<>>, Showing(u, "members"), NEW op \in {"role", "remove", "leave"},
         NEW p \in People, NEW role \in Roles
  PROVE  Idle(u, OpenConfirm(u, op, p, role)) /\ Idle(u, [u EXCEPT !.form.confirm = NoConfirm])
<1> DEFINE b == /\ op = "leave" /\ u.roster[u.form.channel].mine = "owner"
                /\ (~u.form.complete \/ p \in u.form.last)
           k == [op |-> op, who |-> p, role |-> role, warned |-> b]
<1>1. k \in Confirms
  BY DEF Confirms
<1> DEFINE c == u.form.channel
           row == u.form.rows[p]
           last == p \in u.form.last
           g == CASE op = "role"   -> /\ Administrative(u, c) /\ row # None
                                      /\ row = role \/ ~last
                                      /\ u.form.complete \/ row # "owner" \/ row = role
                  [] op = "remove" -> Administrative(u, c) /\ row # None /\ p # Me /\ ~last
                  [] op = "leave"  -> p = Me /\ Listed(u, c) /\ ~u.roster[c].archived
<1>2. OpenConfirm(u, op, p, role) = IF ~g \/ Locked(u, c) THEN u ELSE [u EXCEPT !.form.confirm = k]
  BY Zenon DEF OpenConfirm
<1> HIDE DEF k, g
<1>3. NoConfirm \in Confirms
  BY DEF Confirms
<1> QED BY <1>1, <1>2, <1>3, ConfirmIdle, SelfIdle

\* No record, number or form is another one, and no command is pushed.
Untouched(u, v) ==
  /\ v.create = u.create /\ v.edit = u.edit /\ v.archive = u.archive /\ v.member = u.member
  /\ v.told = u.told /\ v.createRequest = u.createRequest /\ v.lifeRequest = u.lifeRequest
  /\ v.memberRead = u.memberRead /\ v.memberSearch = u.memberSearch /\ v.form = u.form
  /\ v.out = u.out

LEMMA UntouchedIdle ==
  ASSUME NEW u \in Uis, u.out = <<>>, NEW v \in Uis, Untouched(u, v)
  PROVE  Idle(u, v)
  BY DEF Idle, Kept, Calm, CalmForm, Only, Untouched

LEMMA RefreshFlags ==
  ASSUME NEW u \in Uis, u.out = <<>>
  PROVE  /\ Idle(u, [u EXCEPT !.createRefresh = TRUE])
         /\ Idle(u, [u EXCEPT !.editRefresh = TRUE])
         /\ Idle(u, [u EXCEPT !.archiveRefresh = TRUE])
<1>1. Idle(u, [u EXCEPT !.createRefresh = TRUE])
  <2> DEFINE v == [u EXCEPT !.createRefresh = TRUE]
  <2>1. v \in Uis
    BY DEF Uis
  <2>2. Untouched(u, v)
    BY DEF Uis, Untouched
  <2> HIDE DEF v
  <2> QED BY <2>1, <2>2, UntouchedIdle DEF v
<1>2. Idle(u, [u EXCEPT !.editRefresh = TRUE])
  <2> DEFINE v == [u EXCEPT !.editRefresh = TRUE]
  <2>1. v \in Uis
    BY DEF Uis
  <2>2. Untouched(u, v)
    BY DEF Uis, Untouched
  <2> HIDE DEF v
  <2> QED BY <2>1, <2>2, UntouchedIdle DEF v
<1>3. Idle(u, [u EXCEPT !.archiveRefresh = TRUE])
  <2> DEFINE v == [u EXCEPT !.archiveRefresh = TRUE]
  <2>1. v \in Uis
    BY DEF Uis
  <2>2. Untouched(u, v)
    BY DEF Uis, Untouched
  <2> HIDE DEF v
  <2> QED BY <2>1, <2>2, UntouchedIdle DEF v
<1> QED BY <1>1, <1>2, <1>3

LEMMA RefreshIdle ==
  ASSUME NEW u \in Uis, u.out = <<>>
  PROVE  Idle(u, RefreshCreate(u)) /\ Idle(u, RefreshEdit(u)) /\ Idle(u, RefreshArchive(u))
  BY RefreshFlags, AskIdle, SelfIdle DEF RefreshCreate, RefreshEdit, RefreshArchive
-----------------------------------------------------------------------------
(* Keys that submit a write.                                                *)

WroteCreate(u, v) ==
  /\ v \in Uis /\ Calm(u, v) /\ ~IsOpen(u.create)
  /\ v.create.request = u.createRequest + 1 /\ v.create.id = None /\ v.create.state = "creating"
  /\ v.edit = u.edit /\ v.archive = u.archive /\ v.member = u.member /\ v.told = u.told
  /\ v.createRequest = u.createRequest + 1 /\ v.lifeRequest = u.lifeRequest
  /\ \E c \in Commands : c.kind = "Create" /\ c.request = u.createRequest + 1 /\ v.out = <<c>>

\* The command c carries the new number of the record w, about a channel no
\* record old was about.
Submitted(w, old, n, c) ==
  /\ w.request = n + 1 /\ c.request = n + 1 /\ c.channel = w.channel
  /\ ~Holds(old, w.channel)

WroteEdit(u, v) ==
  /\ v \in Uis /\ Calm(u, v)
  /\ v.create = u.create /\ v.archive = u.archive /\ v.member = u.member /\ v.told = u.told
  /\ v.createRequest = u.createRequest /\ v.lifeRequest = u.lifeRequest + 1
  /\ v.edit.state = "creating"
  /\ \E c \in Commands : c.kind = "Edit" /\ Submitted(v.edit, u.edit, u.lifeRequest, c) /\ v.out = <<c>>

WroteArchive(u, v) ==
  /\ v \in Uis /\ Calm(u, v)
  /\ v.create = u.create /\ v.edit = u.edit /\ v.member = u.member /\ v.told = u.told
  /\ v.createRequest = u.createRequest /\ v.lifeRequest = u.lifeRequest + 1
  /\ v.archive.state = "creating"
  /\ \E c \in Commands :
       c.kind = "SetArchived" /\ Submitted(v.archive, u.archive, u.lifeRequest, c) /\ v.out = <<c>>

WroteMember(u, v) ==
  /\ v \in Uis /\ Calm(u, v)
  /\ v.create = u.create /\ v.edit = u.edit /\ v.archive = u.archive /\ v.told = u.told
  /\ v.createRequest = u.createRequest /\ v.lifeRequest = u.lifeRequest + 1
  /\ v.member.readAfter = u.memberRead /\ DOMAIN v.member.results = {}
  /\ \E c \in Commands :
       /\ c.kind \in MemberKinds /\ Submitted(v.member, u.member, u.lifeRequest, c) /\ v.out = <<c>>
       /\ DOMAIN v.member.expected = Targets(c)

LEMMA PushOne ==
  ASSUME NEW u \in Uis, NEW v \in Uis, v.out = <<>>, NEW c \in Commands, Calm(u, v)
  PROVE  /\ Push(v, c) \in Uis /\ Push(v, c).out = <<c>> /\ Kept(v, Push(v, c)) /\ Calm(u, Push(v, c))
<1>1. Append(<<>>, c) = <<c>>
  OBVIOUS
<1> QED BY <1>1, PushEffect, CalmTransitive

LEMMA SetStateShape ==
  ASSUME NEW u \in Uis, NEW kind \in {"create", "edit", "archive"}, NEW state \in States
  PROVE  \E f \in Forms : SetState(u, kind, state) = [u EXCEPT !.form = f] /\ CalmForm(u.form, f)
<1>1. PICK f \in Forms : /\ SetState(u, kind, state) = [u EXCEPT !.form = f]
                         /\ f.kind = u.form.kind
                         /\ f.kind = "members" => f = u.form
  BY SetStateForm
<1>2. CalmForm(u.form, f)
  BY <1>1 DEF CalmForm
<1> QED BY <1>1, <1>2

LEMMA SubmitCreateSteps ==
  ASSUME NEW u \in Uis, u.out = <<>>, NEW valid \in BOOLEAN
  PROVE  Idle(u, SubmitCreate(u, valid)) \/ WroteCreate(u, SubmitCreate(u, valid))
<1> DEFINE n == u.createRequest + 1
           w == [request |-> n, id |-> None, known |-> Known(u), state |-> "creating"]
           c == [kind |-> "Create", request |-> n]
           s == SetState(u, "create", "creating")
           v == [s EXCEPT !.createRequest = n, !.create = w]
<1>1. CASE IsOpen(u.create) \/ ~Ready(u.form.state)
  BY <1>1, SelfIdle DEF SubmitCreate
<1>2. CASE ~(IsOpen(u.create) \/ ~Ready(u.form.state)) /\ ~valid
  BY <1>2, SetStateIdle DEF SubmitCreate, States
<1>3. CASE ~(IsOpen(u.create) \/ ~Ready(u.form.state)) /\ valid
  <2>1. SubmitCreate(u, valid) = Push(v, c)
    BY <1>3 DEF SubmitCreate
  <2>2. n \in Nat /\ w \in Creates /\ c \in Commands
    BY Fields DEF Creates, Slot, States, Known, Commands, CreateCommands
  <2>3. PICK f \in Forms : s = [u EXCEPT !.form = f] /\ CalmForm(u.form, f)
    BY SetStateShape DEF States
  <2>4. c.kind = "Create" /\ c.request = n /\ w.request = n /\ w.id = None /\ w.state = "creating"
    OBVIOUS
  <2> HIDE DEF n, w, c, s
  <2>5. /\ v \in Uis /\ v.form = f /\ v.createRequest = n /\ v.create = w
        /\ v.edit = u.edit /\ v.archive = u.archive /\ v.member = u.member /\ v.told = u.told
        /\ v.lifeRequest = u.lifeRequest /\ v.out = <<>>
        /\ v.memberRead = u.memberRead /\ v.memberSearch = u.memberSearch
    <3>1. v = [[u EXCEPT !.form = f] EXCEPT !.createRequest = n, !.create = w]
      BY <2>3
    <3> HIDE DEF v
    <3> QED BY <3>1, <2>2 DEF Uis
  <2> HIDE DEF v
  <2>6. Calm(u, v)
    BY <2>3, <2>5 DEF Calm
  <2>7. Push(v, c) \in Uis /\ Push(v, c).out = <<c>> /\ Kept(v, Push(v, c)) /\ Calm(u, Push(v, c))
    BY <2>2, <2>5, <2>6, PushOne
  <2>8. WroteCreate(u, Push(v, c))
    BY <1>3, <2>2, <2>4, <2>5, <2>7 DEF WroteCreate, Kept, n
  <2> QED BY <2>1, <2>8
<1> QED BY <1>1, <1>2, <1>3

LEMMA SubmitEditSteps ==
  ASSUME NEW u \in Uis, u.out = <<>>, Showing(u, "edit")
  PROVE  Idle(u, SubmitEdit(u)) \/ WroteEdit(u, SubmitEdit(u))
<1> DEFINE h == u.form.channel
           n == NextRequest(u)
           w == [request |-> n, channel |-> h, label |-> u.form.label, state |-> "creating"]
           c == [kind |-> "Edit", channel |-> h, label |-> u.form.label, request |-> n]
           s == SetState(u, "edit", "creating")
           v == [s EXCEPT !.lifeRequest = n, !.edit = w]
<1>1. CASE ~Ready(u.form.state) \/ Locked(u, h) \/ ~Administrative(u, h)
  BY <1>1, SelfIdle DEF SubmitEdit
<1>2. CASE ~(~Ready(u.form.state) \/ Locked(u, h) \/ ~Administrative(u, h))
  <2>1. SubmitEdit(u) = Push(v, c)
    BY <1>2 DEF SubmitEdit
  <2>0. u.form \in EditForms
    BY Fields, FormKinds DEF Showing
  <2>2. n \in Nat /\ w \in Edits /\ c \in Commands
    BY <2>0, Fields DEF EditForms, Edits, Slot, States, NextRequest, Commands, EditCommands
  <2>3. PICK f \in Forms : s = [u EXCEPT !.form = f] /\ CalmForm(u.form, f)
    BY SetStateShape DEF States
  <2>4. c.kind = "Edit" /\ Submitted(w, u.edit, u.lifeRequest, c) /\ w.state = "creating" /\ n = u.lifeRequest + 1
    BY <1>2 DEF Submitted, NextRequest, Locked
  <2> HIDE DEF n, w, c, s
  <2>5. /\ v \in Uis /\ v.form = f /\ v.lifeRequest = n /\ v.edit = w
        /\ v.create = u.create /\ v.archive = u.archive /\ v.member = u.member /\ v.told = u.told
        /\ v.createRequest = u.createRequest /\ v.out = <<>>
        /\ v.memberRead = u.memberRead /\ v.memberSearch = u.memberSearch
    <3>1. v = [[u EXCEPT !.form = f] EXCEPT !.lifeRequest = n, !.edit = w]
      BY <2>3
    <3> HIDE DEF v
    <3> QED BY <3>1, <2>2 DEF Uis
  <2> HIDE DEF v
  <2>6. Calm(u, v)
    BY <2>3, <2>5 DEF Calm
  <2>7. Push(v, c) \in Uis /\ Push(v, c).out = <<c>> /\ Kept(v, Push(v, c)) /\ Calm(u, Push(v, c))
    BY <2>2, <2>5, <2>6, PushOne
  <2>8. WroteEdit(u, Push(v, c))
    BY <2>2, <2>4, <2>5, <2>7 DEF WroteEdit, Kept
  <2> QED BY <2>1, <2>8
<1> QED BY <1>1, <1>2

LEMMA SubmitArchiveSteps ==
  ASSUME NEW u \in Uis, u.out = <<>>, Showing(u, "archive")
  PROVE  Idle(u, SubmitArchive(u)) \/ WroteArchive(u, SubmitArchive(u))
<1> DEFINE h == u.form.channel
           n == NextRequest(u)
           w == [request |-> n, channel |-> h, archived |-> u.form.archived, state |-> "creating"]
           c == [kind |-> "SetArchived", channel |-> h, archived |-> u.form.archived, request |-> n]
           s == SetState(u, "archive", "creating")
           v == [s EXCEPT !.lifeRequest = n, !.archive = w]
<1>1. CASE ~Ready(u.form.state) \/ Locked(u, h) \/ ~MayArchive(u, h, u.form.archived)
  BY <1>1, SelfIdle DEF SubmitArchive
<1>2. CASE ~(~Ready(u.form.state) \/ Locked(u, h) \/ ~MayArchive(u, h, u.form.archived))
  <2>1. SubmitArchive(u) = Push(v, c)
    BY <1>2 DEF SubmitArchive
  <2>0. u.form \in ArchiveForms
    BY Fields, FormKinds DEF Showing
  <2>2. n \in Nat /\ w \in Archives /\ c \in Commands
    BY <2>0, Fields DEF ArchiveForms, Archives, Slot, States, NextRequest, Commands, ArchiveCommands
  <2>3. PICK f \in Forms : s = [u EXCEPT !.form = f] /\ CalmForm(u.form, f)
    BY SetStateShape DEF States
  <2>4. /\ c.kind = "SetArchived" /\ Submitted(w, u.archive, u.lifeRequest, c)
        /\ w.state = "creating" /\ n = u.lifeRequest + 1
    BY <1>2 DEF Submitted, NextRequest, Locked
  <2> HIDE DEF n, w, c, s
  <2>5. /\ v \in Uis /\ v.form = f /\ v.lifeRequest = n /\ v.archive = w
        /\ v.create = u.create /\ v.edit = u.edit /\ v.member = u.member /\ v.told = u.told
        /\ v.createRequest = u.createRequest /\ v.out = <<>>
        /\ v.memberRead = u.memberRead /\ v.memberSearch = u.memberSearch
    <3>1. v = [[u EXCEPT !.form = f] EXCEPT !.lifeRequest = n, !.archive = w]
      BY <2>3
    <3> HIDE DEF v
    <3> QED BY <3>1, <2>2 DEF Uis
  <2> HIDE DEF v
  <2>6. Calm(u, v)
    BY <2>3, <2>5 DEF Calm
  <2>7. Push(v, c) \in Uis /\ Push(v, c).out = <<c>> /\ Kept(v, Push(v, c)) /\ Calm(u, Push(v, c))
    BY <2>2, <2>5, <2>6, PushOne
  <2>8. WroteArchive(u, Push(v, c))
    BY <2>2, <2>4, <2>5, <2>7 DEF WroteArchive, Kept
  <2> QED BY <2>1, <2>8
<1> QED BY <1>1, <1>2

\* A set of people in some order.
LEMMA SetToSeqIs ==
  ASSUME NEW S, IsFiniteSet(S), S # {}
  PROVE  SetToSeq(S) \in Seq(S) /\ Range(SetToSeq(S)) = S /\ IsInjective(SetToSeq(S)) /\ SetToSeq(S) # <<>>
<1> DEFINE n == Cardinality(S)
           q == SetToSeq(S)
<1>1. n \in Nat /\ n # 0
  BY FS_CardinalityType, FS_EmptySet
<1>2. IsFiniteSet(1..n) /\ Cardinality(1..n) = n
  BY <1>1, FS_Interval
<1>3. PICK f \in Bijection(1..n, S) : TRUE
  BY <1>2, FS_SameCardinalityBij DEF ExistsBijection
<1>4. f \in [1..n -> S] /\ IsInjective(f)
  BY <1>3 DEF Bijection, Injection
<1>5. q \in [1..n -> S] /\ IsInjective(q)
  BY <1>4 DEF SetToSeq
<1>6. q \in Seq(S) /\ Len(q) = n /\ q # <<>>
  BY <1>1, <1>5
<1>7. q \in Injection(1..n, S)
  BY <1>5 DEF Injection
<1>8. q \in Surjection(1..n, S)
  BY <1>2, <1>7, FS_Injection
<1>9. Range(q) = S
  BY <1>5, <1>8 DEF Range, Surjection
<1> QED BY <1>5, <1>6, <1>9

LEMMA FinitePeople ==
  ASSUME NEW S \in SUBSET People
  PROVE  IsFiniteSet(S)
<1>1. IsFiniteSet({Me}) /\ IsFiniteSet(Others)
  BY FS_Singleton, IdsAssumption
<1>2. IsFiniteSet(People)
  BY <1>1, FS_Union DEF People
<1> QED BY <1>2, FS_Subset

LEMMA UnsettledTyped ==
  ASSUME NEW u \in Uis, NEW n \in Nat, NEW c \in Channels,
         NEW x, DOMAIN x \in SUBSET People, x \in [DOMAIN x -> Given]
  PROVE  /\ Unsettled(u, n, c, x) \in MemberWrites
         /\ Unsettled(u, n, c, x).request = n /\ Unsettled(u, n, c, x).channel = c
         /\ Unsettled(u, n, c, x).readAfter = u.memberRead
         /\ DOMAIN Unsettled(u, n, c, x).expected = DOMAIN x /\ DOMAIN Unsettled(u, n, c, x).results = {}
<1> DEFINE y == [p \in {} |-> None]
           w == [request |-> n, channel |-> c, expected |-> x, results |-> y, readAfter |-> u.memberRead]
<1>1. x \in Expecteds
  BY DEF Expecteds
<1>2. y \in [{} -> Results]
  OBVIOUS
<1>3. y \in Outcomeses /\ DOMAIN y = {}
  BY <1>2 DEF Outcomeses
<1>4. u.memberRead \in Nat
  BY Fields
<1>5. Unsettled(u, n, c, x) = w
  BY DEF Unsettled
<1> HIDE DEF y
<1>6. w \in MemberWrites
  BY <1>1, <1>3, <1>4 DEF MemberWrites, Slot
<1>7. w.request = n /\ w.channel = c /\ w.readAfter = u.memberRead /\ w.expected = x /\ w.results = y
  OBVIOUS
<1> QED BY <1>1, <1>3, <1>5, <1>6, <1>7

LEMMA SubmitAddSteps ==
  ASSUME NEW u \in Uis, u.out = <<>>, Showing(u, "members")
  PROVE  Idle(u, SubmitAdd(u)) \/ WroteMember(u, SubmitAdd(u))
<1> DEFINE h == u.form.channel
           n == NextRequest(u)
           targets == u.form.picker.selected
           role == u.form.picker.role
           x == [p \in targets |-> role]
           w == Unsettled(u, n, h, x)
           c == [kind |-> "AddMembers", channel |-> h, targets |-> SetToSeq(targets), role |-> role, request |-> n]
           k == [u.form.picker EXCEPT !.selected = {}]
           f == [u.form EXCEPT !.picker = k]
           v == [[u EXCEPT !.lifeRequest = n, !.member = w] EXCEPT !.form = f]
<1>1. CASE ~Administrative(u, h) \/ Locked(u, h) \/ role = None \/ targets = {}
  BY <1>1, SelfIdle DEF SubmitAdd
<1>2. CASE ~(~Administrative(u, h) \/ Locked(u, h) \/ role = None \/ targets = {})
  <2>1. SubmitAdd(u) = Push(v, c)
    BY <1>2 DEF SubmitAdd
  <2>2. /\ u.form \in Panels /\ u.form.picker \in Pickers /\ h \in Channels
        /\ targets \in SUBSET People /\ role \in Given
    BY PickerTyped
  <2>3. n \in Nat /\ n = u.lifeRequest + 1
    BY Fields DEF NextRequest
  <2>4. /\ w \in MemberWrites /\ w.request = n /\ w.channel = h /\ w.readAfter = u.memberRead
        /\ DOMAIN w.expected = targets /\ DOMAIN w.results = {}
    <3>1. x \in [targets -> Given] /\ DOMAIN x = targets
      BY <2>2
    <3> HIDE DEF x
    <3> QED BY <3>1, <2>2, <2>3, UnsettledTyped
  <2>5. /\ SetToSeq(targets) \in Seq(targets) /\ Range(SetToSeq(targets)) = targets
        /\ IsInjective(SetToSeq(targets)) /\ SetToSeq(targets) # <<>>
    BY <1>2, <2>2, FinitePeople, SetToSeqIs
  <2>6. SetToSeq(targets) \in Batches
    BY <2>2, <2>5 DEF Batches
  <2>7. c \in Commands /\ c.kind = "AddMembers" /\ c.request = n /\ c.channel = h /\ Targets(c) = targets
    BY <2>2, <2>3, <2>5, <2>6 DEF Commands, AddCommands, Targets
  <2>8. k \in Pickers /\ k.loading = u.form.picker.loading
    BY <2>2 DEF Pickers
  <2>9. /\ f \in Panels /\ f.kind = "members" /\ f.channel = u.form.channel
        /\ f.loading = u.form.loading /\ f.picker = k /\ u.form.kind = "members"
    BY <2>2, <2>8 DEF Panels
  <2>10. ~Holds(u.member, h)
    BY <1>2 DEF Locked
  <2> HIDE DEF n, w, c, k, f
  <2>11. f \in Forms /\ CalmForm(u.form, f)
    BY <2>8, <2>9, KindsOfForms DEF CalmForm
  <2>12. /\ v \in Uis /\ v.form = f /\ v.lifeRequest = n /\ v.member = w
         /\ v.create = u.create /\ v.edit = u.edit /\ v.archive = u.archive /\ v.told = u.told
         /\ v.createRequest = u.createRequest /\ v.out = <<>>
         /\ v.memberRead = u.memberRead /\ v.memberSearch = u.memberSearch
    BY <2>3, <2>4, <2>11 DEF Uis
  <2> HIDE DEF v
  <2>13. Calm(u, v)
    BY <2>11, <2>12 DEF Calm
  <2>14. Push(v, c) \in Uis /\ Push(v, c).out = <<c>> /\ Kept(v, Push(v, c)) /\ Calm(u, Push(v, c))
    BY <2>7, <2>12, <2>13, PushOne
  <2>15. Submitted(w, u.member, u.lifeRequest, c)
    BY <2>3, <2>4, <2>7, <2>10 DEF Submitted
  <2>16. c.kind \in MemberKinds
    BY <2>7 DEF MemberKinds
  <2>17. WroteMember(u, Push(v, c))
    BY <2>3, <2>4, <2>7, <2>12, <2>14, <2>15, <2>16 DEF WroteMember, Kept
  <2> QED BY <2>1, <2>17
<1> QED BY <1>1, <1>2

LEMMA SubmitConfirmSteps ==
  ASSUME NEW u \in Uis, u.out = <<>>, Showing(u, "members"), u.form.confirm # NoConfirm
  PROVE  Idle(u, SubmitConfirm(u)) \/ WroteMember(u, SubmitConfirm(u))
<1> DEFINE h == u.form.channel
           n == NextRequest(u)
           ask == u.form.confirm
           wanted == IF ask.op = "role" THEN ask.role ELSE None
           x == [p \in {ask.who} |-> wanted]
           w == Unsettled(u, n, h, x)
           c == [kind |-> "MemberWrite", channel |-> h, op |-> ask.op, who |-> ask.who,
                 role |-> wanted, request |-> n]
           f == [u.form EXCEPT !.confirm = NoConfirm]
           v == [[u EXCEPT !.lifeRequest = n, !.member = w] EXCEPT !.form = f]
<1>1. CASE ~MayConfirm(u)
  BY <1>1, SelfIdle DEF SubmitConfirm
<1>2. CASE MayConfirm(u)
  <2>1. SubmitConfirm(u) = Push(v, c)
    <3>1. SubmitConfirm(u) =
            Push([u EXCEPT !.lifeRequest = n, !.form.confirm = NoConfirm, !.member = w], c)
      BY <1>2 DEF SubmitConfirm
    <3>2. [u EXCEPT !.lifeRequest = n, !.form.confirm = NoConfirm, !.member = w] = v
      <4> HIDE DEF n, w
      <4> QED BY DEF Uis
    <3> QED BY <3>1, <3>2
  <2>2. u.form \in Panels /\ h \in Channels /\ ask \in Confirms
    BY PickerTyped
  <2>3. /\ ask.op \in {"role", "remove", "leave"} /\ ask.who \in People /\ ask.role \in Roles
        /\ wanted \in Given
    BY <2>2 DEF Confirms, Given
  <2>4. n \in Nat /\ n = u.lifeRequest + 1
    BY Fields DEF NextRequest
  <2>5. /\ w \in MemberWrites /\ w.request = n /\ w.channel = h /\ w.readAfter = u.memberRead
        /\ DOMAIN w.expected = {ask.who} /\ DOMAIN w.results = {}
    <3>1. {ask.who} \in SUBSET People /\ x \in [{ask.who} -> Given] /\ DOMAIN x = {ask.who}
      BY <2>3
    <3> HIDE DEF x
    <3> QED BY <3>1, <2>2, <2>4, UnsettledTyped
  <2>7. c \in Commands /\ c.kind = "MemberWrite" /\ c.request = n /\ c.channel = h /\ Targets(c) = {ask.who}
    BY <2>2, <2>3, <2>4 DEF Commands, MemberCommands, Targets
  <2>9. /\ f \in Panels /\ f.kind = "members" /\ f.channel = u.form.channel
        /\ f.loading = u.form.loading /\ f.picker = u.form.picker /\ u.form.kind = "members"
    BY <2>2 DEF Panels, Confirms
  <2>10. ~Holds(u.member, h)
    BY <1>2 DEF Locked, MayConfirm
  <2> HIDE DEF n, w, c, f
  <2>11. f \in Forms /\ CalmForm(u.form, f)
    BY <2>9, KindsOfForms DEF CalmForm
  <2>12. /\ v \in Uis /\ v.form = f /\ v.lifeRequest = n /\ v.member = w
         /\ v.create = u.create /\ v.edit = u.edit /\ v.archive = u.archive /\ v.told = u.told
         /\ v.createRequest = u.createRequest /\ v.out = <<>>
         /\ v.memberRead = u.memberRead /\ v.memberSearch = u.memberSearch
    BY <2>4, <2>5, <2>11 DEF Uis
  <2> HIDE DEF v
  <2>13. Calm(u, v)
    BY <2>11, <2>12 DEF Calm
  <2>14. Push(v, c) \in Uis /\ Push(v, c).out = <<c>> /\ Kept(v, Push(v, c)) /\ Calm(u, Push(v, c))
    BY <2>7, <2>12, <2>13, PushOne
  <2>15. Submitted(w, u.member, u.lifeRequest, c)
    BY <2>4, <2>5, <2>7, <2>10 DEF Submitted
  <2>16. c.kind \in MemberKinds
    BY <2>7 DEF MemberKinds
  <2>17. WroteMember(u, Push(v, c))
    BY <2>4, <2>5, <2>7, <2>12, <2>14, <2>15, <2>16 DEF WroteMember, Kept
  <2> QED BY <2>1, <2>17
<1> QED BY <1>1, <1>2
-----------------------------------------------------------------------------
(* Keys and answers after which the panel is read.                          *)

\* The panel of v waits for the members it was the first to ask for.
AsksMembers(u, v) ==
  /\ v \in Uis /\ v.memberRead = u.memberRead + 1 /\ v.memberSearch = u.memberSearch
  /\ v.form.kind = "members"
  /\ v.form.picker.loading => /\ u.form.kind = "members" /\ v.form.channel = u.form.channel
                              /\ u.form.picker.loading
  /\ \E c \in Commands :
       /\ c.kind = "LoadMembers" /\ c.request = v.memberRead /\ c.channel = v.form.channel
       /\ v.out = <<c>>

LEMMA RefreshMembersSteps ==
  ASSUME NEW u \in Uis, u.out = <<>>, Showing(u, "members")
  PROVE  LET v == RefreshMembers(u) IN AsksMembers(u, v) /\ Kept(u, v) /\ v.form.channel = u.form.channel
<1> DEFINE n == u.memberRead + 1
           f == [u.form EXCEPT !.loading = TRUE]
           c == [kind |-> "LoadMembers", channel |-> u.form.channel, request |-> n]
           v == [[u EXCEPT !.memberRead = n] EXCEPT !.form = f]
<1>1. RefreshMembers(u) = Push(v, c)
  <2>1. RefreshMembers(u) = Push([u EXCEPT !.memberRead = n, !.form.loading = TRUE], c)
    BY DEF RefreshMembers
  <2>2. [u EXCEPT !.memberRead = n, !.form.loading = TRUE] = v
    <3> HIDE DEF n
    <3> QED BY DEF Uis
  <2> QED BY <2>1, <2>2
<1>2. u.form \in Panels /\ u.form.channel \in Channels /\ n \in Nat
  BY PickerTyped, Fields
<1>3. c \in Commands /\ c.kind = "LoadMembers" /\ c.request = n /\ c.channel = u.form.channel
  BY <1>2 DEF Commands
<1>4. /\ f \in Panels /\ f.kind = "members" /\ f.channel = u.form.channel /\ f.picker = u.form.picker
      /\ u.form.kind = "members"
  BY <1>2 DEF Panels
<1> HIDE DEF n, f, c
<1>5. f \in Forms
  BY <1>4, KindsOfForms
<1>6. /\ v \in Uis /\ v.form = f /\ v.memberRead = n /\ v.out = <<>> /\ v.memberSearch = u.memberSearch
      /\ Kept(u, v)
  BY <1>2, <1>5 DEF Uis, Kept
<1> HIDE DEF v
<1>7. Calm(v, v)
  BY DEF Calm, CalmForm
<1>8. Push(v, c) \in Uis /\ Push(v, c).out = <<c>> /\ Kept(v, Push(v, c)) /\ Push(v, c).form = v.form
        /\ Push(v, c).memberRead = n /\ Push(v, c).memberSearch = u.memberSearch
  <2>1. Push(v, c) \in Uis /\ Push(v, c).out = <<c>> /\ Kept(v, Push(v, c))
    BY <1>3, <1>6, <1>7, PushOne
  <2>2. Push(v, c).form = v.form /\ Push(v, c).memberRead = v.memberRead /\ Push(v, c).memberSearch = v.memberSearch
    BY <1>6 DEF Push, Uis
  <2> QED BY <2>1, <2>2, <1>6
<1>9. AsksMembers(u, Push(v, c))
  BY <1>3, <1>4, <1>6, <1>8 DEF AsksMembers, n
<1>10. Kept(u, Push(v, c))
  BY <1>6, <1>8 DEF Kept
<1> QED BY <1>1, <1>4, <1>6, <1>8, <1>9, <1>10

LEMMA OpenMembersSteps ==
  ASSUME NEW u \in Uis, u.out = <<>>, NEW c \in Channels
  PROVE  LET v == OpenMembers(u, c) IN Idle(u, v) \/ (AsksMembers(u, v) /\ Kept(u, v))
<1> DEFINE f == [kind |-> "members", channel |-> c, loading |-> FALSE, complete |-> FALSE,
                 rows |-> [p \in People |-> None], last |-> {}, picker |-> NoPicker, confirm |-> NoConfirm]
           x == [u EXCEPT !.form = f]
<1>1. CASE ~Listed(u, c) \/ ~u.roster[c].described
  BY <1>1, SelfIdle DEF OpenMembers
<1>2. CASE ~(~Listed(u, c) \/ ~u.roster[c].described)
  <2>1. OpenMembers(u, c) = RefreshMembers(x)
    BY <1>2 DEF OpenMembers
  <2>2. NoPicker \in Pickers /\ NoPicker.loading = FALSE
    BY DEF Pickers, NoPicker, Given
  <2>3. [p \in People |-> None] \in [People -> Given] /\ NoConfirm \in Confirms
    BY DEF Given, Confirms
  <2> HIDE DEF NoPicker
  <2>4. f \in Panels /\ f.kind = "members" /\ f.picker = NoPicker
    BY <2>2, <2>3 DEF Panels
  <2> HIDE DEF f
  <2>5. f \in Forms
    BY <2>4, KindsOfForms
  <2>6. /\ x \in Uis /\ x.form = f /\ x.out = <<>> /\ x.memberRead = u.memberRead
        /\ x.memberSearch = u.memberSearch /\ Kept(u, x)
    BY <2>5 DEF Uis, Kept
  <2> HIDE DEF x
  <2>7. Showing(x, "members")
    BY <2>4, <2>6 DEF Showing
  <2>8. AsksMembers(x, RefreshMembers(x)) /\ Kept(x, RefreshMembers(x))
    BY <2>6, <2>7, RefreshMembersSteps
  <2>9. AsksMembers(u, RefreshMembers(x))
    BY <2>2, <2>4, <2>6, <2>8 DEF AsksMembers
  <2>10. Kept(u, RefreshMembers(x))
    BY <2>6, <2>8 DEF Kept
  <2> QED BY <2>1, <2>9, <2>10
<1> QED BY <1>1, <1>2

\* The panel of v waits for the candidates it was the first to ask for.
AsksCandidates(u, v) ==
  /\ v \in Uis /\ Kept(u, v) /\ v.memberRead = u.memberRead /\ v.memberSearch = u.memberSearch + 1
  /\ u.form.kind = "members" /\ v.form.kind = "members" /\ v.form.channel = u.form.channel
  /\ v.form.loading = u.form.loading
  /\ \E c \in Commands :
       /\ c.kind = "MemberCandidates" /\ c.request = v.memberSearch /\ c.channel = v.form.channel
       /\ v.out = <<c>>

LEMMA QuerySteps ==
  ASSUME NEW u \in Uis, u.out = <<>>, Showing(u, "members"), NEW p \in People
  PROVE  AsksCandidates(u, Query(u, p))
<1> DEFINE n == u.memberSearch + 1
           s == IF u.form.rows[p] = None THEN {p} ELSE {}
           k == [u.form.picker EXCEPT !.loading = TRUE, !.candidates = s]
           f == [u.form EXCEPT !.picker = k]
           c == [kind |-> "MemberCandidates", channel |-> u.form.channel, request |-> n, who |-> p]
           v == [[u EXCEPT !.memberSearch = n] EXCEPT !.form = f]
<1>1. Query(u, p) = Push(v, c)
  <2>1. Query(u, p) = Push([u EXCEPT !.memberSearch = n, !.form.picker = k], c)
    BY DEF Query
  <2>2. [u EXCEPT !.memberSearch = n, !.form.picker = k] = v
    <3> HIDE DEF n, k
    <3> QED BY DEF Uis
  <2> QED BY <2>1, <2>2
<1>2. /\ u.form \in Panels /\ u.form.channel \in Channels /\ n \in Nat /\ u.form.picker \in Pickers
      /\ s \in SUBSET People
  BY PickerTyped, Fields
<1>3. c \in Commands /\ c.kind = "MemberCandidates" /\ c.request = n /\ c.channel = u.form.channel
  BY <1>2 DEF Commands
<1> HIDE DEF n, s, c
<1>4. k \in Pickers
  BY <1>2 DEF Pickers
<1> HIDE DEF k
<1>5. /\ f \in Panels /\ f.kind = "members" /\ f.channel = u.form.channel /\ f.loading = u.form.loading
      /\ u.form.kind = "members"
  BY <1>2, <1>4 DEF Panels
<1> HIDE DEF f
<1>6. f \in Forms
  BY <1>5, KindsOfForms
<1>7. /\ v \in Uis /\ v.form = f /\ v.memberRead = u.memberRead /\ v.out = <<>> /\ v.memberSearch = n
      /\ Kept(u, v)
  BY <1>2, <1>6 DEF Uis, Kept
<1> HIDE DEF v
<1>8. Push(v, c) \in Uis /\ Push(v, c).out = <<c>> /\ Kept(v, Push(v, c)) /\ Push(v, c).form = v.form
        /\ Push(v, c).memberRead = u.memberRead /\ Push(v, c).memberSearch = n
  <2>0. Calm(v, v)
    BY DEF Calm, CalmForm
  <2>1. Push(v, c) \in Uis /\ Push(v, c).out = <<c>> /\ Kept(v, Push(v, c))
    BY <1>3, <1>7, <2>0, PushOne
  <2>2. Push(v, c).form = v.form /\ Push(v, c).memberRead = v.memberRead /\ Push(v, c).memberSearch = v.memberSearch
    BY <1>7 DEF Push, Uis
  <2> QED BY <2>1, <2>2, <1>7
<1>9. Kept(u, Push(v, c))
  BY <1>7, <1>8 DEF Kept
<1> QED BY <1>1, <1>3, <1>5, <1>7, <1>8, <1>9 DEF AsksCandidates, n
-----------------------------------------------------------------------------
(* The interface takes an answer.                                           *)

\* After a roster a creation that was answered may be confirmed and an open change
\* settled.
RosterRead(u, complete, v) ==
  /\ v \in Uis /\ v.out = <<>> /\ Calm(u, v)
  /\ v.member = u.member /\ v.createRequest = u.createRequest /\ v.lifeRequest = u.lifeRequest
  /\ \/ v.create = u.create /\ v.told = u.told
     \/ /\ IsOpen(u.create) /\ u.create.id # None /\ complete
        /\ v.create = NoWrite /\ v.told = u.told \cup {u.create.id}
  /\ v.edit = u.edit \/ (complete /\ v.edit = NoWrite)
  /\ v.archive = u.archive \/ (complete /\ v.archive = NoWrite)

LEMMA MergeUntouched ==
  ASSUME NEW u \in Uis, NEW e \in ChannelsEvents
  PROVE  LET v == OpenConfirmed(Merge(u, e)) IN v \in Uis /\ Untouched(u, v) /\ v.complete = e.complete
<1> DEFINE v == [u EXCEPT !.roster = e.roster, !.complete = e.complete]
<1>1. e.roster \in Described /\ e.complete \in BOOLEAN
  BY DEF ChannelsEvents
<1>2. v \in Uis
  BY <1>1 DEF Uis
<1>3. Untouched(u, v) /\ v.complete = e.complete
  BY DEF Uis, Untouched
<1>4. Merge(u, e) = v
  BY DEF Merge
<1> HIDE DEF v
<1>5. [v EXCEPT !.pendingOpen = None] \in Uis
  BY <1>2 DEF Uis
<1>6. Untouched(v, [v EXCEPT !.pendingOpen = None]) /\ [v EXCEPT !.pendingOpen = None].complete = v.complete
  BY <1>2 DEF Uis, Untouched
<1>7. OpenConfirmed(v) = v \/ OpenConfirmed(v) = [v EXCEPT !.pendingOpen = None]
  BY DEF OpenConfirmed
<1> QED BY <1>2, <1>3, <1>4, <1>5, <1>6, <1>7 DEF Untouched

LEMMA OpenConfirmedUntouched ==
  ASSUME NEW u \in Uis
  PROVE  LET v == OpenConfirmed(u) IN v \in Uis /\ Untouched(u, v) /\ v.complete = u.complete
<1>1. [u EXCEPT !.pendingOpen = None] \in Uis
  BY DEF Uis
<1>2. Untouched(u, [u EXCEPT !.pendingOpen = None]) /\ [u EXCEPT !.pendingOpen = None].complete = u.complete
  BY DEF Uis, Untouched
<1>3. OpenConfirmed(u) = u \/ OpenConfirmed(u) = [u EXCEPT !.pendingOpen = None]
  BY DEF OpenConfirmed
<1> QED BY <1>1, <1>2, <1>3 DEF Untouched

LEMMA CloseShape ==
  ASSUME NEW u \in Uis, NEW kind \in {"create", "edit", "archive"}
  PROVE  \E f \in Forms : Close(u, kind) = [u EXCEPT !.form = f] /\ CalmForm(u.form, f)
<1>1. PICK f \in Forms : Close(u, kind) = [u EXCEPT !.form = f] /\ (f.kind = "members" => f = u.form)
  BY CloseIsForm
<1>2. CalmForm(u.form, f)
  BY <1>1 DEF CalmForm
<1> QED BY <1>1, <1>2

LEMMA ResolveCreateSteps ==
  ASSUME NEW u \in Uis, u.out = <<>>
  PROVE  RosterRead(u, u.complete, ResolveCreate(u)) /\ ResolveCreate(u).complete = u.complete
           /\ ResolveCreate(u).edit = u.edit /\ ResolveCreate(u).archive = u.archive
<1> DEFINE v == [u EXCEPT !.createRefresh = FALSE]
           id == u.create.id
<1>1. v \in Uis /\ Untouched(u, v) /\ v.complete = u.complete
  <2>1. v \in Uis
    BY DEF Uis
  <2> QED BY <2>1 DEF Uis, Untouched
<1>2. RosterRead(u, u.complete, v)
  BY <1>1 DEF RosterRead, Untouched, Calm, CalmForm
<1>3. CASE ResolveCreate(u) = v
  BY <1>1, <1>2, <1>3 DEF Untouched
<1>4. CASE ResolveCreate(u) # v
  <2>1. IsOpen(u.create) /\ id # None /\ u.complete
    BY <1>4 DEF ResolveCreate
  <2>2. id \in NewIds
    BY <2>1, Slots
  <2>3. PICK f \in Forms : Close(v, "create") = [v EXCEPT !.form = f] /\ CalmForm(v.form, f)
    BY <1>1, CloseShape
  <2> DEFINE x == [Close(v, "create") EXCEPT !.create = NoWrite, !.pendingOpen = id, !.told = @ \cup {id}]
  <2>4. ResolveCreate(u) = OpenConfirmed(x)
    BY <1>4 DEF ResolveCreate
  <2>5. x = [[[u EXCEPT !.createRefresh = FALSE] EXCEPT !.form = f] EXCEPT
               !.create = NoWrite, !.pendingOpen = id, !.told = @ \cup {id}]
    BY <2>3
  <2> HIDE DEF x
  <2>6. /\ x \in Uis /\ x.create = NoWrite /\ x.told = u.told \cup {id} /\ x.form = f
        /\ x.edit = u.edit /\ x.archive = u.archive /\ x.member = u.member /\ x.complete = u.complete
        /\ x.createRequest = u.createRequest /\ x.lifeRequest = u.lifeRequest
        /\ x.memberRead = u.memberRead /\ x.memberSearch = u.memberSearch /\ x.out = u.out
    <3>1. NoWrite \in Creates
      BY DEF Creates, Slot
    <3>2. u.told \cup {id} \in SUBSET NewIds
      BY <2>2, Fields
    <3> DEFINE y == [u EXCEPT !.createRefresh = FALSE]
               z == [y EXCEPT !.form = f]
    <3>3. y \in Uis /\ Untouched(u, y) /\ y.complete = u.complete
      BY <1>1
    <3>4. /\ z \in Uis /\ z.form = f /\ z.create = u.create /\ z.told = u.told
          /\ z.edit = u.edit /\ z.archive = u.archive /\ z.member = u.member /\ z.complete = u.complete
          /\ z.createRequest = u.createRequest /\ z.lifeRequest = u.lifeRequest
          /\ z.memberRead = u.memberRead /\ z.memberSearch = u.memberSearch /\ z.out = u.out
      <4> HIDE DEF y
      <4> QED BY <3>3 DEF Uis, Untouched
    <3>5. x = [z EXCEPT !.create = NoWrite, !.pendingOpen = id, !.told = z.told \cup {id}]
      BY <2>5
    <3> HIDE DEF NoWrite, z, id
    <3> QED BY <2>2, <3>1, <3>2, <3>4, <3>5 DEF Uis
  <2>7. /\ OpenConfirmed(x) \in Uis /\ Untouched(x, OpenConfirmed(x))
        /\ OpenConfirmed(x).complete = x.complete
    BY <2>6, OpenConfirmedUntouched
  <2>8. CalmForm(u.form, f)
    BY <1>1, <2>3 DEF Untouched
  <2> QED BY <2>1, <2>4, <2>6, <2>7, <2>8 DEF RosterRead, Untouched, Calm
<1> QED BY <1>3, <1>4

WithForm(u, f) == [u EXCEPT !.form = f]
NoEdit(u) == [u EXCEPT !.edit = NoWrite]
NoArchive(u) == [u EXCEPT !.archive = NoWrite]

LEMMA WithFormFields ==
  ASSUME NEW u \in Uis, NEW f \in Forms
  PROVE  LET v == WithForm(u, f) IN
         /\ v \in Uis /\ v.form = f /\ v.create = u.create /\ v.told = u.told /\ v.member = u.member
         /\ v.edit = u.edit /\ v.archive = u.archive
         /\ v.createRequest = u.createRequest /\ v.lifeRequest = u.lifeRequest
         /\ v.memberRead = u.memberRead /\ v.memberSearch = u.memberSearch /\ v.out = u.out
         /\ v.archiveRefresh = u.archiveRefresh /\ v.roster = u.roster
  BY DEF Uis, WithForm

LEMMA NoEditFields ==
  ASSUME NEW u \in Uis
  PROVE  LET v == NoEdit(u) IN
         /\ v \in Uis /\ v.form = u.form /\ v.create = u.create /\ v.told = u.told /\ v.member = u.member
         /\ v.edit = NoWrite /\ v.archive = u.archive
         /\ v.createRequest = u.createRequest /\ v.lifeRequest = u.lifeRequest
         /\ v.memberRead = u.memberRead /\ v.memberSearch = u.memberSearch /\ v.out = u.out
         /\ v.archiveRefresh = u.archiveRefresh /\ v.roster = u.roster
<1>1. NoWrite \in Edits
  BY DEF Edits, Slot
<1> HIDE DEF NoWrite
<1> QED BY <1>1 DEF Uis, NoEdit

LEMMA NoArchiveFields ==
  ASSUME NEW u \in Uis
  PROVE  LET v == NoArchive(u) IN
         /\ v \in Uis /\ v.form = u.form /\ v.create = u.create /\ v.told = u.told /\ v.member = u.member
         /\ v.edit = u.edit /\ v.archive = NoWrite
         /\ v.createRequest = u.createRequest /\ v.lifeRequest = u.lifeRequest
         /\ v.memberRead = u.memberRead /\ v.memberSearch = u.memberSearch /\ v.out = u.out
<1>1. NoWrite \in Archives
  BY DEF Archives, Slot
<1> HIDE DEF NoWrite
<1> QED BY <1>1 DEF Uis, NoArchive

\* One open change is settled, or shown as uncertain.
LEMMA SettleEdit ==
  ASSUME NEW u \in Uis, u.out = <<>>, NEW v,
         v = [Close(u, "edit") EXCEPT !.edit = NoWrite] \/ v = SetState(u, "edit", "unknown")
  PROVE  RosterRead(u, TRUE, v) /\ v.create = u.create /\ v.told = u.told /\ v.archive = u.archive
           /\ v.archiveRefresh = u.archiveRefresh /\ v.roster = u.roster
<1>1. CASE v = [Close(u, "edit") EXCEPT !.edit = NoWrite]
  <2>1. PICK f \in Forms : Close(u, "edit") = [u EXCEPT !.form = f] /\ CalmForm(u.form, f)
    BY CloseShape
  <2>2. v = NoEdit(WithForm(u, f))
    BY <1>1, <2>1 DEF NoEdit, WithForm
  <2> QED BY <2>1, <2>2, WithFormFields, NoEditFields DEF RosterRead, Calm
<1>2. CASE v = SetState(u, "edit", "unknown")
  <2>1. PICK f \in Forms : SetState(u, "edit", "unknown") = [u EXCEPT !.form = f] /\ CalmForm(u.form, f)
    BY SetStateShape DEF States
  <2>2. v = WithForm(u, f)
    BY <1>2, <2>1 DEF WithForm
  <2> QED BY <2>1, <2>2, WithFormFields DEF RosterRead, Calm
<1> QED BY <1>1, <1>2

LEMMA SettleArchive ==
  ASSUME NEW u \in Uis, u.out = <<>>, NEW v,
         v = [Close(u, "archive") EXCEPT !.archive = NoWrite] \/ v = SetState(u, "archive", "unknown")
  PROVE  RosterRead(u, TRUE, v) /\ v.create = u.create /\ v.told = u.told /\ v.edit = u.edit
<1>1. CASE v = [Close(u, "archive") EXCEPT !.archive = NoWrite]
  <2>1. PICK f \in Forms : Close(u, "archive") = [u EXCEPT !.form = f] /\ CalmForm(u.form, f)
    BY CloseShape
  <2>2. v = NoArchive(WithForm(u, f))
    BY <1>1, <2>1 DEF NoArchive, WithForm
  <2> QED BY <2>1, <2>2, WithFormFields, NoArchiveFields DEF RosterRead, Calm
<1>2. CASE v = SetState(u, "archive", "unknown")
  <2>1. PICK f \in Forms : SetState(u, "archive", "unknown") = [u EXCEPT !.form = f] /\ CalmForm(u.form, f)
    BY SetStateShape DEF States
  <2>2. v = WithForm(u, f)
    BY <1>2, <2>1 DEF WithForm
  <2> QED BY <2>1, <2>2, WithFormFields DEF RosterRead, Calm
<1> QED BY <1>1, <1>2

LEMMA ResolveLifecycleSteps ==
  ASSUME NEW u \in Uis, u.out = <<>>
  PROVE  LET v == ResolveLifecycle(u) IN
           RosterRead(u, u.complete, v) /\ v.create = u.create /\ v.told = u.told
<1> DEFINE settle(v, slot, shown) ==
             IF shown THEN [Close(v, slot) EXCEPT ![slot] = NoWrite] ELSE SetState(v, slot, "unknown")
           edited == IF u.editRefresh /\ IsOpen(u.edit) THEN settle(u, "edit", ShowsEdit(u, u.edit)) ELSE u
           both   == IF u.archiveRefresh /\ IsOpen(u.archive)
                       THEN settle(edited, "archive", ShowsArchive(u, u.archive)) ELSE edited
           v == [both EXCEPT !.editRefresh = FALSE, !.archiveRefresh = FALSE]
<1>1. CASE ~u.complete
  BY <1>1 DEF ResolveLifecycle, RosterRead, Calm, CalmForm
<1>2. CASE u.complete
  <2>1. RosterRead(u, TRUE, edited) /\ edited.create = u.create /\ edited.told = u.told
          /\ edited.archive = u.archive
    <3>1. RosterRead(u, TRUE, u)
      BY DEF RosterRead, Calm, CalmForm
    <3>2. edited = u \/ edited = [Close(u, "edit") EXCEPT !.edit = NoWrite] \/ edited = SetState(u, "edit", "unknown")
      OBVIOUS
    <3> HIDE DEF edited
    <3> QED BY <3>1, <3>2, SettleEdit
  <2>2. both = edited \/ both = [Close(edited, "archive") EXCEPT !.archive = NoWrite]
          \/ both = SetState(edited, "archive", "unknown")
    <3> HIDE DEF edited
    <3> QED OBVIOUS
  <2>3. ResolveLifecycle(u) = v
    <3>1. u.complete = TRUE
      BY <1>2, Fields
    <3> QED BY <3>1 DEF ResolveLifecycle
  <2> HIDE DEF edited, both
  <2>4. edited \in Uis /\ edited.out = <<>>
    BY <2>1 DEF RosterRead
  <2>5. both \in Uis /\ RosterRead(edited, TRUE, both) /\ both.create = edited.create
          /\ both.told = edited.told /\ both.edit = edited.edit
    <3>1. RosterRead(edited, TRUE, edited)
      BY <2>4 DEF RosterRead, Calm, CalmForm
    <3>2. RosterRead(edited, TRUE, both) /\ both.create = edited.create
            /\ both.told = edited.told /\ both.edit = edited.edit
      BY <2>2, <2>4, <3>1, SettleArchive
    <3> QED BY <3>2 DEF RosterRead
  <2>6. v \in Uis /\ Untouched(both, v)
    <3>1. v \in Uis
      BY <2>5 DEF Uis
    <3>2. Untouched(both, v)
      BY <2>5 DEF Untouched, Uis
    <3> QED BY <3>1, <3>2
  <2> HIDE DEF v
  <2>7. Calm(u, both)
    BY <2>1, <2>5, CalmTransitive DEF RosterRead
  <2>8. Calm(u, v)
    BY <2>6, <2>7 DEF Calm, Untouched
  <2>9. RosterRead(u, TRUE, v) /\ v.create = u.create /\ v.told = u.told
    BY <2>1, <2>5, <2>6, <2>8 DEF RosterRead, Untouched
  <2> QED BY <1>2, <2>3, <2>9 DEF RosterRead
<1> QED BY <1>1, <1>2

LEMMA ApplyChannelsSteps ==
  ASSUME NEW u \in Uis, u.out = <<>>, NEW e \in ChannelsEvents
  PROVE  RosterRead(u, e.complete, ApplyChannels(u, e))
<1> DEFINE x == OpenConfirmed(Merge(u, e))
           y == ResolveCreate(x)
           z == ResolveLifecycle(y)
<1>1. x \in Uis /\ Untouched(u, x) /\ x.complete = e.complete
  BY MergeUntouched
<1>2. ApplyChannels(u, e) = z
  BY DEF ApplyChannels
<1> HIDE DEF x
<1>3. RosterRead(x, e.complete, y) /\ y.complete = e.complete /\ y.edit = x.edit /\ y.archive = x.archive
  BY <1>1, ResolveCreateSteps DEF Untouched
<1> HIDE DEF y
<1>4. RosterRead(y, e.complete, z) /\ z.create = y.create /\ z.told = y.told
  BY <1>3, ResolveLifecycleSteps DEF RosterRead
<1> HIDE DEF z
<1>5. Calm(u, z)
  <2>1. Calm(u, x)
    BY <1>1 DEF Untouched, Calm, CalmForm
  <2> QED BY <2>1, <1>3, <1>4, CalmTransitive DEF RosterRead
<1>6. RosterRead(u, e.complete, z)
  BY <1>1, <1>3, <1>4, <1>5 DEF RosterRead, Untouched
<1> QED BY <1>2, <1>6

\* The answer e of the open creation.
CreationAnswered(u, e, v) ==
  /\ v \in Uis /\ Calm(u, v) /\ Only(v.out, {"LoadChannels"})
  /\ v.edit = u.edit /\ v.archive = u.archive /\ v.member = u.member
  /\ v.createRequest = u.createRequest /\ v.lifeRequest = u.lifeRequest
  /\ \/ e.outcome = "stored" /\ v.create = NoWrite /\ v.told = u.told \cup {e.id}
     \/ /\ e.outcome = "unknown" /\ v.told = u.told /\ v.create.request = u.create.request
        /\ v.create.id = e.id /\ v.create.state = "unknown"
     \/ e.outcome = "refused" /\ v.create = NoWrite /\ v.told = u.told

NoCreate(u) == [u EXCEPT !.create = NoWrite]
LEMMA NoCreateFields ==
  ASSUME NEW u \in Uis
  PROVE  LET v == NoCreate(u) IN
         /\ v \in Uis /\ v.form = u.form /\ v.create = NoWrite /\ v.told = u.told /\ v.member = u.member
         /\ v.edit = u.edit /\ v.archive = u.archive
         /\ v.createRequest = u.createRequest /\ v.lifeRequest = u.lifeRequest
         /\ v.memberRead = u.memberRead /\ v.memberSearch = u.memberSearch /\ v.out = u.out
<1>1. NoWrite \in Creates
  BY DEF Creates, Slot
<1> HIDE DEF NoWrite
<1> QED BY <1>1 DEF Uis, NoCreate

LEMMA ApplyCreatedSteps ==
  ASSUME NEW u \in Uis, u.out = <<>>, NEW e \in CreatedEvents, IsOpen(u.create), e.request = u.create.request
  PROVE  CreationAnswered(u, e, ApplyCreated(u, e))
<1>0. e.id \in NewIds /\ e.outcome \in {"stored", "refused", "unknown"}
  BY DEF CreatedEvents, Results
<1>1. CASE e.outcome = "stored"
  <2> DEFINE x == [Close(u, "create") EXCEPT !.create = NoWrite, !.pendingOpen = e.id, !.told = @ \cup {e.id}]
             a == [kind |-> "LoadChannels"]
  <2>1. ApplyCreated(u, e) = OpenConfirmed(Push(x, a))
    BY <1>1 DEF ApplyCreated, Ask
  <2>2. PICK f \in Forms : Close(u, "create") = [u EXCEPT !.form = f] /\ CalmForm(u.form, f)
    BY CloseShape
  <2> DEFINE z == WithForm(u, f)
  <2>3. /\ z \in Uis /\ z.form = f /\ z.told = u.told /\ z.member = u.member
        /\ z.edit = u.edit /\ z.archive = u.archive
        /\ z.createRequest = u.createRequest /\ z.lifeRequest = u.lifeRequest
        /\ z.memberRead = u.memberRead /\ z.memberSearch = u.memberSearch /\ z.out = u.out
    BY WithFormFields
  <2>4. x = [z EXCEPT !.create = NoWrite, !.pendingOpen = e.id, !.told = z.told \cup {e.id}]
    BY <2>2 DEF WithForm
  <2> HIDE DEF x, z
  <2>5. /\ x \in Uis /\ x.form = f /\ x.create = NoWrite /\ x.told = u.told \cup {e.id} /\ x.member = u.member
        /\ x.edit = u.edit /\ x.archive = u.archive
        /\ x.createRequest = u.createRequest /\ x.lifeRequest = u.lifeRequest
        /\ x.memberRead = u.memberRead /\ x.memberSearch = u.memberSearch /\ x.out = <<>>
    <3>1. NoWrite \in Creates
      BY DEF Creates, Slot
    <3>2. u.told \cup {e.id} \in SUBSET NewIds
      BY <1>0, Fields
    <3> HIDE DEF NoWrite
    <3> QED BY <1>0, <2>3, <2>4, <3>1, <3>2 DEF Uis
  <2>6. Calm(u, x) /\ a \in Commands /\ a.kind = "LoadChannels"
    BY <2>2, <2>5 DEF Calm, Commands
  <2> HIDE DEF a
  <2>7. /\ Push(x, a) \in Uis /\ Push(x, a).out = <<a>> /\ Kept(x, Push(x, a)) /\ Calm(u, Push(x, a))
    BY <2>5, <2>6, PushOne
  <2>8. OpenConfirmed(Push(x, a)) \in Uis /\ Untouched(Push(x, a), OpenConfirmed(Push(x, a)))
    BY <2>7, OpenConfirmedUntouched
  <2>9. Only(<<a>>, {"LoadChannels"})
    BY <2>6 DEF Only
  <2>10. Calm(u, OpenConfirmed(Push(x, a)))
    BY <2>7, <2>8 DEF Calm, Untouched
  <2> QED BY <1>1, <2>1, <2>5, <2>7, <2>8, <2>9, <2>10 DEF CreationAnswered, Untouched, Kept
<1>2. CASE e.outcome = "unknown"
  <2>1. PICK f \in Forms : SetState(u, "create", "unknown") = [u EXCEPT !.form = f] /\ CalmForm(u.form, f)
    BY SetStateShape DEF States
  <2> DEFINE z == WithForm(u, f)
             w == [[u.create EXCEPT !.id = e.id] EXCEPT !.state = "unknown"]
             v == [z EXCEPT !.create = w]
  <2>2. /\ z \in Uis /\ z.form = f /\ z.told = u.told /\ z.member = u.member /\ z.create = u.create
        /\ z.edit = u.edit /\ z.archive = u.archive
        /\ z.createRequest = u.createRequest /\ z.lifeRequest = u.lifeRequest
        /\ z.memberRead = u.memberRead /\ z.memberSearch = u.memberSearch /\ z.out = u.out
    BY WithFormFields
  <2>3. w \in Creates /\ w.request = u.create.request /\ w.id = e.id /\ w.state = "unknown"
    BY <1>0, Slots DEF Creates, Slot, States
  <2>4. ApplyCreated(u, e) = v
    <3>1. ApplyCreated(u, e) = [z EXCEPT !.create.id = e.id, !.create.state = "unknown"]
      BY <1>2, <2>1 DEF ApplyCreated, WithForm
    <3> HIDE DEF z
    <3>2. [z EXCEPT !.create.id = e.id, !.create.state = "unknown"] = v
      BY <2>2 DEF Uis
    <3> QED BY <3>1, <3>2
  <2> HIDE DEF w, z
  <2>5. /\ v \in Uis /\ v.form = f /\ v.create = w /\ v.told = u.told /\ v.member = u.member
        /\ v.edit = u.edit /\ v.archive = u.archive
        /\ v.createRequest = u.createRequest /\ v.lifeRequest = u.lifeRequest
        /\ v.memberRead = u.memberRead /\ v.memberSearch = u.memberSearch /\ v.out = <<>>
    BY <2>2, <2>3 DEF Uis
  <2> HIDE DEF v
  <2> QED BY <1>2, <2>1, <2>3, <2>4, <2>5 DEF CreationAnswered, Calm, Only
<1>3. CASE e.outcome = "refused"
  <2>1. PICK f \in Forms : SetState(u, "create", "failed") = [u EXCEPT !.form = f] /\ CalmForm(u.form, f)
    BY SetStateShape DEF States
  <2>2. ApplyCreated(u, e) = NoCreate(WithForm(u, f))
    BY <1>3, <2>1 DEF ApplyCreated, NoCreate, WithForm
  <2>3. LET v == NoCreate(WithForm(u, f)) IN
         /\ v \in Uis /\ v.form = f /\ v.create = NoWrite /\ v.told = u.told /\ v.member = u.member
         /\ v.edit = u.edit /\ v.archive = u.archive
         /\ v.createRequest = u.createRequest /\ v.lifeRequest = u.lifeRequest
         /\ v.memberRead = u.memberRead /\ v.memberSearch = u.memberSearch /\ v.out = <<>>
    BY WithFormFields, NoCreateFields
  <2> QED BY <1>3, <2>1, <2>2, <2>3 DEF CreationAnswered, Calm, Only
<1> QED BY <1>0, <1>1, <1>2, <1>3

-----------------------------------------------------------------------------
\* The record w of an open change after its answer.
Answered(w, x) ==
  x = NoWrite \/ (x.request = w.request /\ x.channel = w.channel /\ x.state \in {"editing", "unknown"})

ChangeAnswered(u, e, v) ==
  /\ v \in Uis /\ Calm(u, v) /\ Only(v.out, {"LoadChannels"})
  /\ v.create = u.create /\ v.member = u.member /\ v.told = u.told
  /\ v.createRequest = u.createRequest /\ v.lifeRequest = u.lifeRequest
  /\ \/ e.slot = "edit" /\ v.archive = u.archive /\ Answered(u.edit, v.edit)
     \/ e.slot = "archive" /\ v.edit = u.edit /\ Answered(u.archive, v.archive)

EditState(u, s) == [u EXCEPT !.edit.state = s]
ArchiveState(u, s) == [u EXCEPT !.archive.state = s]

LEMMA EditStateFields ==
  ASSUME NEW u \in Uis, IsOpen(u.edit), NEW s \in States
  PROVE  LET v == EditState(u, s) IN
         /\ v \in Uis /\ v.form = u.form /\ v.create = u.create /\ v.told = u.told /\ v.member = u.member
         /\ v.edit.request = u.edit.request /\ v.edit.channel = u.edit.channel /\ v.edit.state = s
         /\ v.archive = u.archive
         /\ v.createRequest = u.createRequest /\ v.lifeRequest = u.lifeRequest
         /\ v.memberRead = u.memberRead /\ v.memberSearch = u.memberSearch /\ v.out = u.out
<1> DEFINE w == [u.edit EXCEPT !.state = s]
<1>1. w \in Edits /\ w.request = u.edit.request /\ w.channel = u.edit.channel /\ w.state = s
  BY Slots DEF Edits, Slot
<1>2. EditState(u, s) = [u EXCEPT !.edit = w]
  BY DEF EditState
<1> HIDE DEF w
<1> QED BY <1>1, <1>2 DEF Uis

LEMMA ArchiveStateFields ==
  ASSUME NEW u \in Uis, IsOpen(u.archive), NEW s \in States
  PROVE  LET v == ArchiveState(u, s) IN
         /\ v \in Uis /\ v.form = u.form /\ v.create = u.create /\ v.told = u.told /\ v.member = u.member
         /\ v.archive.request = u.archive.request /\ v.archive.channel = u.archive.channel /\ v.archive.state = s
         /\ v.edit = u.edit
         /\ v.createRequest = u.createRequest /\ v.lifeRequest = u.lifeRequest
         /\ v.memberRead = u.memberRead /\ v.memberSearch = u.memberSearch /\ v.out = u.out
<1> DEFINE w == [u.archive EXCEPT !.state = s]
<1>1. w \in Archives /\ w.request = u.archive.request /\ w.channel = u.archive.channel /\ w.state = s
  BY Slots DEF Archives, Slot
<1>2. ArchiveState(u, s) = [u EXCEPT !.archive = w]
  BY DEF ArchiveState
<1> HIDE DEF w
<1> QED BY <1>1, <1>2 DEF Uis

\* A roster is asked for, and what it shows will be looked at.
Asked(u, flag) == Ask(IF flag = "edit" THEN [u EXCEPT !.editRefresh = TRUE] ELSE [u EXCEPT !.archiveRefresh = TRUE])

LEMMA AskedFields ==
  ASSUME NEW u \in Uis, u.out = <<>>, NEW flag
  PROVE  Idle(u, Asked(u, flag))
  BY RefreshFlags, AskIdle DEF Asked

LEMMA ApplyEditWritten ==
  ASSUME NEW u \in Uis, u.out = <<>>, NEW e \in WrittenEvents, e.slot = "edit",
         IsOpen(u.edit), u.edit.request = e.request, u.edit.channel = e.channel
  PROVE  ChangeAnswered(u, e, ApplyChannelWrite(u, e))
<1>0. e.outcome \in {"stored", "refused", "unknown"}
  BY DEF WrittenEvents, Results
<1>1. CASE e.outcome = "stored"
  <2>1. PICK f \in Forms : SetState(u, "edit", "creating") = [u EXCEPT !.form = f] /\ CalmForm(u.form, f)
    BY SetStateShape DEF States
  <2> DEFINE z == WithForm(u, f)
             x == EditState(z, "editing")
  <2>2. ApplyChannelWrite(u, e) = Asked(x, "edit")
    BY <1>1, <2>1 DEF ApplyChannelWrite, Asked, EditState, WithForm
  <2>3. /\ x \in Uis /\ x.form = f /\ x.create = u.create /\ x.told = u.told /\ x.member = u.member
        /\ x.edit.request = u.edit.request /\ x.edit.channel = u.edit.channel /\ x.edit.state = "editing"
        /\ x.archive = u.archive
        /\ x.createRequest = u.createRequest /\ x.lifeRequest = u.lifeRequest
        /\ x.memberRead = u.memberRead /\ x.memberSearch = u.memberSearch /\ x.out = <<>>
    BY WithFormFields, EditStateFields DEF States
  <2> HIDE DEF x
  <2>4. Idle(x, Asked(x, "edit"))
    BY <2>3, AskedFields
  <2>5. Calm(u, x)
    BY <2>1, <2>3 DEF Calm
  <2>6. Calm(u, Asked(x, "edit"))
    BY <2>4, <2>5, CalmTransitive DEF Idle
  <2> QED BY <1>1, <2>2, <2>3, <2>4, <2>6 DEF ChangeAnswered, Answered, Idle, Kept
<1>2. CASE e.outcome = "refused"
  <2>1. PICK f \in Forms : SetState(u, "edit", "failed") = [u EXCEPT !.form = f] /\ CalmForm(u.form, f)
    BY SetStateShape DEF States
  <2>2. ApplyChannelWrite(u, e) = NoEdit(WithForm(u, f))
    BY <1>2, <2>1 DEF ApplyChannelWrite, NoEdit, WithForm
  <2> QED BY <2>1, <2>2, WithFormFields, NoEditFields DEF ChangeAnswered, Answered, Calm, Only
<1>3. CASE e.outcome = "unknown"
  <2>1. PICK f \in Forms : SetState(u, "edit", "unknown") = [u EXCEPT !.form = f] /\ CalmForm(u.form, f)
    BY SetStateShape DEF States
  <2>2. ApplyChannelWrite(u, e) = EditState(WithForm(u, f), "unknown")
    BY <1>3, <2>1 DEF ApplyChannelWrite, EditState, WithForm
  <2> QED BY <2>1, <2>2, WithFormFields, EditStateFields DEF ChangeAnswered, Answered, Calm, Only, States
<1> QED BY <1>0, <1>1, <1>2, <1>3

LEMMA ApplyArchiveWritten ==
  ASSUME NEW u \in Uis, u.out = <<>>, NEW e \in WrittenEvents, e.slot = "archive",
         IsOpen(u.archive), u.archive.request = e.request, u.archive.channel = e.channel
  PROVE  ChangeAnswered(u, e, ApplyChannelWrite(u, e))
<1>0. e.outcome \in {"stored", "refused", "unknown"}
  BY DEF WrittenEvents, Results
<1>1. CASE e.outcome = "stored"
  <2>1. PICK f \in Forms : SetState(u, "archive", "creating") = [u EXCEPT !.form = f] /\ CalmForm(u.form, f)
    BY SetStateShape DEF States
  <2> DEFINE z == WithForm(u, f)
             x == ArchiveState(z, "editing")
  <2>2. ApplyChannelWrite(u, e) = Asked(x, "archive")
    BY <1>1, <2>1 DEF ApplyChannelWrite, Asked, ArchiveState, WithForm
  <2>3. /\ x \in Uis /\ x.form = f /\ x.create = u.create /\ x.told = u.told /\ x.member = u.member
        /\ x.archive.request = u.archive.request /\ x.archive.channel = u.archive.channel /\ x.archive.state = "editing"
        /\ x.edit = u.edit
        /\ x.createRequest = u.createRequest /\ x.lifeRequest = u.lifeRequest
        /\ x.memberRead = u.memberRead /\ x.memberSearch = u.memberSearch /\ x.out = <<>>
    BY WithFormFields, ArchiveStateFields DEF States
  <2> HIDE DEF x
  <2>4. Idle(x, Asked(x, "archive"))
    BY <2>3, AskedFields
  <2>5. Calm(u, x)
    BY <2>1, <2>3 DEF Calm
  <2>6. Calm(u, Asked(x, "archive"))
    BY <2>4, <2>5, CalmTransitive DEF Idle
  <2> QED BY <1>1, <2>2, <2>3, <2>4, <2>6 DEF ChangeAnswered, Answered, Idle, Kept
<1>2. CASE e.outcome = "refused"
  <2>1. PICK f \in Forms : SetState(u, "archive", "failed") = [u EXCEPT !.form = f] /\ CalmForm(u.form, f)
    BY SetStateShape DEF States
  <2>2. ApplyChannelWrite(u, e) = NoArchive(WithForm(u, f))
    BY <1>2, <2>1 DEF ApplyChannelWrite, NoArchive, WithForm
  <2> QED BY <2>1, <2>2, WithFormFields, NoArchiveFields DEF ChangeAnswered, Answered, Calm, Only
<1>3. CASE e.outcome = "unknown"
  <2>1. PICK f \in Forms : SetState(u, "archive", "unknown") = [u EXCEPT !.form = f] /\ CalmForm(u.form, f)
    BY SetStateShape DEF States
  <2>2. ApplyChannelWrite(u, e) = ArchiveState(WithForm(u, f), "unknown")
    BY <1>3, <2>1 DEF ApplyChannelWrite, ArchiveState, WithForm
  <2> QED BY <2>1, <2>2, WithFormFields, ArchiveStateFields DEF ChangeAnswered, Answered, Calm, Only, States
<1> QED BY <1>0, <1>1, <1>2, <1>3

NoMember(u) == [u EXCEPT !.member = NoWrite]
LEMMA NoMemberFields ==
  ASSUME NEW u \in Uis
  PROVE  LET v == NoMember(u) IN
         /\ v \in Uis /\ v.form = u.form /\ v.create = u.create /\ v.told = u.told /\ v.member = NoWrite
         /\ v.edit = u.edit /\ v.archive = u.archive
         /\ v.createRequest = u.createRequest /\ v.lifeRequest = u.lifeRequest
         /\ v.memberRead = u.memberRead /\ v.memberSearch = u.memberSearch /\ v.out = u.out
<1>1. NoWrite \in MemberWrites
  BY DEF MemberWrites, Slot
<1> HIDE DEF NoWrite
<1> QED BY <1>1 DEF Uis, NoMember

\* The read the panel on screen made last.
Awaited(u, e) == e.request = u.memberRead /\ Showing(u, "members") /\ u.form.channel = e.channel

\* A panel that gets its answer no longer waits; a complete one may settle the
\* member write.
MembersRead(u, e, v) ==
  /\ v \in Uis /\ v.out = <<>> /\ Calm(u, v)
  /\ v.create = u.create /\ v.edit = u.edit /\ v.archive = u.archive /\ v.told = u.told
  /\ v.createRequest = u.createRequest /\ v.lifeRequest = u.lifeRequest
  /\ Awaited(u, e) => ~v.form.loading
  /\ v.member = u.member \/ (v.member = NoWrite /\ Resolved(u, e, e.rows))

LEMMA ApplyMembersReadSteps ==
  ASSUME NEW u \in Uis, u.out = <<>>, NEW e \in MembersEvents
  PROVE  MembersRead(u, e, ApplyMembersRead(u, e))
<1> DEFINE owners == {p \in People : e.rows[p] = "owner"}
           last == IF ~e.complete \/ Cardinality(owners) = 1 THEN owners ELSE {}
           f == [u.form EXCEPT !.loading = FALSE, !.complete = e.complete, !.rows = e.rows, !.last = last]
           g == [u.form EXCEPT !.loading = FALSE, !.complete = FALSE]
           v == ApplyMembersRead(u, e)
<1>1. CASE ~Awaited(u, e)
  <2>1. v = u
    BY <1>1 DEF ApplyMembersRead, Awaited
  <2> QED BY <1>1, <2>1 DEF MembersRead, Calm, CalmForm
<1>2. CASE Awaited(u, e)
  <2>0. Showing(u, "members") /\ u.form \in Panels
    BY <1>2, PickerTyped DEF Awaited
  <2>1. e.complete \in BOOLEAN /\ e.rows \in [People -> Given] /\ last \in SUBSET People
    BY DEF MembersEvents
  <2>2. [u EXCEPT !.form.loading = FALSE, !.form.complete = e.complete, !.form.rows = e.rows, !.form.last = last]
          = WithForm(u, f)
    <3> HIDE DEF last
    <3> QED BY DEF Uis, WithForm
  <2>3. [u EXCEPT !.form.loading = FALSE, !.form.complete = FALSE] = WithForm(u, g)
    BY DEF Uis, WithForm
  <2>4. v = WithForm(u, f) \/ v = WithForm(u, g) \/ (v = NoMember(WithForm(u, f)) /\ Resolved(u, e, e.rows))
    <3>1. CASE ~e.ok
      BY <1>2, <2>3, <3>1 DEF ApplyMembersRead, Awaited
    <3>2. CASE e.ok /\ ~Resolved(u, e, e.rows)
      BY <1>2, <2>2, <3>2 DEF ApplyMembersRead, Awaited
    <3>3. CASE e.ok /\ Resolved(u, e, e.rows)
      BY <1>2, <2>2, <3>3 DEF ApplyMembersRead, Awaited, NoMember
    <3> QED BY <3>1, <3>2, <3>3
  <2> HIDE DEF last, v
  <2>5. f \in Panels /\ CalmForm(u.form, f) /\ f.loading = FALSE
    BY <2>0, <2>1 DEF Panels, CalmForm
  <2>6. g \in Panels /\ CalmForm(u.form, g) /\ g.loading = FALSE
    BY <2>0 DEF Panels, CalmForm
  <2> HIDE DEF f, g
  <2>7. f \in Forms /\ g \in Forms
    BY <2>5, <2>6, KindsOfForms
  <2>8. \A h \in {f, g} : MembersRead(u, e, WithForm(u, h))
    BY <2>5, <2>6, <2>7, WithFormFields DEF MembersRead, Calm
  <2>9. Resolved(u, e, e.rows) => MembersRead(u, e, NoMember(WithForm(u, f)))
    BY <2>5, <2>7, WithFormFields, NoMemberFields DEF MembersRead, Calm
  <2> QED BY <2>4, <2>8, <2>9 DEF v
<1> QED BY <1>1, <1>2

\* A panel that gets its candidates no longer waits for them.
Sought(u, e) == e.request = u.memberSearch /\ Showing(u, "members") /\ u.form.channel = e.channel
CandidatesRead(u, e, v) ==
  /\ v \in Uis /\ v.out = <<>> /\ Calm(u, v) /\ Kept(u, v)
  /\ Sought(u, e) => ~v.form.picker.loading

LEMMA ApplyCandidatesSteps ==
  ASSUME NEW u \in Uis, u.out = <<>>, NEW e \in CandidatesEvents
  PROVE  CandidatesRead(u, e, ApplyCandidates(u, e))
<1> DEFINE v == ApplyCandidates(u, e)
<1>1. CASE ~Sought(u, e)
  <2>1. v = u
    BY <1>1 DEF ApplyCandidates, Sought
  <2> QED BY <1>1, <2>1 DEF CandidatesRead, Calm, CalmForm, Kept
<1>2. CASE Sought(u, e)
  <2>0. Showing(u, "members") /\ u.form \in Panels /\ u.form.picker \in Pickers
          /\ u.form.picker.candidates \in SUBSET People /\ e.who \in People
    BY <1>2, PickerTyped DEF Sought, CandidatesEvents
  <2>1. \E s \in SUBSET People :
          v = [u EXCEPT !.form.picker = [@ EXCEPT !.loading = FALSE, !.candidates = s]]
    BY <1>2, <2>0 DEF ApplyCandidates, Sought
  <2>2. PICK s \in SUBSET People :
          v = [u EXCEPT !.form.picker = [@ EXCEPT !.loading = FALSE, !.candidates = s]]
    BY <2>1
  <2> DEFINE k == [u.form.picker EXCEPT !.loading = FALSE, !.candidates = s]
             f == [u.form EXCEPT !.picker = k]
  <2>3. v = WithForm(u, f)
    BY <2>2 DEF Uis, WithForm
  <2>4. k \in Pickers /\ k.loading = FALSE
    BY <2>0 DEF Pickers
  <2> HIDE DEF k, v
  <2>5. f \in Panels /\ CalmForm(u.form, f) /\ f.picker = k
    BY <2>0, <2>4 DEF Panels, CalmForm
  <2> HIDE DEF f
  <2>6. f \in Forms
    BY <2>5, KindsOfForms
  <2> QED BY <2>3, <2>4, <2>5, <2>6, WithFormFields DEF CandidatesRead, Calm, Kept, v
<1> QED BY <1>1, <1>2

\* The panel of v waits for the members it was the first to ask for; the roster
\* may be asked for after them.
Askings(c) == {<<c>>, Append(<<c>>, [kind |-> "LoadChannels"])}
AsksAgain(u, v) ==
  /\ v.memberRead = u.memberRead + 1 /\ v.memberSearch = u.memberSearch
  /\ v.form.kind = "members"
  /\ v.form.picker.loading => /\ u.form.kind = "members" /\ v.form.channel = u.form.channel
                              /\ u.form.picker.loading
  /\ \E c \in Commands :
       /\ c.kind = "LoadMembers" /\ c.request = v.memberRead /\ c.channel = v.form.channel
       /\ v.out \in Askings(c)

LEMMA AsksOnce ==
  ASSUME NEW u, NEW v, AsksMembers(u, v)
  PROVE  AsksAgain(u, v)
  BY DEF AsksMembers, AsksAgain, Askings

WithMember(u, w) == [u EXCEPT !.member = w]
LEMMA WithMemberFields ==
  ASSUME NEW u \in Uis, NEW w \in MemberWrites
  PROVE  LET v == WithMember(u, w) IN
         /\ v \in Uis /\ v.form = u.form /\ v.create = u.create /\ v.told = u.told /\ v.member = w
         /\ v.edit = u.edit /\ v.archive = u.archive
         /\ v.createRequest = u.createRequest /\ v.lifeRequest = u.lifeRequest
         /\ v.memberRead = u.memberRead /\ v.memberSearch = u.memberSearch /\ v.out = u.out
  BY DEF Uis, WithMember

Matching(u, e) == Holds(u.member, e.channel) /\ u.member.request = e.request
Expected(w, p) == p \in DOMAIN w.expected \ DOMAIN w.results

\* The record w with the result of p; once it has all of them it is gone or waits
\* for a read asked for after read.
ResultKept(w, p, read, x) ==
  \/ x = NoWrite
  \/ /\ x.request = w.request /\ x.channel = w.channel /\ x.expected = w.expected
     /\ DOMAIN x.results = DOMAIN w.results \cup {p}
     /\ x.readAfter \in {w.readAfter, read}
     /\ DOMAIN x.results = DOMAIN x.expected => x.readAfter = read

ResultTaken(u, e, v) ==
  /\ v \in Uis
  /\ v.create = u.create /\ v.edit = u.edit /\ v.archive = u.archive /\ v.told = u.told
  /\ v.createRequest = u.createRequest /\ v.lifeRequest = u.lifeRequest
  /\ ResultKept(u.member, e.who, u.memberRead, v.member)
  /\ \/ Calm(u, v) /\ Only(v.out, {"LoadChannels"})
     \/ AsksAgain(u, v)

WithResult(w, p, status) == [w EXCEPT !.results = Result(w, p, status)]
LEMMA ResultTyped ==
  ASSUME NEW w \in MemberWrites, IsOpen(w), NEW p \in DOMAIN w.expected, NEW status \in Results
  PROVE  LET x == WithResult(w, p, status) IN
         /\ x \in MemberWrites /\ x.request = w.request /\ x.channel = w.channel /\ x.expected = w.expected
         /\ x.readAfter = w.readAfter /\ DOMAIN x.results = DOMAIN w.results \cup {p} /\ IsOpen(x)
<1> DEFINE r == Result(w, p, status)
           x == [w EXCEPT !.results = r]
<1>1. /\ w \in [request : Nat, channel : Channels, expected : Expecteds, results : Outcomeses, readAfter : Nat]
      /\ DOMAIN w.results \subseteq DOMAIN w.expected
  BY DEF MemberWrites, Slot, IsOpen, NoWrite
<1>2. DOMAIN w.expected \subseteq People
  BY <1>1 DEF Expecteds
<1>3. PICK S \in SUBSET People : w.results \in [S -> Results]
  BY <1>1 DEF Outcomeses
<1>4. DOMAIN w.results = S
  BY <1>3
<1>5. r \in [S \cup {p} -> Results]
  BY <1>3, <1>4 DEF Result
<1>6. r \in Outcomeses /\ DOMAIN r = DOMAIN w.results \cup {p}
  <2>1. S \cup {p} \in SUBSET People
    BY <1>2
  <2>2. r \in Outcomeses
    <3> HIDE DEF r
    <3> QED BY <1>5, <2>1 DEF Outcomeses
  <2> QED BY <2>2, <1>4 DEF Result
<1> HIDE DEF r
<1>7. /\ x \in [request : Nat, channel : Channels, expected : Expecteds, results : Outcomeses, readAfter : Nat]
      /\ x.request = w.request /\ x.channel = w.channel /\ x.expected = w.expected /\ x.readAfter = w.readAfter
      /\ x.results = r
  BY <1>1, <1>6
<1> HIDE DEF x
<1>8. DOMAIN x.results \subseteq DOMAIN x.expected
  BY <1>1, <1>6, <1>7
<1>9. x \in MemberWrites
  BY <1>7, <1>8 DEF MemberWrites, Slot
<1> QED BY <1>6, <1>7, <1>9 DEF IsOpen, x, r, WithResult

LEMMA FinishTyped ==
  ASSUME NEW u \in Uis, IsOpen(u.member)
  PROVE  LET v == FinishMember(u) IN
         /\ v \in Uis /\ v.form = u.form /\ v.create = u.create /\ v.told = u.told
         /\ v.edit = u.edit /\ v.archive = u.archive
         /\ v.createRequest = u.createRequest /\ v.lifeRequest = u.lifeRequest
         /\ v.memberRead = u.memberRead /\ v.memberSearch = u.memberSearch /\ v.out = u.out
         /\ \/ v.member = NoWrite
            \/ /\ v.member.request = u.member.request /\ v.member.channel = u.member.channel
               /\ v.member.expected = u.member.expected /\ v.member.results = u.member.results
               /\ v.member.readAfter = u.memberRead
<1> DEFINE w == [u.member EXCEPT !.readAfter = u.memberRead]
<1>1. /\ w \in MemberWrites /\ w.request = u.member.request /\ w.channel = u.member.channel
      /\ w.expected = u.member.expected /\ w.results = u.member.results /\ w.readAfter = u.memberRead
  BY Slots, Fields DEF MemberWrites, Slot
<1>2. FinishMember(u) = WithMember(u, w) \/ FinishMember(u) = NoMember(u)
  BY DEF FinishMember, WithMember, NoMember
<1> HIDE DEF w
<1> QED BY <1>1, <1>2, WithMemberFields, NoMemberFields

LEMMA ApplyMemberWriteSteps ==
  ASSUME NEW u \in Uis, u.out = <<>>, NEW e \in MemberWriteEvents, Matching(u, e), Expected(u.member, e.who)
  PROVE  ResultTaken(u, e, ApplyMemberWrite(u, e))
<1> DEFINE w == WithResult(u.member, e.who, e.outcome)
           x == WithMember(u, w)
           y == FinishMember(x)
           z == RefreshMembers(y)
           v == ApplyMemberWrite(u, e)
<1>0. IsOpen(u.member) /\ e.outcome \in Results /\ u.member \in MemberWrites /\ e.who \in DOMAIN u.member.expected
  BY Fields DEF Matching, Holds, MemberWriteEvents, Expected
<1>1. /\ w \in MemberWrites /\ w.request = u.member.request /\ w.channel = u.member.channel
      /\ w.expected = u.member.expected /\ w.readAfter = u.member.readAfter
      /\ DOMAIN w.results = DOMAIN u.member.results \cup {e.who} /\ IsOpen(w)
  BY <1>0, ResultTyped
<1>2. x = [u EXCEPT !.member.results = Result(u.member, e.who, e.outcome)]
  BY DEF WithMember, WithResult, Uis
<1>3. \/ v = x /\ DOMAIN x.member.results # DOMAIN u.member.expected
      \/ DOMAIN x.member.results = DOMAIN u.member.expected /\ (v = z \/ v = Ask(z))
  <2> HIDE DEF x
  <2> QED BY <1>2 DEF ApplyMemberWrite, Matching, Expected
<1> HIDE DEF w, v
<1>4. /\ x \in Uis /\ x.form = u.form /\ x.create = u.create /\ x.told = u.told /\ x.member = w
      /\ x.edit = u.edit /\ x.archive = u.archive
      /\ x.createRequest = u.createRequest /\ x.lifeRequest = u.lifeRequest
      /\ x.memberRead = u.memberRead /\ x.memberSearch = u.memberSearch /\ x.out = <<>>
  BY <1>1, WithMemberFields
<1> HIDE DEF x
<1>5. CASE v = x /\ DOMAIN x.member.results # DOMAIN u.member.expected
  <2>1. Calm(u, x)
    BY <1>4 DEF Calm, CalmForm
  <2>2. Only(x.out, {"LoadChannels"})
    BY <1>4 DEF Only
  <2>3. ResultKept(u.member, e.who, u.memberRead, x.member)
    BY <1>1, <1>4, <1>5 DEF ResultKept
  <2> QED BY <1>4, <1>5, <2>1, <2>2, <2>3 DEF ResultTaken, v
<1>6. CASE DOMAIN x.member.results = DOMAIN u.member.expected /\ (v = z \/ v = Ask(z))
  <2>1. /\ y \in Uis /\ y.form = u.form /\ y.create = u.create /\ y.told = u.told
        /\ y.edit = u.edit /\ y.archive = u.archive
        /\ y.createRequest = u.createRequest /\ y.lifeRequest = u.lifeRequest
        /\ y.memberRead = u.memberRead /\ y.memberSearch = u.memberSearch /\ y.out = <<>>
        /\ ResultKept(u.member, e.who, u.memberRead, y.member)
    BY <1>1, <1>4, FinishTyped DEF ResultKept
  <2> HIDE DEF y
  <2>2. CASE ~Showing(y, "members")
    <3>1. z = y
      BY <2>2 DEF RefreshMembers
    <3>2. Idle(y, v)
      BY <1>6, <2>1, <3>1, SelfIdle, AskIdle
    <3>3. Calm(u, y)
      BY <2>1 DEF Calm, CalmForm
    <3>4. Calm(u, v)
      BY <3>2, <3>3, CalmTransitive DEF Idle
    <3> QED BY <2>1, <3>2, <3>4 DEF ResultTaken, Idle, Kept, v
  <2>3. CASE Showing(y, "members")
    <3>1. AsksMembers(y, z) /\ Kept(y, z)
      BY <2>1, <2>3, RefreshMembersSteps
    <3> HIDE DEF z
    <3>2. z \in Uis /\ AsksAgain(u, z)
      <4>1. AsksAgain(y, z)
        BY <3>1, AsksOnce
      <4> QED BY <2>1, <3>1, <4>1 DEF AsksAgain, AsksMembers
    <3>3. CASE v = z
      BY <2>1, <3>1, <3>2, <3>3 DEF ResultTaken, Kept, v
    <3>4. CASE v = Ask(z)
      <4> DEFINE a == [kind |-> "LoadChannels"]
      <4>1. a \in Commands
        BY DEF Commands
      <4>2. v = [z EXCEPT !.out = Append(@, a)]
        BY <3>4 DEF Ask, Push
      <4>3. PICK c \in Commands : /\ c.kind = "LoadMembers" /\ c.request = z.memberRead /\ c.channel = z.form.channel
                                  /\ z.out = <<c>>
        BY <3>1 DEF AsksMembers
      <4>4. v.out = Append(<<c>>, a) /\ v.form = z.form /\ v.memberRead = z.memberRead /\ v.memberSearch = z.memberSearch
        <5>1. Append(z.out, a) = Append(<<c>>, a)
          BY <4>3
        <5> HIDE DEF a
        <5> QED BY <3>2, <4>2, <5>1 DEF Uis
      <4>5. v \in Uis /\ Kept(z, v)
        BY <3>2, <3>4, <4>1, PushEffect DEF Ask
      <4>6. AsksAgain(u, v)
        BY <3>2, <4>3, <4>4 DEF AsksAgain, Askings
      <4> QED BY <2>1, <3>1, <4>5, <4>6 DEF ResultTaken, Kept, v
    <3> QED BY <1>6, <3>3, <3>4
  <2> QED BY <2>2, <2>3
<1> QED BY <1>3, <1>5, <1>6

LEMMA ApplyMemberWriteNothing ==
  ASSUME NEW u, NEW e, ~(Matching(u, e) /\ Expected(u.member, e.who))
  PROVE  ApplyMemberWrite(u, e) = u
  BY DEF ApplyMemberWrite, Matching, Expected

\* The channel goes from the roster, and its panel from the screen.
ChannelWent(u, v) ==
  /\ v \in Uis /\ v.out = <<>> /\ Calm(u, v)
  /\ v.create = u.create /\ v.edit = u.edit /\ v.archive = u.archive /\ v.told = u.told
  /\ v.createRequest = u.createRequest /\ v.lifeRequest = u.lifeRequest
  /\ v.member \in {u.member, NoWrite}

LEMMA ApplyGoneSteps ==
  ASSUME NEW u \in Uis, u.out = <<>>, NEW c \in Channels
  PROVE  ChannelWent(u, ApplyGone(u, c))
<1> DEFINE x == IF Showing(u, "members") /\ u.form.channel = c
                  THEN [u EXCEPT !.form = NoForm, !.member = NoWrite] ELSE u
           r == [x.roster EXCEPT ![c] = NotListed]
           v == [x EXCEPT !.roster = r]
<1>1. ChannelWent(u, x)
  <2>1. CASE Showing(u, "members") /\ u.form.channel = c
    <3>1. x = NoMember(WithForm(u, NoForm))
      BY <2>1 DEF NoMember, WithForm
    <3>2. NoForm \in Forms /\ NoForm.kind # "members"
      BY DEF Forms, NoForm, None
    <3> HIDE DEF x, NoForm
    <3> QED BY <3>1, <3>2, WithFormFields, NoMemberFields DEF ChannelWent, Calm, CalmForm
  <2>2. CASE ~(Showing(u, "members") /\ u.form.channel = c)
    BY <2>2 DEF ChannelWent, Calm, CalmForm
  <2> QED BY <2>1, <2>2
<1>2. ApplyGone(u, c) = v
  BY DEF ApplyGone
<1> HIDE DEF x
<1>3. x \in Uis /\ x.roster \in Described
  BY <1>1, Fields DEF ChannelWent
<1>4. r \in Described
  <2>1. NotListed \in [described : BOOLEAN, mine : Given, archived : BOOLEAN, label : Labels \cup {None}]
    BY DEF NotListed, Given
  <2>2. NotListed.described = FALSE
    BY DEF NotListed
  <2> HIDE DEF NotListed
  <2>3. x.roster \in Rosters
    BY <1>3 DEF Described
  <2>4. r \in Rosters
    BY <2>1, <2>3 DEF Rosters, Given
  <2>5. \A d \in Channels : r[d] = IF d = c THEN NotListed ELSE x.roster[d]
    BY <2>3 DEF Rosters
  <2> HIDE DEF r
  <2>6. \A d \in Channels : r[d].described => r[d].label \in Labels
    BY <1>3, <2>2, <2>5 DEF Described
  <2> QED BY <2>4, <2>6 DEF Described
<1> HIDE DEF r
<1>5. v \in Uis /\ ChannelWent(x, v)
  BY <1>1, <1>3, <1>4 DEF ChannelWent, Uis, Calm, CalmForm
<1> HIDE DEF v
<1>6. Calm(u, v)
  BY <1>1, <1>5, CalmTransitive DEF ChannelWent
<1> QED BY <1>1, <1>2, <1>5, <1>6 DEF ChannelWent

LEMMA MembersPassed ==
  ASSUME NEW w, NEW n \in Nat, NEW read \in Nat,
         NEW cs \in Seq(Commands), NEW b, NEW es \in Seq(Events), es # <<>>, NEW dn,
         MemberRecord(w, n, read, cs, b, es, dn), Head(es).kind = "MemberWrite" => ~Expected(w, Head(es).who)
  PROVE  MemberRecord(w, n, read, cs, b, Tail(es), dn)
<1>1. SUFFICES ASSUME IsOpen(w) PROVE MemberRecord(w, n, read, cs, b, Tail(es), dn)
  BY DEF MemberRecord
<1>2. /\ \A i \in DOMAIN Tail(es) : i + 1 \in DOMAIN es /\ Tail(es)[i] = es[i + 1]
      /\ \A i \in DOMAIN es : i = 1 \/ (i - 1 \in DOMAIN Tail(es) /\ Tail(es)[i - 1] = es[i])
      /\ Head(es) = es[1]
  BY Rest
<1>3. ASSUME NEW p \in DOMAIN w.expected \ DOMAIN w.results
      PROVE  ToCome(w.request, p, cs, b, Tail(es))
  <2>1. ToCome(w.request, p, cs, b, es)
    BY <1>1, <1>3 DEF MemberRecord
  <2>2. CASE \E i \in DOMAIN es : es[i].kind = "MemberWrite" /\ es[i].request = w.request /\ es[i].who = p
    <3>1. PICK i \in DOMAIN es : es[i].kind = "MemberWrite" /\ es[i].request = w.request /\ es[i].who = p
      BY <2>2
    <3>2. i # 1
      BY <1>2, <1>3, <3>1 DEF Expected
    <3> QED BY <1>2, <3>1, <3>2 DEF ToCome
  <2> QED BY <2>1, <2>2 DEF ToCome
<1>4. \A i \in DOMAIN Tail(es) : Tail(es)[i].kind = "MemberWrite" /\ Tail(es)[i].request = w.request =>
         Tail(es)[i].channel = w.channel
  BY <1>1, <1>2 DEF MemberRecord
<1>5. DOMAIN w.results = DOMAIN w.expected =>
         \A i \in DOMAIN Tail(es) : Tail(es)[i].kind = "Members" /\ Tail(es)[i].request > w.readAfter =>
           <<"life", w.request>> \in Tail(es)[i].after
  BY <1>1, <1>2 DEF MemberRecord
<1> QED BY <1>1, <1>3, <1>4, <1>5 DEF MemberRecord

LEMMA PanelCalm ==
  ASSUME NEW u, NEW v, Calm(u, v), NEW cs, NEW es, PanelReads(u, cs, es)
  PROVE  PanelReads(v, cs, es)
<1> DEFINE on(x) == Showing(x, "members")
<1>1. /\ v.memberRead = u.memberRead /\ v.memberSearch = u.memberSearch
      /\ on(v) => /\ on(u) /\ v.form.channel = u.form.channel
                  /\ v.form.loading => u.form.loading
                  /\ v.form.picker.loading => u.form.picker.loading
  BY DEF Calm, CalmForm, Showing
<1>2. /\ Reading("LoadMembers", "Members", u.memberRead, u.form.channel, on(u), on(u) /\ u.form.loading, cs, es)
      /\ Reading("MemberCandidates", "Candidates", u.memberSearch, u.form.channel,
             on(u) /\ u.form.picker.loading, on(u) /\ u.form.picker.loading, cs, es)
  BY DEF PanelReads
<1> HIDE DEF on
<1>3. Reading("LoadMembers", "Members", v.memberRead, v.form.channel, on(v), on(v) /\ v.form.loading, cs, es)
  BY <1>1, <1>2 DEF Reading
<1>4. Reading("MemberCandidates", "Candidates", v.memberSearch, v.form.channel,
             on(v) /\ v.form.picker.loading, on(v) /\ v.form.picker.loading, cs, es)
  BY <1>1, <1>2 DEF Reading
<1> QED BY <1>3, <1>4 DEF PanelReads, on

LEMMA PanelJoined ==
  ASSUME NEW u, NEW cs \in Seq(Commands), NEW q \in Seq(Commands), NEW es, PanelReads(u, cs, es),
         \A i \in DOMAIN q : q[i].kind # "LoadMembers" /\ q[i].kind # "MemberCandidates"
  PROVE  PanelReads(u, cs \o q, es)
<1> DEFINE on(x) == Showing(x, "members")
<1>2. /\ Reading("LoadMembers", "Members", u.memberRead, u.form.channel, on(u), on(u) /\ u.form.loading, cs, es)
      /\ Reading("MemberCandidates", "Candidates", u.memberSearch, u.form.channel,
             on(u) /\ u.form.picker.loading, on(u) /\ u.form.picker.loading, cs, es)
  BY DEF PanelReads
<1> HIDE DEF on
<1>3. Reading("LoadMembers", "Members", u.memberRead, u.form.channel, on(u), on(u) /\ u.form.loading, cs \o q, es)
  BY <1>2, ReadingJoined
<1>4. Reading("MemberCandidates", "Candidates", u.memberSearch, u.form.channel,
             on(u) /\ u.form.picker.loading, on(u) /\ u.form.picker.loading, cs \o q, es)
  BY <1>2, ReadingJoined
<1> QED BY <1>3, <1>4 DEF PanelReads, on

\* One command joins.
LEMMA JoinedOne ==
  ASSUME NEW cs \in Seq(Commands), NEW c \in Commands
  PROVE  /\ <<c>> \in Seq(Commands) /\ cs \o <<c>> = Append(cs, c)
         /\ \A i \in DOMAIN <<c>> : <<c>>[i] = c
<1>1. cs \o <<c>> = Append(cs, c)
  BY AppendIsConcat
<1> QED BY <1>1

LEMMA FlowJoined ==
  ASSUME NEW u \in Uis, NEW cs \in Seq(Commands), NEW q \in Seq(Commands), NEW es \in Seq(Events),
         NEW b, NEW dn, Flow(u, cs, b, es, dn), Only(q, {"LoadChannels"})
  PROVE  Flow(u, cs \o q, b, es, dn)
<1>1. u.createRequest \in Nat /\ u.lifeRequest \in Nat /\ u.memberRead \in Nat
  BY Fields
<1>2. /\ Quiet(q, "Create") /\ Quiet(q, "Edit") /\ Quiet(q, "SetArchived") /\ NoMembers(q)
      /\ \A i \in DOMAIN q : q[i].kind # "LoadMembers" /\ q[i].kind # "MemberCandidates"
  BY DEF Quiet, NoMembers, Only, IsWrite, MemberKinds
<1>3. Creations(u, cs \o q, es, dn)
  BY <1>1, <1>2, CreationsJoined DEF Flow
<1>4. Changed("Edit", u.edit, u.lifeRequest, cs \o q, es, dn)
  BY <1>1, <1>2, ChangedJoined DEF Flow
<1>5. Changed("SetArchived", u.archive, u.lifeRequest, cs \o q, es, dn)
  BY <1>1, <1>2, ChangedJoined DEF Flow
<1>6. IsOpen(u.member) => u.member.readAfter \in Nat
  BY Slots
<1>7. /\ MemberCourse(u.lifeRequest, cs \o q, b, es)
      /\ MemberRecord(u.member, u.lifeRequest, u.memberRead, cs \o q, b, es, dn)
  BY <1>1, <1>2, <1>6, MembersJoined DEF Flow
<1>8. PanelReads(u, cs \o q, es)
  BY <1>2, PanelJoined DEF Flow
<1> QED BY <1>3, <1>4, <1>5, <1>7, <1>8 DEF Flow

LEMMA FlowKept ==
  ASSUME NEW u \in Uis, NEW v \in Uis, Kept(u, v), Calm(u, v), NEW cs, NEW es, NEW b, NEW dn,
         Flow(u, cs, b, es, dn)
  PROVE  Flow(v, cs, b, es, dn)
<1>1. Creations(v, cs, es, dn)
  BY DEF Flow, Kept, Creations
<1>2. PanelReads(v, cs, es)
  BY PanelCalm DEF Flow
<1> QED BY <1>1, <1>2 DEF Flow, Kept, Calm

LEMMA FlowIdle ==
  ASSUME NEW u \in Uis, NEW v, Idle(u, v), NEW cs \in Seq(Commands), NEW es \in Seq(Events), NEW b, NEW dn,
         Flow(u, cs, b, es, dn)
  PROVE  Flow(v, cs \o v.out, b, es, dn)
<1>1. v \in Uis /\ Flow(v, cs, b, es, dn) /\ v.out \in Seq(Commands)
  BY FlowKept, Fields DEF Idle
<1> QED BY <1>1, FlowJoined DEF Idle

-----------------------------------------------------------------------------
(* A write joins.                                                           *)

LEMMA OthersJoined ==
  ASSUME NEW u \in Uis, NEW v \in Uis, NEW cs \in Seq(Commands), NEW c \in Commands, NEW es \in Seq(Events),
         NEW b, NEW dn, Flow(u, cs, b, es, dn), u.lifeRequest <= v.lifeRequest, u.memberRead <= v.memberRead
  PROVE  /\ c.kind # "Create" /\ v.create = u.create /\ v.createRequest = u.createRequest =>
              Creations(v, Append(cs, c), es, dn)
         /\ c.kind # "Edit" => Changed("Edit", u.edit, v.lifeRequest, Append(cs, c), es, dn)
         /\ c.kind # "SetArchived" => Changed("SetArchived", u.archive, v.lifeRequest, Append(cs, c), es, dn)
         /\ c.kind \notin MemberKinds =>
              /\ MemberCourse(v.lifeRequest, Append(cs, c), b, es)
              /\ MemberRecord(u.member, v.lifeRequest, v.memberRead, Append(cs, c), b, es, dn)
         /\ c.kind # "LoadMembers" /\ c.kind # "MemberCandidates" /\ Calm(u, v) =>
              PanelReads(v, Append(cs, c), es)
<1>1. /\ u.createRequest \in Nat /\ u.lifeRequest \in Nat /\ u.memberRead \in Nat
      /\ v.createRequest \in Nat /\ v.lifeRequest \in Nat /\ v.memberRead \in Nat
  BY Fields
<1>2. /\ <<c>> \in Seq(Commands) /\ cs \o <<c>> = Append(cs, c)
      /\ \A k : c.kind # k => Quiet(<<c>>, k)
      /\ c.kind \notin MemberKinds => NoMembers(<<c>>)
  BY JoinedOne DEF Quiet, IsWrite, NoMembers
<1>3. ASSUME c.kind # "Create", v.create = u.create, v.createRequest = u.createRequest
      PROVE  Creations(v, Append(cs, c), es, dn)
  <2>1. Creations(v, cs \o <<c>>, es, dn)
    BY <1>1, <1>2, <1>3, CreationsJoined DEF Flow
  <2> QED BY <1>2, <2>1
<1>4. ASSUME c.kind # "Edit" PROVE Changed("Edit", u.edit, v.lifeRequest, Append(cs, c), es, dn)
  <2>1. Changed("Edit", u.edit, v.lifeRequest, cs \o <<c>>, es, dn)
    BY <1>1, <1>2, <1>4, ChangedJoined DEF Flow
  <2> QED BY <1>2, <2>1
<1>5. ASSUME c.kind # "SetArchived" PROVE Changed("SetArchived", u.archive, v.lifeRequest, Append(cs, c), es, dn)
  <2>1. Changed("SetArchived", u.archive, v.lifeRequest, cs \o <<c>>, es, dn)
    BY <1>1, <1>2, <1>5, ChangedJoined DEF Flow
  <2> QED BY <1>2, <2>1
<1>6. ASSUME c.kind \notin MemberKinds
      PROVE  /\ MemberCourse(v.lifeRequest, Append(cs, c), b, es)
             /\ MemberRecord(u.member, v.lifeRequest, v.memberRead, Append(cs, c), b, es, dn)
  <2>1. IsOpen(u.member) => u.member.readAfter \in Nat
    BY Slots
  <2>2. /\ MemberCourse(v.lifeRequest, cs \o <<c>>, b, es)
        /\ MemberRecord(u.member, v.lifeRequest, v.memberRead, cs \o <<c>>, b, es, dn)
    BY <1>1, <1>2, <1>6, <2>1, MembersJoined DEF Flow
  <2> QED BY <1>2, <2>2
<1>7. ASSUME c.kind # "LoadMembers", c.kind # "MemberCandidates", Calm(u, v)
      PROVE  PanelReads(v, Append(cs, c), es)
  <2>1. PanelReads(u, cs \o <<c>>, es)
    BY <1>2, <1>7, JoinedOne, PanelJoined DEF Flow
  <2> QED BY <1>2, <1>7, <2>1, PanelCalm
<1> QED BY <1>3, <1>4, <1>5, <1>6, <1>7

LEMMA FlowWroteCreate ==
  ASSUME NEW u \in Uis, NEW v, WroteCreate(u, v), NEW cs \in Seq(Commands), NEW es \in Seq(Events), NEW b, NEW dn,
         Flow(u, cs, b, es, dn)
  PROVE  Flow(v, cs \o v.out, b, es, dn)
<1>1. PICK c \in Commands : c.kind = "Create" /\ c.request = u.createRequest + 1 /\ v.out = <<c>>
  BY DEF WroteCreate
<1>2. cs \o v.out = Append(cs, c)
  BY <1>1, JoinedOne
<1>3. Creations(v, Append(cs, c), es, dn)
  BY <1>1, Fields, CreationsWrite DEF WroteCreate, Flow
<1>4. /\ v \in Uis /\ u.lifeRequest <= v.lifeRequest /\ u.memberRead <= v.memberRead /\ Calm(u, v)
      /\ u.lifeRequest = v.lifeRequest /\ u.memberRead = v.memberRead
  BY Fields DEF WroteCreate, Calm
<1>5. c.kind # "Edit" /\ c.kind # "SetArchived" /\ c.kind \notin MemberKinds /\ c.kind # "LoadMembers"
        /\ c.kind # "MemberCandidates"
  BY <1>1 DEF MemberKinds
<1> QED BY <1>2, <1>3, <1>4, <1>5, OthersJoined DEF Flow, WroteCreate

LEMMA FlowWroteEdit ==
  ASSUME NEW u \in Uis, NEW v, WroteEdit(u, v), NEW cs \in Seq(Commands), NEW es \in Seq(Events), NEW b, NEW dn,
         Flow(u, cs, b, es, dn)
  PROVE  Flow(v, cs \o v.out, b, es, dn)
<1>1. PICK c \in Commands : c.kind = "Edit" /\ Submitted(v.edit, u.edit, u.lifeRequest, c) /\ v.out = <<c>>
  BY DEF WroteEdit
<1>2. cs \o v.out = Append(cs, c)
  BY <1>1, JoinedOne
<1>3. u.lifeRequest \in Nat /\ u.memberRead \in Nat
  BY Fields
<1>4. /\ v \in Uis /\ u.lifeRequest <= v.lifeRequest /\ u.memberRead <= v.memberRead /\ u.memberRead = v.memberRead
      /\ v.lifeRequest = u.lifeRequest + 1 /\ IsWrite(c, "Edit")
  BY <1>1, <1>3 DEF WroteEdit, Calm, IsWrite
<1>5. Changed("Edit", v.edit, v.lifeRequest, Append(cs, c), es, dn)
  BY <1>1, <1>3, <1>4, ChangedWrite DEF WroteEdit, Flow, Submitted
<1>6. c.kind # "Create" /\ c.kind # "SetArchived" /\ c.kind \notin MemberKinds /\ c.kind # "LoadMembers"
        /\ c.kind # "MemberCandidates"
  BY <1>1 DEF MemberKinds
<1> QED BY <1>2, <1>4, <1>5, <1>6, OthersJoined DEF Flow, WroteEdit

LEMMA FlowWroteArchive ==
  ASSUME NEW u \in Uis, NEW v, WroteArchive(u, v), NEW cs \in Seq(Commands), NEW es \in Seq(Events), NEW b, NEW dn,
         Flow(u, cs, b, es, dn)
  PROVE  Flow(v, cs \o v.out, b, es, dn)
<1>1. PICK c \in Commands : c.kind = "SetArchived" /\ Submitted(v.archive, u.archive, u.lifeRequest, c) /\ v.out = <<c>>
  BY DEF WroteArchive
<1>2. cs \o v.out = Append(cs, c)
  BY <1>1, JoinedOne
<1>3. u.lifeRequest \in Nat /\ u.memberRead \in Nat
  BY Fields
<1>4. /\ v \in Uis /\ u.lifeRequest <= v.lifeRequest /\ u.memberRead <= v.memberRead /\ u.memberRead = v.memberRead
      /\ v.lifeRequest = u.lifeRequest + 1 /\ IsWrite(c, "SetArchived")
  BY <1>1, <1>3 DEF WroteArchive, Calm, IsWrite
<1>5. Changed("SetArchived", v.archive, v.lifeRequest, Append(cs, c), es, dn)
  BY <1>1, <1>3, <1>4, ChangedWrite DEF WroteArchive, Flow, Submitted
<1>6. c.kind # "Create" /\ c.kind # "Edit" /\ c.kind \notin MemberKinds /\ c.kind # "LoadMembers"
        /\ c.kind # "MemberCandidates"
  BY <1>1 DEF MemberKinds
<1> QED BY <1>2, <1>4, <1>5, <1>6, OthersJoined DEF Flow, WroteArchive

LEMMA FlowWroteMember ==
  ASSUME NEW u \in Uis, NEW v, WroteMember(u, v), NEW cs \in Seq(Commands), NEW es \in Seq(Events), NEW b, NEW dn,
         Flow(u, cs, b, es, dn)
  PROVE  Flow(v, cs \o v.out, b, es, dn)
<1>1. PICK c \in Commands :
       /\ c.kind \in MemberKinds /\ Submitted(v.member, u.member, u.lifeRequest, c) /\ v.out = <<c>>
       /\ DOMAIN v.member.expected = Targets(c)
  BY DEF WroteMember
<1>2. cs \o v.out = Append(cs, c)
  BY <1>1, JoinedOne
<1>3. u.lifeRequest \in Nat /\ u.memberRead \in Nat
  BY Fields
<1>4. /\ v \in Uis /\ u.lifeRequest <= v.lifeRequest /\ u.memberRead <= v.memberRead /\ u.memberRead = v.memberRead
      /\ v.lifeRequest = u.lifeRequest + 1
  BY <1>1, <1>3 DEF WroteMember, Calm
<1>5. /\ MemberCourse(v.lifeRequest, Append(cs, c), b, es)
      /\ MemberRecord(v.member, v.lifeRequest, v.memberRead, Append(cs, c), b, es, dn)
  <2>1. /\ MemberCourse(u.lifeRequest, cs, b, es)
        /\ MemberRecord(u.member, u.lifeRequest, u.memberRead, cs, b, es, dn)
    BY DEF Flow
  <2>2. /\ c.request = u.lifeRequest + 1 /\ v.member.request = u.lifeRequest + 1 /\ v.member.channel = c.channel
        /\ v.member.readAfter = u.memberRead /\ DOMAIN v.member.results = {}
    BY <1>1 DEF WroteMember, Submitted
  <2>3. /\ MemberCourse(u.lifeRequest + 1, Append(cs, c), b, es)
        /\ MemberRecord(v.member, u.lifeRequest + 1, u.memberRead, Append(cs, c), b, es, dn)
    BY <1>1, <1>3, <2>1, <2>2, MembersWrite
  <2> QED BY <1>4, <2>3
<1>6. c.kind # "Create" /\ c.kind # "Edit" /\ c.kind # "SetArchived" /\ c.kind # "LoadMembers"
        /\ c.kind # "MemberCandidates"
  BY <1>1 DEF MemberKinds
<1> QED BY <1>2, <1>4, <1>5, <1>6, OthersJoined DEF Flow, WroteMember

-----------------------------------------------------------------------------
(* The panel reads.                                                         *)

LEMMA RequestsNat ==
  /\ \A cs \in Seq(Commands) : \A i \in DOMAIN cs :
       cs[i].kind \in {"LoadMembers", "MemberCandidates"} => cs[i].request \in Nat
  /\ \A es \in Seq(Events) : \A i \in DOMAIN es :
       es[i].kind \in {"Members", "Candidates"} => es[i].request \in Nat
<1>1. \A cs \in Seq(Commands) : \A i \in DOMAIN cs : cs[i] \in Commands
  OBVIOUS
<1>2. \A es \in Seq(Events) : \A i \in DOMAIN es : es[i] \in Events
  OBVIOUS
<1>3. \A c \in Commands : c.kind \in {"LoadMembers", "MemberCandidates"} => c.request \in Nat
  BY CommandKinds
<1>4. \A e \in Events : e.kind \in {"Members", "Candidates"} => e.request \in Nat
  BY EventKinds DEF MembersEvents, CandidatesEvents
<1> QED BY <1>1, <1>2, <1>3, <1>4

LEMMA PanelAsks ==
  ASSUME NEW u \in Uis, NEW v, AsksAgain(u, v), NEW cs \in Seq(Commands), NEW es \in Seq(Events),
         PanelReads(u, cs, es)
  PROVE  PanelReads(v, cs \o v.out, es)
<1> DEFINE on(x) == Showing(x, "members")
<1>1. PICK c \in Commands :
       /\ c.kind = "LoadMembers" /\ c.request = v.memberRead /\ c.channel = v.form.channel
       /\ v.out \in Askings(c)
  BY DEF AsksAgain
<1>2. /\ Reading("LoadMembers", "Members", u.memberRead, u.form.channel, on(u), on(u) /\ u.form.loading, cs, es)
      /\ Reading("MemberCandidates", "Candidates", u.memberSearch, u.form.channel,
             on(u) /\ u.form.picker.loading, on(u) /\ u.form.picker.loading, cs, es)
  BY DEF PanelReads
<1>3. /\ on(v) /\ v.memberRead = u.memberRead + 1 /\ v.memberSearch = u.memberSearch
      /\ v.form.picker.loading => on(u) /\ v.form.channel = u.form.channel /\ u.form.picker.loading
  BY DEF AsksAgain, Showing
<1> HIDE DEF on
<1>4. Reading("LoadMembers", "Members", v.memberRead, v.form.channel, on(v), on(v) /\ v.form.loading, Append(cs, c), es)
  <2>1. /\ \A i \in DOMAIN cs : cs[i].kind = "LoadMembers" => cs[i].request \in Nat
        /\ \A i \in DOMAIN es : es[i].kind = "Members" => es[i].request \in Nat
        /\ u.memberRead \in Nat
    BY RequestsNat, Fields
  <2>2. Reading("LoadMembers", "Members", u.memberRead + 1, v.form.channel, on(v), on(v) /\ v.form.loading, Append(cs, c), es)
    BY <1>1, <1>2, <1>3, <2>1, ReadingAsked
  <2> QED BY <1>3, <2>2
<1>5. Reading("MemberCandidates", "Candidates", v.memberSearch, v.form.channel,
             on(v) /\ v.form.picker.loading, on(v) /\ v.form.picker.loading, Append(cs, c), es)
  <2>1. Reading("MemberCandidates", "Candidates", v.memberSearch, v.form.channel,
             on(v) /\ v.form.picker.loading, on(v) /\ v.form.picker.loading, cs, es)
    BY <1>2, <1>3 DEF Reading
  <2>2. <<c>> \in Seq(Commands) /\ cs \o <<c>> = Append(cs, c) /\ \A i \in DOMAIN <<c>> : <<c>>[i].kind # "MemberCandidates"
    BY <1>1, JoinedOne
  <2>3. Reading("MemberCandidates", "Candidates", v.memberSearch, v.form.channel,
             on(v) /\ v.form.picker.loading, on(v) /\ v.form.picker.loading, cs \o <<c>>, es)
    BY <2>1, <2>2, ReadingJoined
  <2> QED BY <2>2, <2>3
<1>6. PanelReads(v, Append(cs, c), es)
  BY <1>4, <1>5 DEF PanelReads, on
<1> DEFINE a == [kind |-> "LoadChannels"]
<1>7. a \in Commands /\ a.kind = "LoadChannels"
  BY DEF Commands
<1>8. v.out = <<c>> \/ v.out = Append(<<c>>, a)
  BY <1>1 DEF Askings
<1>9. cs \o <<c>> = Append(cs, c) /\ Append(cs, c) \in Seq(Commands) /\ <<c>> \in Seq(Commands)
  BY JoinedOne
<1>10. CASE v.out = <<c>>
  BY <1>6, <1>9, <1>10
<1>11. CASE v.out = Append(<<c>>, a)
  <2> HIDE DEF a
  <2>1. PanelReads(v, Append(cs, c) \o <<a>>, es)
    BY <1>6, <1>7, <1>9, JoinedOne, PanelJoined
  <2>2. Append(<<c>>, a) = <<c>> \o <<a>> /\ <<a>> \in Seq(Commands)
    BY <1>7, <1>9, AppendIsConcat
  <2>3. cs \o (<<c>> \o <<a>>) = (cs \o <<c>>) \o <<a>>
    BY <1>9, <2>2, ConcatAssociative
  <2> QED BY <1>9, <1>11, <2>1, <2>2, <2>3
<1> QED BY <1>8, <1>10, <1>11

LEMMA FlowAsksMembers ==
  ASSUME NEW u \in Uis, NEW v, AsksMembers(u, v), Kept(u, v), NEW cs \in Seq(Commands), NEW es \in Seq(Events),
         NEW b, NEW dn, Flow(u, cs, b, es, dn)
  PROVE  Flow(v, cs \o v.out, b, es, dn)
<1>1. PICK c \in Commands : c.kind = "LoadMembers" /\ v.out = <<c>>
  BY DEF AsksMembers
<1>2. cs \o v.out = Append(cs, c)
  BY <1>1, JoinedOne
<1>3. PanelReads(v, cs \o v.out, es)
  BY AsksOnce, PanelAsks DEF Flow
<1>4. v \in Uis /\ v.lifeRequest = u.lifeRequest /\ v.memberRead = u.memberRead + 1
  BY DEF AsksMembers, Kept
<1>5. u.lifeRequest <= v.lifeRequest /\ u.memberRead <= v.memberRead
  BY <1>4, Fields
<1>6. c.kind # "Create" /\ c.kind # "Edit" /\ c.kind # "SetArchived" /\ c.kind \notin MemberKinds
  BY <1>1 DEF MemberKinds
<1>7. /\ Creations(v, Append(cs, c), es, dn)
      /\ Changed("Edit", u.edit, v.lifeRequest, Append(cs, c), es, dn)
      /\ Changed("SetArchived", u.archive, v.lifeRequest, Append(cs, c), es, dn)
      /\ MemberCourse(v.lifeRequest, Append(cs, c), b, es)
      /\ MemberRecord(u.member, v.lifeRequest, v.memberRead, Append(cs, c), b, es, dn)
  BY <1>4, <1>5, <1>6, OthersJoined DEF Kept
<1> QED BY <1>2, <1>3, <1>7 DEF Flow, Kept

LEMMA FlowAsksCandidates ==
  ASSUME NEW u \in Uis, NEW v, AsksCandidates(u, v), NEW cs \in Seq(Commands), NEW es \in Seq(Events),
         NEW b, NEW dn, Flow(u, cs, b, es, dn)
  PROVE  Flow(v, cs \o v.out, b, es, dn)
<1> DEFINE on(x) == Showing(x, "members")
<1>1. PICK c \in Commands :
       /\ c.kind = "MemberCandidates" /\ c.request = v.memberSearch /\ c.channel = v.form.channel
       /\ v.out = <<c>>
  BY DEF AsksCandidates
<1>2. cs \o v.out = Append(cs, c) /\ <<c>> \in Seq(Commands) /\ \A i \in DOMAIN <<c>> : <<c>>[i].kind # "LoadMembers"
  BY <1>1, JoinedOne
<1>3. PanelReads(v, Append(cs, c), es)
  <2>1. /\ Reading("LoadMembers", "Members", u.memberRead, u.form.channel, on(u), on(u) /\ u.form.loading, cs, es)
        /\ Reading("MemberCandidates", "Candidates", u.memberSearch, u.form.channel,
               on(u) /\ u.form.picker.loading, on(u) /\ u.form.picker.loading, cs, es)
    BY DEF PanelReads, Flow
  <2>2. /\ on(u) /\ on(v) /\ v.memberRead = u.memberRead /\ v.memberSearch = u.memberSearch + 1
        /\ v.form.channel = u.form.channel /\ v.form.loading = u.form.loading
    BY DEF AsksCandidates, Showing
  <2> HIDE DEF on
  <2>3. Reading("LoadMembers", "Members", v.memberRead, v.form.channel, on(v), on(v) /\ v.form.loading, Append(cs, c), es)
    <3>1. Reading("LoadMembers", "Members", v.memberRead, v.form.channel, on(v), on(v) /\ v.form.loading, cs, es)
      BY <2>1, <2>2 DEF Reading
    <3>2. Reading("LoadMembers", "Members", v.memberRead, v.form.channel, on(v), on(v) /\ v.form.loading, cs \o <<c>>, es)
      BY <1>2, <3>1, ReadingJoined
    <3> QED BY <1>1, <1>2, <3>2
  <2>4. /\ \A i \in DOMAIN cs : cs[i].kind = "MemberCandidates" => cs[i].request \in Nat
        /\ \A i \in DOMAIN es : es[i].kind = "Candidates" => es[i].request \in Nat
        /\ u.memberSearch \in Nat
    BY RequestsNat, Fields
  <2>5. Reading("MemberCandidates", "Candidates", u.memberSearch + 1, v.form.channel,
             on(v) /\ v.form.picker.loading, on(v) /\ v.form.picker.loading, Append(cs, c), es)
    BY <1>1, <2>1, <2>2, <2>4, ReadingAsked
  <2> QED BY <2>2, <2>3, <2>5 DEF PanelReads, on
<1>4. v \in Uis /\ v.lifeRequest = u.lifeRequest /\ v.memberRead = u.memberRead
  BY DEF AsksCandidates, Kept
<1>5. u.lifeRequest <= v.lifeRequest /\ u.memberRead <= v.memberRead
  BY <1>4, Fields
<1>6. c.kind # "Create" /\ c.kind # "Edit" /\ c.kind # "SetArchived" /\ c.kind \notin MemberKinds
  BY <1>1 DEF MemberKinds
<1>7. /\ Creations(v, Append(cs, c), es, dn)
      /\ Changed("Edit", u.edit, v.lifeRequest, Append(cs, c), es, dn)
      /\ Changed("SetArchived", u.archive, v.lifeRequest, Append(cs, c), es, dn)
      /\ MemberCourse(v.lifeRequest, Append(cs, c), b, es)
      /\ MemberRecord(u.member, v.lifeRequest, v.memberRead, Append(cs, c), b, es, dn)
  BY <1>4, <1>5, <1>6, OthersJoined DEF AsksCandidates, Kept
<1> QED BY <1>2, <1>3, <1>7 DEF Flow, AsksCandidates, Kept

-----------------------------------------------------------------------------
(* An answer is taken.                                                      *)

LEMMA PanelApplied ==
  ASSUME NEW u, NEW v, Calm(u, v), NEW cs, NEW es \in Seq(Events), es # <<>>, PanelReads(u, cs, es),
         Head(es).kind = "Members" /\ Awaited(u, Head(es)) => ~v.form.loading,
         Head(es).kind = "Candidates" /\ Sought(u, Head(es)) => ~v.form.picker.loading
  PROVE  PanelReads(v, cs, Tail(es))
<1> DEFINE on(x) == Showing(x, "members")
<1>1. /\ v.memberRead = u.memberRead /\ v.memberSearch = u.memberSearch
      /\ on(v) => /\ on(u) /\ v.form.channel = u.form.channel
                  /\ v.form.loading => u.form.loading
                  /\ v.form.picker.loading => u.form.picker.loading
  BY DEF Calm, CalmForm, Showing
<1>2. /\ Reading("LoadMembers", "Members", u.memberRead, u.form.channel, on(u), on(u) /\ u.form.loading, cs, es)
      /\ Reading("MemberCandidates", "Candidates", u.memberSearch, u.form.channel,
             on(u) /\ u.form.picker.loading, on(u) /\ u.form.picker.loading, cs, es)
  BY DEF PanelReads
<1>3. Head(es) = es[1] /\ 1 \in DOMAIN es
  BY Rest
<1>4. on(v) /\ v.form.loading => ~(Head(es).kind = "Members" /\ Head(es).request = v.memberRead)
  BY <1>1, <1>2, <1>3 DEF Reading, Awaited
<1>5. on(v) /\ v.form.picker.loading => ~(Head(es).kind = "Candidates" /\ Head(es).request = v.memberSearch)
  BY <1>1, <1>2, <1>3 DEF Reading, Sought
<1> HIDE DEF on
<1>6. /\ Reading("LoadMembers", "Members", v.memberRead, v.form.channel, on(v), on(v) /\ v.form.loading, cs, es)
      /\ Reading("MemberCandidates", "Candidates", v.memberSearch, v.form.channel,
             on(v) /\ v.form.picker.loading, on(v) /\ v.form.picker.loading, cs, es)
  BY <1>1, <1>2 DEF Reading
<1>7. Reading("LoadMembers", "Members", v.memberRead, v.form.channel, on(v), on(v) /\ v.form.loading, cs, Tail(es))
  BY <1>4, <1>6, ReadingApplied
<1>8. Reading("MemberCandidates", "Candidates", v.memberSearch, v.form.channel,
             on(v) /\ v.form.picker.loading, on(v) /\ v.form.picker.loading, cs, Tail(es))
  BY <1>5, <1>6, ReadingApplied
<1> QED BY <1>7, <1>8 DEF PanelReads, on

LEMMA OthersApplied ==
  ASSUME NEW u \in Uis, NEW v \in Uis, NEW cs \in Seq(Commands), NEW es \in Seq(Events), es # <<>>,
         NEW b, NEW dn, Flow(u, cs, b, es, dn), v.createRequest = u.createRequest, v.lifeRequest = u.lifeRequest
  PROVE  /\ Head(es).kind # "Created" /\ v.create = u.create => Creations(v, cs, Tail(es), dn)
         /\ Head(es).kind # "Created" /\ v.create = NoWrite /\ IsOpen(u.create) /\ u.create.id # None =>
              Creations(v, cs, Tail(es), dn)
         /\ ~IsAnswer(Head(es), "Edit") => Changed("Edit", u.edit, u.lifeRequest, cs, Tail(es), dn)
         /\ Changed("Edit", NoWrite, u.lifeRequest, cs, Tail(es), dn)
         /\ ~IsAnswer(Head(es), "SetArchived") => Changed("SetArchived", u.archive, u.lifeRequest, cs, Tail(es), dn)
         /\ Changed("SetArchived", NoWrite, u.lifeRequest, cs, Tail(es), dn)
         /\ MemberCourse(u.lifeRequest, cs, b, Tail(es))
         /\ MemberRecord(NoWrite, u.lifeRequest, u.memberRead, cs, b, Tail(es), dn)
         /\ Head(es).kind # "MemberWrite" =>
              MemberRecord(u.member, u.lifeRequest, u.memberRead, cs, b, Tail(es), dn)
         /\ Head(es).kind # "Members" /\ Head(es).kind # "Candidates" /\ Calm(u, v) => PanelReads(v, cs, Tail(es))
<1>1. /\ u.createRequest \in Nat /\ u.lifeRequest \in Nat /\ u.memberRead \in Nat
  BY Fields
<1>2. Tail(es) \in Seq(Events)
  BY Rest
<1>3. Head(es).kind # "Created" /\ v.create = u.create => Creations(v, cs, Tail(es), dn)
  BY <1>1, CreationsApplied DEF Flow
<1>4. ASSUME Head(es).kind # "Created", v.create = NoWrite, IsOpen(u.create), u.create.id # None
      PROVE  Creations(v, cs, Tail(es), dn)
  <2>1. Creations(u, cs, Tail(es), dn)
    BY <1>1, <1>4, CreationsApplied DEF Flow
  <2> QED BY <1>1, <1>2, <1>4, <2>1, CreationsClosed
<1>5. Changed("Edit", u.edit, u.lifeRequest, cs, es, dn) /\ Changed("SetArchived", u.archive, u.lifeRequest, cs, es, dn)
  BY DEF Flow
<1>6. /\ ~IsAnswer(Head(es), "Edit") => Changed("Edit", u.edit, u.lifeRequest, cs, Tail(es), dn)
      /\ ~IsAnswer(Head(es), "SetArchived") => Changed("SetArchived", u.archive, u.lifeRequest, cs, Tail(es), dn)
  BY <1>1, <1>5, ChangedApplied
<1>7. /\ Changed("Edit", NoWrite, u.lifeRequest, cs, Tail(es), dn)
      /\ Changed("SetArchived", NoWrite, u.lifeRequest, cs, Tail(es), dn)
  BY <1>1, <1>5, ChangedClosed
<1>8. /\ MemberCourse(u.lifeRequest, cs, b, es)
      /\ MemberRecord(u.member, u.lifeRequest, u.memberRead, cs, b, es, dn)
  BY DEF Flow
<1>9. /\ MemberCourse(u.lifeRequest, cs, b, Tail(es))
      /\ MemberRecord(NoWrite, u.lifeRequest, u.memberRead, cs, b, Tail(es), dn)
      /\ Head(es).kind # "MemberWrite" =>
              MemberRecord(u.member, u.lifeRequest, u.memberRead, cs, b, Tail(es), dn)
  BY <1>1, <1>8, MembersApplied
<1>10. Head(es).kind # "Members" /\ Head(es).kind # "Candidates" /\ Calm(u, v) => PanelReads(v, cs, Tail(es))
  BY PanelApplied DEF Flow
<1> QED BY <1>3, <1>4, <1>6, <1>7, <1>9, <1>10

LEMMA NoAnswer ==
  ASSUME NEW e, e.kind # "Written"
  PROVE  ~IsAnswer(e, "Edit") /\ ~IsAnswer(e, "SetArchived")
  BY DEF IsAnswer

LEMMA FlowRosterRead ==
  ASSUME NEW u \in Uis, NEW v, NEW complete, RosterRead(u, complete, v),
         NEW cs \in Seq(Commands), NEW es \in Seq(Events), es # <<>>, NEW b, NEW dn, Flow(u, cs, b, es, dn),
         Head(es).kind = "Channels"
  PROVE  Flow(v, cs, b, Tail(es), dn)
<1>1. /\ v \in Uis /\ Calm(u, v) /\ v.createRequest = u.createRequest /\ v.lifeRequest = u.lifeRequest
      /\ v.member = u.member /\ v.memberRead = u.memberRead
  BY DEF RosterRead, Calm
<1>2. ~IsAnswer(Head(es), "Edit") /\ ~IsAnswer(Head(es), "SetArchived")
  BY NoAnswer
<1>3. Creations(v, cs, Tail(es), dn)
  BY <1>1, OthersApplied DEF RosterRead
<1>4. Changed("Edit", v.edit, v.lifeRequest, cs, Tail(es), dn)
  BY <1>1, <1>2, OthersApplied DEF RosterRead
<1>5. Changed("SetArchived", v.archive, v.lifeRequest, cs, Tail(es), dn)
  BY <1>1, <1>2, OthersApplied DEF RosterRead
<1>6. MemberCourse(v.lifeRequest, cs, b, Tail(es))
  BY <1>1, OthersApplied
<1>7. MemberRecord(v.member, v.lifeRequest, v.memberRead, cs, b, Tail(es), dn)
  BY <1>1, OthersApplied
<1>8. PanelReads(v, cs, Tail(es))
  BY <1>1, OthersApplied
<1> QED BY <1>3, <1>4, <1>5, <1>6, <1>7, <1>8 DEF Flow

LEMMA FlowCreationAnswered ==
  ASSUME NEW u \in Uis, NEW v, NEW cs \in Seq(Commands), NEW es \in Seq(Events), es # <<>>, NEW b, NEW dn,
         Flow(u, cs, b, es, dn), Head(es) \in CreatedEvents, CreationAnswered(u, Head(es), v)
  PROVE  Flow(v, cs \o v.out, b, Tail(es), dn)
<1>0. Head(es).kind = "Created" /\ Head(es).id \in NewIds /\ Head(es).id # None
  BY IdsAssumption DEF CreatedEvents
<1>1. /\ v \in Uis /\ Calm(u, v) /\ v.createRequest = u.createRequest /\ v.lifeRequest = u.lifeRequest
      /\ v.member = u.member /\ v.memberRead = u.memberRead /\ v.edit = u.edit /\ v.archive = u.archive
      /\ Only(v.out, {"LoadChannels"}) /\ u.createRequest \in Nat /\ v.out \in Seq(Commands)
  BY Fields DEF CreationAnswered, Calm
<1>2. ~IsAnswer(Head(es), "Edit") /\ ~IsAnswer(Head(es), "SetArchived")
  BY <1>0, NoAnswer
<1>3. Creations(v, cs, Tail(es), dn)
  <2>1. \/ v.create = NoWrite
        \/ v.create.request = u.create.request /\ v.create.id # None /\ v.create.state # "creating"
    BY <1>0 DEF CreationAnswered
  <2>2. Creations(u, cs, es, dn)
    BY DEF Flow
  <2> QED BY <1>0, <1>1, <2>1, <2>2, CreationsKept
<1>4. Changed("Edit", v.edit, v.lifeRequest, cs, Tail(es), dn)
  BY <1>1, <1>2, OthersApplied
<1>5. Changed("SetArchived", v.archive, v.lifeRequest, cs, Tail(es), dn)
  BY <1>1, <1>2, OthersApplied
<1>6. MemberCourse(v.lifeRequest, cs, b, Tail(es))
  BY <1>1, OthersApplied
<1>7. MemberRecord(v.member, v.lifeRequest, v.memberRead, cs, b, Tail(es), dn)
  BY <1>0, <1>1, OthersApplied
<1>8. PanelReads(v, cs, Tail(es))
  BY <1>0, <1>1, OthersApplied
<1>9. Flow(v, cs, b, Tail(es), dn) /\ Tail(es) \in Seq(Events)
  BY <1>3, <1>4, <1>5, <1>6, <1>7, <1>8, Rest DEF Flow
<1> QED BY <1>1, <1>9, FlowJoined

\* The open change the answer e is about.
Changing(u, e) ==
  \/ e.slot = "edit" /\ IsOpen(u.edit) /\ u.edit.request = e.request /\ u.edit.channel = e.channel
  \/ e.slot = "archive" /\ IsOpen(u.archive) /\ u.archive.request = e.request /\ u.archive.channel = e.channel

LEMMA ApplyWrittenSteps ==
  ASSUME NEW u \in Uis, u.out = <<>>, NEW e \in WrittenEvents, e.request # 0
  PROVE  \/ ApplyChannelWrite(u, e) = u /\ ~Changing(u, e)
         \/ ChangeAnswered(u, e, ApplyChannelWrite(u, e)) /\ Changing(u, e)
<1>1. e.slot \in {"edit", "archive"}
  BY DEF WrittenEvents
<1>2. CASE Changing(u, e)
  <2>1. CASE e.slot = "edit"
    BY <1>2, <2>1, ApplyEditWritten DEF Changing
  <2>2. CASE e.slot = "archive"
    BY <1>2, <2>2, ApplyArchiveWritten DEF Changing
  <2> QED BY <1>1, <2>1, <2>2
<1>3. CASE ~Changing(u, e)
  <2>1. CASE e.slot = "edit"
    <3>1. u.edit.request # e.request \/ u.edit.channel # e.channel
      BY <1>3, <2>1 DEF Changing, IsOpen
    <3>2. u["edit"] = u.edit
      OBVIOUS
    <3> QED BY <1>3, <2>1, <3>1, <3>2 DEF ApplyChannelWrite
  <2>2. CASE e.slot = "archive"
    <3>1. u.archive.request # e.request \/ u.archive.channel # e.channel
      BY <1>3, <2>2 DEF Changing, IsOpen
    <3>2. u["archive"] = u.archive
      OBVIOUS
    <3> QED BY <1>3, <2>2, <3>1, <3>2 DEF ApplyChannelWrite
  <2> QED BY <1>1, <2>1, <2>2
<1> QED BY <1>2, <1>3

\* What a change that is answered leaves alone.
LEMMA FlowWritten ==
  ASSUME NEW u \in Uis, NEW v \in Uis, NEW cs \in Seq(Commands), NEW es \in Seq(Events), es # <<>>, NEW b, NEW dn,
         Flow(u, cs, b, es, dn), Head(es) \in WrittenEvents, Calm(u, v), v.create = u.create,
         v.createRequest = u.createRequest, v.lifeRequest = u.lifeRequest, v.member = u.member,
         v.edit = u.edit \/ (Head(es).slot = "edit" /\ Answered(u.edit, v.edit)),
         v.archive = u.archive \/ (Head(es).slot = "archive" /\ Answered(u.archive, v.archive)),
         Head(es).slot = "edit" /\ v.edit = u.edit => ~Changing(u, Head(es)),
         Head(es).slot = "archive" /\ v.archive = u.archive => ~Changing(u, Head(es)),
         v.edit # u.edit \/ v.archive # u.archive => Changing(u, Head(es))
  PROVE  Flow(v, cs, b, Tail(es), dn)
<1>0. Head(es).kind = "Written" /\ Head(es) = es[1] /\ 1 \in DOMAIN es /\ Head(es).slot \in {"edit", "archive"}
  BY Rest DEF WrittenEvents
<1>1. v.memberRead = u.memberRead /\ u.lifeRequest \in Nat
  BY Fields DEF Calm
<1>2. Changed("Edit", v.edit, v.lifeRequest, cs, Tail(es), dn)
  <2>1. Changed("Edit", u.edit, u.lifeRequest, cs, es, dn)
    BY DEF Flow
  <2>2. CASE Head(es).slot = "archive"
    BY <2>2, OthersApplied DEF IsAnswer
  <2>3. CASE Head(es).slot = "edit" /\ v.edit = u.edit
    <3>1. IsAnswer(Head(es), "Edit")
      BY <1>0, <2>3 DEF IsAnswer
    <3>2. Head(es).request # u.edit.request
      <4>1. SUFFICES ASSUME Head(es).request = u.edit.request PROVE FALSE
        OBVIOUS
      <4>2. Head(es).request \in 1..u.lifeRequest
        BY <1>0, <2>1, <3>1 DEF Changed, InCourse
      <4>3. IsOpen(u.edit)
        BY <1>1, <4>1, <4>2 DEF IsOpen
      <4>4. Head(es).channel = u.edit.channel
        BY <1>0, <2>1, <3>1, <4>1, <4>3 DEF Changed, SameChannel
      <4> QED BY <2>3, <4>1, <4>3, <4>4 DEF Changing
    <3> QED BY <1>1, <2>1, <2>3, <3>2, ChangedApplied
  <2>4. CASE Head(es).slot = "edit" /\ v.edit # u.edit
    <3>1. Changing(u, Head(es)) /\ Answered(u.edit, v.edit)
      BY <2>4
    <3>2. CASE v.edit = NoWrite
      BY <3>2, OthersApplied
    <3>3. CASE v.edit # NoWrite
      BY <1>0, <1>1, <2>1, <2>4, <3>1, <3>3, ChangedKept DEF Changing, Answered, IsAnswer
    <3> QED BY <3>2, <3>3
  <2> QED BY <1>0, <2>2, <2>3, <2>4
<1>3. Changed("SetArchived", v.archive, v.lifeRequest, cs, Tail(es), dn)
  <2>1. Changed("SetArchived", u.archive, u.lifeRequest, cs, es, dn)
    BY DEF Flow
  <2>2. CASE Head(es).slot = "edit"
    BY <2>2, OthersApplied DEF IsAnswer
  <2>3. CASE Head(es).slot = "archive" /\ v.archive = u.archive
    <3>1. IsAnswer(Head(es), "SetArchived")
      BY <1>0, <2>3 DEF IsAnswer
    <3>2. Head(es).request # u.archive.request
      <4>1. SUFFICES ASSUME Head(es).request = u.archive.request PROVE FALSE
        OBVIOUS
      <4>2. Head(es).request \in 1..u.lifeRequest
        BY <1>0, <2>1, <3>1 DEF Changed, InCourse
      <4>3. IsOpen(u.archive)
        BY <1>1, <4>1, <4>2 DEF IsOpen
      <4>4. Head(es).channel = u.archive.channel
        BY <1>0, <2>1, <3>1, <4>1, <4>3 DEF Changed, SameChannel
      <4> QED BY <2>3, <4>1, <4>3, <4>4 DEF Changing
    <3> QED BY <1>1, <2>1, <2>3, <3>2, ChangedApplied
  <2>4. CASE Head(es).slot = "archive" /\ v.archive # u.archive
    <3>1. Changing(u, Head(es)) /\ Answered(u.archive, v.archive)
      BY <2>4
    <3>2. CASE v.archive = NoWrite
      BY <3>2, OthersApplied
    <3>3. CASE v.archive # NoWrite
      BY <1>0, <1>1, <2>1, <2>4, <3>1, <3>3, ChangedKept DEF Changing, Answered, IsAnswer
    <3> QED BY <3>2, <3>3
  <2> QED BY <1>0, <2>2, <2>3, <2>4
<1>4. Creations(v, cs, Tail(es), dn)
  BY <1>0, OthersApplied
<1>6. MemberCourse(v.lifeRequest, cs, b, Tail(es))
  BY <1>1, OthersApplied
<1>7. MemberRecord(v.member, v.lifeRequest, v.memberRead, cs, b, Tail(es), dn)
  BY <1>0, <1>1, OthersApplied
<1>8. PanelReads(v, cs, Tail(es))
  BY <1>0, <1>1, OthersApplied
<1> QED BY <1>2, <1>3, <1>4, <1>6, <1>7, <1>8 DEF Flow

\* The change an answer is about was under way.
LEMMA ChangingUnderWay ==
  ASSUME NEW u \in Uis, NEW cs \in Seq(Commands), NEW es \in Seq(Events), es # <<>>, NEW b, NEW dn,
         Flow(u, cs, b, es, dn), Head(es) \in WrittenEvents
  PROVE  /\ Head(es).request # 0
         /\ Changing(u, Head(es)) =>
              \/ Head(es).slot = "edit" /\ u.edit.state = "creating"
              \/ Head(es).slot = "archive" /\ u.archive.state = "creating"
<1>0. Head(es).kind = "Written" /\ Head(es) = es[1] /\ 1 \in DOMAIN es /\ Head(es).slot \in {"edit", "archive"}
        /\ u.lifeRequest \in Nat
  BY Rest, Fields DEF WrittenEvents
<1>1. CASE Head(es).slot = "edit"
  <2>1. IsAnswer(Head(es), "Edit") /\ Changed("Edit", u.edit, u.lifeRequest, cs, es, dn)
    BY <1>0, <1>1 DEF IsAnswer, Flow
  <2>2. Head(es).request \in 1..u.lifeRequest
    BY <1>0, <2>1 DEF Changed, InCourse
  <2>3. Changing(u, Head(es)) => IsOpen(u.edit) /\ UnderWay("Edit", u.edit.request, cs, es)
    BY <1>0, <1>1, <2>1 DEF Changing, UnderWay
  <2> QED BY <1>0, <1>1, <2>1, <2>2, <2>3 DEF Changed, Recorded
<1>2. CASE Head(es).slot = "archive"
  <2>1. IsAnswer(Head(es), "SetArchived") /\ Changed("SetArchived", u.archive, u.lifeRequest, cs, es, dn)
    BY <1>0, <1>2 DEF IsAnswer, Flow
  <2>2. Head(es).request \in 1..u.lifeRequest
    BY <1>0, <2>1 DEF Changed, InCourse
  <2>3. Changing(u, Head(es)) => IsOpen(u.archive) /\ UnderWay("SetArchived", u.archive.request, cs, es)
    BY <1>0, <1>2, <2>1 DEF Changing, UnderWay
  <2> QED BY <1>0, <1>2, <2>1, <2>2, <2>3 DEF Changed, Recorded
<1> QED BY <1>0, <1>1, <1>2

LEMMA FlowChangeAnswered ==
  ASSUME NEW u \in Uis, u.out = <<>>, NEW cs \in Seq(Commands), NEW es \in Seq(Events), es # <<>>, NEW b, NEW dn,
         Flow(u, cs, b, es, dn), Head(es) \in WrittenEvents
  PROVE  LET v == ApplyChannelWrite(u, Head(es)) IN v \in Uis /\ Flow(v, cs \o v.out, b, Tail(es), dn)
<1> DEFINE v == ApplyChannelWrite(u, Head(es))
<1>1. Head(es).request # 0
  BY ChangingUnderWay
<1>2. Tail(es) \in Seq(Events) /\ Head(es).slot \in {"edit", "archive"}
  BY Rest DEF WrittenEvents
<1>3. CASE v = u /\ ~Changing(u, Head(es))
  <2>1. Calm(u, u)
    BY DEF Calm, CalmForm
  <2>2. Flow(u, cs, b, Tail(es), dn)
    BY <1>3, <2>1, FlowWritten
  <2>3. Only(u.out, {"LoadChannels"}) /\ u.out \in Seq(Commands)
    BY DEF Only
  <2> QED BY <1>2, <1>3, <2>2, <2>3, FlowJoined
<1>4. CASE ChangeAnswered(u, Head(es), v) /\ Changing(u, Head(es))
  <2> HIDE DEF v
  <2>1. /\ v \in Uis /\ Calm(u, v) /\ Only(v.out, {"LoadChannels"})
        /\ v.create = u.create /\ v.member = u.member
        /\ v.createRequest = u.createRequest /\ v.lifeRequest = u.lifeRequest
    BY <1>4 DEF ChangeAnswered
  <2>2. \/ /\ Head(es).slot = "edit" /\ v.archive = u.archive /\ Answered(u.edit, v.edit)
           /\ u.edit.state = "creating" /\ IsOpen(u.edit)
        \/ /\ Head(es).slot = "archive" /\ v.edit = u.edit /\ Answered(u.archive, v.archive)
           /\ u.archive.state = "creating" /\ IsOpen(u.archive)
    BY <1>4, ChangingUnderWay DEF ChangeAnswered, Changing
  <2>3. \/ /\ Head(es).slot = "edit" /\ v.archive = u.archive /\ Answered(u.edit, v.edit) /\ v.edit # u.edit
        \/ /\ Head(es).slot = "archive" /\ v.edit = u.edit /\ Answered(u.archive, v.archive) /\ v.archive # u.archive
    BY <2>2 DEF Answered, IsOpen, NoWrite
  <2>4. Flow(v, cs, b, Tail(es), dn)
    BY <1>4, <2>1, <2>3, FlowWritten
  <2>5. v.out \in Seq(Commands)
    BY <2>1, Fields
  <2> QED BY <1>2, <2>1, <2>4, <2>5, FlowJoined DEF v
<1> QED BY <1>1, <1>3, <1>4, ApplyWrittenSteps

LEMMA FlowMembersRead ==
  ASSUME NEW u \in Uis, NEW v, NEW cs \in Seq(Commands), NEW es \in Seq(Events), es # <<>>, NEW b, NEW dn,
         Flow(u, cs, b, es, dn), Head(es) \in MembersEvents, MembersRead(u, Head(es), v)
  PROVE  Flow(v, cs, b, Tail(es), dn)
<1>0. Head(es).kind = "Members"
  BY DEF MembersEvents
<1>1. /\ v \in Uis /\ Calm(u, v) /\ v.createRequest = u.createRequest /\ v.lifeRequest = u.lifeRequest
      /\ v.memberRead = u.memberRead /\ v.edit = u.edit /\ v.archive = u.archive /\ v.create = u.create
      /\ v.member \in {u.member, NoWrite}
  BY DEF MembersRead, Calm
<1>2. ~IsAnswer(Head(es), "Edit") /\ ~IsAnswer(Head(es), "SetArchived")
  BY <1>0, NoAnswer
<1>3. Creations(v, cs, Tail(es), dn)
  BY <1>0, <1>1, OthersApplied
<1>4. Changed("Edit", v.edit, v.lifeRequest, cs, Tail(es), dn)
  BY <1>1, <1>2, OthersApplied
<1>5. Changed("SetArchived", v.archive, v.lifeRequest, cs, Tail(es), dn)
  BY <1>1, <1>2, OthersApplied
<1>6. MemberCourse(v.lifeRequest, cs, b, Tail(es))
  BY <1>1, OthersApplied
<1>7. MemberRecord(v.member, v.lifeRequest, v.memberRead, cs, b, Tail(es), dn)
  BY <1>0, <1>1, OthersApplied
<1>8. PanelReads(v, cs, Tail(es))
  BY <1>0, <1>1, PanelApplied DEF Flow, MembersRead
<1> QED BY <1>3, <1>4, <1>5, <1>6, <1>7, <1>8 DEF Flow

LEMMA FlowCandidatesRead ==
  ASSUME NEW u \in Uis, NEW v, NEW cs \in Seq(Commands), NEW es \in Seq(Events), es # <<>>, NEW b, NEW dn,
         Flow(u, cs, b, es, dn), Head(es) \in CandidatesEvents, CandidatesRead(u, Head(es), v)
  PROVE  Flow(v, cs, b, Tail(es), dn)
<1>0. Head(es).kind = "Candidates"
  BY DEF CandidatesEvents
<1>1. /\ v \in Uis /\ Calm(u, v) /\ v.createRequest = u.createRequest /\ v.lifeRequest = u.lifeRequest
      /\ v.memberRead = u.memberRead /\ v.edit = u.edit /\ v.archive = u.archive /\ v.create = u.create
      /\ v.member = u.member
  BY DEF CandidatesRead, Calm, Kept
<1>2. ~IsAnswer(Head(es), "Edit") /\ ~IsAnswer(Head(es), "SetArchived")
  BY <1>0, NoAnswer
<1>3. Creations(v, cs, Tail(es), dn)
  BY <1>0, <1>1, OthersApplied
<1>4. Changed("Edit", v.edit, v.lifeRequest, cs, Tail(es), dn)
  BY <1>1, <1>2, OthersApplied
<1>5. Changed("SetArchived", v.archive, v.lifeRequest, cs, Tail(es), dn)
  BY <1>1, <1>2, OthersApplied
<1>6. MemberCourse(v.lifeRequest, cs, b, Tail(es))
  BY <1>1, OthersApplied
<1>7. MemberRecord(v.member, v.lifeRequest, v.memberRead, cs, b, Tail(es), dn)
  BY <1>0, <1>1, OthersApplied
<1>8. PanelReads(v, cs, Tail(es))
  BY <1>0, <1>1, PanelApplied DEF Flow, CandidatesRead
<1> QED BY <1>3, <1>4, <1>5, <1>6, <1>7, <1>8 DEF Flow

LEMMA FlowChannelWent ==
  ASSUME NEW u \in Uis, NEW v, NEW cs \in Seq(Commands), NEW es \in Seq(Events), es # <<>>, NEW b, NEW dn,
         Flow(u, cs, b, es, dn), Head(es).kind \in {"Gone", "Status"}, ChannelWent(u, v)
  PROVE  Flow(v, cs, b, Tail(es), dn)
<1>1. /\ v \in Uis /\ Calm(u, v) /\ v.createRequest = u.createRequest /\ v.lifeRequest = u.lifeRequest
      /\ v.memberRead = u.memberRead /\ v.edit = u.edit /\ v.archive = u.archive /\ v.create = u.create
      /\ v.member \in {u.member, NoWrite}
  BY DEF ChannelWent, Calm
<1>2. ~IsAnswer(Head(es), "Edit") /\ ~IsAnswer(Head(es), "SetArchived")
  BY NoAnswer
<1>3. Creations(v, cs, Tail(es), dn)
  BY <1>1, OthersApplied
<1>4. Changed("Edit", v.edit, v.lifeRequest, cs, Tail(es), dn)
  BY <1>1, <1>2, OthersApplied
<1>5. Changed("SetArchived", v.archive, v.lifeRequest, cs, Tail(es), dn)
  BY <1>1, <1>2, OthersApplied
<1>6. MemberCourse(v.lifeRequest, cs, b, Tail(es))
  BY <1>1, OthersApplied
<1>7. MemberRecord(v.member, v.lifeRequest, v.memberRead, cs, b, Tail(es), dn)
  BY <1>1, OthersApplied
<1>8. PanelReads(v, cs, Tail(es))
  BY <1>1, OthersApplied
<1> QED BY <1>3, <1>4, <1>5, <1>6, <1>7, <1>8 DEF Flow

LEMMA FlowMemberWrite ==
  ASSUME NEW u \in Uis, u.out = <<>>, NEW cs \in Seq(Commands), NEW es \in Seq(Events), es # <<>>, NEW b, NEW dn,
         Flow(u, cs, b, es, dn), Head(es) \in MemberWriteEvents
  PROVE  LET v == ApplyMemberWrite(u, Head(es)) IN
         /\ v \in Uis /\ Flow(v, cs \o v.out, b, Tail(es), dn)
         /\ v.create = u.create /\ v.edit = u.edit /\ v.archive = u.archive /\ v.told = u.told
         /\ v.createRequest = u.createRequest /\ v.lifeRequest = u.lifeRequest
         /\ DOMAIN u.member.results = DOMAIN u.member.expected => v.member = u.member
<1> DEFINE v == ApplyMemberWrite(u, Head(es))
           e == Head(es)
<1>0. Head(es).kind = "MemberWrite" /\ Tail(es) \in Seq(Events) /\ u.lifeRequest \in Nat /\ u.memberRead \in Nat
        /\ Head(es) = es[1] /\ 1 \in DOMAIN es
  BY Rest, Fields DEF MemberWriteEvents
<1>1. ~IsAnswer(Head(es), "Edit") /\ ~IsAnswer(Head(es), "SetArchived")
  BY <1>0, NoAnswer
<1>m. /\ MemberCourse(u.lifeRequest, cs, b, es)
      /\ MemberRecord(u.member, u.lifeRequest, u.memberRead, cs, b, es, dn)
  BY DEF Flow
<1>2. CASE ~(Matching(u, e) /\ Expected(u.member, e.who))
  <2>1. v = u
    BY <1>2, ApplyMemberWriteNothing
  <2>2. Calm(u, u)
    BY DEF Calm, CalmForm
  <2>3. /\ Creations(u, cs, Tail(es), dn)
        /\ Changed("Edit", u.edit, u.lifeRequest, cs, Tail(es), dn)
        /\ Changed("SetArchived", u.archive, u.lifeRequest, cs, Tail(es), dn)
        /\ MemberCourse(u.lifeRequest, cs, b, Tail(es))
        /\ PanelReads(u, cs, Tail(es))
    BY <1>0, <1>1, <2>2, OthersApplied
  <2>4. MemberRecord(u.member, u.lifeRequest, u.memberRead, cs, b, Tail(es), dn)
    <3>1. CASE Expected(u.member, e.who)
      <4>1. ~Matching(u, e)
        BY <1>2, <3>1
      <4>2. e.request \in 1..u.lifeRequest
        BY <1>0, <1>m DEF MemberCourse
      <4>3. SUFFICES ASSUME e.request = u.member.request PROVE FALSE
        BY <1>0, <1>m, <4>2, MembersApplied
      <4>4. IsOpen(u.member)
        BY <1>0, <4>2, <4>3 DEF IsOpen
      <4>5. e.channel = u.member.channel
        BY <1>0, <1>m, <4>3, <4>4 DEF MemberRecord
      <4> QED BY <4>1, <4>3, <4>4, <4>5 DEF Matching, Holds
    <3>2. CASE ~Expected(u.member, e.who)
      BY <1>0, <1>m, <3>2, MembersPassed
    <3> QED BY <3>1, <3>2
  <2>5. Flow(u, cs, b, Tail(es), dn)
    BY <2>3, <2>4 DEF Flow
  <2>6. Only(u.out, {"LoadChannels"}) /\ u.out \in Seq(Commands)
    BY DEF Only
  <2>7. Flow(u, cs \o u.out, b, Tail(es), dn)
    BY <1>0, <2>5, <2>6, FlowJoined
  <2> HIDE DEF v
  <2> QED BY <2>1, <2>7 DEF v
<1>3. CASE Matching(u, e) /\ Expected(u.member, e.who)
  <2>1. ResultTaken(u, e, v)
    BY <1>3, ApplyMemberWriteSteps
  <2>2. IsOpen(u.member) /\ u.member.channel = e.channel /\ u.member.request = e.request
          /\ DOMAIN u.member.results # DOMAIN u.member.expected
    BY <1>3 DEF Matching, Holds, Expected
  <2> HIDE DEF v
  <2>3. /\ v \in Uis /\ v.create = u.create /\ v.edit = u.edit /\ v.archive = u.archive /\ v.told = u.told
        /\ v.createRequest = u.createRequest /\ v.lifeRequest = u.lifeRequest
        /\ v.out \in Seq(Commands) /\ v.memberRead \in Nat
    BY <2>1, Fields DEF ResultTaken
  <2>4. /\ Creations(v, cs, Tail(es), dn)
        /\ Changed("Edit", v.edit, v.lifeRequest, cs, Tail(es), dn)
        /\ Changed("SetArchived", v.archive, v.lifeRequest, cs, Tail(es), dn)
        /\ MemberCourse(v.lifeRequest, cs, b, Tail(es))
    BY <1>0, <1>1, <2>3, OthersApplied
  <2>5. u.memberRead <= v.memberRead
    BY <1>0, <2>1 DEF ResultTaken, AsksAgain, Calm
  <2>6. MemberRecord(v.member, v.lifeRequest, v.memberRead, cs, b, Tail(es), dn)
    <3>1. CASE v.member = NoWrite
      BY <3>1 DEF MemberRecord, IsOpen, NoWrite
    <3>2. CASE v.member # NoWrite
      <4>1. /\ v.member.request = u.member.request /\ v.member.channel = u.member.channel
            /\ v.member.expected = u.member.expected
            /\ DOMAIN v.member.results = DOMAIN u.member.results \cup {e.who}
            /\ v.member.readAfter \in {u.member.readAfter, u.memberRead}
            /\ DOMAIN v.member.results = DOMAIN v.member.expected => v.member.readAfter = u.memberRead
        BY <2>1, <3>2 DEF ResultTaken, ResultKept
      <4>2. u.member.readAfter \in Nat
        BY <2>2, Slots
      <4>3. \A i \in DOMAIN es : es[i].kind = "Members" => es[i].request <= u.memberRead /\ es[i].request \in Nat
        BY RequestsNat DEF Flow, PanelReads, Reading
      <4>4. MemberRecord(v.member, u.lifeRequest, v.memberRead, cs, b, Tail(es), dn)
        BY <1>0, <1>m, <2>2, <2>3, <2>5, <4>1, <4>2, <4>3, MembersResult
      <4> QED BY <2>3, <4>4
    <3> QED BY <3>1, <3>2
  <2>7. Flow(v, cs \o v.out, b, Tail(es), dn)
    <3>1. CASE Calm(u, v) /\ Only(v.out, {"LoadChannels"})
      <4>1. PanelReads(v, cs, Tail(es))
        BY <1>0, <2>3, <3>1, OthersApplied
      <4>2. Flow(v, cs, b, Tail(es), dn)
        BY <2>4, <2>6, <4>1 DEF Flow
      <4> QED BY <1>0, <2>3, <3>1, <4>2, FlowJoined
    <3>2. CASE AsksAgain(u, v)
      <4>1. Calm(u, u)
        BY DEF Calm, CalmForm
      <4>2. PanelReads(u, cs, Tail(es))
        BY <1>0, <4>1, OthersApplied
      <4>3. PanelReads(v, cs \o v.out, Tail(es))
        BY <1>0, <3>2, <4>2, PanelAsks
      <4>4. /\ Quiet(v.out, "Create") /\ Quiet(v.out, "Edit") /\ Quiet(v.out, "SetArchived") /\ NoMembers(v.out)
        <5>1. PICK c \in Commands : c.kind = "LoadMembers" /\ v.out \in Askings(c)
          BY <3>2 DEF AsksAgain
        <5>2. v.out = <<c>> \/ v.out = Append(<<c>>, [kind |-> "LoadChannels"])
          BY <5>1 DEF Askings
        <5>3. [kind |-> "LoadChannels"] \in Commands
          BY DEF Commands
        <5>4. \A i \in DOMAIN v.out : v.out[i] = c \/ v.out[i] = [kind |-> "LoadChannels"]
          <6> DEFINE a == [kind |-> "LoadChannels"]
          <6> HIDE DEF a
          <6>1. <<c>> \in Seq(Commands) /\ \A i \in DOMAIN <<c>> : <<c>>[i] = c
            OBVIOUS
          <6>2. \A i \in DOMAIN Append(<<c>>, a) : Append(<<c>>, a)[i] = c \/ Append(<<c>>, a)[i] = a
            BY <5>3, <6>1, Added DEF a
          <6> QED BY <5>2, <6>1, <6>2 DEF a
        <5> QED BY <5>1, <5>4 DEF Quiet, IsWrite, NoMembers, MemberKinds
      <4>0. v.createRequest \in Nat /\ v.lifeRequest \in Nat /\ v.lifeRequest <= v.lifeRequest
              /\ v.memberRead <= v.memberRead
        BY <2>3, Fields
      <4>5. Creations(v, cs \o v.out, Tail(es), dn)
        BY <1>0, <2>3, <2>4, <4>0, <4>4, CreationsJoined
      <4>6. Changed("Edit", v.edit, v.lifeRequest, cs \o v.out, Tail(es), dn)
        BY <1>0, <2>3, <2>4, <4>0, <4>4, ChangedJoined
      <4>7. Changed("SetArchived", v.archive, v.lifeRequest, cs \o v.out, Tail(es), dn)
        BY <1>0, <2>3, <2>4, <4>0, <4>4, ChangedJoined
      <4>8. IsOpen(v.member) => v.member.readAfter \in Nat
        BY <2>3, Slots
      <4>9. /\ MemberCourse(v.lifeRequest, cs \o v.out, b, Tail(es))
            /\ MemberRecord(v.member, v.lifeRequest, v.memberRead, cs \o v.out, b, Tail(es), dn)
        BY <1>0, <2>3, <2>4, <2>6, <4>0, <4>4, <4>8, MembersJoined
      <4> QED BY <4>3, <4>5, <4>6, <4>7, <4>9 DEF Flow
    <3> QED BY <2>1, <3>1, <3>2 DEF ResultTaken
  <2> QED BY <2>2, <2>3, <2>7 DEF v
<1> QED BY <1>2, <1>3
-----------------------------------------------------------------------------
(* The command pump takes a command and answers.                            *)

LEMMA PanelTaken ==
  ASSUME NEW u, NEW cs \in Seq(Commands), cs # <<>>, NEW es, PanelReads(u, cs, es),
         Head(cs).kind # "LoadMembers", Head(cs).kind # "MemberCandidates"
  PROVE  PanelReads(u, Tail(cs), es)
<1> DEFINE on(x) == Showing(x, "members")
<1>1. /\ Reading("LoadMembers", "Members", u.memberRead, u.form.channel, on(u), on(u) /\ u.form.loading, cs, es)
      /\ Reading("MemberCandidates", "Candidates", u.memberSearch, u.form.channel,
             on(u) /\ u.form.picker.loading, on(u) /\ u.form.picker.loading, cs, es)
  BY DEF PanelReads
<1> HIDE DEF on
<1>2. Reading("LoadMembers", "Members", u.memberRead, u.form.channel, on(u), on(u) /\ u.form.loading, Tail(cs), es)
  BY <1>1, ReadingTaken
<1>3. Reading("MemberCandidates", "Candidates", u.memberSearch, u.form.channel,
             on(u) /\ u.form.picker.loading, on(u) /\ u.form.picker.loading, Tail(cs), es)
  BY <1>1, ReadingTaken
<1> QED BY <1>2, <1>3 DEF PanelReads, on

LEMMA PanelEvent ==
  ASSUME NEW u, NEW cs, NEW es \in Seq(Events), NEW e \in Events, PanelReads(u, cs, es),
         e.kind # "Members", e.kind # "Candidates"
  PROVE  PanelReads(u, cs, Append(es, e))
<1> DEFINE on(x) == Showing(x, "members")
<1>1. /\ Reading("LoadMembers", "Members", u.memberRead, u.form.channel, on(u), on(u) /\ u.form.loading, cs, es)
      /\ Reading("MemberCandidates", "Candidates", u.memberSearch, u.form.channel,
             on(u) /\ u.form.picker.loading, on(u) /\ u.form.picker.loading, cs, es)
  BY DEF PanelReads
<1> HIDE DEF on
<1>2. Reading("LoadMembers", "Members", u.memberRead, u.form.channel, on(u), on(u) /\ u.form.loading, cs, Append(es, e))
  BY <1>1, ReadingEvent
<1>3. Reading("MemberCandidates", "Candidates", u.memberSearch, u.form.channel,
             on(u) /\ u.form.picker.loading, on(u) /\ u.form.picker.loading, cs, Append(es, e))
  BY <1>1, ReadingEvent
<1> QED BY <1>2, <1>3 DEF PanelReads, on

LEMMA PanelAnswered ==
  ASSUME NEW u, NEW cs \in Seq(Commands), cs # <<>>, NEW es \in Seq(Events), NEW e \in Events, PanelReads(u, cs, es),
         \/ Head(cs).kind = "LoadMembers" /\ e.kind = "Members"
         \/ Head(cs).kind = "MemberCandidates" /\ e.kind = "Candidates",
         e.request = Head(cs).request, e.channel = Head(cs).channel
  PROVE  PanelReads(u, Tail(cs), Append(es, e))
<1> DEFINE on(x) == Showing(x, "members")
<1>1. /\ Reading("LoadMembers", "Members", u.memberRead, u.form.channel, on(u), on(u) /\ u.form.loading, cs, es)
      /\ Reading("MemberCandidates", "Candidates", u.memberSearch, u.form.channel,
             on(u) /\ u.form.picker.loading, on(u) /\ u.form.picker.loading, cs, es)
  BY DEF PanelReads
<1> HIDE DEF on
<1>0. Tail(cs) \in Seq(Commands)
  BY Rest
<1>2. Reading("LoadMembers", "Members", u.memberRead, u.form.channel, on(u), on(u) /\ u.form.loading,
              Tail(cs), Append(es, e))
  <2>1. CASE Head(cs).kind = "LoadMembers" /\ e.kind = "Members"
    BY <1>1, <2>1, ReadingAnswered
  <2>2. CASE Head(cs).kind = "MemberCandidates" /\ e.kind = "Candidates"
    <3>1. Reading("LoadMembers", "Members", u.memberRead, u.form.channel, on(u), on(u) /\ u.form.loading, Tail(cs), es)
      BY <1>1, <2>2, ReadingTaken
    <3> QED BY <1>0, <2>2, <3>1, ReadingEvent
  <2> QED BY <2>1, <2>2
<1>3. Reading("MemberCandidates", "Candidates", u.memberSearch, u.form.channel,
             on(u) /\ u.form.picker.loading, on(u) /\ u.form.picker.loading, Tail(cs), Append(es, e))
  <2>1. CASE Head(cs).kind = "LoadMembers" /\ e.kind = "Members"
    <3>1. Reading("MemberCandidates", "Candidates", u.memberSearch, u.form.channel,
             on(u) /\ u.form.picker.loading, on(u) /\ u.form.picker.loading, Tail(cs), es)
      BY <1>1, <2>1, ReadingTaken
    <3> QED BY <1>0, <2>1, <3>1, ReadingEvent
  <2>2. CASE Head(cs).kind = "MemberCandidates" /\ e.kind = "Candidates"
    BY <1>1, <2>2, ReadingAnswered
  <2> QED BY <2>1, <2>2
<1> QED BY <1>2, <1>3 DEF PanelReads, on

\* What an answer of another kind leaves alone.
LEMMA OthersEvent ==
  ASSUME NEW u \in Uis, NEW cs \in Seq(Commands), NEW es \in Seq(Events), NEW e \in Events,
         NEW b \in {NoWrite} \cup AddCommands, NEW dn, NEW dn2, dn \subseteq dn2, Fresh(e, dn), FreshRead(e, dn)
  PROVE  /\ e.kind # "Created" /\ Creations(u, cs, es, dn) => Creations(u, cs, Append(es, e), dn2)
         /\ ~IsAnswer(e, "Edit") /\ Changed("Edit", u.edit, u.lifeRequest, cs, es, dn) =>
              Changed("Edit", u.edit, u.lifeRequest, cs, Append(es, e), dn2)
         /\ ~IsAnswer(e, "SetArchived") /\ Changed("SetArchived", u.archive, u.lifeRequest, cs, es, dn) =>
              Changed("SetArchived", u.archive, u.lifeRequest, cs, Append(es, e), dn2)
         /\ /\ e.kind # "MemberWrite" /\ MemberCourse(u.lifeRequest, cs, b, es)
            /\ MemberRecord(u.member, u.lifeRequest, u.memberRead, cs, b, es, dn)
            => /\ MemberCourse(u.lifeRequest, cs, b, Append(es, e))
               /\ MemberRecord(u.member, u.lifeRequest, u.memberRead, cs, b, Append(es, e), dn2)
         /\ e.kind # "Members" /\ e.kind # "Candidates" /\ PanelReads(u, cs, es) => PanelReads(u, cs, Append(es, e))
<1>1. u.createRequest \in Nat /\ u.lifeRequest \in Nat /\ u.memberRead \in Nat
  BY Fields
<1>2. ASSUME e.kind # "Created", Creations(u, cs, es, dn) PROVE Creations(u, cs, Append(es, e), dn2)
  <2>1. Creations(u, cs, Append(es, e), dn)
    BY <1>1, <1>2, CreationsEvent
  <2> QED BY <2>1, CreationsDone
<1>3. ASSUME NEW k, NEW w, ~IsAnswer(e, k), Changed(k, w, u.lifeRequest, cs, es, dn)
      PROVE  Changed(k, w, u.lifeRequest, cs, Append(es, e), dn2)
  <2>1. Changed(k, w, u.lifeRequest, cs, Append(es, e), dn)
    BY <1>1, <1>3, ChangedEvent
  <2> QED BY <2>1, ChangedDone
<1>4. ASSUME e.kind # "MemberWrite", MemberCourse(u.lifeRequest, cs, b, es),
             MemberRecord(u.member, u.lifeRequest, u.memberRead, cs, b, es, dn)
      PROVE  /\ MemberCourse(u.lifeRequest, cs, b, Append(es, e))
             /\ MemberRecord(u.member, u.lifeRequest, u.memberRead, cs, b, Append(es, e), dn2)
  <2>1. /\ MemberCourse(u.lifeRequest, cs, b, Append(es, e))
        /\ MemberRecord(u.member, u.lifeRequest, u.memberRead, cs, b, Append(es, e), dn)
    BY <1>1, <1>4, MembersEvent
  <2> QED BY <2>1, MembersDone
<1>5. e.kind # "Members" /\ e.kind # "Candidates" /\ PanelReads(u, cs, es) => PanelReads(u, cs, Append(es, e))
  BY PanelEvent
<1> QED BY <1>2, <1>3, <1>4, <1>5

\* What the command taken leaves alone.
LEMMA OthersTaken ==
  ASSUME NEW u \in Uis, NEW cs \in Seq(Commands), cs # <<>>, NEW es \in Seq(Events), NEW b, NEW dn,
         Flow(u, cs, b, es, dn)
  PROVE  /\ Head(cs).kind # "Create" => Creations(u, Tail(cs), es, dn)
         /\ Head(cs).kind # "Edit" => Changed("Edit", u.edit, u.lifeRequest, Tail(cs), es, dn)
         /\ Head(cs).kind # "SetArchived" => Changed("SetArchived", u.archive, u.lifeRequest, Tail(cs), es, dn)
         /\ Head(cs).kind \notin MemberKinds =>
              /\ MemberCourse(u.lifeRequest, Tail(cs), b, es)
              /\ MemberRecord(u.member, u.lifeRequest, u.memberRead, Tail(cs), b, es, dn)
         /\ Head(cs).kind # "LoadMembers" /\ Head(cs).kind # "MemberCandidates" => PanelReads(u, Tail(cs), es)
<1>1. u.createRequest \in Nat /\ u.lifeRequest \in Nat /\ u.memberRead \in Nat
  BY Fields
<1>2. Head(cs).kind # "Create" => Creations(u, Tail(cs), es, dn)
  BY <1>1, CreationsTaken DEF Flow
<1>3. Head(cs).kind # "Edit" => Changed("Edit", u.edit, u.lifeRequest, Tail(cs), es, dn)
  BY <1>1, ChangedTaken DEF Flow, IsWrite
<1>4. Head(cs).kind # "SetArchived" => Changed("SetArchived", u.archive, u.lifeRequest, Tail(cs), es, dn)
  BY <1>1, ChangedTaken DEF Flow, IsWrite
<1>5. Head(cs).kind \notin MemberKinds =>
              /\ MemberCourse(u.lifeRequest, Tail(cs), b, es)
              /\ MemberRecord(u.member, u.lifeRequest, u.memberRead, Tail(cs), b, es, dn)
  BY <1>1, MembersTaken DEF Flow
<1>6. Head(cs).kind # "LoadMembers" /\ Head(cs).kind # "MemberCandidates" => PanelReads(u, Tail(cs), es)
  BY PanelTaken DEF Flow
<1> QED BY <1>2, <1>3, <1>4, <1>5, <1>6

LEMMA FlowRosterLoaded ==
  ASSUME NEW u \in Uis, NEW cs \in Seq(Commands), cs # <<>>, NEW es \in Seq(Events), NEW e \in Events,
         NEW b \in {NoWrite} \cup AddCommands, NEW dn, Flow(u, cs, b, es, dn),
         Head(cs).kind = "LoadChannels", e.kind \in {"Channels", "Status"}, Fresh(e, dn)
  PROVE  Flow(u, Tail(cs), b, Append(es, e), dn)
<1>1. Head(cs).kind \notin MemberKinds /\ ~IsAnswer(e, "Edit") /\ ~IsAnswer(e, "SetArchived") /\ FreshRead(e, dn)
  BY NoAnswer DEF MemberKinds, FreshRead
<1>2. Tail(cs) \in Seq(Commands)
  BY Rest
<1>3. Flow(u, Tail(cs), b, es, dn)
  BY <1>1, OthersTaken DEF Flow
<1> QED BY <1>1, <1>2, <1>3, OthersEvent DEF Flow

LEMMA FlowPanelLoaded ==
  ASSUME NEW u \in Uis, NEW cs \in Seq(Commands), cs # <<>>, NEW es \in Seq(Events), NEW e \in Events,
         NEW b \in {NoWrite} \cup AddCommands, NEW dn, Flow(u, cs, b, es, dn),
         \/ Head(cs).kind = "LoadMembers" /\ e.kind = "Members"
         \/ Head(cs).kind = "MemberCandidates" /\ e.kind = "Candidates",
         e.request = Head(cs).request, e.channel = Head(cs).channel, FreshRead(e, dn)
  PROVE  Flow(u, Tail(cs), b, Append(es, e), dn)
<1>1. Head(cs).kind \notin MemberKinds /\ ~IsAnswer(e, "Edit") /\ ~IsAnswer(e, "SetArchived") /\ Fresh(e, dn)
  BY NoAnswer DEF MemberKinds, Fresh
<1>2. Tail(cs) \in Seq(Commands)
  BY Rest
<1>3. PanelReads(u, Tail(cs), Append(es, e))
  BY PanelAnswered DEF Flow
<1>4. /\ Creations(u, Tail(cs), es, dn)
      /\ Changed("Edit", u.edit, u.lifeRequest, Tail(cs), es, dn)
      /\ Changed("SetArchived", u.archive, u.lifeRequest, Tail(cs), es, dn)
      /\ MemberCourse(u.lifeRequest, Tail(cs), b, es)
      /\ MemberRecord(u.member, u.lifeRequest, u.memberRead, Tail(cs), b, es, dn)
  BY <1>1, OthersTaken
<1> QED BY <1>1, <1>2, <1>3, <1>4, OthersEvent DEF Flow

LEMMA FlowCreated ==
  ASSUME NEW u \in Uis, NEW cs \in Seq(Commands), cs # <<>>, NEW es \in Seq(Events), NEW e \in Events,
         NEW b \in {NoWrite} \cup AddCommands, NEW dn, Flow(u, cs, b, es, dn),
         Head(cs).kind = "Create", e.kind = "Created", e.request = Head(cs).request
  PROVE  Flow(u, Tail(cs), b, Append(es, e), dn \cup {<<"create", e.request>>})
<1>1. /\ Head(cs).kind \notin MemberKinds /\ ~IsAnswer(e, "Edit") /\ ~IsAnswer(e, "SetArchived")
      /\ Fresh(e, dn) /\ FreshRead(e, dn)
  BY NoAnswer DEF MemberKinds, Fresh, FreshRead
<1>2. Tail(cs) \in Seq(Commands) /\ dn \subseteq dn \cup {<<"create", e.request>>}
  BY Rest
<1>3. Creations(u, Tail(cs), Append(es, e), dn \cup {<<"create", e.request>>})
  BY Fields, CreationsAnswered DEF Flow
<1>4. /\ PanelReads(u, Tail(cs), es)
      /\ Changed("Edit", u.edit, u.lifeRequest, Tail(cs), es, dn)
      /\ Changed("SetArchived", u.archive, u.lifeRequest, Tail(cs), es, dn)
      /\ MemberCourse(u.lifeRequest, Tail(cs), b, es)
      /\ MemberRecord(u.member, u.lifeRequest, u.memberRead, Tail(cs), b, es, dn)
  BY <1>1, OthersTaken
<1> QED BY <1>1, <1>2, <1>3, <1>4, OthersEvent DEF Flow

LEMMA FlowEdited ==
  ASSUME NEW u \in Uis, NEW cs \in Seq(Commands), cs # <<>>, NEW es \in Seq(Events), NEW e \in Events,
         NEW b \in {NoWrite} \cup AddCommands, NEW dn, Flow(u, cs, b, es, dn),
         Head(cs).kind = "Edit", e.kind = "Written", e.slot = "edit",
         e.request = Head(cs).request, e.channel = Head(cs).channel
  PROVE  Flow(u, Tail(cs), b, Append(es, e), dn \cup {<<"life", e.request>>})
<1>1. /\ Head(cs).kind \notin MemberKinds /\ IsAnswer(e, "Edit") /\ ~IsAnswer(e, "SetArchived")
      /\ Fresh(e, dn) /\ FreshRead(e, dn) /\ IsWrite(Head(cs), "Edit")
      /\ TagOf("Edit", e.request) = <<"life", e.request>>
  BY DEF MemberKinds, Fresh, FreshRead, IsAnswer, IsWrite, TagOf
<1>2. Tail(cs) \in Seq(Commands) /\ dn \subseteq dn \cup {<<"life", e.request>>}
  BY Rest
<1>3. Changed("Edit", u.edit, u.lifeRequest, Tail(cs), Append(es, e), dn \cup {<<"life", e.request>>})
  <2>1. Changed("Edit", u.edit, u.lifeRequest, Tail(cs), Append(es, e), dn \cup {TagOf("Edit", e.request)})
    BY <1>1, Fields, ChangedAnswered DEF Flow
  <2> QED BY <1>1, <2>1
<1>4. /\ PanelReads(u, Tail(cs), es)
      /\ Creations(u, Tail(cs), es, dn)
      /\ Changed("SetArchived", u.archive, u.lifeRequest, Tail(cs), es, dn)
      /\ MemberCourse(u.lifeRequest, Tail(cs), b, es)
      /\ MemberRecord(u.member, u.lifeRequest, u.memberRead, Tail(cs), b, es, dn)
  BY <1>1, OthersTaken
<1> QED BY <1>1, <1>2, <1>3, <1>4, OthersEvent DEF Flow

LEMMA FlowArchived ==
  ASSUME NEW u \in Uis, NEW cs \in Seq(Commands), cs # <<>>, NEW es \in Seq(Events), NEW e \in Events,
         NEW b \in {NoWrite} \cup AddCommands, NEW dn, Flow(u, cs, b, es, dn),
         Head(cs).kind = "SetArchived", e.kind = "Written", e.slot = "archive",
         e.request = Head(cs).request, e.channel = Head(cs).channel
  PROVE  Flow(u, Tail(cs), b, Append(es, e), dn \cup {<<"life", e.request>>})
<1>1. /\ Head(cs).kind \notin MemberKinds /\ IsAnswer(e, "SetArchived") /\ ~IsAnswer(e, "Edit")
      /\ Fresh(e, dn) /\ FreshRead(e, dn) /\ IsWrite(Head(cs), "SetArchived")
      /\ TagOf("SetArchived", e.request) = <<"life", e.request>>
  BY DEF MemberKinds, Fresh, FreshRead, IsAnswer, IsWrite, TagOf
<1>2. Tail(cs) \in Seq(Commands) /\ dn \subseteq dn \cup {<<"life", e.request>>}
  BY Rest
<1>3. Changed("SetArchived", u.archive, u.lifeRequest, Tail(cs), Append(es, e), dn \cup {<<"life", e.request>>})
  <2>1. Changed("SetArchived", u.archive, u.lifeRequest, Tail(cs), Append(es, e), dn \cup {TagOf("SetArchived", e.request)})
    BY <1>1, Fields, ChangedAnswered DEF Flow
  <2> QED BY <1>1, <2>1
<1>4. /\ PanelReads(u, Tail(cs), es)
      /\ Creations(u, Tail(cs), es, dn)
      /\ Changed("Edit", u.edit, u.lifeRequest, Tail(cs), es, dn)
      /\ MemberCourse(u.lifeRequest, Tail(cs), b, es)
      /\ MemberRecord(u.member, u.lifeRequest, u.memberRead, Tail(cs), b, es, dn)
  BY <1>1, OthersTaken
<1> QED BY <1>1, <1>2, <1>3, <1>4, OthersEvent DEF Flow

LEMMA FlowMemberWritten ==
  ASSUME NEW u \in Uis, NEW cs \in Seq(Commands), cs # <<>>, NEW es \in Seq(Events), NEW e \in Events,
         NEW dn, Flow(u, cs, NoWrite, es, dn),
         Head(cs).kind = "MemberWrite", e.kind = "MemberWrite",
         e.request = Head(cs).request, e.channel = Head(cs).channel, e.who = Head(cs).who
  PROVE  Flow(u, Tail(cs), NoWrite, Append(es, e), dn \cup {<<"life", e.request>>})
<1>1. /\ ~IsAnswer(e, "SetArchived") /\ ~IsAnswer(e, "Edit") /\ Fresh(e, dn) /\ FreshRead(e, dn)
  BY NoAnswer DEF Fresh, FreshRead
<1>2. Tail(cs) \in Seq(Commands) /\ dn \subseteq dn \cup {<<"life", e.request>>}
  BY Rest
<1>3. /\ MemberCourse(u.lifeRequest, Tail(cs), NoWrite, Append(es, e))
      /\ MemberRecord(u.member, u.lifeRequest, u.memberRead, Tail(cs), NoWrite, Append(es, e), dn \cup {<<"life", e.request>>})
  BY Fields, MembersAnswered DEF Flow
<1>4. /\ PanelReads(u, Tail(cs), es)
      /\ Creations(u, Tail(cs), es, dn)
      /\ Changed("Edit", u.edit, u.lifeRequest, Tail(cs), es, dn)
      /\ Changed("SetArchived", u.archive, u.lifeRequest, Tail(cs), es, dn)
  BY <1>1, OthersTaken
<1> QED BY <1>1, <1>2, <1>3, <1>4, OthersEvent DEF Flow

LEMMA FlowBegun ==
  ASSUME NEW u \in Uis, NEW cs \in Seq(Commands), cs # <<>>, NEW es \in Seq(Events),
         NEW dn, Flow(u, cs, NoWrite, es, dn), Head(cs).kind = "AddMembers"
  PROVE  Flow(u, Tail(cs), Head(cs), es, dn)
<1>1. /\ MemberCourse(u.lifeRequest, Tail(cs), Head(cs), es)
      /\ MemberRecord(u.member, u.lifeRequest, u.memberRead, Tail(cs), Head(cs), es, dn)
  BY Fields, MembersBegun DEF Flow
<1>2. /\ PanelReads(u, Tail(cs), es)
      /\ Creations(u, Tail(cs), es, dn)
      /\ Changed("Edit", u.edit, u.lifeRequest, Tail(cs), es, dn)
      /\ Changed("SetArchived", u.archive, u.lifeRequest, Tail(cs), es, dn)
  BY OthersTaken
<1> QED BY <1>1, <1>2 DEF Flow

LEMMA FlowTurn ==
  ASSUME NEW u \in Uis, NEW cs \in Seq(Commands), NEW b \in AddCommands, b # NoWrite,
         NEW es \in Seq(Events), NEW e \in Events, NEW dn, NEW dn2, NEW d,
         Flow(u, cs, b, es, dn),
         e.kind = "MemberWrite", e.request = b.request, e.channel = b.channel, e.who = Head(b.targets),
         \/ d = NoWrite /\ Len(b.targets) = 1 /\ dn2 = dn \cup {<<"life", b.request>>}
         \/ /\ d.request = b.request /\ d.channel = b.channel /\ d.targets = Tail(b.targets)
            /\ Len(b.targets) # 1 /\ dn2 = dn /\ d # NoWrite
  PROVE  Flow(u, cs, d, Append(es, e), dn2)
<1>1. /\ ~IsAnswer(e, "SetArchived") /\ ~IsAnswer(e, "Edit") /\ Fresh(e, dn) /\ FreshRead(e, dn) /\ dn \subseteq dn2
  BY NoAnswer DEF Fresh, FreshRead
<1>2. u.lifeRequest \in Nat /\ u.memberRead \in Nat
  BY Fields
<1>3. /\ MemberCourse(u.lifeRequest, cs, d, Append(es, e))
      /\ MemberRecord(u.member, u.lifeRequest, u.memberRead, cs, d, Append(es, e), dn2)
  BY <1>2, MembersTurn DEF Flow
<1> QED BY <1>1, <1>3, OthersEvent DEF Flow

LEMMA FlowGone ==
  ASSUME NEW u \in Uis, NEW cs \in Seq(Commands), NEW es \in Seq(Events), NEW e \in Events, e.kind = "Gone",
         NEW b \in {NoWrite} \cup AddCommands, NEW dn, Flow(u, cs, b, es, dn)
  PROVE  Flow(u, cs, b, Append(es, e), dn)
<1>1. /\ ~IsAnswer(e, "SetArchived") /\ ~IsAnswer(e, "Edit") /\ Fresh(e, dn) /\ FreshRead(e, dn) /\ dn \subseteq dn
  BY NoAnswer DEF Fresh, FreshRead
<1> QED BY <1>1, OthersEvent DEF Flow
-----------------------------------------------------------------------------
(* The relay.                                                               *)

LEMMA AnyLabelIs == AnyLabel \in Labels
  BY IdsAssumption DEF AnyLabel

LEMMA OwnRole == [p \in People |-> IF p = Me THEN "owner" ELSE None] \in [People -> Given]
  BY DEF Given, Roles

LEMMA AppliedTyped ==
  ASSUME NEW r \in Relays, NEW e \in Effects
  PROVE  /\ Applied(r, e) \in Relays
         /\ \A c \in Channels : Applied(r, e)[c].there => r[c].there \/ (e.kind = "create" /\ e.channel = c)
         /\ e.kind # "create" => \A c \in Channels : Applied(r, e)[c].there = r[c].there
<1> DEFINE Rows == [there : BOOLEAN, archived : BOOLEAN, label : Labels, role : [People -> Given]]
<1>0. /\ r \in [Channels -> Rows] /\ e.channel \in Channels
      /\ e.kind \in {"create", "label", "archive", "role"}
      /\ e.kind \in {"create", "label"} => e.value \in Labels
      /\ e.kind = "archive" => e.value \in BOOLEAN
      /\ e.kind = "role" => e.who \in People /\ e.value \in Given
  BY DEF Relays, Effects, Channels
<1>1. CASE e.kind = "create"
  <2> DEFINE x == [there |-> TRUE, archived |-> FALSE, label |-> e.value,
                   role |-> [p \in People |-> IF p = Me THEN "owner" ELSE None]]
  <2>1. x \in Rows
    BY <1>0, <1>1, OwnRole
  <2>2. Applied(r, e) = [r EXCEPT ![e.channel] = x]
    BY <1>1 DEF Applied
  <2> HIDE DEF x
  <2>3. Applied(r, e) \in [Channels -> Rows]
    BY <1>0, <2>1, <2>2
  <2>4. \A c \in Channels : c # e.channel => Applied(r, e)[c] = r[c]
    BY <1>0, <2>2
  <2> QED BY <1>1, <2>3, <2>4 DEF Relays
<1>2. CASE e.kind # "create"
  <2> DEFINE row == r[e.channel]
             x == IF e.kind = "label" THEN [row EXCEPT !.label = e.value]
                  ELSE IF e.kind = "archive" THEN [row EXCEPT !.archived = e.value]
                  ELSE [row EXCEPT !.role = [row.role EXCEPT ![e.who] = e.value]]
  <2>1. row \in Rows
    BY <1>0
  <2>2. x \in Rows /\ x.there = row.there
    <3>1. row.role \in [People -> Given]
      BY <2>1
    <3>2. e.kind = "role" => [row.role EXCEPT ![e.who] = e.value] \in [People -> Given]
      BY <1>0, <3>1
    <3> HIDE DEF row
    <3> QED BY <1>0, <1>2, <2>1, <3>2
  <2>3. Applied(r, e) = [r EXCEPT ![e.channel] = x]
    <3>1. CASE e.kind = "label"
      BY <3>1 DEF Applied
    <3>2. CASE e.kind = "archive"
      BY <3>2 DEF Applied
    <3>3. CASE e.kind = "role"
      BY <3>3 DEF Applied
    <3> QED BY <1>0, <1>2, <3>1, <3>2, <3>3
  <2> HIDE DEF x
  <2>4. Applied(r, e) \in [Channels -> Rows]
    BY <1>0, <2>2, <2>3
  <2>5. \A c \in Channels : Applied(r, e)[c].there = r[c].there
    BY <1>0, <2>2, <2>3
  <2> QED BY <2>4, <2>5 DEF Relays
<1> QED BY <1>1, <1>2

LEMMA RosterTyped ==
  ASSUME NEW r \in Relays, NEW described \in BOOLEAN
  PROVE  RosterOf(r, described) \in Described
<1> DEFINE q == RosterOf(r, described)
           Rows == [described : BOOLEAN, mine : Given, archived : BOOLEAN, label : Labels \cup {None}]
<1>1. ASSUME NEW c \in Channels
      PROVE  /\ Row(r, c, described) \in Rows
             /\ Row(r, c, described).described => Row(r, c, described).label \in Labels
  <2>1. r[c] \in [there : BOOLEAN, archived : BOOLEAN, label : Labels, role : [People -> Given]]
    BY DEF Relays
  <2>2. r[c].role[Me] \in Given
    BY <2>1 DEF People
  <2> QED BY <2>1, <2>2 DEF Row
<1>2. NotListed \in Rows /\ NotListed.described = FALSE
  BY DEF NotListed, Given
<1> HIDE DEF NotListed, Row
<1>3. q \in [Channels -> Rows]
  BY <1>1, <1>2 DEF RosterOf
<1>4. \A c \in Channels : q[c].described => q[c].label \in Labels
  BY <1>1, <1>2 DEF RosterOf
<1>5. q \in Rosters
  BY <1>3 DEF Rosters, Given
<1> HIDE DEF q
<1> QED BY <1>4, <1>5 DEF Described, q

LEMMA FoundsApplied ==
  ASSUME NEW r \in Relays, NEW s \in SUBSET Effects, NEW e \in Effects
  PROVE  /\ Founds(Applied(r, e), s) \subseteq Founds(r, s) \cup (IF e.kind = "create" THEN {e.channel} ELSE {})
         /\ Founds(r, s \cup {e}) \subseteq Founds(r, s) \cup (IF e.kind = "create" THEN {e.channel} ELSE {})
         /\ e \in s => Founds(Applied(r, e), s \ {e}) \subseteq Founds(r, s)
<1>1. \A c \in NewIds : Applied(r, e)[c].there => r[c].there \/ (e.kind = "create" /\ e.channel = c)
  BY AppliedTyped DEF Channels
<1> QED BY <1>1 DEF Founds

\* What a write comes to.
LEMMA FateSteps ==
  ASSUME NEW e \in Effects, NEW outcome \in Outcomes, relay \in Relays, settling \in SUBSET Effects, Fate(e, outcome)
  PROVE  /\ relay' \in Relays /\ settling' \in SUBSET Effects
         /\ e.kind # "create" \/ outcome = "refused" => Founds(relay', settling') \subseteq Founds(relay, settling)
         /\ Founds(relay', settling') \subseteq Founds(relay, settling) \cup {e.channel}
<1>1. CASE outcome = "stored" /\ relay' = Applied(relay, e) /\ UNCHANGED <<settling, faults>>
  BY <1>1, AppliedTyped, FoundsApplied
<1>2. CASE outcome \in {"stored", "unknown"} /\ settling' = settling \cup {e} /\ UNCHANGED relay
  BY <1>2, FoundsApplied
<1>3. CASE UNCHANGED <<relay, settling>>
  BY <1>3
<1> QED BY <1>1, <1>2, <1>3 DEF Fate

-----------------------------------------------------------------------------
(* What is known of the channels that were created.                         *)

LEMMA AccountsLess ==
  ASSUME NEW ids, NEW ids2, ids2 \subseteq ids, NEW u, NEW es, Accounts(ids, u, es)
  PROVE  Accounts(ids2, u, es)
  BY DEF Accounts

LEMMA AccountsKept ==
  ASSUME NEW ids, NEW u, NEW v, NEW es, Accounts(ids, u, es), u.told \subseteq v.told,
         v.create = u.create \/ ~IsOpen(u.create)
  PROVE  Accounts(ids, v, es)
  BY DEF Accounts

LEMMA AccountsEvent ==
  ASSUME NEW ids, NEW u, NEW es \in Seq(Events), NEW e \in Events, Accounts(ids, u, es)
  PROVE  Accounts(ids, u, Append(es, e))
<1>1. \A i \in DOMAIN es : i \in DOMAIN Append(es, e) /\ Append(es, e)[i] = es[i]
  BY Added
<1> QED BY <1>1 DEF Accounts

LEMMA AccountsCreated ==
  ASSUME NEW ids, NEW u, NEW es \in Seq(Events), NEW e \in Events, Accounts(ids, u, es),
         e.kind = "Created", e.outcome # "refused"
  PROVE  Accounts(ids \cup {e.id}, u, Append(es, e))
<1>1. Accounts(ids, u, Append(es, e))
  BY AccountsEvent
<1>2. Len(es) + 1 \in DOMAIN Append(es, e) /\ Append(es, e)[Len(es) + 1] = e
  BY Added
<1> QED BY <1>1, <1>2 DEF Accounts

LEMMA AccountsApplied ==
  ASSUME NEW ids, NEW u, NEW v, NEW es \in Seq(Events), es # <<>>, Accounts(ids, u, es),
         u.told \subseteq v.told,
         \A id \in ids : IsOpen(u.create) /\ u.create.id = id =>
           id \in v.told \/ (IsOpen(v.create) /\ v.create.id = id),
         Head(es).kind = "Created" /\ Head(es).outcome # "refused" =>
           Head(es).id \in v.told \/ (IsOpen(v.create) /\ v.create.id = Head(es).id)
  PROVE  Accounts(ids, v, Tail(es))
<1>1. /\ Head(es) = es[1]
      /\ \A i \in DOMAIN es : i = 1 \/ (i - 1 \in DOMAIN Tail(es) /\ Tail(es)[i - 1] = es[i])
  BY Rest
<1>2. SUFFICES ASSUME NEW id \in ids
      PROVE  \/ id \in v.told
             \/ IsOpen(v.create) /\ v.create.id = id
             \/ \E i \in DOMAIN Tail(es) : Tail(es)[i].kind = "Created" /\ Tail(es)[i].id = id /\ Tail(es)[i].outcome # "refused"
  BY DEF Accounts
<1>3. CASE \E i \in DOMAIN es : es[i].kind = "Created" /\ es[i].id = id /\ es[i].outcome # "refused"
  <2>1. PICK i \in DOMAIN es : es[i].kind = "Created" /\ es[i].id = id /\ es[i].outcome # "refused"
    BY <1>3
  <2> QED BY <1>1, <2>1
<1> QED BY <1>2, <1>3 DEF Accounts
-----------------------------------------------------------------------------
(* One answer.                                                              *)

\* Which records of u the answer e may settle in v.
SettledBy(u, v, e) ==
  /\ IsOpen(u.create) /\ u.create.id # None /\ v.create # u.create =>
       e.kind = "Channels" /\ e.complete /\ <<"create", u.create.request>> \in e.after
  /\ IsOpen(u.edit) /\ u.edit.state # "creating" /\ v.edit.request # u.edit.request =>
       e.kind = "Channels" /\ e.complete /\ <<"life", u.edit.request>> \in e.after
  /\ IsOpen(u.archive) /\ u.archive.state # "creating" /\ v.archive.request # u.archive.request =>
       e.kind = "Channels" /\ e.complete /\ <<"life", u.archive.request>> \in e.after
  /\ IsOpen(u.member) /\ DOMAIN u.member.results = DOMAIN u.member.expected /\ v.member.request # u.member.request =>
       \/ e.kind = "Members" /\ e.complete /\ <<"life", u.member.request>> \in e.after
       \/ e.kind = "Gone"

Absorbed(u, v, cs, b, es, dn, ids) ==
  /\ v \in Uis /\ v.createRequest = u.createRequest /\ v.lifeRequest = u.lifeRequest
  /\ Flow(v, cs \o v.out, b, Tail(es), dn) /\ Accounts(ids, v, Tail(es))
  /\ SettledBy(u, v, Head(es))

\* A roster that is read after what it settles.
LEMMA RosterIsLater ==
  ASSUME NEW u \in Uis, NEW cs \in Seq(Commands), NEW es \in Seq(Events), es # <<>>, NEW b, NEW dn,
         Flow(u, cs, b, es, dn), Head(es).kind = "Channels"
  PROVE  /\ IsOpen(u.create) /\ u.create.id # None => <<"create", u.create.request>> \in Head(es).after
         /\ IsOpen(u.edit) /\ u.edit.state # "creating" => <<"life", u.edit.request>> \in Head(es).after
         /\ IsOpen(u.archive) /\ u.archive.state # "creating" => <<"life", u.archive.request>> \in Head(es).after
<1>0. Head(es) = es[1] /\ 1 \in DOMAIN es
  BY Rest
<1>1. /\ TagOf("Create", u.create.request) = <<"create", u.create.request>>
      /\ TagOf("Edit", u.edit.request) = <<"life", u.edit.request>>
      /\ TagOf("SetArchived", u.archive.request) = <<"life", u.archive.request>>
  BY DEF TagOf
<1>2. IsOpen(u.create) /\ u.create.id # None => <<"create", u.create.request>> \in Head(es).after
  <2>1. Recorded("Create", u.create, u.createRequest, cs, es, dn) /\ Creating(u.create, cs, es)
    BY DEF Flow, Creations
  <2>2. IsOpen(u.create) /\ u.create.id # None => u.create.state # "creating"
    BY <2>1 DEF Creating
  <2>3. IsOpen(u.create) /\ u.create.id # None => ReadSince(es[1], "Create", u.create.request)
    BY <1>0, <2>1, <2>2 DEF Recorded
  <2> QED BY <1>0, <1>1, <2>3 DEF ReadSince
<1>3. IsOpen(u.edit) /\ u.edit.state # "creating" => <<"life", u.edit.request>> \in Head(es).after
  <2>1. Recorded("Edit", u.edit, u.lifeRequest, cs, es, dn)
    BY DEF Flow, Changed
  <2>2. IsOpen(u.edit) /\ u.edit.state # "creating" => ReadSince(es[1], "Edit", u.edit.request)
    BY <1>0, <2>1 DEF Recorded
  <2>3. IsOpen(u.edit) /\ u.edit.state # "creating" => TagOf("Edit", u.edit.request) \in Head(es).after
    BY <1>0, <2>2 DEF ReadSince
  <2> QED BY <1>1, <2>3
<1>4. IsOpen(u.archive) /\ u.archive.state # "creating" => <<"life", u.archive.request>> \in Head(es).after
  <2>1. Recorded("SetArchived", u.archive, u.lifeRequest, cs, es, dn)
    BY DEF Flow, Changed
  <2>2. IsOpen(u.archive) /\ u.archive.state # "creating" => ReadSince(es[1], "SetArchived", u.archive.request)
    BY <1>0, <2>1 DEF Recorded
  <2>3. IsOpen(u.archive) /\ u.archive.state # "creating" => TagOf("SetArchived", u.archive.request) \in Head(es).after
    BY <1>0, <2>2 DEF ReadSince
  <2> QED BY <1>1, <2>3
<1> QED BY <1>2, <1>3, <1>4

LEMMA MembersAreLater ==
  ASSUME NEW u \in Uis, NEW cs \in Seq(Commands), NEW es \in Seq(Events), es # <<>>, NEW b, NEW dn,
         Flow(u, cs, b, es, dn), Head(es).kind = "Members", Resolved(u, Head(es), Head(es).rows)
  PROVE  Head(es).complete /\ <<"life", u.member.request>> \in Head(es).after
<1>0. Head(es) = es[1] /\ 1 \in DOMAIN es
  BY Rest
<1>1. /\ IsOpen(u.member) /\ Head(es).request > u.member.readAfter /\ Head(es).complete
      /\ DOMAIN u.member.results = DOMAIN u.member.expected
  BY DEF Resolved, Holds
<1>2. MemberRecord(u.member, u.lifeRequest, u.memberRead, cs, b, es, dn)
  BY DEF Flow
<1> QED BY <1>0, <1>1, <1>2 DEF MemberRecord

LEMMA NoOut ==
  ASSUME NEW cs \in Seq(Commands)
  PROVE  cs \o <<>> = cs
  BY ConcatEmptySeq

LEMMA AbsorbedRoster ==
  ASSUME NEW u \in Uis, u.out = <<>>, NEW cs \in Seq(Commands), NEW es \in Seq(Events), es # <<>>, NEW b, NEW dn,
         NEW ids \in SUBSET NewIds, Flow(u, cs, b, es, dn), Accounts(ids, u, es), Head(es) \in ChannelsEvents
  PROVE  Absorbed(u, ApplyChannels(u, Head(es)), cs, b, es, dn, ids)
<1> DEFINE v == ApplyChannels(u, Head(es))
<1>0. Head(es).kind = "Channels"
  BY DEF ChannelsEvents
<1>1. RosterRead(u, Head(es).complete, v)
  BY ApplyChannelsSteps
<1> HIDE DEF v
<1>2. Flow(v, cs \o v.out, b, Tail(es), dn)
  BY <1>0, <1>1, FlowRosterRead, NoOut DEF RosterRead
<1>3. Accounts(ids, v, Tail(es))
  BY <1>0, <1>1, AccountsApplied DEF RosterRead
<1>4. SettledBy(u, v, Head(es))
  BY <1>0, <1>1, RosterIsLater DEF RosterRead, SettledBy
<1> QED BY <1>1, <1>2, <1>3, <1>4 DEF Absorbed, RosterRead, v

LEMMA AbsorbedCreated ==
  ASSUME NEW u \in Uis, u.out = <<>>, NEW cs \in Seq(Commands), NEW es \in Seq(Events), es # <<>>, NEW b, NEW dn,
         NEW ids \in SUBSET NewIds, Flow(u, cs, b, es, dn), Accounts(ids, u, es), Head(es) \in CreatedEvents
  PROVE  Absorbed(u, ApplyCreated(u, Head(es)), cs, b, es, dn, ids)
<1> DEFINE v == ApplyCreated(u, Head(es))
<1>0. Head(es).kind = "Created" /\ Head(es).id \in NewIds /\ Head(es).id # None
  BY IdsAssumption DEF CreatedEvents
<1>1. /\ IsOpen(u.create) /\ Head(es).request = u.create.request /\ u.create.id = None
  BY <1>0, Fields, CreationsHead DEF Flow
<1>2. CreationAnswered(u, Head(es), v)
  BY <1>1, ApplyCreatedSteps
<1> HIDE DEF v
<1>3. Flow(v, cs \o v.out, b, Tail(es), dn)
  BY <1>2, FlowCreationAnswered
<1>4. Accounts(ids, v, Tail(es))
  <2>1. u.told \subseteq v.told
    BY <1>2 DEF CreationAnswered
  <2>2. \A id \in ids : ~(IsOpen(u.create) /\ u.create.id = id)
    BY <1>1, IdsAssumption
  <2>3. Head(es).outcome # "refused" =>
          Head(es).id \in v.told \/ (IsOpen(v.create) /\ v.create.id = Head(es).id)
    BY <1>1, <1>2 DEF CreationAnswered, IsOpen
  <2> QED BY <2>1, <2>2, <2>3, AccountsApplied
<1>5. SettledBy(u, v, Head(es))
  BY <1>1, <1>2 DEF CreationAnswered, SettledBy
<1> QED BY <1>2, <1>3, <1>4, <1>5 DEF Absorbed, CreationAnswered, v

LEMMA AbsorbedWritten ==
  ASSUME NEW u \in Uis, u.out = <<>>, NEW cs \in Seq(Commands), NEW es \in Seq(Events), es # <<>>, NEW b, NEW dn,
         NEW ids \in SUBSET NewIds, Flow(u, cs, b, es, dn), Accounts(ids, u, es), Head(es) \in WrittenEvents
  PROVE  Absorbed(u, ApplyChannelWrite(u, Head(es)), cs, b, es, dn, ids)
<1> DEFINE v == ApplyChannelWrite(u, Head(es))
<1>0. Head(es).kind = "Written"
  BY DEF WrittenEvents
<1>1. v \in Uis /\ Flow(v, cs \o v.out, b, Tail(es), dn)
  BY FlowChangeAnswered
<1>2. \/ v = u
      \/ ChangeAnswered(u, Head(es), v) /\ Changing(u, Head(es))
  BY ChangingUnderWay, ApplyWrittenSteps
<1> HIDE DEF v
<1>3. Changing(u, Head(es)) =>
              \/ Head(es).slot = "edit" /\ u.edit.state = "creating"
              \/ Head(es).slot = "archive" /\ u.archive.state = "creating"
  BY ChangingUnderWay
<1>4. /\ v.create = u.create /\ v.told = u.told /\ v.member = u.member
      /\ v.createRequest = u.createRequest /\ v.lifeRequest = u.lifeRequest
  BY <1>2 DEF ChangeAnswered
<1>5. Accounts(ids, v, Tail(es))
  BY <1>0, <1>4, AccountsApplied
<1>6. SettledBy(u, v, Head(es))
  BY <1>2, <1>3, <1>4 DEF ChangeAnswered, SettledBy
<1> QED BY <1>1, <1>4, <1>5, <1>6 DEF Absorbed, v

LEMMA AbsorbedMembers ==
  ASSUME NEW u \in Uis, u.out = <<>>, NEW cs \in Seq(Commands), NEW es \in Seq(Events), es # <<>>, NEW b, NEW dn,
         NEW ids \in SUBSET NewIds, Flow(u, cs, b, es, dn), Accounts(ids, u, es), Head(es) \in MembersEvents
  PROVE  Absorbed(u, ApplyMembersRead(u, Head(es)), cs, b, es, dn, ids)
<1> DEFINE v == ApplyMembersRead(u, Head(es))
<1>0. Head(es).kind = "Members"
  BY DEF MembersEvents
<1>1. MembersRead(u, Head(es), v)
  BY ApplyMembersReadSteps
<1> HIDE DEF v
<1>2. Flow(v, cs \o v.out, b, Tail(es), dn)
  BY <1>1, FlowMembersRead, NoOut DEF MembersRead
<1>3. Accounts(ids, v, Tail(es))
  BY <1>0, <1>1, AccountsApplied DEF MembersRead
<1>4. SettledBy(u, v, Head(es))
  BY <1>0, <1>1, MembersAreLater DEF MembersRead, SettledBy
<1> QED BY <1>1, <1>2, <1>3, <1>4 DEF Absorbed, MembersRead, v

LEMMA AbsorbedCandidates ==
  ASSUME NEW u \in Uis, u.out = <<>>, NEW cs \in Seq(Commands), NEW es \in Seq(Events), es # <<>>, NEW b, NEW dn,
         NEW ids \in SUBSET NewIds, Flow(u, cs, b, es, dn), Accounts(ids, u, es), Head(es) \in CandidatesEvents
  PROVE  Absorbed(u, ApplyCandidates(u, Head(es)), cs, b, es, dn, ids)
<1> DEFINE v == ApplyCandidates(u, Head(es))
<1>0. Head(es).kind = "Candidates"
  BY DEF CandidatesEvents
<1>1. CandidatesRead(u, Head(es), v)
  BY ApplyCandidatesSteps
<1> HIDE DEF v
<1>2. Flow(v, cs \o v.out, b, Tail(es), dn)
  BY <1>1, FlowCandidatesRead, NoOut DEF CandidatesRead
<1>3. Accounts(ids, v, Tail(es))
  BY <1>0, <1>1, AccountsApplied DEF CandidatesRead, Kept
<1>4. SettledBy(u, v, Head(es))
  BY <1>0, <1>1 DEF CandidatesRead, SettledBy, Kept
<1> QED BY <1>1, <1>2, <1>3, <1>4 DEF Absorbed, CandidatesRead, Kept, v

LEMMA AbsorbedResult ==
  ASSUME NEW u \in Uis, u.out = <<>>, NEW cs \in Seq(Commands), NEW es \in Seq(Events), es # <<>>, NEW b, NEW dn,
         NEW ids \in SUBSET NewIds, Flow(u, cs, b, es, dn), Accounts(ids, u, es), Head(es) \in MemberWriteEvents
  PROVE  Absorbed(u, ApplyMemberWrite(u, Head(es)), cs, b, es, dn, ids)
<1> DEFINE v == ApplyMemberWrite(u, Head(es))
<1>0. Head(es).kind = "MemberWrite"
  BY DEF MemberWriteEvents
<1>1. /\ v \in Uis /\ Flow(v, cs \o v.out, b, Tail(es), dn)
      /\ v.create = u.create /\ v.edit = u.edit /\ v.archive = u.archive /\ v.told = u.told
      /\ v.createRequest = u.createRequest /\ v.lifeRequest = u.lifeRequest
      /\ DOMAIN u.member.results = DOMAIN u.member.expected => v.member = u.member
  BY FlowMemberWrite
<1> HIDE DEF v
<1>3. Accounts(ids, v, Tail(es))
  BY <1>0, <1>1, AccountsApplied
<1>4. SettledBy(u, v, Head(es))
  BY <1>0, <1>1 DEF SettledBy
<1> QED BY <1>1, <1>3, <1>4 DEF Absorbed, v

LEMMA AbsorbedGone ==
  ASSUME NEW u \in Uis, u.out = <<>>, NEW cs \in Seq(Commands), NEW es \in Seq(Events), es # <<>>, NEW b, NEW dn,
         NEW ids \in SUBSET NewIds, Flow(u, cs, b, es, dn), Accounts(ids, u, es), NEW v, ChannelWent(u, v),
         Head(es).kind = "Gone" \/ (Head(es).kind = "Status" /\ v = u)
  PROVE  Absorbed(u, v, cs, b, es, dn, ids)
<1>1. Flow(v, cs \o v.out, b, Tail(es), dn)
  BY FlowChannelWent, NoOut DEF ChannelWent
<1>2. Accounts(ids, v, Tail(es))
  BY AccountsApplied DEF ChannelWent
<1>3. SettledBy(u, v, Head(es))
  BY DEF SettledBy, ChannelWent
<1> QED BY <1>1, <1>2, <1>3 DEF Absorbed, ChannelWent

LEMMA AbsorbedEvent ==
  ASSUME NEW u \in Uis, u.out = <<>>, NEW cs \in Seq(Commands), NEW es \in Seq(Events), es # <<>>, NEW b, NEW dn,
         NEW ids \in SUBSET NewIds, Flow(u, cs, b, es, dn), Accounts(ids, u, es)
  PROVE  Absorbed(u, ApplyEvent(u, Head(es)), cs, b, es, dn, ids)
<1>0. Head(es) \in Events
  BY Rest
<1> DEFINE e == Head(es)
<1> HIDE DEF e
<1>1. CASE e.kind = "Channels"
  BY <1>0, <1>1, EventKinds, AbsorbedRoster DEF ApplyEvent, e
<1>2. CASE e.kind = "Status"
  <2>1. ChannelWent(u, u)
    BY DEF ChannelWent, Calm, CalmForm
  <2> QED BY <1>2, <2>1, AbsorbedGone DEF ApplyEvent, e
<1>3. CASE e.kind = "Created"
  BY <1>0, <1>3, EventKinds, AbsorbedCreated DEF ApplyEvent, e
<1>4. CASE e.kind = "Written"
  BY <1>0, <1>4, EventKinds, AbsorbedWritten DEF ApplyEvent, e
<1>5. CASE e.kind = "Members"
  BY <1>0, <1>5, EventKinds, AbsorbedMembers DEF ApplyEvent, e
<1>6. CASE e.kind = "Candidates"
  BY <1>0, <1>6, EventKinds, AbsorbedCandidates DEF ApplyEvent, e
<1>7. CASE e.kind = "MemberWrite"
  BY <1>0, <1>7, EventKinds, AbsorbedResult DEF ApplyEvent, e
<1>8. CASE e.kind = "Gone"
  BY <1>0, <1>8, EventKinds, ApplyGoneSteps, AbsorbedGone DEF ApplyEvent, e
<1>9. e.kind \in {"Channels", "Status", "Created", "Written", "Members", "Candidates", "MemberWrite", "Gone"}
  BY <1>0, EventKinds DEF e
<1> QED BY <1>1, <1>2, <1>3, <1>4, <1>5, <1>6, <1>7, <1>8, <1>9
-----------------------------------------------------------------------------
(* The invariant is inductive.                                              *)

LEMMA FoundedTyped == Founded \in Relays /\ \A id \in NewIds : ~Founded[id].there
<1>1. \A c \in Channels : Founded[c] \in [there : BOOLEAN, archived : BOOLEAN, label : Labels, role : [People -> Given]]
  BY AnyLabelIs, OwnRole DEF Founded
<1>2. Founded \in Relays
  BY <1>1 DEF Founded, Relays
<1> QED BY <1>2, IdsAssumption DEF Founded, Channels

LEMMA OpenedTyped == Opened \in Uis
<1>1. RosterOf(Founded, TRUE) \in Described
  BY FoundedTyped, RosterTyped
<1>2. NoWrite \in Creates /\ NoWrite \in Edits /\ NoWrite \in Archives /\ NoWrite \in MemberWrites /\ NoForm \in Forms
  BY DEF Creates, Edits, Archives, MemberWrites, Slot, Forms
<1>3. <<>> \in Seq(Commands) /\ {} \in SUBSET NewIds
  OBVIOUS
<1> HIDE DEF NoWrite, NoForm
<1> QED BY <1>1, <1>2, <1>3 DEF Opened, Uis

LEMMA InitIInv == Init => IInv
<1> SUFFICES ASSUME Init PROVE IInv
  OBVIOUS
<1>1. ui \in Uis /\ ui.out = <<>> /\ ui.createRequest = 0 /\ ui.lifeRequest = 0 /\ ui.memberRead = 0
        /\ ui.memberSearch = 0 /\ ~Showing(ui, "members")
        /\ ui.create = NoWrite /\ ui.edit = NoWrite /\ ui.archive = NoWrite /\ ui.member = NoWrite
  BY OpenedTyped DEF Init, Opened, Showing, NoForm, None
<1>2. Typed
  BY <1>1, FoundedTyped, BoundsAssumption DEF Init, Typed
<1>3. Accounts(Founds(relay, settling), ui, events)
  BY FoundedTyped DEF Init, Accounts, Founds
<1>4. commands = <<>> /\ events = <<>> /\ batch = NoWrite /\ ~IsOpen(NoWrite)
  BY DEF Init, IsOpen, NoWrite
<1>5. Creations(ui, commands, events, done)
  BY <1>1, <1>4 DEF Creations, InCourse, Recorded, Creating
<1>6. Changed("Edit", ui.edit, ui.lifeRequest, commands, events, done)
  BY <1>1, <1>4 DEF Changed, InCourse, Recorded, SameChannel
<1>7. Changed("SetArchived", ui.archive, ui.lifeRequest, commands, events, done)
  BY <1>1, <1>4 DEF Changed, InCourse, Recorded, SameChannel
<1>8. MemberCourse(ui.lifeRequest, commands, batch, events)
  BY <1>4 DEF MemberCourse
<1>9. MemberRecord(ui.member, ui.lifeRequest, ui.memberRead, commands, batch, events, done)
  BY <1>1, <1>4 DEF MemberRecord
<1>10. PanelReads(ui, commands, events)
  BY <1>1, <1>4 DEF PanelReads, Reading
<1> QED BY <1>2, <1>3, <1>5, <1>6, <1>7, <1>8, <1>9, <1>10 DEF IInv, Flow

Sent(v) == [v EXCEPT !.out = <<>>]

LEMMA SentFields ==
  ASSUME NEW v \in Uis
  PROVE  /\ Sent(v) \in Uis /\ Sent(v).out = <<>> /\ Kept(v, Sent(v)) /\ Calm(v, Sent(v))
<1>1. <<>> \in Seq(Commands)
  OBVIOUS
<1>2. Sent(v) \in Uis
  BY <1>1 DEF Sent, Uis
<1>3. Sent(v).out = <<>> /\ Kept(v, Sent(v)) /\ Sent(v).form = v.form /\ Sent(v).memberRead = v.memberRead
        /\ Sent(v).memberSearch = v.memberSearch
  BY DEF Sent, Kept, Uis
<1> QED BY <1>2, <1>3 DEF Calm, CalmForm

\* A handler of the interface that keeps what is recorded.
LEMMA ShowKeeps ==
  ASSUME IInv, NEW v \in Uis, Show(v), UNCHANGED <<relay, settling, batch, done>>,
         events' \in Seq(Events), Flow(v, commands \o v.out, batch, events', done),
         Accounts(Founds(relay, settling), v, events'),
         displaced' \in SUBSET (1..v.lifeRequest), writes' \in 0..MaxWrites,
         v.createRequest + v.lifeRequest <= writes'
  PROVE  IInv'
<1>1. ui' = Sent(v) /\ commands' = commands \o v.out
  BY DEF Show, Sent
<1>2. /\ Sent(v) \in Uis /\ Sent(v).out = <<>> /\ Kept(v, Sent(v)) /\ Calm(v, Sent(v))
  BY SentFields
<1>3. Flow(ui', commands', batch', events', done')
  BY <1>1, <1>2, FlowKept
<1>4. Accounts(Founds(relay', settling'), ui', events')
  BY <1>1, <1>2, AccountsKept DEF Kept
<1>5. v.out \in Seq(Commands) /\ commands \in Seq(Commands)
  BY Fields DEF IInv, Typed
<1>6. commands' \in Seq(Commands)
  BY <1>1, <1>5, Joined
<1>7. Typed'
  BY <1>1, <1>2, <1>6 DEF IInv, Typed, Kept
<1> QED BY <1>3, <1>4, <1>7 DEF IInv

LEMMA EventKeeps == IInv /\ TakeEvent => IInv'
<1> SUFFICES ASSUME IInv, TakeEvent PROVE IInv'
  OBVIOUS
<1> DEFINE v == ApplyEvent(ui, Head(events))
<1>1. /\ ui \in Uis /\ ui.out = <<>> /\ commands \in Seq(Commands) /\ events \in Seq(Events) /\ events # <<>>
      /\ relay \in Relays /\ events' = Tail(events) /\ Show(v)
      /\ UNCHANGED <<relay, settling, batch, done, displaced, writes>>
  BY DEF IInv, Typed, TakeEvent, ghosts, counters
<1>2. Founds(relay, settling) \in SUBSET NewIds
  BY DEF Founds
<1>3. Absorbed(ui, v, commands, batch, events, done, Founds(relay, settling))
  BY <1>1, <1>2, AbsorbedEvent DEF IInv
<1> HIDE DEF v
<1>4. events' \in Seq(Events)
  BY <1>1, Rest
<1>5. displaced' \in SUBSET (1..v.lifeRequest) /\ writes' \in 0..MaxWrites /\ v.createRequest + v.lifeRequest <= writes'
  BY <1>1, <1>3 DEF IInv, Typed, Absorbed
<1> QED BY <1>1, <1>3, <1>4, <1>5, ShowKeeps DEF Absorbed
-----------------------------------------------------------------------------
(* Keys.                                                                    *)

\* An open record is left only for a write about another channel, which is noted.
Replacing ==
  /\ IsOpen(ui.create) => ui'.create = ui.create
  /\ IsOpen(ui.edit) /\ ui'.edit.request # ui.edit.request => ui.edit.request \in displaced'
  /\ IsOpen(ui.archive) /\ ui'.archive.request # ui.archive.request => ui.archive.request \in displaced'
  /\ IsOpen(ui.member) /\ ui'.member.request # ui.member.request => ui.member.request \in displaced'

\* The same in terms of the interface before its commands are sent.
Leaves(u, v, gone) ==
  /\ IsOpen(u.create) => v.create = u.create
  /\ IsOpen(u.edit) /\ v.edit.request # u.edit.request => u.edit.request \in gone
  /\ IsOpen(u.archive) /\ v.archive.request # u.archive.request => u.archive.request \in gone
  /\ IsOpen(u.member) /\ v.member.request # u.member.request => u.member.request \in gone

LEMMA KeyKeeps ==
  ASSUME IInv, NEW v \in Uis, Key(v), Flow(v, commands \o v.out, batch, events, done),
         v.told = ui.told, Leaves(ui, v, displaced'),
         displaced' \in SUBSET (1..v.lifeRequest), writes' \in 0..MaxWrites,
         v.createRequest + v.lifeRequest <= writes'
  PROVE  IInv' /\ Replacing
<1>1. Show(v) /\ UNCHANGED <<relay, settling, batch, done>> /\ events' = events
  BY DEF Key
<1>2. events \in Seq(Events) /\ Accounts(Founds(relay, settling), ui, events)
  BY DEF IInv, Typed
<1>3. Accounts(Founds(relay, settling), v, events)
  BY <1>2, AccountsKept DEF Leaves
<1>4. IInv'
  BY <1>1, <1>2, <1>3, ShowKeeps
<1>5. ui' = Sent(v) /\ Kept(v, Sent(v))
  BY <1>1, SentFields DEF Show, Sent
<1>6. Replacing
  BY <1>5 DEF Leaves, Replacing, Kept
<1> QED BY <1>4, <1>6

LEMMA IdleKeeps ==
  ASSUME IInv, NEW v, Idle(ui, v), Key(v), displaced' \in SUBSET (1..ui.lifeRequest),
         writes' \in 0..MaxWrites, writes <= writes'
  PROVE  IInv' /\ Replacing
<1>1. /\ ui \in Uis /\ commands \in Seq(Commands) /\ events \in Seq(Events)
      /\ Flow(ui, commands, batch, events, done) /\ ui.createRequest + ui.lifeRequest <= writes
      /\ writes \in Nat /\ ui.createRequest \in Nat /\ ui.lifeRequest \in Nat
  BY Fields DEF IInv, Typed
<1>2. v \in Uis /\ Kept(ui, v)
  BY DEF Idle
<1>3. Flow(v, commands \o v.out, batch, events, done)
  BY <1>1, FlowIdle
<1>4. Leaves(ui, v, displaced') /\ v.told = ui.told
  BY <1>2 DEF Kept, Leaves
<1>5. writes' \in Nat
  BY BoundsAssumption
<1>6. v.createRequest + v.lifeRequest <= writes' /\ displaced' \in SUBSET (1..v.lifeRequest)
  BY <1>1, <1>2, <1>5 DEF Kept
<1> QED BY <1>2, <1>3, <1>4, <1>6, KeyKeeps

LEMMA ChangesKeeps ==
  ASSUME IInv, NEW v, Idle(ui, v), Changes(v)
  PROVE  IInv' /\ Replacing
<1>1. Key(v) /\ displaced' \in SUBSET (1..ui.lifeRequest) /\ writes' \in 0..MaxWrites /\ writes <= writes'
  BY DEF Changes, IInv, Typed
<1> QED BY <1>1, IdleKeeps

LEMMA ReadsKeeps ==
  ASSUME IInv, NEW v, Reads(v), \/ Idle(ui, v)
                                \/ AsksMembers(ui, v) /\ Kept(ui, v)
                                \/ AsksCandidates(ui, v)
  PROVE  IInv' /\ Replacing
<1>1. Key(v) /\ displaced' \in SUBSET (1..ui.lifeRequest) /\ writes' \in 0..MaxWrites /\ writes <= writes'
        /\ writes' = writes
  BY DEF Reads, IInv, Typed
<1>2. CASE Idle(ui, v)
  BY <1>1, <1>2, IdleKeeps
<1>3. CASE ~Idle(ui, v)
  <2>1. /\ ui \in Uis /\ commands \in Seq(Commands) /\ events \in Seq(Events)
        /\ Flow(ui, commands, batch, events, done) /\ ui.createRequest + ui.lifeRequest <= writes
    BY DEF IInv, Typed
  <2>2. v \in Uis /\ Kept(ui, v)
    BY <1>3 DEF AsksMembers, AsksCandidates
  <2>3. Flow(v, commands \o v.out, batch, events, done)
    BY <1>3, <2>1, FlowAsksMembers, FlowAsksCandidates
  <2>4. Leaves(ui, v, displaced') /\ v.told = ui.told
    BY <2>2 DEF Kept, Leaves
  <2>5. v.createRequest + v.lifeRequest <= writes' /\ displaced' \in SUBSET (1..v.lifeRequest)
    BY <1>1, <2>1, <2>2 DEF Kept
  <2> QED BY <1>1, <2>2, <2>3, <2>4, <2>5, KeyKeeps
<1> QED BY <1>2, <1>3

LEMMA OpenRequests ==
  ASSUME IInv
  PROVE  /\ IsOpen(ui.edit) => ui.edit.request \in 1..ui.lifeRequest
         /\ IsOpen(ui.archive) => ui.archive.request \in 1..ui.lifeRequest
         /\ IsOpen(ui.member) => ui.member.request \in 1..ui.lifeRequest
         /\ IsOpen(ui.create) => ui.create.request \in 1..ui.createRequest
<1>1. /\ Recorded("Edit", ui.edit, ui.lifeRequest, commands, events, done)
      /\ Recorded("SetArchived", ui.archive, ui.lifeRequest, commands, events, done)
      /\ MemberRecord(ui.member, ui.lifeRequest, ui.memberRead, commands, batch, events, done)
      /\ Recorded("Create", ui.create, ui.createRequest, commands, events, done)
  BY DEF IInv, Flow, Changed, Creations
<1> QED BY <1>1 DEF Recorded, MemberRecord

Wrote(slot, u, v) ==
  \/ slot = "create" /\ WroteCreate(u, v)
  \/ slot = "edit" /\ WroteEdit(u, v)
  \/ slot = "archive" /\ WroteArchive(u, v)
  \/ slot = "member" /\ WroteMember(u, v)

LEMMA WroteFlow ==
  ASSUME IInv, NEW slot, NEW v, Wrote(slot, ui, v)
  PROVE  /\ v \in Uis /\ Flow(v, commands \o v.out, batch, events, done) /\ v.told = ui.told
         /\ v.createRequest + v.lifeRequest = ui.createRequest + ui.lifeRequest + 1
         /\ ui.lifeRequest <= v.lifeRequest
<1>1. /\ ui \in Uis /\ commands \in Seq(Commands) /\ events \in Seq(Events)
      /\ Flow(ui, commands, batch, events, done)
      /\ ui.createRequest \in Nat /\ ui.lifeRequest \in Nat
  BY Fields DEF IInv, Typed
<1>2. Flow(v, commands \o v.out, batch, events, done)
  BY <1>1, FlowWroteCreate, FlowWroteEdit, FlowWroteArchive, FlowWroteMember DEF Wrote
<1>3. v \in Uis /\ v.told = ui.told
        /\ \/ v.createRequest = ui.createRequest /\ v.lifeRequest = ui.lifeRequest + 1
           \/ v.createRequest = ui.createRequest + 1 /\ v.lifeRequest = ui.lifeRequest
  BY DEF Wrote, WroteCreate, WroteEdit, WroteArchive, WroteMember
<1>4. \A a, b \in Nat : a + (b + 1) = a + b + 1 /\ (a + 1) + b = a + b + 1 /\ b <= b + 1 /\ b <= b
  OBVIOUS
<1>5. /\ v.createRequest + v.lifeRequest = ui.createRequest + ui.lifeRequest + 1
      /\ ui.lifeRequest <= v.lifeRequest
  BY <1>1, <1>3, <1>4
<1> QED BY <1>2, <1>3, <1>5

LEMMA WroteLeaves ==
  ASSUME NEW slot, NEW u, NEW v, Wrote(slot, u, v), NEW gone,
         slot # "create" /\ v[slot] # u[slot] => Replaced(u, slot, v[slot].channel) \subseteq gone
  PROVE  Leaves(u, v, gone)
<1>1. CASE slot = "create" /\ WroteCreate(u, v)
  BY <1>1 DEF WroteCreate, Leaves
<1>2. CASE slot = "edit" /\ WroteEdit(u, v)
  BY <1>2 DEF WroteEdit, Leaves, Submitted, Holds, Replaced
<1>3. CASE slot = "archive" /\ WroteArchive(u, v)
  BY <1>3 DEF WroteArchive, Leaves, Submitted, Holds, Replaced
<1>4. CASE slot = "member" /\ WroteMember(u, v)
  BY <1>4 DEF WroteMember, Leaves, Submitted, Holds, Replaced
<1> QED BY <1>1, <1>2, <1>3, <1>4 DEF Wrote

LEMMA SubmitsKeeps ==
  ASSUME IInv, NEW slot \in {"create", "edit", "archive", "member"}, NEW v, Submits(v, slot),
         Idle(ui, v) \/ Wrote(slot, ui, v)
  PROVE  IInv' /\ Replacing
<1> DEFINE gone == IF slot # "create" /\ v[slot] # ui[slot] THEN Replaced(ui, slot, v[slot].channel) ELSE {}
<1>1. /\ writes < MaxWrites /\ writes' = writes + 1 /\ Key(v) /\ displaced' = displaced \cup gone
  BY DEF Submits
<1>2. /\ writes \in Nat /\ MaxWrites \in Nat /\ writes' \in 0..MaxWrites /\ writes <= writes'
      /\ displaced \subseteq 1..ui.lifeRequest /\ ui.createRequest + ui.lifeRequest <= writes
      /\ ui \in Uis /\ ui.lifeRequest \in Nat /\ ui.createRequest \in Nat
  BY <1>1, BoundsAssumption, Fields DEF IInv, Typed
<1>3. gone \subseteq 1..ui.lifeRequest
  <2>1. CASE slot = "create"
    BY <2>1
  <2>2. CASE slot = "edit"
    BY <2>2, OpenRequests DEF Replaced
  <2>3. CASE slot = "archive"
    BY <2>3, OpenRequests DEF Replaced
  <2>4. CASE slot = "member"
    BY <2>4, OpenRequests DEF Replaced
  <2> QED BY <2>1, <2>2, <2>3, <2>4
<1>4. slot # "create" /\ v[slot] # ui[slot] => Replaced(ui, slot, v[slot].channel) \subseteq displaced'
  BY <1>1
<1> HIDE DEF gone
<1>5. displaced' \in SUBSET (1..ui.lifeRequest)
  BY <1>1, <1>2, <1>3
<1>6. CASE Idle(ui, v)
  BY <1>1, <1>2, <1>5, <1>6, IdleKeeps
<1>7. CASE Wrote(slot, ui, v)
  <2>1. /\ v \in Uis /\ Flow(v, commands \o v.out, batch, events, done) /\ v.told = ui.told
        /\ v.createRequest + v.lifeRequest = ui.createRequest + ui.lifeRequest + 1
        /\ ui.lifeRequest <= v.lifeRequest
    BY <1>7, WroteFlow
  <2>2. Leaves(ui, v, displaced')
    BY <1>4, <1>7, WroteLeaves
  <2>3. v.lifeRequest \in Nat
    BY <2>1, Fields
  <2>4. displaced' \in SUBSET (1..v.lifeRequest) /\ v.createRequest + v.lifeRequest <= writes'
    BY <1>1, <1>2, <1>5, <2>1, <2>3
  <2> QED BY <1>1, <1>2, <2>1, <2>2, <2>4, KeyKeeps
<1> QED BY <1>6, <1>7
-----------------------------------------------------------------------------

LEMMA Here == IInv => ui \in Uis /\ ui.out = <<>>
  BY DEF IInv, Typed

LEMMA CloseFormKeeps == IInv /\ CloseForm => IInv' /\ Replacing
<1> SUFFICES ASSUME IInv, CloseForm PROVE IInv' /\ Replacing
  OBVIOUS
<1>1. Idle(ui, [ui EXCEPT !.form = NoForm])
  BY Here, CloseIdle
<1>2. Changes([ui EXCEPT !.form = NoForm])
  BY DEF CloseForm
<1> HIDE DEF NoForm
<1> QED BY <1>1, <1>2, ChangesKeeps

LEMMA CreateKeysKeep == IInv /\ CreateKeys => IInv' /\ Replacing
<1> SUFFICES ASSUME IInv, CreateKeys PROVE IInv' /\ Replacing
  OBVIOUS
<1>1. CASE Changes(OpenCreate(ui))
  BY <1>1, Here, OpenCreateIdle, ChangesKeeps
<1>2. ASSUME NEW valid \in BOOLEAN, Submits(SubmitCreate(ui, valid), "create") PROVE IInv' /\ Replacing
  <2>1. Idle(ui, SubmitCreate(ui, valid)) \/ Wrote("create", ui, SubmitCreate(ui, valid))
    BY Here, SubmitCreateSteps DEF Wrote
  <2> QED BY <1>2, <2>1, SubmitsKeeps
<1>3. CASE Reads(RefreshCreate(ui))
  BY <1>3, Here, RefreshIdle, ReadsKeeps
<1> QED BY <1>1, <1>2, <1>3 DEF CreateKeys

LEMMA EditKeysKeep == IInv /\ EditKeys => IInv' /\ Replacing
<1> SUFFICES ASSUME IInv, EditKeys PROVE IInv' /\ Replacing
  OBVIOUS
<1>1. ASSUME NEW c \in Channels, Changes(OpenEdit(ui, c)) PROVE IInv' /\ Replacing
  BY <1>1, Here, OpenEditIdle, ChangesKeeps
<1>2. ASSUME Showing(ui, "edit"), NEW l \in Labels, Changes([ui EXCEPT !.form.label = l])
      PROVE IInv' /\ Replacing
  BY <1>2, Here, LabelIdle, ChangesKeeps
<1>3. CASE Showing(ui, "edit") /\ Submits(SubmitEdit(ui), "edit")
  <2>1. Idle(ui, SubmitEdit(ui)) \/ Wrote("edit", ui, SubmitEdit(ui))
    BY <1>3, Here, SubmitEditSteps DEF Wrote
  <2> QED BY <1>3, <2>1, SubmitsKeeps
<1>4. CASE Reads(RefreshEdit(ui))
  BY <1>4, Here, RefreshIdle, ReadsKeeps
<1> QED BY <1>1, <1>2, <1>3, <1>4 DEF EditKeys

LEMMA ArchiveKeysKeep == IInv /\ ArchiveKeys => IInv' /\ Replacing
<1> SUFFICES ASSUME IInv, ArchiveKeys PROVE IInv' /\ Replacing
  OBVIOUS
<1>1. ASSUME NEW c \in Channels, NEW archived \in BOOLEAN, Changes(OpenArchive(ui, c, archived))
      PROVE IInv' /\ Replacing
  BY <1>1, Here, OpenArchiveIdle, ChangesKeeps
<1>2. CASE Showing(ui, "archive") /\ Submits(SubmitArchive(ui), "archive")
  <2>1. Idle(ui, SubmitArchive(ui)) \/ Wrote("archive", ui, SubmitArchive(ui))
    BY <1>2, Here, SubmitArchiveSteps DEF Wrote
  <2> QED BY <1>2, <2>1, SubmitsKeeps
<1>3. CASE Reads(RefreshArchive(ui))
  BY <1>3, Here, RefreshIdle, ReadsKeeps
<1> QED BY <1>1, <1>2, <1>3 DEF ArchiveKeys

LEMMA PanelKeysKeep == IInv /\ PanelKeys => IInv' /\ Replacing
<1> SUFFICES ASSUME IInv, PanelKeys PROVE IInv' /\ Replacing
  OBVIOUS
<1>1. ASSUME NEW c \in Channels, Reads(OpenMembers(ui, c)) PROVE IInv' /\ Replacing
  BY <1>1, Here, OpenMembersSteps, ReadsKeeps
<1>2. CASE Showing(ui, "members") /\ Reads(RefreshMembers(ui))
  BY <1>2, Here, RefreshMembersSteps, ReadsKeeps
<1>3. CASE Showing(ui, "members") /\ Changes(OpenPicker(ui))
  BY <1>3, Here, PickerKeysIdle, ChangesKeeps
<1>4. ASSUME Showing(ui, "members"), NEW p \in People, NEW role \in Roles, NEW op \in {"role", "remove", "leave"},
             Changes(OpenConfirm(ui, op, p, role)) PROVE IInv' /\ Replacing
  BY <1>4, Here, OpenConfirmIdle, ChangesKeeps
<1>5. CASE Showing(ui, "members") /\ ui.form.confirm # NoConfirm /\ Submits(SubmitConfirm(ui), "member")
  <2>1. Idle(ui, SubmitConfirm(ui)) \/ Wrote("member", ui, SubmitConfirm(ui))
    BY <1>5, Here, SubmitConfirmSteps DEF Wrote
  <2> QED BY <1>5, <2>1, SubmitsKeeps
<1>6. CASE Showing(ui, "members") /\ Changes([ui EXCEPT !.form.confirm = NoConfirm])
  <2>1. NoConfirm \in Confirms
    BY DEF Confirms
  <2> HIDE DEF NoConfirm
  <2> QED BY <1>6, <2>1, Here, ConfirmIdle, ChangesKeeps
<1> HIDE DEF NoConfirm
<1> QED BY <1>1, <1>2, <1>3, <1>4, <1>5, <1>6 DEF PanelKeys, Panel

LEMMA PickerKeysKeep == IInv /\ PickerKeys => IInv' /\ Replacing
<1> SUFFICES ASSUME IInv, PickerKeys PROVE IInv' /\ Replacing
  OBVIOUS
<1>0. Showing(ui, "members") /\ ui \in Uis /\ ui.out = <<>>
  BY Here DEF PickerKeys, Panel
<1>1. ASSUME NEW p \in People, Reads(Query(ui, p)) PROVE IInv' /\ Replacing
  BY <1>0, <1>1, QuerySteps, ReadsKeeps
<1>2. ASSUME NEW p \in People, Changes(Toggle(ui, p)) PROVE IInv' /\ Replacing
  BY <1>0, <1>2, PickerKeysIdle, ChangesKeeps
<1>3. ASSUME NEW role \in Roles, Changes(PickRole(ui, role)) PROVE IInv' /\ Replacing
  BY <1>0, <1>3, PickerKeysIdle, ChangesKeeps
<1>4. CASE Submits(SubmitAdd(ui), "member")
  <2>1. Idle(ui, SubmitAdd(ui)) \/ Wrote("member", ui, SubmitAdd(ui))
    BY <1>0, SubmitAddSteps DEF Wrote
  <2> QED BY <1>4, <2>1, SubmitsKeeps
<1>5. CASE Changes([ui EXCEPT !.form.picker.open = FALSE])
  BY <1>0, <1>5, PickerKeysIdle, ChangesKeeps
<1> QED BY <1>1, <1>2, <1>3, <1>4, <1>5 DEF PickerKeys

LEMMA KeysKeep == IInv /\ TakeKey => IInv' /\ Replacing
  BY CreateKeysKeep, EditKeysKeep, ArchiveKeysKeep, PanelKeysKeep, PickerKeysKeep, CloseFormKeeps DEF TakeKey
-----------------------------------------------------------------------------
(* The command pump and the relay.                                          *)

LEMMA PumpKeeps ==
  ASSUME IInv, UNCHANGED <<ui, displaced, writes>>, relay' \in Relays, settling' \in SUBSET Effects,
         commands' \in Seq(Commands), events' \in Seq(Events), batch' \in {NoWrite} \cup AddCommands,
         done' \in SUBSET Tags, Flow(ui, commands', batch', events', done'),
         Accounts(Founds(relay', settling'), ui, events')
  PROVE  IInv'
<1>1. ui \in Uis /\ ui.out = <<>> /\ displaced \subseteq 1..ui.lifeRequest /\ writes \in 0..MaxWrites
        /\ ui.createRequest + ui.lifeRequest <= writes
  BY DEF IInv, Typed
<1>2. Typed'
  BY <1>1 DEF Typed
<1> QED BY <1>2 DEF IInv

LEMMA Now ==
  ASSUME IInv
  PROVE  /\ ui \in Uis /\ relay \in Relays /\ settling \in SUBSET Effects
         /\ commands \in Seq(Commands) /\ events \in Seq(Events)
         /\ batch \in {NoWrite} \cup AddCommands /\ done \in SUBSET Tags
         /\ Flow(ui, commands, batch, events, done)
         /\ Accounts(Founds(relay, settling), ui, events)
         /\ commands # <<>> => /\ Tail(commands) \in Seq(Commands) /\ Head(commands) \in Commands
  BY Rest DEF IInv, Typed

\* A command that only reads: its answer joins.
LEMMA ReadKeeps ==
  ASSUME IInv, commands # <<>>, commands' = Tail(commands),
         UNCHANGED <<ui, displaced, writes, relay, settling, done, batch>>,
         NEW e \in Events, Answer(e), Flow(ui, Tail(commands), batch, Append(events, e), done)
  PROVE  IInv'
<1>1. events' = Append(events, e) /\ events' \in Seq(Events) /\ Accounts(Founds(relay, settling), ui, events')
  BY Now, Added, AccountsEvent DEF Answer
<1> QED BY <1>1, Now, PumpKeeps

\* A command that writes: its answer joins, and it is done.
LEMMA WriteKeeps ==
  ASSUME IInv, commands' \in Seq(Commands), batch' \in {NoWrite} \cup AddCommands,
         UNCHANGED <<ui, displaced, writes>>, NEW f \in Effects, NEW outcome \in Outcomes,
         Fate(f, outcome) \/ UNCHANGED <<relay, settling>>,
         NEW e \in Events, Answer(e),
         f.kind = "create" => e.kind = "Created" /\ e.id = f.channel /\ e.outcome = outcome,
         done' \in SUBSET Tags, Flow(ui, commands', batch', Append(events, e), done')
  PROVE  IInv'
<1>1. events' = Append(events, e) /\ events' \in Seq(Events) /\ Accounts(Founds(relay, settling), ui, events')
  BY Now, Added, AccountsEvent DEF Answer
<1>2. CASE UNCHANGED <<relay, settling>>
  BY <1>1, <1>2, Now, PumpKeeps
<1>3. CASE Fate(f, outcome)
  <2>1. /\ relay' \in Relays /\ settling' \in SUBSET Effects
        /\ f.kind # "create" \/ outcome = "refused" => Founds(relay', settling') \subseteq Founds(relay, settling)
        /\ Founds(relay', settling') \subseteq Founds(relay, settling) \cup {f.channel}
    BY <1>3, Now, FateSteps
  <2>2. CASE f.kind # "create" \/ outcome = "refused"
    <3>1. Accounts(Founds(relay', settling'), ui, events')
      BY <1>1, <2>1, <2>2, AccountsLess
    <3> QED BY <1>1, <2>1, <3>1, PumpKeeps
  <2>3. CASE f.kind = "create" /\ outcome # "refused"
    <3>1. Accounts(Founds(relay, settling) \cup {e.id}, ui, Append(events, e))
      BY <2>3, Now, AccountsCreated
    <3>2. Accounts(Founds(relay', settling'), ui, events')
      BY <1>1, <2>1, <2>3, <3>1, AccountsLess
    <3> QED BY <1>1, <2>1, <3>2, PumpKeeps
  <2> QED BY <2>2, <2>3
<1> QED BY <1>2, <1>3

LEMMA LoadChannelsKeeps ==
  ASSUME IInv, commands # <<>>, commands' = Tail(commands), UNCHANGED <<ui, displaced, writes, batch>>,
         Head(commands).kind = "LoadChannels", LoadChannels
  PROVE  IInv'
<1>1. \A described \in BOOLEAN : RosterOf(relay, described) \in Described
  BY Now, RosterTyped
<1>2. PICK e \in Events : Answer(e) /\ e.kind \in {"Channels", "Status"} /\ Fresh(e, done)
  <2>1. \A complete \in BOOLEAN :
          LET e == [kind |-> "Channels", roster |-> RosterOf(relay, complete), complete |-> complete, after |-> done]
          IN  e \in Events /\ e.kind = "Channels" /\ Fresh(e, done)
    BY <1>1, Now DEF Events, Fresh
  <2>2. LET e == [kind |-> "Status"] IN e \in Events /\ e.kind = "Status" /\ Fresh(e, done)
    BY DEF Events, Fresh
  <2> QED BY <2>1, <2>2 DEF LoadChannels
<1>3. Flow(ui, Tail(commands), batch, Append(events, e), done)
  BY <1>2, Now, FlowRosterLoaded
<1> QED BY <1>2, <1>3, ReadKeeps DEF LoadChannels

LEMMA LoadMembersKeeps ==
  ASSUME IInv, commands # <<>>, commands' = Tail(commands), UNCHANGED <<ui, displaced, writes, batch>>,
         Head(commands).kind = "LoadMembers", LoadMembers(Head(commands))
  PROVE  IInv'
<1> DEFINE c == Head(commands)
           rows == [p \in People |-> IF p \in Members(relay, c.channel) THEN relay[c.channel].role[p] ELSE None]
           bare == [p \in People |-> IF rows[p] = None THEN None ELSE "member"]
           answer(ok, complete, r) ==
             [kind |-> "Members", channel |-> c.channel, request |-> c.request,
              ok |-> ok, complete |-> complete, rows |-> r, after |-> done]
<1>1. c.channel \in Channels /\ c.request \in Nat
  BY Now, CommandKinds
<1>2. rows \in [People -> Given] /\ bare \in [People -> Given]
  <2>1. relay[c.channel].role \in [People -> Given]
    BY <1>1, Now DEF Relays
  <2>2. \A p \in People : rows[p] \in Given
    BY <2>1 DEF Given
  <2>3. \A p \in People : bare[p] \in Given
    BY DEF Given, Roles
  <2> QED BY <2>2, <2>3
<1>3. \A ok, complete \in BOOLEAN, r \in [People -> Given] :
        LET e == answer(ok, complete, r)
        IN  /\ e \in Events /\ e.kind = "Members" /\ FreshRead(e, done)
            /\ e.request = c.request /\ e.channel = c.channel
  BY <1>1, Now DEF Events, FreshRead
<1>4. \E ok, complete \in BOOLEAN, r \in [People -> Given] : Answer(answer(ok, complete, r))
  <2>1. \/ Answer(answer(TRUE, TRUE, rows)) \/ Answer(answer(TRUE, FALSE, bare))
        \/ Answer(answer(FALSE, FALSE, rows))
    BY DEF LoadMembers
  <2> HIDE DEF rows, bare, answer
  <2> QED BY <1>2, <2>1
<1>5. PICK e \in Events : /\ Answer(e) /\ e.kind = "Members" /\ FreshRead(e, done)
                          /\ e.request = c.request /\ e.channel = c.channel
  <2> HIDE DEF rows, bare, answer, c
  <2> QED BY <1>3, <1>4
<1>6. Flow(ui, Tail(commands), batch, Append(events, e), done)
  BY <1>5, Now, FlowPanelLoaded
<1>7. UNCHANGED <<relay, settling, done>>
  BY DEF LoadMembers
<1> QED BY <1>5, <1>6, <1>7, ReadKeeps

LEMMA SearchKeeps ==
  ASSUME IInv, commands # <<>>, commands' = Tail(commands), UNCHANGED <<ui, displaced, writes, batch>>,
         Head(commands).kind = "MemberCandidates", SearchProfiles(Head(commands))
  PROVE  IInv'
<1> DEFINE c == Head(commands)
<1>1. c.channel \in Channels /\ c.request \in Nat /\ c.who \in People
  BY Now, CommandKinds
<1>2. PICK e \in Events : /\ Answer(e) /\ e.kind = "Candidates"
                          /\ e.request = c.request /\ e.channel = c.channel
  <2>1. \A ok \in BOOLEAN :
          LET e == [kind |-> "Candidates", channel |-> c.channel, request |-> c.request, who |-> c.who, ok |-> ok]
          IN  e \in Events /\ e.kind = "Candidates" /\ e.request = c.request /\ e.channel = c.channel
    BY <1>1 DEF Events
  <2> QED BY <2>1 DEF SearchProfiles
<1>3. FreshRead(e, done)
  BY <1>2 DEF FreshRead
<1>4. Flow(ui, Tail(commands), batch, Append(events, e), done)
  BY <1>2, <1>3, Now, FlowPanelLoaded
<1> QED BY <1>2, <1>4, ReadKeeps DEF SearchProfiles

LEMMA CreateChannelKeeps ==
  ASSUME IInv, commands # <<>>, commands' = Tail(commands), UNCHANGED <<ui, displaced, writes, batch>>,
         Head(commands).kind = "Create", CreateChannel(Head(commands))
  PROVE  IInv'
<1> DEFINE c == Head(commands)
<1>1. c.request \in Nat
  BY Now, CommandKinds DEF CreateCommands
<1>2. PICK id \in NewIds, outcome \in Outcomes :
        /\ Fate(Effect("create", id, Me, AnyLabel), outcome)
        /\ done' = done \cup {<<"create", c.request>>}
        /\ Answer([kind |-> "Created", request |-> c.request, id |-> id, outcome |-> outcome])
  BY DEF CreateChannel
<1> DEFINE f == Effect("create", id, Me, AnyLabel)
           e == [kind |-> "Created", request |-> c.request, id |-> id, outcome |-> outcome]
<1>3. f \in Effects /\ f.kind = "create" /\ f.channel = id
  BY AnyLabelIs DEF Effects, Effect
<1>4. e \in Events /\ e.kind = "Created" /\ e.request = c.request /\ e.id = id /\ e.outcome = outcome
  BY <1>1 DEF Events, Results, Outcomes
<1>5. done' \in SUBSET Tags
  BY <1>1, <1>2, Now DEF Tags
<1>6. Fate(f, outcome) /\ Answer(e) /\ done' = done \cup {<<"create", c.request>>}
  BY <1>2
<1> HIDE DEF f, e
<1>7. Flow(ui, Tail(commands), batch, Append(events, e), done')
  BY <1>4, <1>6, Now, FlowCreated
<1> QED BY <1>3, <1>4, <1>5, <1>6, <1>7, Now, WriteKeeps

LEMMA WriteChannelKeeps ==
  ASSUME IInv, commands # <<>>, commands' = Tail(commands), UNCHANGED <<ui, displaced, writes, batch>>,
         Head(commands).kind \in {"Edit", "SetArchived"}, WriteChannel(Head(commands))
  PROVE  IInv'
<1> DEFINE c == Head(commands)
           f == IF c.kind = "Edit" THEN Effect("label", c.channel, Me, c.label)
                                   ELSE Effect("archive", c.channel, Me, c.archived)
           slot == IF c.kind = "Edit" THEN "edit" ELSE "archive"
<1>1. c.request \in Nat /\ c.channel \in Channels /\ (c.kind = "Edit" => c.label \in Labels)
        /\ (c.kind = "SetArchived" => c.archived \in BOOLEAN)
  BY Now, CommandKinds DEF EditCommands, ArchiveCommands
<1>2. PICK outcome \in Outcomes :
        /\ Fate(f, outcome)
        /\ done' = done \cup {<<"life", c.request>>}
        /\ Answer([kind |-> "Written", slot |-> slot, request |-> c.request, channel |-> c.channel,
                   outcome |-> outcome])
  BY DEF WriteChannel
<1> DEFINE e == [kind |-> "Written", slot |-> slot, request |-> c.request, channel |-> c.channel,
                 outcome |-> outcome]
<1>3. f \in Effects /\ f.kind # "create"
  <2>1. CASE c.kind = "Edit"
    BY <1>1, <2>1 DEF Effects, Effect
  <2>2. CASE c.kind = "SetArchived"
    BY <1>1, <2>2 DEF Effects, Effect
  <2> QED BY <2>1, <2>2
<1>4. e \in Events /\ e.kind = "Written" /\ e.request = c.request /\ e.channel = c.channel /\ e.slot = slot
  BY <1>1 DEF Events, Results, Outcomes
<1>5. done' \in SUBSET Tags
  BY <1>1, <1>2, Now DEF Tags
<1>6. Fate(f, outcome) /\ Answer(e) /\ done' = done \cup {<<"life", c.request>>}
  BY <1>2
<1> HIDE DEF f, e
<1>7. Flow(ui, Tail(commands), batch, Append(events, e), done')
  BY <1>4, <1>6, Now, FlowEdited, FlowArchived
<1> QED BY <1>3, <1>4, <1>5, <1>6, <1>7, Now, WriteKeeps

\* What one write to one member needs and answers.
LEMMA WriteMemberSteps ==
  ASSUME NEW c, c.channel \in Channels, c.request \in Nat, c.who \in People, c.role \in Given, WriteMember(c)
  PROVE  \E f \in Effects, outcome \in Outcomes, e \in Events :
           /\ Fate(f, outcome) \/ UNCHANGED <<relay, settling>>
           /\ Answer(e) /\ f.kind # "create"
           /\ e.kind = "MemberWrite" /\ e.request = c.request /\ e.channel = c.channel /\ e.who = c.who
<1> DEFINE f == Effect("role", c.channel, c.who, c.role)
           leave == c.op = "leave"
<1>1. PICK outcome \in Outcomes :
        /\ Fate(f, outcome) \/ UNCHANGED <<relay, settling>>
        /\ Answer([kind |-> "MemberWrite", channel |-> c.channel, request |-> c.request,
                   who |-> c.who, leave |-> leave, outcome |-> outcome])
  BY DEF WriteMember
<1> DEFINE e == [kind |-> "MemberWrite", channel |-> c.channel, request |-> c.request,
                 who |-> c.who, leave |-> leave, outcome |-> outcome]
<1>2. f \in Effects /\ f.kind # "create"
  BY DEF Effects, Effect
<1>3. leave \in BOOLEAN
  OBVIOUS
<1> HIDE DEF leave
<1>4. e \in Events /\ e.kind = "MemberWrite" /\ e.request = c.request /\ e.channel = c.channel /\ e.who = c.who
  BY <1>3 DEF Events, Results, Outcomes
<1>5. Answer(e)
  BY <1>1
<1> HIDE DEF f, e
<1> QED BY <1>1, <1>2, <1>4, <1>5

LEMMA MemberWriteKeeps ==
  ASSUME IInv, commands # <<>>, commands' = Tail(commands), UNCHANGED <<ui, displaced, writes, batch>>,
         batch = NoWrite, Head(commands).kind = "MemberWrite", WriteMember(Head(commands)),
         done' = done \cup {<<"life", Head(commands).request>>}
  PROVE  IInv'
<1> DEFINE c == Head(commands)
<1>1. c.channel \in Channels /\ c.request \in Nat /\ c.who \in People /\ c.role \in Given
  BY Now, CommandKinds DEF MemberCommands
<1>2. PICK f \in Effects, outcome \in Outcomes, e \in Events :
           /\ Fate(f, outcome) \/ UNCHANGED <<relay, settling>>
           /\ Answer(e) /\ f.kind # "create"
           /\ e.kind = "MemberWrite" /\ e.request = c.request /\ e.channel = c.channel /\ e.who = c.who
  BY <1>1, WriteMemberSteps
<1>3. done' \in SUBSET Tags
  BY <1>1, Now DEF Tags
<1>4. Flow(ui, Tail(commands), batch, Append(events, e), done')
  BY <1>2, Now, FlowMemberWritten
<1> HIDE DEF NoWrite
<1> QED BY <1>2, <1>3, <1>4, Now, WriteKeeps

LEMMA TakeCommandKeeps == IInv /\ TakeCommand => IInv'
<1> SUFFICES ASSUME IInv, TakeCommand PROVE IInv'
  OBVIOUS
<1> DEFINE c == Head(commands)
<1>1. /\ commands # <<>> /\ batch = NoWrite /\ commands' = Tail(commands)
      /\ UNCHANGED <<ui, displaced, writes>> /\ c \in Commands
  BY Now DEF TakeCommand
<1>2. CASE c.kind = "LoadChannels"
  BY <1>1, <1>2, LoadChannelsKeeps DEF TakeCommand
<1>3. CASE c.kind = "Create"
  BY <1>1, <1>3, CreateChannelKeeps DEF TakeCommand
<1>4. CASE c.kind \in {"Edit", "SetArchived"}
  BY <1>1, <1>4, WriteChannelKeeps DEF TakeCommand
<1>5. CASE c.kind = "LoadMembers"
  BY <1>1, <1>5, LoadMembersKeeps DEF TakeCommand
<1>6. CASE c.kind = "MemberCandidates"
  BY <1>1, <1>6, SearchKeeps DEF TakeCommand
<1>7. CASE c.kind = "MemberWrite"
  BY <1>1, <1>7, MemberWriteKeeps DEF TakeCommand
<1>8. CASE c.kind = "AddMembers"
  <2>1. batch' = c /\ UNCHANGED <<relay, settling, events, done>>
    BY <1>8 DEF TakeCommand
  <2>2. Flow(ui, Tail(commands), c, events, done)
    BY <1>1, <1>8, Now, FlowBegun
  <2>3. c \in AddCommands
    BY <1>1, <1>8, CommandKinds
  <2> QED BY <1>1, <2>1, <2>2, <2>3, Now, PumpKeeps
<1> QED BY <1>1, <1>2, <1>3, <1>4, <1>5, <1>6, <1>7, <1>8, CommandKinds
-----------------------------------------------------------------------------

LEMMA BatchRest ==
  ASSUME NEW b \in AddCommands, Len(b.targets) # 1
  PROVE  [b EXCEPT !.targets = Tail(@)] \in AddCommands
<1>1. b.targets \in Seq(People) /\ b.targets # <<>> /\ IsInjective(b.targets)
  BY DEF AddCommands, Batches
<1>2. Tail(b.targets) \in Seq(People) /\ Tail(b.targets) # <<>>
  <2>1. ASSUME NEW t \in Seq(People), t # <<>>, Len(t) # 1
        PROVE  Tail(t) \in Seq(People) /\ Tail(t) # <<>>
    <3>1. Len(t) \in Nat /\ Len(t) # 0 /\ Len(Tail(t)) = Len(t) - 1 /\ Tail(t) \in Seq(People)
      BY <2>1
    <3>2. Len(Tail(t)) # 0
      BY <2>1, <3>1
    <3>3. Len(<<>>) = 0
      OBVIOUS
    <3> QED BY <3>1, <3>2, <3>3
  <2> QED BY <1>1, <2>1
<1>3. IsInjective(Tail(b.targets))
  <2> DEFINE t == b.targets
  <2>1. t \in Seq(People) /\ t # <<>> /\ \A i, j \in DOMAIN t : t[i] = t[j] => i = j
    BY <1>1 DEF IsInjective
  <2> HIDE DEF t
  <2>2. \A i \in DOMAIN Tail(t) : i \in Nat /\ i + 1 \in DOMAIN t /\ Tail(t)[i] = t[i + 1]
    BY <2>1, Rest
  <2>3. \A i, j \in Nat : i + 1 = j + 1 => i = j
    OBVIOUS
  <2>4. \A i, j \in DOMAIN Tail(t) : Tail(t)[i] = Tail(t)[j] => i = j
    BY <2>1, <2>2, <2>3
  <2> QED BY <2>4 DEF IsInjective, t
<1>4. Tail(b.targets) \in Batches
  BY <1>2, <1>3 DEF Batches
<1> QED BY <1>4 DEF AddCommands

LEMMA BatchTurnKeeps == IInv /\ BatchTurn => IInv'
<1> SUFFICES ASSUME IInv, BatchTurn PROVE IInv'
  OBVIOUS
<1> DEFINE c == [channel |-> batch.channel, request |-> batch.request, op |-> "add",
                 who |-> Head(batch.targets), role |-> batch.role]
<1>1. /\ batch # NoWrite /\ batch \in AddCommands /\ WriteMember(c)
      /\ UNCHANGED <<ui, displaced, writes, commands>>
  BY Now DEF BatchTurn
<1>2. batch.channel \in Channels /\ batch.request \in Nat /\ batch.role \in Given
        /\ batch.targets \in Seq(People) /\ batch.targets # <<>>
  BY <1>1 DEF AddCommands, Batches
<1>3. Head(batch.targets) \in People
  BY <1>2
<1>4. c.channel = batch.channel /\ c.request = batch.request /\ c.who = Head(batch.targets) /\ c.role = batch.role
  OBVIOUS
<1> HIDE DEF c
<1>5. PICK f \in Effects, outcome \in Outcomes, e \in Events :
           /\ Fate(f, outcome) \/ UNCHANGED <<relay, settling>>
           /\ Answer(e) /\ f.kind # "create"
           /\ e.kind = "MemberWrite" /\ e.request = c.request /\ e.channel = c.channel /\ e.who = c.who
  BY <1>1, <1>2, <1>3, <1>4, WriteMemberSteps
<1>6. CASE Len(batch.targets) = 1
  <2>1. batch' = NoWrite /\ done' = done \cup {<<"life", batch.request>>}
    BY <1>6 DEF BatchTurn
  <2>2. done' \in SUBSET Tags
    BY <1>2, <2>1, Now DEF Tags
  <2>3. Flow(ui, commands, NoWrite, Append(events, e), done')
    BY <1>1, <1>4, <1>5, <1>6, <2>1, Now, FlowTurn
  <2> HIDE DEF NoWrite
  <2> QED BY <1>1, <1>5, <2>1, <2>2, <2>3, Now, WriteKeeps
<1>7. CASE Len(batch.targets) # 1
  <2> DEFINE d == [batch EXCEPT !.targets = Tail(@)]
  <2>1. batch' = d /\ done' = done
    BY <1>7 DEF BatchTurn
  <2>2. d \in AddCommands
    BY <1>1, <1>7, BatchRest
  <2>3. d.request = batch.request /\ d.channel = batch.channel /\ d.targets = Tail(batch.targets)
    BY <1>1 DEF AddCommands
  <2>4. d # NoWrite
    BY <2>2 DEF AddCommands, NoWrite
  <2> HIDE DEF d, NoWrite
  <2>5. Flow(ui, commands, d, Append(events, e), done)
    BY <1>1, <1>4, <1>5, <1>7, <2>3, <2>4, Now, FlowTurn
  <2> QED BY <1>1, <1>5, <2>1, <2>2, <2>5, Now, WriteKeeps
<1> QED BY <1>6, <1>7

LEMMA SettlesKeeps == IInv /\ Settles => IInv'
<1> SUFFICES ASSUME IInv, Settles PROVE IInv'
  OBVIOUS
<1>1. PICK e \in settling : settling' = settling \ {e} /\ relay' = Applied(relay, e)
  BY DEF Settles
<1>2. UNCHANGED <<ui, commands, batch, events, done, displaced, writes>>
  BY DEF Settles, ghosts, counters
<1>3. e \in Effects
  BY Now
<1>4. relay' \in Relays /\ settling' \in SUBSET Effects /\ Founds(relay', settling') \subseteq Founds(relay, settling)
  BY <1>1, <1>3, Now, AppliedTyped, FoundsApplied
<1>5. Accounts(Founds(relay', settling'), ui, events')
  BY <1>2, <1>4, Now, AccountsLess
<1> QED BY <1>2, <1>4, <1>5, Now, PumpKeeps

LEMMA ElsewhereKeeps == IInv /\ Elsewhere => IInv'
<1> SUFFICES ASSUME IInv, Elsewhere PROVE IInv'
  OBVIOUS
<1>1. UNCHANGED <<settling, ui, commands, batch, done, displaced, writes>>
  BY DEF Elsewhere, ghosts
<1>2. PICK c \in Channels :
         \/ /\ \E l \in Labels, b \in BOOLEAN, p \in People, role \in Roles \cup {None} :
                  relay' \in {Applied(relay, Effect("label", c, Me, l)),
                              Applied(relay, Effect("archive", c, Me, b)),
                              Applied(relay, Effect("role", c, p, role))}
            /\ UNCHANGED events
         \/ /\ relay' = Applied(relay, Effect("role", c, Me, None))
            /\ events' = Append(events, [kind |-> "Gone", channel |-> c])
  BY DEF Elsewhere
<1>3. \A l \in Labels, b \in BOOLEAN, p \in People, role \in Roles \cup {None} :
        /\ Effect("label", c, Me, l) \in Effects /\ Effect("label", c, Me, l).kind # "create"
        /\ Effect("archive", c, Me, b) \in Effects /\ Effect("archive", c, Me, b).kind # "create"
        /\ Effect("role", c, p, role) \in Effects /\ Effect("role", c, p, role).kind # "create"
  BY DEF Effects, Effect, Given
<1>4. Me \in People /\ None \in Roles \cup {None}
  BY DEF People
<1>5. \E f \in Effects : relay' = Applied(relay, f) /\ f.kind # "create"
  <2>1. ASSUME NEW l \in Labels, NEW b \in BOOLEAN, NEW p \in People, NEW role \in Roles \cup {None},
               relay' \in {Applied(relay, Effect("label", c, Me, l)),
                          Applied(relay, Effect("archive", c, Me, b)),
                          Applied(relay, Effect("role", c, p, role))}
        PROVE  \E f \in Effects : relay' = Applied(relay, f) /\ f.kind # "create"
    BY <1>3, <2>1
  <2>2. ASSUME relay' = Applied(relay, Effect("role", c, Me, None))
        PROVE  \E f \in Effects : relay' = Applied(relay, f) /\ f.kind # "create"
    <3>1. Effect("role", c, Me, None) \in Effects /\ Effect("role", c, Me, None).kind # "create"
      BY <1>4 DEF Effects, Effect, Given
    <3> QED BY <2>2, <3>1
  <2> QED BY <1>2, <2>1, <2>2
<1>6. relay' \in Relays /\ Founds(relay', settling') \subseteq Founds(relay, settling)
  BY <1>1, <1>5, Now, AppliedTyped, FoundsApplied
<1>7. CASE UNCHANGED events
  <2>1. Accounts(Founds(relay', settling'), ui, events')
    BY <1>6, <1>7, Now, AccountsLess
  <2> QED BY <1>1, <1>6, <1>7, <2>1, Now, PumpKeeps
<1>8. CASE events' = Append(events, [kind |-> "Gone", channel |-> c])
  <2> DEFINE e == [kind |-> "Gone", channel |-> c]
  <2>1. e \in Events /\ e.kind = "Gone" /\ events' = Append(events, e)
    BY <1>8 DEF Events
  <2> HIDE DEF e
  <2>2. events' \in Seq(Events) /\ Flow(ui, commands, batch, events', done)
    BY <2>1, Now, FlowGone, Added
  <2>3. Accounts(Founds(relay', settling'), ui, events')
    BY <1>6, <2>1, Now, AccountsLess, AccountsEvent
  <2> QED BY <1>1, <1>6, <2>2, <2>3, Now, PumpKeeps
<1> QED BY <1>2, <1>7, <1>8

LEMMA StillKeeps == IInv /\ UNCHANGED vars => IInv'
<1> SUFFICES ASSUME IInv, UNCHANGED vars PROVE IInv'
  OBVIOUS
<1>1. UNCHANGED <<relay, settling, ui, commands, batch, events, done, displaced, writes>>
  BY DEF vars, ghosts, counters
<1> QED BY <1>1, Now, PumpKeeps

LEMMA NextKeeps == IInv /\ [Next]_vars => IInv'
  BY KeysKeep, EventKeeps, TakeCommandKeeps, BatchTurnKeeps, SettlesKeeps, ElsewhereKeeps, StillKeeps DEF Next
-----------------------------------------------------------------------------
(* What the invariant says.                                                 *)

LEMMA RequestsBounded ==
  ASSUME IInv
  PROVE  /\ \A n \in 1..ui.lifeRequest : n \in Requests /\ n \in 1..MaxWrites
         /\ \A n \in 1..ui.createRequest : n \in Requests
<1>1. /\ ui.createRequest + ui.lifeRequest <= writes /\ writes \in Nat /\ writes <= MaxWrites /\ MaxWrites \in Nat
      /\ ui.createRequest \in Nat /\ ui.lifeRequest \in Nat
  BY BoundsAssumption, Fields DEF IInv, Typed
<1>2. ui.createRequest <= MaxWrites /\ ui.lifeRequest <= MaxWrites
  BY <1>1
<1>3. \A m, n, k \in Nat : m <= k /\ n \in 1..m => n \in 0..k /\ n \in 1..k
  OBVIOUS
<1>4. \A m \in Nat : \A n \in 1..m : n \in Nat
  OBVIOUS
<1> QED BY <1>1, <1>2, <1>3, <1>4 DEF Requests

LEMMA TypesHold == IInv => TypeOK
<1> SUFFICES ASSUME IInv PROVE TypeOK
  OBVIOUS
<1>1. /\ ui \in Uis /\ relay \in Relays /\ settling \subseteq Effects /\ ui.out = <<>>
      /\ displaced \subseteq 1..ui.lifeRequest
  BY DEF IInv, Typed
<1>2. relay \in [Channels -> [there : BOOLEAN, archived : BOOLEAN, label : Labels,
                               role : [People -> Roles \cup {None}]]]
  BY <1>1 DEF Relays, Given
<1>3. ui.roster \in Rosters
  BY <1>1, Fields DEF Described
<1>4. ui.create \in Slot([request : Requests, id : NewIds \cup {None},
                           known : SUBSET Channels, state : States])
  <2>1. CASE IsOpen(ui.create)
    <3>1. ui.create.request \in Requests
      BY <2>1, OpenRequests, RequestsBounded
    <3>2. ui.create \in [request : Nat, id : NewIds \cup {None}, known : SUBSET Channels, state : States]
      BY <1>1, <2>1, Slots
    <3> QED BY <3>1, <3>2 DEF Slot
  <2>2. CASE ~IsOpen(ui.create)
    <3>1. ui.create \in Creates
      BY <1>1, Fields
    <3>2. 0 \in Requests
      BY BoundsAssumption DEF Requests
    <3> HIDE DEF Requests
    <3> QED BY <2>2, <3>1, <3>2 DEF Slot, Creates, IsOpen
  <2> QED BY <2>1, <2>2
<1>5. ui.edit \in Slot([request : Requests, channel : Channels, label : Labels, state : States])
  <2>1. CASE IsOpen(ui.edit)
    <3>1. ui.edit.request \in Requests
      BY <2>1, OpenRequests, RequestsBounded
    <3>2. ui.edit \in [request : Nat, channel : Channels, label : Labels, state : States]
      BY <1>1, <2>1, Slots
    <3> QED BY <3>1, <3>2 DEF Slot
  <2>2. CASE ~IsOpen(ui.edit)
    <3>1. ui.edit \in Edits
      BY <1>1, Fields
    <3>2. 0 \in Requests
      BY BoundsAssumption DEF Requests
    <3> HIDE DEF Requests
    <3> QED BY <2>2, <3>1, <3>2 DEF Slot, Edits, IsOpen
  <2> QED BY <2>1, <2>2
<1>6. ui.archive \in Slot([request : Requests, channel : Channels, archived : BOOLEAN, state : States])
  <2>1. CASE IsOpen(ui.archive)
    <3>1. ui.archive.request \in Requests
      BY <2>1, OpenRequests, RequestsBounded
    <3>2. ui.archive \in [request : Nat, channel : Channels, archived : BOOLEAN, state : States]
      BY <1>1, <2>1, Slots
    <3> QED BY <3>1, <3>2 DEF Slot
  <2>2. CASE ~IsOpen(ui.archive)
    <3>1. ui.archive \in Archives
      BY <1>1, Fields
    <3>2. 0 \in Requests
      BY BoundsAssumption DEF Requests
    <3> HIDE DEF Requests
    <3> QED BY <2>2, <3>1, <3>2 DEF Slot, Archives, IsOpen
  <2> QED BY <2>1, <2>2
<1>7. IsOpen(ui.member) => /\ ui.member.channel \in Channels /\ ui.member.readAfter \in 0 .. ui.memberRead
                           /\ DOMAIN ui.member.results \subseteq DOMAIN ui.member.expected
  <2>1. MemberRecord(ui.member, ui.lifeRequest, ui.memberRead, commands, batch, events, done)
    BY DEF IInv, Flow
  <2>2. IsOpen(ui.member) => ui.member.readAfter <= ui.memberRead
    BY <2>1 DEF MemberRecord
  <2>3. ui.memberRead \in Nat
    BY <1>1, Fields
  <2>4. IsOpen(ui.member) => /\ ui.member.channel \in Channels /\ ui.member.readAfter \in Nat
                             /\ DOMAIN ui.member.results \subseteq DOMAIN ui.member.expected
    BY <1>1, Slots
  <2> QED BY <2>2, <2>3, <2>4
<1>8. ui.pendingOpen \in NewIds \cup {None} /\ ui.told \subseteq NewIds
  BY <1>1, Fields
<1>9. \A e \in settling : e.channel \in Channels
  BY <1>1 DEF Effects, Channels
<1>10. displaced \subseteq 1 .. MaxWrites
  BY <1>1, RequestsBounded
<1> QED BY <1>1, <1>2, <1>3, <1>4, <1>5, <1>6, <1>7, <1>8, <1>9, <1>10 DEF TypeOK

LEMMA WaitsFor == IInv => NothingWaitsInVain
<1> SUFFICES ASSUME IInv PROVE NothingWaitsInVain
  OBVIOUS
<1>1. /\ Recorded("Edit", ui.edit, ui.lifeRequest, commands, events, done)
      /\ Recorded("SetArchived", ui.archive, ui.lifeRequest, commands, events, done)
      /\ MemberRecord(ui.member, ui.lifeRequest, ui.memberRead, commands, batch, events, done)
      /\ Recorded("Create", ui.create, ui.createRequest, commands, events, done)
      /\ PanelReads(ui, commands, events)
  BY DEF IInv, Flow, Changed, Creations
<1>2. IsOpen(ui.create) /\ ui.create.state = "creating" => Coming({"Create", "Created"}, ui.create.request)
  BY <1>1 DEF Recorded, UnderWay, IsWrite, IsAnswer, Coming
<1>3. IsOpen(ui.edit) /\ ui.edit.state = "creating" => Coming({"Edit", "Written"}, ui.edit.request)
  BY <1>1 DEF Recorded, UnderWay, IsWrite, IsAnswer, Coming
<1>4. IsOpen(ui.archive) /\ ui.archive.state = "creating" =>
         Coming({"SetArchived", "Written"}, ui.archive.request)
  BY <1>1 DEF Recorded, UnderWay, IsWrite, IsAnswer, Coming
<1>5. IsOpen(ui.member) => \A p \in DOMAIN ui.member.expected \ DOMAIN ui.member.results :
         ResultComing(ui.member.request, p)
  BY <1>1 DEF MemberRecord, ToCome, ResultComing, MemberKinds, Targets
<1>6. Showing(ui, "members") =>
         /\ ui.form.loading => Coming({"LoadMembers", "Members"}, ui.memberRead)
         /\ ui.form.picker.loading => Coming({"MemberCandidates", "Candidates"}, ui.memberSearch)
  BY <1>1 DEF PanelReads, Reading, Coming
<1> QED BY <1>2, <1>3, <1>4, <1>5, <1>6, TypesHold DEF NothingWaitsInVain

LEMMA Accounted == IInv => CreationAccounted
<1>1. IInv => Accounts(Founds(relay, settling), ui, events)
  BY DEF IInv
<1> QED BY <1>1 DEF Accounts, Founds, CreationAccounted

\* Neither the command pump nor the relay touches a record.
LEMMA PumpReplaces ==
  TakeCommand \/ BatchTurn \/ Settles \/ Elsewhere \/ UNCHANGED vars => Replacing
<1>1. TakeCommand \/ BatchTurn \/ Settles \/ Elsewhere \/ UNCHANGED vars => UNCHANGED ui
  BY DEF TakeCommand, BatchTurn, Settles, Elsewhere, vars
<1> QED BY <1>1 DEF Replacing

LEMMA EventSettles ==
  ASSUME IInv, TakeEvent
  PROVE  /\ events # <<>> /\ events' = Tail(events) /\ SettledBy(ui, ui', Head(events))
<1> DEFINE v == ApplyEvent(ui, Head(events))
<1>1. /\ ui \in Uis /\ ui.out = <<>> /\ commands \in Seq(Commands) /\ events \in Seq(Events) /\ events # <<>>
      /\ events' = Tail(events) /\ Show(v)
  BY DEF IInv, Typed, TakeEvent
<1>2. Founds(relay, settling) \in SUBSET NewIds
  BY DEF Founds
<1>3. Absorbed(ui, v, commands, batch, events, done, Founds(relay, settling))
  BY <1>1, <1>2, AbsorbedEvent DEF IInv
<1> HIDE DEF v
<1>4. ui' = Sent(v) /\ Kept(v, Sent(v))
  BY <1>1, <1>3, SentFields DEF Absorbed, Show, Sent
<1>5. SettledBy(ui, v, Head(events))
  BY <1>3 DEF Absorbed
<1> QED BY <1>1, <1>4, <1>5 DEF SettledBy, Kept

LEMMA Settling == IInv /\ [Next]_vars => SettledStep
<1> SUFFICES ASSUME IInv, [Next]_vars PROVE SettledStep
  OBVIOUS
<1>1. CASE Replacing
  BY <1>1 DEF Replacing, SettledStep
<1>2. CASE TakeEvent
  BY <1>2, EventSettles DEF SettledBy, SettledStep, ReadAfter
<1> QED BY <1>1, <1>2, KeysKeep, PumpReplaces DEF Next
-----------------------------------------------------------------------------
(* The theorems.                                                            *)

\* The records of unsettled writes, the forms, the commands and the answers agree at
\* every moment: each write is queued, being run, answered, or kept in a record that
\* says how it stands (app.rs, CreateWrite, EditWrite, ArchiveWrite, MemberWrite).
THEOREM Invariant == Spec => []IInv
<1>1. Init => IInv
  BY InitIInv
<1>2. IInv /\ [Next]_vars => IInv'
  BY NextKeeps
<1> QED BY <1>1, <1>2, PTL DEF Spec

\* What the interface shows as under way has its answer under way, however keys,
\* answers, losses and other administrators' changes interleave: no form says
\* "creating" and no panel "loading" for ever (app.rs, pending_write_summary).
THEOREM NothingWaits == Spec => []NothingWaitsInVain
<1>1. Spec => []IInv
  BY Invariant
<1>2. IInv => NothingWaitsInVain
  BY WaitsFor
<1> QED BY <1>1, <1>2, PTL

\* Every channel a creation of this session brought about was told to the user, or
\* its creation is still open and refuses another one, or its answer is on its way
\* (app.rs, resolve_create_refresh).
THEOREM CreationsAccounted == Spec => []CreationAccounted
<1>1. Spec => []IInv
  BY Invariant
<1>2. IInv => CreationAccounted
  BY Accounted
<1> QED BY <1>1, <1>2, PTL

\* A write that was answered without a confirmation is settled only by a complete
\* read made after it was executed, unless another channel's write replaces its
\* record or the channel is gone (app.rs, resolve_lifecycle_refresh,
\* apply_members_read).
THEOREM SettledByReads == Spec => SettledByLaterRead
<1>1. Spec => []IInv
  BY Invariant
<1>2. IInv /\ [Next]_vars => [SettledStep]_vars
  BY Settling
<1> QED BY <1>1, <1>2, PTL DEF Spec, SettledByLaterRead
=============================================================================
