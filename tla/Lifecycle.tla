----------------------------- MODULE Lifecycle -----------------------------
(* Channel administration: creating, editing and archiving a channel and    *)
(* managing its members (app.rs, session.rs, client.rs).                    *)
(*                                                                          *)
(* `ui` holds the fields of App these forms use: the roster, one record per *)
(* kind of write that is not settled, the form on screen. Every handler is  *)
(* an operator from such a record to the next one; the commands it pushes   *)
(* collect in u.out and join the command queue at the end of the step. The  *)
(* command pump executes one command at a time and answers in order. The    *)
(* relay may answer before what it accepted can be read (`settling`), and   *)
(* an answer may be lost whether the write was accepted or not.             *)
EXTENDS Naturals, Sequences, FiniteSets, SequencesExt

CONSTANTS
    Existing,       \* channels there from the start, this identity their owner
    NewIds,         \* ids a creation may choose
    Me, Others,     \* this identity and other people
    Labels,         \* what an edit sets: name, description and visibility
    MaxWrites,      \* bound: writes submitted
    MaxReads,       \* bound: rosters, members and candidates asked for
    MaxFaults,      \* bound: refused or unanswered requests, partial answers
    MaxElsewhere,   \* bound: changes by other administrators, channels lost
    MaxEvents       \* bound: all of these together

Channels == Existing \cup NewIds
People   == {Me} \cup Others
None     == "none"
Roles    == {"owner", "member"}     \* of the others, admin and guest differ only in what they may press

ASSUME IdsAssumption == /\ Existing \cap NewIds = {} /\ None \notin NewIds
                        /\ Me \notin Others /\ IsFiniteSet(Others) /\ Labels # {}
ASSUME BoundsAssumption ==
    /\ MaxWrites \in Nat /\ MaxReads \in Nat
    /\ MaxFaults \in Nat /\ MaxElsewhere \in Nat /\ MaxEvents \in Nat

VARIABLES
    relay,      \* per channel what the relay's queries return
    settling,   \* accepted effects its queries do not return yet
    ui,         \* App
    commands,   \* from the interface to the command pump
    batch,      \* member_batch, the batch of added members under way
    events,     \* from the command pump to the interface
    done,       \* ghost: the requests of the writes executed so far
    displaced,  \* ghost: requests whose record another channel's write replaced
    writes, reads, faults, elsewhere    \* counters for the bounds

ghosts   == <<done, displaced>>
counters == <<writes, reads, faults, elsewhere>>
Room     == writes + reads + faults + elsewhere < MaxEvents
vars     == <<relay, settling, ui, commands, batch, events, ghosts, counters>>
-----------------------------------------------------------------------------
(* The relay. An effect is what one accepted write changes.                 *)

Effect(kind, c, who, value) == [kind |-> kind, channel |-> c, who |-> who, value |-> value]

Applied(r, e) ==
    CASE e.kind = "create"  -> [r EXCEPT ![e.channel] =
                                  [there |-> TRUE, archived |-> FALSE, label |-> e.value,
                                   role |-> [p \in People |-> IF p = Me THEN "owner" ELSE None]]]
      [] e.kind = "label"   -> [r EXCEPT ![e.channel].label = e.value]
      [] e.kind = "archive" -> [r EXCEPT ![e.channel].archived = e.value]
      [] e.kind = "role"    -> [r EXCEPT ![e.channel].role[e.who] = e.value]

Members(r, c) == {p \in People : r[c].there /\ r[c].role[p] # None}
Owners(r, c)  == {p \in Members(r, c) : r[c].role[p] = "owner"}

\* Client::channels: the rows of the channels this identity is a member of. A
\* channel whose description did not arrive is of unknown kind, and neither
\* archived nor restored can be told of it.
Row(r, c, described) ==
    [described |-> described, mine |-> r[c].role[Me],
     archived  |-> described /\ r[c].archived,
     label     |-> IF described THEN r[c].label ELSE None]
NotListed == [described |-> FALSE, mine |-> None, archived |-> FALSE, label |-> None]
RosterOf(r, described) ==
    [c \in Channels |-> IF Me \in Members(r, c) THEN Row(r, c, described) ELSE NotListed]
-----------------------------------------------------------------------------
(* The interface: what its forms ask of the roster and the open writes.     *)

NoWrite == [request |-> 0]
NoForm  == [kind |-> None]
NoConfirm == [op |-> None, who |-> None, role |-> None, warned |-> FALSE]
NoPicker  == [open |-> FALSE, selected |-> {}, role |-> None, candidates |-> {}, loading |-> FALSE]

Push(u, c)   == [u EXCEPT !.out = Append(@, c)]
Listed(u, c) == u.roster[c] # NotListed
Known(u)     == {c \in Channels : Listed(u, c)}
IsOpen(w)    == w.request # 0
Holds(w, c)  == IsOpen(w) /\ w.channel = c
Showing(u, kind) == u.form.kind = kind

\* administrative
Administrative(u, c) == Listed(u, c) /\ ~u.roster[c].archived /\ u.roster[c].mine = "owner"

\* channel_write_locked: the channel named in one of the three records.
Locked(u, c) == Holds(u.edit, c) \/ Holds(u.archive, c) \/ Holds(u.member, c)

\* CreateChannelForm::ready, EditChannelForm::ready
Ready(state) == state \in {"editing", "failed"}
SetState(u, kind, state) ==
    IF Showing(u, kind) THEN [u EXCEPT !.form.state = state] ELSE u
Close(u, kind) == IF Showing(u, kind) THEN [u EXCEPT !.form = NoForm] ELSE u
Ask(u) == Push(u, [kind |-> "LoadChannels"])

\* A record another channel's write takes the place of.
Replaced(u, slot, c) ==
    IF IsOpen(u[slot]) /\ u[slot].channel # c THEN {u[slot].request} ELSE {}
-----------------------------------------------------------------------------
(* Creation.                                                                *)

\* open_create_channel: an open write is shown rather than a blank form.
OpenCreate(u) ==
    [u EXCEPT !.form = [kind |-> "create",
                        state |-> IF IsOpen(u.create) THEN u.create.state ELSE "editing"]]

\* create_channel_submit; a draft the builder refuses fails in place.
SubmitCreate(u, valid) ==
    IF IsOpen(u.create) \/ ~Ready(u.form.state) THEN u
    ELSE IF ~valid THEN SetState(u, "create", "failed")
    ELSE LET n == u.createRequest + 1
         IN  Push([SetState(u, "create", "creating") EXCEPT
                     !.createRequest = n,
                     !.create = [request |-> n, id |-> None, known |-> Known(u), state |-> "creating"]],
                  [kind |-> "Create", request |-> n])

\* refresh_create_channel
RefreshCreate(u) ==
    IF IsOpen(u.create) THEN Ask([u EXCEPT !.createRefresh = TRUE]) ELSE u

\* open_confirmed_channel, once the roster knows it.
OpenConfirmed(u) ==
    IF u.pendingOpen \in Known(u) THEN [u EXCEPT !.pendingOpen = None] ELSE u

\* Mutant: an absent row is taken for a rejection.
ResolveCreateHasty(u) ==
    IF ~u.createRefresh \/ ~IsOpen(u.create) \/ u.create.id = None \/ ~u.complete
      THEN [u EXCEPT !.createRefresh = FALSE]
    ELSE [Close(u, "create") EXCEPT !.createRefresh = FALSE, !.create = NoWrite]

\* resolve_create_refresh: only a row the write could have added confirms it; an
\* absent one proves nothing.
ResolveCreate(u) ==
    LET v == [u EXCEPT !.createRefresh = FALSE]
        found == u.create.id \in Known(u) \ u.create.known
    IN  IF ~u.createRefresh \/ ~IsOpen(u.create) \/ u.create.id = None \/ ~u.complete THEN v
        ELSE IF ~found THEN v
        ELSE OpenConfirmed([Close(v, "create") EXCEPT
               !.create = NoWrite, !.pendingOpen = u.create.id, !.told = @ \cup {u.create.id}])

\* apply_channel_created
ApplyCreated(u, e) ==
    IF u.create.request # e.request THEN u
    ELSE CASE e.outcome = "stored" ->
                OpenConfirmed(Ask([Close(u, "create") EXCEPT
                  !.create = NoWrite, !.pendingOpen = e.id, !.told = @ \cup {e.id}]))
           [] e.outcome = "unknown" ->
                [SetState(u, "create", "unknown") EXCEPT
                  !.create.id = e.id, !.create.state = "unknown"]
           [] e.outcome = "refused" ->
                [SetState(u, "create", "failed") EXCEPT !.create = NoWrite]
-----------------------------------------------------------------------------
(* Metadata and archive.                                                    *)

NextRequest(u) == u.lifeRequest + 1

\* open_edit_channel
OpenEdit(u, c) ==
    LET w == u.edit
    IN  IF ~(Listed(u, c) /\ (Administrative(u, c) \/ Holds(w, c)) /\ u.roster[c].described) THEN u
        ELSE [u EXCEPT !.form =
               [kind |-> "edit", channel |-> c,
                label |-> IF Holds(w, c) THEN w.label ELSE u.roster[c].label,
                state |-> IF Holds(w, c) THEN w.state ELSE "editing"]]

\* edit_channel_submit
SubmitEdit(u) ==
    LET c == u.form.channel  n == NextRequest(u)
    IN  IF ~Ready(u.form.state) \/ Locked(u, c) \/ ~Administrative(u, c) THEN u
        ELSE Push([SetState(u, "edit", "creating") EXCEPT
                     !.lifeRequest = n,
                     !.edit = [request |-> n, channel |-> c, label |-> u.form.label, state |-> "creating"]],
                  [kind |-> "Edit", channel |-> c, label |-> u.form.label, request |-> n])

\* refresh_edit_channel, refresh_archive
RefreshEdit(u)    == IF IsOpen(u.edit) THEN Ask([u EXCEPT !.editRefresh = TRUE]) ELSE u
RefreshArchive(u) == IF IsOpen(u.archive) THEN Ask([u EXCEPT !.archiveRefresh = TRUE]) ELSE u

MayArchive(u, c, archived) ==
    /\ Listed(u, c) /\ u.roster[c].described
    /\ u.roster[c].archived # archived /\ u.roster[c].mine = "owner"

\* open_archive_intent
OpenArchive(u, c, archived) ==
    IF ~MayArchive(u, c, archived) \/ (Locked(u, c) /\ ~Holds(u.archive, c)) THEN u
    ELSE [u EXCEPT !.form =
           [kind |-> "archive", channel |-> c, archived |-> archived,
            state |-> IF Holds(u.archive, c) THEN u.archive.state ELSE "editing"]]

\* confirm_archive
SubmitArchive(u) ==
    LET c == u.form.channel  n == NextRequest(u)
    IN  IF ~Ready(u.form.state) \/ Locked(u, c) \/ ~MayArchive(u, c, u.form.archived) THEN u
        ELSE Push([SetState(u, "archive", "creating") EXCEPT
                     !.lifeRequest = n,
                     !.archive = [request |-> n, channel |-> c,
                                  archived |-> u.form.archived, state |-> "creating"]],
                  [kind |-> "SetArchived", channel |-> c, archived |-> u.form.archived, request |-> n])

\* apply_channel_write, for the edit record or the archive record.
ApplyChannelWrite(u, e) ==
    LET slot == e.slot
        refresh(v) == IF slot = "edit" THEN [v EXCEPT !.editRefresh = TRUE]
                                       ELSE [v EXCEPT !.archiveRefresh = TRUE]
    IN  IF u[slot].request # e.request \/ u[slot].channel # e.channel THEN u
        ELSE CASE e.outcome = "stored"  ->
                    Ask(refresh([SetState(u, slot, "creating") EXCEPT ![slot].state = "editing"]))
               [] e.outcome = "refused" -> [SetState(u, slot, "failed") EXCEPT ![slot] = NoWrite]
               [] e.outcome = "unknown" -> [SetState(u, slot, "unknown") EXCEPT ![slot].state = "unknown"]

ShowsEdit(u, w)    == Listed(u, w.channel) /\ u.roster[w.channel].label = w.label
ShowsArchive(u, w) == Listed(u, w.channel) /\ u.roster[w.channel].archived = w.archived

\* Mutant: a roster without descriptions settles a write too.
ResolveLifecyclePartial(u) ==
    LET e == u.editRefresh /\ IsOpen(u.edit)
        a == u.archiveRefresh /\ IsOpen(u.archive)
    IN  [u EXCEPT !.editRefresh = FALSE, !.archiveRefresh = FALSE,
                  !.edit = IF e /\ ShowsEdit(u, u.edit) THEN NoWrite ELSE @,
                  !.archive = IF a /\ ShowsArchive(u, u.archive) THEN NoWrite ELSE @]

\* resolve_lifecycle_refresh: a complete roster that shows what was written.
ResolveLifecycle(u) ==
    LET settle(v, slot, shown) ==
          IF shown THEN [Close(v, slot) EXCEPT ![slot] = NoWrite] ELSE SetState(v, slot, "unknown")
        edited == IF u.editRefresh /\ IsOpen(u.edit)
                    THEN settle(u, "edit", ShowsEdit(u, u.edit)) ELSE u
        both   == IF u.archiveRefresh /\ IsOpen(u.archive)
                    THEN settle(edited, "archive", ShowsArchive(u, u.archive)) ELSE edited
    IN  IF ~u.complete THEN u
        ELSE [both EXCEPT !.editRefresh = FALSE, !.archiveRefresh = FALSE]

\* The answer to LoadChannels: merge_channels, then what waited for it.
Merge(u, e) == [u EXCEPT !.roster = e.roster, !.complete = e.complete]
ApplyChannels(u, e) == ResolveLifecycle(ResolveCreate(OpenConfirmed(Merge(u, e))))
-----------------------------------------------------------------------------
(* Members.                                                                 *)

\* refresh_members
RefreshMembers(u) ==
    IF ~Showing(u, "members") THEN u
    ELSE Push([u EXCEPT !.memberRead = @ + 1, !.form.loading = TRUE],
              [kind |-> "LoadMembers", channel |-> u.form.channel, request |-> u.memberRead + 1])

\* open_members
OpenMembers(u, c) ==
    IF ~Listed(u, c) \/ ~u.roster[c].described THEN u
    ELSE RefreshMembers([u EXCEPT !.form =
           [kind |-> "members", channel |-> c, loading |-> FALSE, complete |-> FALSE,
            rows |-> [p \in People |-> None], last |-> {}, picker |-> NoPicker,
            confirm |-> NoConfirm]])

\* members_picker_open, members_picker_close
OpenPicker(u) ==
    IF ~Administrative(u, u.form.channel) \/ Locked(u, u.form.channel) THEN u
    ELSE [u EXCEPT !.form.picker.open = TRUE]

\* members_picker_query by key: the key itself is a candidate at once, unless it
\* is a member's, and its answer a moment later.
Query(u, p) ==
    Push([u EXCEPT !.memberSearch = @ + 1,
                   !.form.picker = [@ EXCEPT !.loading = TRUE,
                                             !.candidates = IF u.form.rows[p] = None THEN {p} ELSE {}]],
         [kind |-> "MemberCandidates", channel |-> u.form.channel,
          request |-> u.memberSearch + 1, who |-> p])

\* ChatEvent::MemberCandidates
ApplyCandidates(u, e) ==
    IF e.request # u.memberSearch \/ ~Showing(u, "members") \/ u.form.channel # e.channel THEN u
    ELSE LET kept == IF e.ok THEN {e.who} ELSE u.form.picker.candidates
             typed == IF u.form.rows[e.who] = None THEN {e.who} ELSE {}
         IN  [u EXCEPT !.form.picker = [@ EXCEPT !.loading = FALSE, !.candidates = kept \cup typed]]

\* members_picker_toggle, members_picker_role
Toggle(u, p) ==
    LET chosen == u.form.picker.selected
    IN  IF p \notin u.form.picker.candidates \/ u.form.rows[p] # None THEN u
        ELSE [u EXCEPT !.form.picker.selected = IF p \in chosen THEN chosen \ {p} ELSE chosen \cup {p}]
PickRole(u, role) == [u EXCEPT !.form.picker.role = role]

\* The record of a member write, and what it expects the next read to show.
Unsettled(u, n, c, expected) ==
    [request |-> n, channel |-> c, expected |-> expected,
     results |-> [p \in {} |-> None], readAfter |-> u.memberRead]

\* members_picker_submit
SubmitAdd(u) ==
    LET c == u.form.channel  n == NextRequest(u)
        targets == u.form.picker.selected  role == u.form.picker.role
    IN  IF ~Administrative(u, c) \/ Locked(u, c) \/ role = None \/ targets = {} THEN u
        ELSE Push([u EXCEPT !.lifeRequest = n,
                            !.member = Unsettled(u, n, c, [p \in targets |-> role]),
                            !.form.picker.selected = {}],
                  [kind |-> "AddMembers", channel |-> c, targets |-> SetToSeq(targets),
                   role |-> role, request |-> n])

\* members_role_open, members_remove_open, members_leave_open: what is asked
\* about; an owner who leaves is warned unless another owner is known.
OpenConfirm(u, op, p, role) ==
    LET c == u.form.channel  row == u.form.rows[p]  last == p \in u.form.last
        warned == op = "leave" /\ u.roster[c].mine = "owner" /\ (~u.form.complete \/ last)
        allowed ==
          CASE op = "role"   -> /\ Administrative(u, c) /\ row # None
                                /\ row = role \/ ~last
                                /\ u.form.complete \/ row # "owner" \/ row = role
            [] op = "remove" -> Administrative(u, c) /\ row # None /\ p # Me /\ ~last
            [] op = "leave"  -> p = Me /\ Listed(u, c) /\ ~u.roster[c].archived
    IN  IF ~allowed \/ Locked(u, c) THEN u
        ELSE [u EXCEPT !.form.confirm = [op |-> op, who |-> p, role |-> role, warned |-> warned]]

\* The guards of members_confirm: the panel is read again, and so is the roster.
MayConfirm(u) ==
    LET c == u.form.channel  ask == u.form.confirm
        mine == IF u.roster[c].archived THEN None ELSE u.roster[c].mine
        last == ask.who \in u.form.last
        row  == u.form.rows[ask.who]
    IN  /\ ~Locked(u, c) /\ ~ask.warned
        /\ CASE ask.op = "leave"  -> /\ mine # None
                                     /\ mine = "owner" => u.form.complete /\ ~last
             [] ask.op = "remove" -> mine = "owner" /\ u.form.complete /\ row # None /\ ask.who # Me /\ ~last
             [] ask.op = "role"   -> /\ mine = "owner" /\ u.form.complete /\ row # None
                                     /\ last => row = ask.role

\* members_confirm
SubmitConfirm(u) ==
    LET c == u.form.channel  n == NextRequest(u)  ask == u.form.confirm
        wanted == IF ask.op = "role" THEN ask.role ELSE None
    IN  IF ~MayConfirm(u) THEN u
        ELSE Push([u EXCEPT !.lifeRequest = n, !.form.confirm = NoConfirm,
                            !.member = Unsettled(u, n, c, [p \in {ask.who} |-> wanted])],
                  [kind |-> "MemberWrite", channel |-> c, op |-> ask.op, who |-> ask.who,
                   role |-> wanted, request |-> n])

\* apply_members_read: rows of the newest read of the channel on screen; an
\* uncertain batch is released by a complete read asked for after its answer.
Resolved(u, e, rows) ==
    LET w == u.member
        doubtful == {p \in DOMAIN w.results : w.results[p] = "unknown"}
    IN  /\ Holds(w, e.channel) /\ e.request > w.readAfter /\ e.complete
        /\ DOMAIN w.results = DOMAIN w.expected /\ doubtful # {}
        /\ \A p \in doubtful : rows[p] = w.expected[p]

\* Mutant: a read that failed is still being waited for.
ApplyMembersReadStuck(u, e) ==
    IF e.request # u.memberRead \/ ~Showing(u, "members") \/ u.form.channel # e.channel THEN u
    ELSE IF ~e.ok THEN [u EXCEPT !.form.complete = FALSE]
    ELSE [u EXCEPT !.form.loading = FALSE, !.form.complete = e.complete, !.form.rows = e.rows]

ApplyMembersRead(u, e) ==
    LET owners == {p \in People : e.rows[p] = "owner"}
        last   == IF ~e.complete \/ Cardinality(owners) = 1 THEN owners ELSE {}
        shown  == [u EXCEPT !.form.loading = FALSE, !.form.complete = e.complete,
                            !.form.rows = e.rows, !.form.last = last]
    IN  IF e.request # u.memberRead \/ ~Showing(u, "members") \/ u.form.channel # e.channel THEN u
        ELSE IF ~e.ok THEN [u EXCEPT !.form.loading = FALSE, !.form.complete = FALSE]
        ELSE IF Resolved(u, e, e.rows) THEN [shown EXCEPT !.member = NoWrite] ELSE shown

\* finish_member_write: an uncertain batch keeps its lock until a later read.
FinishMember(u) ==
    IF \E p \in DOMAIN u.member.results : u.member.results[p] = "unknown"
      THEN [u EXCEPT !.member.readAfter = u.memberRead]
      ELSE [u EXCEPT !.member = NoWrite]

Result(w, p, status) == [q \in DOMAIN w.results \cup {p} |-> IF q = p THEN status ELSE w.results[q]]

\* apply_member_write
ApplyMemberWrite(u, e) ==
    LET w == u.member
        v == [u EXCEPT !.member.results = Result(w, e.who, e.outcome)]
        settled == RefreshMembers(FinishMember(v))
    IN  IF ~(Holds(w, e.channel) /\ w.request = e.request) THEN u
        ELSE IF e.who \notin DOMAIN w.expected \/ e.who \in DOMAIN w.results THEN u
        ELSE IF DOMAIN v.member.results # DOMAIN w.expected THEN v
        ELSE IF e.leave /\ e.outcome = "stored" THEN Ask(settled) ELSE settled

\* ChannelGone: the panel of the channel goes, with the record of any channel.
ApplyGone(u, c) ==
    LET v == IF Showing(u, "members") /\ u.form.channel = c
               THEN [u EXCEPT !.form = NoForm, !.member = NoWrite] ELSE u
    IN  [v EXCEPT !.roster[c] = NotListed]

\* App::apply
ApplyEvent(u, e) ==
    CASE e.kind = "Channels"    -> ApplyChannels(u, e)
      [] e.kind = "Status"      -> u
      [] e.kind = "Created"     -> ApplyCreated(u, e)
      [] e.kind = "Written"     -> ApplyChannelWrite(u, e)
      [] e.kind = "Members"     -> ApplyMembersRead(u, e)
      [] e.kind = "MemberWrite" -> ApplyMemberWrite(u, e)
      [] e.kind = "Candidates"  -> ApplyCandidates(u, e)
      [] e.kind = "Gone"        -> ApplyGone(u, e.channel)
-----------------------------------------------------------------------------
(* Steps of the interface.                                                  *)

AnyLabel == CHOOSE l \in Labels : TRUE
Founded  == [c \in Channels |->
               [there |-> c \in Existing, archived |-> FALSE, label |-> AnyLabel,
                role |-> [p \in People |-> IF p = Me THEN "owner" ELSE None]]]
Opened ==
    [roster |-> RosterOf(Founded, TRUE),
     complete |-> TRUE, form |-> NoForm, pendingOpen |-> None, told |-> {},
     create |-> NoWrite, edit |-> NoWrite, archive |-> NoWrite, member |-> NoWrite,
     createRefresh |-> FALSE, editRefresh |-> FALSE, archiveRefresh |-> FALSE,
     createRequest |-> 0, lifeRequest |-> 0, memberRead |-> 0, memberSearch |-> 0, out |-> <<>>]

\* A session that has its roster: this identity owns the channels there are.
Init ==
    /\ relay = Founded /\ ui = Opened
    /\ settling = {} /\ commands = <<>> /\ events = <<>> /\ batch = NoWrite
    /\ done = {} /\ displaced = {}
    /\ writes = 0 /\ reads = 0 /\ faults = 0 /\ elsewhere = 0

\* The interface after a handler: its commands are sent in order.
Show(u) == /\ ui' = [u EXCEPT !.out = <<>>]
           /\ commands' = commands \o u.out

\* What a key leaves alone.
Key(u) == /\ u # ui
          /\ Show(u)
          /\ UNCHANGED <<relay, settling, batch, events, done, faults, elsewhere>>

\* A key that submits: a record it takes the place of is noted.
Submits(u, slot) ==
    /\ Room /\ writes < MaxWrites /\ writes' = writes + 1
    /\ Key(u)
    /\ displaced' = displaced \cup
         (IF slot # "create" /\ u[slot] # ui[slot] THEN Replaced(ui, slot, u[slot].channel) ELSE {})
    /\ UNCHANGED reads

\* A key that reads, and one that only changes what is on screen.
Reads(u)   == Room /\ reads < MaxReads /\ reads' = reads + 1 /\ Key(u) /\ UNCHANGED <<writes, displaced>>
Changes(u) == Key(u) /\ UNCHANGED <<writes, reads, displaced>>

Blank == ui.form = NoForm
Panel == Showing(ui, "members") /\ ui.form.confirm = NoConfirm

\* close_create_channel, close_edit_channel, close_archive, close_members: the
\* records outlive their forms.
CloseForm == ~Blank /\ Changes([ui EXCEPT !.form = NoForm])

CreateKeys ==
    \/ Blank /\ Changes(OpenCreate(ui))
    \/ Showing(ui, "create") /\ \E valid \in BOOLEAN : Submits(SubmitCreate(ui, valid), "create")
    \/ Showing(ui, "create") /\ Reads(RefreshCreate(ui))

EditKeys ==
    \/ Blank /\ \E c \in Channels : Changes(OpenEdit(ui, c))
    \/ Showing(ui, "edit") /\ \E l \in Labels : Changes([ui EXCEPT !.form.label = l])
    \/ Showing(ui, "edit") /\ Submits(SubmitEdit(ui), "edit")
    \/ Showing(ui, "edit") /\ Reads(RefreshEdit(ui))

ArchiveKeys ==
    \/ Blank /\ \E c \in Channels, archived \in BOOLEAN : Changes(OpenArchive(ui, c, archived))
    \/ Showing(ui, "archive") /\ Submits(SubmitArchive(ui), "archive")
    \/ Showing(ui, "archive") /\ Reads(RefreshArchive(ui))

PanelKeys ==
    \/ Blank /\ \E c \in Channels : Reads(OpenMembers(ui, c))
    \/ Panel /\ Reads(RefreshMembers(ui))
    \/ Panel /\ ~ui.form.picker.open
       /\ \/ Changes(OpenPicker(ui))
          \/ \E p \in People, role \in Roles, op \in {"role", "remove", "leave"} :
                Changes(OpenConfirm(ui, op, p, role))
    \/ Showing(ui, "members") /\ ui.form.confirm # NoConfirm
       /\ \/ Submits(SubmitConfirm(ui), "member")
          \/ Changes([ui EXCEPT !.form.confirm = NoConfirm])

PickerKeys ==
    /\ Panel /\ ui.form.picker.open
    /\ \/ \E p \in People : Reads(Query(ui, p)) \/ Changes(Toggle(ui, p))
       \/ \E role \in Roles : Changes(PickRole(ui, role))
       \/ Submits(SubmitAdd(ui), "member")
       \/ Changes([ui EXCEPT !.form.picker.open = FALSE])

\* handle_lifecycle_overlay and the create form's keys
TakeKey == CreateKeys \/ EditKeys \/ ArchiveKeys \/ PanelKeys \/ PickerKeys \/ CloseForm

TakeEvent ==
    /\ events # <<>> /\ events' = Tail(events)
    /\ Show(ApplyEvent(ui, Head(events)))
    /\ UNCHANGED <<relay, settling, batch, ghosts, counters>>
-----------------------------------------------------------------------------
(* The command pump.                                                        *)

\* What a write may come to: stored, at once or later readable; refused; or its
\* answer lost, whether or not the relay took it.
Outcomes == {"stored", "refused", "unknown"}
Faulty == Room /\ faults < MaxFaults /\ faults' = faults + 1
Fate(e, outcome) ==
    \/ outcome = "stored" /\ relay' = Applied(relay, e) /\ UNCHANGED <<settling, faults>>
    \/ /\ outcome \in {"stored", "unknown"} /\ Faulty
       /\ settling' = settling \cup {e} /\ UNCHANGED relay
    \/ /\ outcome \in {"refused", "unknown"} /\ Faulty
       /\ UNCHANGED <<relay, settling>>
Answer(e) == events' = Append(events, e)

\* load_channels
LoadChannels ==
    /\ UNCHANGED <<relay, settling, done>>
    /\ \/ UNCHANGED faults /\ Answer([kind |-> "Channels", roster |-> RosterOf(relay, TRUE),
                                        complete |-> TRUE, after |-> done])
       \/ Faulty /\ Answer([kind |-> "Channels", roster |-> RosterOf(relay, FALSE),
                              complete |-> FALSE, after |-> done])
       \/ Faulty /\ Answer([kind |-> "Status"])

\* Client::create_channel
CreateChannel(c) ==
    \E id \in NewIds, outcome \in Outcomes :
        /\ ~relay[id].there /\ \A e \in settling : e.channel # id
        /\ Fate(Effect("create", id, Me, AnyLabel), outcome)
        /\ done' = done \cup {<<"create", c.request>>}
        /\ Answer([kind |-> "Created", request |-> c.request, id |-> id, outcome |-> outcome])

\* Client::update_channel, archive_channel, unarchive_channel
WriteChannel(c) ==
    LET e == IF c.kind = "Edit" THEN Effect("label", c.channel, Me, c.label)
                                ELSE Effect("archive", c.channel, Me, c.archived)
    IN  \E outcome \in Outcomes :
          /\ Fate(e, outcome)
          /\ done' = done \cup {<<"life", c.request>>}
          /\ Answer([kind |-> "Written", slot |-> IF c.kind = "Edit" THEN "edit" ELSE "archive",
                     request |-> c.request, channel |-> c.channel, outcome |-> outcome])

\* Client::members needs the channel in a complete roster. Without the roles of
\* all members it is incomplete, and who has none is shown as a member.
LoadMembers(c) ==
    LET rows == [p \in People |-> IF p \in Members(relay, c.channel) THEN relay[c.channel].role[p] ELSE None]
        bare == [p \in People |-> IF rows[p] = None THEN None ELSE "member"]
        answer(ok, complete, r) ==
          Answer([kind |-> "Members", channel |-> c.channel, request |-> c.request,
                  ok |-> ok, complete |-> complete, rows |-> r, after |-> done])
    IN  /\ UNCHANGED <<relay, settling, done>>
        /\ \/ Me \in Members(relay, c.channel) /\ UNCHANGED faults /\ answer(TRUE, TRUE, rows)
           \/ Me \in Members(relay, c.channel) /\ Faulty /\ answer(TRUE, FALSE, bare)
           \/ Me \notin Members(relay, c.channel) /\ UNCHANGED faults /\ answer(FALSE, FALSE, rows)
           \/ Faulty /\ answer(FALSE, FALSE, rows)

\* Client::search_profiles
SearchProfiles(c) ==
    /\ UNCHANGED <<relay, settling, done>>
    /\ \E ok \in BOOLEAN :
         /\ IF ok THEN UNCHANGED faults ELSE Faulty
         /\ Answer([kind |-> "Candidates", channel |-> c.channel, request |-> c.request,
                    who |-> c.who, ok |-> ok])

\* last_owner_refusal, asked before every write that could take an owner away.
LastOwner(c) == Owners(relay, c.channel) = {c.who}
Refused(c) == (c.op # "role" \/ c.role # "owner") /\ LastOwner(c)

\* One write to one member: set_role, remove_member, leave_channel, add_member.
WriteMember(c) ==
    \E outcome \in Outcomes :
        /\ IF c.op # "add" /\ Refused(c)
             THEN outcome = "refused" /\ UNCHANGED <<relay, settling, faults>>
             ELSE Fate(Effect("role", c.channel, c.who, c.role), outcome)
        /\ Answer([kind |-> "MemberWrite", channel |-> c.channel, request |-> c.request,
                   who |-> c.who, leave |-> c.op = "leave", outcome |-> outcome])

\* run_command_pump without a batch: the next command.
TakeCommand ==
    LET c == Head(commands)
    IN  /\ commands # <<>> /\ batch = NoWrite /\ commands' = Tail(commands)
        /\ CASE c.kind = "LoadChannels"     -> LoadChannels /\ UNCHANGED batch
             [] c.kind = "Create"           -> CreateChannel(c) /\ UNCHANGED batch
             [] c.kind \in {"Edit", "SetArchived"} -> WriteChannel(c) /\ UNCHANGED batch
             [] c.kind = "LoadMembers"      -> LoadMembers(c) /\ UNCHANGED batch
             [] c.kind = "MemberCandidates" -> SearchProfiles(c) /\ UNCHANGED batch
             [] c.kind = "MemberWrite"      -> /\ WriteMember(c) /\ UNCHANGED batch
                                               /\ done' = done \cup {<<"life", c.request>>}
             [] c.kind = "AddMembers"       -> batch' = c /\ UNCHANGED <<relay, settling, faults, events, done>>
        /\ UNCHANGED <<ui, displaced, writes, reads, elsewhere>>

\* With a batch: one write per turn, commands wait behind it.
BatchTurn ==
    LET c == [channel |-> batch.channel, request |-> batch.request, op |-> "add",
              who |-> Head(batch.targets), role |-> batch.role]
    IN  /\ batch # NoWrite /\ WriteMember(c)
        /\ IF Len(batch.targets) = 1
             THEN batch' = NoWrite /\ done' = done \cup {<<"life", c.request>>}
             ELSE batch' = [batch EXCEPT !.targets = Tail(@)] /\ UNCHANGED done
        /\ UNCHANGED <<ui, commands, displaced, writes, reads, elsewhere>>
-----------------------------------------------------------------------------
(* The relay and other administrators.                                      *)

Settles ==
    \E e \in settling :
        /\ settling' = settling \ {e} /\ relay' = Applied(relay, e)
        /\ UNCHANGED <<ui, commands, batch, events, ghosts, counters>>

Elsewhere ==
    /\ Room /\ elsewhere < MaxElsewhere /\ elsewhere' = elsewhere + 1
    /\ UNCHANGED <<settling, ui, commands, batch, ghosts, writes, reads, faults>>
    /\ \E c \in Channels :
         /\ relay[c].there
         /\ \/ /\ \E l \in Labels, b \in BOOLEAN, p \in People, role \in Roles \cup {None} :
                     relay' \in {Applied(relay, Effect("label", c, Me, l)),
                                 Applied(relay, Effect("archive", c, Me, b)),
                                 Applied(relay, Effect("role", c, p, role))}
               /\ UNCHANGED events
            \/ /\ relay' = Applied(relay, Effect("role", c, Me, None))
               /\ events' = Append(events, [kind |-> "Gone", channel |-> c])

Next == TakeKey \/ TakeEvent \/ TakeCommand \/ BatchTurn \/ Settles \/ Elsewhere
Spec == Init /\ [][Next]_vars
-----------------------------------------------------------------------------
(* Properties.                                                              *)

States == {"editing", "creating", "failed", "unknown"}
Rosters == [Channels -> [described : BOOLEAN, mine : Roles \cup {None},
                         archived : BOOLEAN, label : Labels \cup {None}]]
Slot(fields) == {NoWrite} \cup fields
Requests == 0 .. MaxWrites

\* The records, the roster and the relay are well formed.
TypeOK ==
    /\ relay \in [Channels -> [there : BOOLEAN, archived : BOOLEAN, label : Labels,
                               role : [People -> Roles \cup {None}]]]
    /\ ui.roster \in Rosters
    /\ ui.create \in Slot([request : Requests, id : NewIds \cup {None},
                           known : SUBSET Channels, state : States])
    /\ ui.edit \in Slot([request : Requests, channel : Channels, label : Labels, state : States])
    /\ ui.archive \in Slot([request : Requests, channel : Channels, archived : BOOLEAN, state : States])
    /\ IsOpen(ui.member) =>
         /\ ui.member.channel \in Channels /\ ui.member.readAfter \in 0 .. ui.memberRead
         /\ DOMAIN ui.member.results \subseteq DOMAIN ui.member.expected
    /\ ui.pendingOpen \in NewIds \cup {None} /\ ui.told \subseteq NewIds
    /\ ui.out = <<>> /\ \A e \in settling : e.channel \in Channels
    /\ displaced \subseteq 1 .. MaxWrites

\* What is on its way between interface and command pump.
Coming(kinds, request) ==
    \/ \E i \in DOMAIN commands : commands[i].kind \in kinds /\ commands[i].request = request
    \/ \E i \in DOMAIN events   : events[i].kind \in kinds /\ events[i].request = request
ResultComing(request, p) ==
    \/ \E i \in DOMAIN commands : LET c == commands[i] IN
          \/ c.kind = "MemberWrite" /\ c.request = request /\ c.who = p
          \/ c.kind = "AddMembers" /\ c.request = request /\ p \in Range(c.targets)
    \/ batch # NoWrite /\ batch.request = request /\ p \in Range(batch.targets)
    \/ \E i \in DOMAIN events : LET e == events[i] IN
          e.kind = "MemberWrite" /\ e.request = request /\ e.who = p

\* What the interface shows as under way has its answer under way: a creation, an
\* edit, an archive, each target of a batch, the members and the candidates it
\* says it is reading. Otherwise a form would say so for ever and the community
\* could not be left (app.rs, pending_write_summary).  The records are well formed.
NothingWaitsInVain ==
    /\ TypeOK
    /\ IsOpen(ui.create) /\ ui.create.state = "creating" => Coming({"Create", "Created"}, ui.create.request)
    /\ IsOpen(ui.edit) /\ ui.edit.state = "creating" => Coming({"Edit", "Written"}, ui.edit.request)
    /\ IsOpen(ui.archive) /\ ui.archive.state = "creating" =>
         Coming({"SetArchived", "Written"}, ui.archive.request)
    /\ IsOpen(ui.member) => \A p \in DOMAIN ui.member.expected \ DOMAIN ui.member.results :
         ResultComing(ui.member.request, p)
    /\ Showing(ui, "members") =>
         /\ ui.form.loading => Coming({"LoadMembers", "Members"}, ui.memberRead)
         /\ ui.form.picker.loading => Coming({"MemberCandidates", "Candidates"}, ui.memberSearch)

\* A channel this session created is one the user was told of, or one whose
\* creation still shows as open, so that submitting again is refused: a lost
\* answer and an absent row never lead to a second channel (app.rs,
\* resolve_create_refresh).
CreationAccounted ==
    \A id \in NewIds : relay[id].there =>
        \/ id \in ui.told
        \/ IsOpen(ui.create) /\ ui.create.id = id
        \/ \E i \in DOMAIN events : events[i].kind = "Created" /\ events[i].id = id

\* The read being applied, if the step applies one that answers after request r.
ReadAfter(kind, tag) ==
    /\ events # <<>> /\ events' = Tail(events)
    /\ Head(events).kind = kind /\ Head(events).complete /\ tag \in Head(events).after

\* What a step may do to the records of writes whose confirmation did not come.
SettledStep ==
    /\ IsOpen(ui.create) /\ ui.create.id # None /\ ui'.create # ui.create =>
         ReadAfter("Channels", <<"create", ui.create.request>>)
    /\ \A slot \in {"edit", "archive"} :
         IsOpen(ui[slot]) /\ ui[slot].state \in {"editing", "unknown"}
           /\ ui'[slot].request # ui[slot].request =>
             \/ ReadAfter("Channels", <<"life", ui[slot].request>>)
             \/ ui[slot].request \in displaced'
    /\ IsOpen(ui.member) /\ DOMAIN ui.member.results = DOMAIN ui.member.expected
         /\ ui'.member.request # ui.member.request =>
             \/ ReadAfter("Members", <<"life", ui.member.request>>)
             \/ ui.member.request \in displaced'
             \/ events # <<>> /\ Head(events).kind = "Gone" /\ events' = Tail(events)

\* A write that was answered without a confirmation is settled only by a complete
\* read that was made after it was executed; its record is lost otherwise only to
\* a write of another channel, or with the panel of a channel that is gone.
SettledByLaterRead == [][SettledStep]_vars

=============================================================================
