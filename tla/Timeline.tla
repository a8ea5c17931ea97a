------------------------------ MODULE Timeline ------------------------------
(***************************************************************************)
(* The open conversation of the terminal (app.rs, content.rs): its rows,   *)
(* the overlays that change them - reactions, edits, deletions - and the   *)
(* writes the user starts from it, shown before the relay has answered.    *)
(*                                                                         *)
(* Three streams meet in the interface: the answers to its commands, which *)
(* the command pump runs one at a time; the live frames of the socket,     *)
(* among them the echoes of its own writes; and what the relay sends again *)
(* when the overlay subscription is replaced or the connection comes back. *)
(* Nothing orders the streams against each other.                          *)
(*                                                                         *)
(* A message is the number under which the relay stored it, a row of a     *)
(* send not yet confirmed the negative number of the write.  One emoji, no *)
(* thread, reader, search or context on screen (module Views), and rows in *)
(* arrival order.                                                          *)
(*                                                                         *)
(* The code orders the streams in most crossings and not in these, whose   *)
(* messages `excused` names until a reload sets them right:                *)
(*   - the echo of a reaction or its removal before the write's answer     *)
(*     counts twice, and any overlay of a row hidden by a deletion that is *)
(*     refused afterwards is lost - one's own, answered while the row is   *)
(*     hidden, for good: it is not among what a reload forgets;            *)
(*   - a reload while a write is unanswered takes back what it showed;     *)
(*   - two unanswered writes on one message undo each other when refused;  *)
(*   - a write of unknown outcome leaves the row as if it had happened;    *)
(*   - a removed reaction nobody is told of, or told of after a reload, or *)
(*     on a connection that is lost before it is told;                     *)
(*   - a removal pressed before the reactions came again after a reload;   *)
(*   - a deletion of the echo of a send before the send's answer.          *)
(***************************************************************************)
EXTENDS Integers, Sequences, FiniteSets, SequencesExt

CONSTANTS
  Stored,    \* messages the conversation holds at the start
  MaxWrites, \* bound: writes the user starts
  MaxOthers, \* bound: events of other terminals
  MaxFaults, \* bound: refused and unknown writes, failed reads, reconnections
  MaxReopens, \* bound: times the user leaves the conversation and comes back
  MaxDeeds   \* bound: all of these together

ASSUME Bounds ==
  {Stored, MaxWrites, MaxOthers, MaxFaults, MaxReopens, MaxDeeds} \subseteq Nat

VARIABLES
  by,       \* the relay's messages: by[m] is "me" or "other"
  gone,     \* messages deleted at the relay
  aux,      \* the relay's overlays: [kind, to, text], in the order accepted
  rows,     \* entry.rows
  seen,     \* entry.seen
  live,     \* entry.live_ids
  deleted,  \* deleted_rows
  known,    \* seen_aux: overlays that are not taken again
  filed,    \* aux_seen of this channel: those of them a reload forgets
  counted,  \* reaction_of: reactions that may be taken off again
  mine,     \* my_reaction: for a row, the reaction a second press removes
  pending,  \* the operations of the writes not answered
  commands, \* commands sent and not taken by the command pump
  answer,   \* what the command pump is about to report, if anything
  subbed,   \* the messages whose overlays are subscribed to
  wire,     \* frames on the socket, first to last
  excused,  \* history: messages whose row may be off until the next reload
  used      \* how much of each bound is spent

relay == <<by, gone, aux>>
view == <<rows, seen, live, deleted, known, filed, counted, mine>>
vars == <<by, gone, aux, rows, seen, live, deleted, known, filed, counted, mine,
          pending, commands, answer, subbed, wire, excused, used>>

Messages == 1 .. Len(by)
Overlays == 1 .. Len(aux)

\* A row as row_from_event and pending_row make it: no reactions, its own body.
FromEvent(m) ==
  [id |-> m, count |-> 0, body |-> 0, pending |-> FALSE, uncertain |-> FALSE]
PendingRow(local) == [FromEvent(local) EXCEPT !.pending = TRUE]

Shown(m) == \E i \in DOMAIN rows : rows[i].id = m
RowOf(m) == rows[CHOOSE i \in DOMAIN rows : rows[i].id = m]
OwnRow(r) == r.id < 0 \/ by[r.id] = "me"

\* Apply F to the rows of message m; apply_to_row with no other view open.
ToRow(m, F(_)) == [i \in DOMAIN rows |-> IF rows[i].id = m THEN F(rows[i]) ELSE rows[i]]
WithoutStored(m) == SelectSeq(rows, LAMBDA r : r.id # m \/ r.pending) \* mutant
Without(m) == SelectSeq(rows, LAMBDA r : r.id # m)

\* content::apply_overlay: a counter never goes below zero.
More(r) == [r EXCEPT !.count = @ + 1]
Fewer(r) == [r EXCEPT !.count = IF @ = 0 THEN 0 ELSE @ - 1]

Bound == [writes |-> MaxWrites, others |-> MaxOthers, faults |-> MaxFaults,
          reopens |-> MaxReopens]
Spend(what) ==
  /\ used[what] < Bound[what]
  /\ used.writes + used.others + used.faults + used.reopens < MaxDeeds
  /\ used' = [used EXCEPT ![what] = @ + 1]

-----------------------------------------------------------------------------
(* The relay and the socket.                                               *)

\* What the relay sends for an overlay subscription over ids: the filter names
\* messages, so it finds reactions, edits and deletions of them, but not the
\* removal of a reaction, whose target is the reaction.
Removed(a) == \E b \in Overlays : aux[b].kind = "unreact" /\ aux[b].to = a
Matching(ids) ==
  {a \in Overlays : aux[a].kind # "unreact" /\ aux[a].to \in ids /\ ~Removed(a)}
Post(m) == [kind |-> "post", of |-> m]
Overlay(a) == [kind |-> "overlay", of |-> a]
\* Stored events are sent again, the oldest or the newest first.
Replays(ids) ==
  LET up == SetToSortSeq(Matching(ids), <)
      frames(s) == [i \in DOMAIN s |-> Overlay(s[i])]
  IN {frames(up), frames(Reverse(up))}

\* The relay stores a message, and the timeline feed carries it.
Store(author) ==
  /\ by' = Append(by, author)
  /\ wire' = Append(wire, Post(Len(by) + 1))
  /\ UNCHANGED <<gone, aux, excused>>
\* It stores an overlay, and the overlay feed carries it if it covers the
\* message; whether it carries the removal of a reaction is the relay's affair.
Accept(kind, to, text) ==
  /\ aux' = Append(aux, [kind |-> kind, to |-> to, text |-> text])
  /\ gone' = IF kind = "delete" THEN gone \union {to} ELSE gone
  /\ UNCHANGED by
  /\ LET told == Append(wire, Overlay(Len(aux) + 1))
     IN CASE kind = "unreact" -> \/ wire' = told /\ UNCHANGED excused
                                 \/ wire' = wire /\ excused' = excused \union {aux[to].to}
          [] kind # "unreact" /\ to \in subbed -> wire' = told /\ UNCHANGED excused
          [] OTHER            -> UNCHANGED <<wire, excused>>

\* Another terminal, of this user or of another.
OthersDo ==
  /\ Spend("others")
  /\ \/ Store("other")
     \/ \E m \in Messages \ gone :
          \/ Accept("react", m, 0)
          \/ Accept("edit", m, Len(aux) + 1)
          \/ Accept("delete", m, 0)
     \/ \E a \in Overlays :
          aux[a].kind = "react" /\ ~Removed(a) /\ aux[a].text = 0
          /\ aux[a].to \notin gone /\ Accept("unreact", a, 0)
  /\ UNCHANGED <<view, pending, commands, answer, subbed>>

\* Messages a removed reaction of which is still to be told: reaction_of
\* outlives the reload, so the removal counts against a counter started anew.
Removals ==
  {aux[aux[wire[i].of].to].to : i \in {j \in DOMAIN wire :
     wire[j].kind = "overlay" /\ aux[wire[j].of].kind = "unreact"}}

\* The connection is lost with the frames on it and comes back.  The timeline
\* feed overlaps by some seconds what was lost, the overlay feed is asked for
\* again, and the selected conversation is opened again (App::apply, Connected).
Reconnect ==
  /\ Spend("faults")
  /\ LET lost == {wire[i].of : i \in {j \in DOMAIN wire : wire[j].kind = "post"}}
     IN \E from \in 1 .. Len(by) + 1 :
          /\ \A m \in lost : from <= m
          /\ \E again \in Replays(subbed) :
               wire' = [i \in 1 .. Cardinality((from .. Len(by)) \ gone) |->
                         Post(SetToSortSeq((from .. Len(by)) \ gone, <)[i])] \o again
  /\ commands' = Append(commands, [kind |-> "open"])
  /\ excused' = excused \union Removals
  /\ UNCHANGED <<relay, view, pending, answer, subbed>>

-----------------------------------------------------------------------------
(* What the user starts.                                                   *)

Local == -(used.writes + 1)
\* The message an operation changes; a send changes none.
Target(op) == CASE op.kind = "send"   -> {}
                [] op.kind = "delete" -> {op.row.id}
                [] OTHER              -> {op.row}
\* Messages an operation in flight has changed on screen.
Touched == UNION {Target(pending[l]) : l \in DOMAIN pending}

\* The row's reactions have not come again since its reload.
NotCounted(m) == IF RowOf(m).count = 0 THEN {m} ELSE {}

Begin(op) ==
  /\ Spend("writes")
  /\ pending' = [l \in DOMAIN pending \union {Local} |->
                   IF l = Local THEN op ELSE pending[l]]
  /\ commands' = Append(commands, [kind |-> op.kind, local |-> Local])
  /\ excused' = excused \union (Target(op) \intersect Touched)
                       \union (IF op.kind = "unreact" THEN NotCounted(op.row) ELSE {})
  /\ UNCHANGED <<relay, seen, live, known, filed, counted, answer, subbed, wire>>

SendComposer ==
  /\ Begin([kind |-> "send"])
  /\ rows' = Append(rows, PendingRow(Local))
  /\ UNCHANGED <<deleted, mine>>

\* A first press adds a reaction; with one of ours known, the press removes it.
ReactFocused ==
  \E i \in DOMAIN rows :
    LET m == rows[i].id
    IN /\ m > 0 \* an uncertain send has no address the relay would take
       /\ ~rows[i].pending
       /\ IF m \in DOMAIN mine
          THEN /\ Begin([kind |-> "unreact", row |-> m, reaction |-> mine[m]])
               /\ rows' = ToRow(m, Fewer)
               /\ mine' = [r \in DOMAIN mine \ {m} |-> mine[r]]
          ELSE /\ Begin([kind |-> "react", row |-> m])
               /\ rows' = ToRow(m, More)
               /\ UNCHANGED mine
       /\ UNCHANGED deleted

\* edit_focused and the send that follows it.
EditFocused ==
  \E i \in DOMAIN rows :
    /\ rows[i].id > 0 /\ ~rows[i].pending /\ OwnRow(rows[i])
    /\ Begin([kind |-> "edit", row |-> rows[i].id, old |-> rows[i].body])
    /\ rows' = ToRow(rows[i].id, LAMBDA r : [r EXCEPT !.body = Local])
    /\ UNCHANGED <<deleted, mine>>

DeleteFocused ==
  \E i \in DOMAIN rows :
    /\ rows[i].id > 0 /\ ~rows[i].pending /\ OwnRow(rows[i])
    /\ Begin([kind |-> "delete", row |-> rows[i]])
    /\ rows' = RemoveAt(rows, i)
    /\ deleted' = deleted \union {rows[i].id}
    /\ UNCHANGED mine

\* Leave for another conversation and come back before anything is answered.
Reopen ==
  /\ Spend("reopens")
  /\ commands' = Append(commands, [kind |-> "open"])
  /\ UNCHANGED <<relay, view, pending, answer, subbed, wire, excused>>

-----------------------------------------------------------------------------
(* The command pump: one command, its answer, the next command.            *)

Idle == [kind |-> "idle"]
Taken == commands' = Tail(commands)

\* The relay's side of a write.
Perform(local) ==
  LET op == pending[local]
  IN CASE op.kind = "send"    -> Store("me")
       [] op.kind = "react"   -> Accept("react", op.row, local)
       [] op.kind = "unreact" -> Accept("unreact", op.reaction, local)
       [] op.kind = "edit"    -> Accept("edit", op.row, local)
       [] op.kind = "delete"  -> Accept("delete", op.row.id, local)
Given(local) == IF pending[local].kind = "send" THEN Len(by) + 1 ELSE Len(aux) + 1
\* What it refuses for certain: an overlay on what is deleted already.
Stale(local) ==
  LET op == pending[local]
  IN \/ op.kind \in {"react", "edit"} /\ op.row \in gone
     \/ op.kind = "delete" /\ op.row.id \in gone
     \/ op.kind = "unreact" /\ (op.row \in gone \/ Removed(op.reaction))

RunWrite ==
  /\ answer = Idle /\ commands # <<>> /\ Head(commands).kind \notin {"open", "aux"}
  /\ LET local == Head(commands).local
     IN \/ /\ ~Stale(local) /\ Perform(local)
           /\ \/ answer' = [kind |-> "ok", local |-> local, id |-> Given(local)]
                 /\ UNCHANGED used
              \/ answer' = [kind |-> "unknown", local |-> local]
                 /\ Spend("faults")
        \/ /\ Stale(local)
           /\ answer' = [kind |-> "refused", local |-> local]
           /\ UNCHANGED <<relay, wire, used, excused>>
        \/ /\ Spend("faults")
           /\ answer' \in [kind : {"refused", "unknown"}, local : {local}]
           /\ UNCHANGED <<relay, wire, excused>>
  /\ Taken
  /\ UNCHANGED <<view, pending, subbed>>

\* session::open_channel: the history is read, the answer goes to the
\* interface, and only then is the overlay feed replaced.
RunOpen ==
  /\ answer = Idle /\ commands # <<>> /\ Head(commands).kind = "open"
  /\ \/ answer' = [kind |-> "history", ids |-> Messages \ gone] /\ UNCHANGED used
     \/ answer' = Idle /\ Spend("faults") \* history_failed
  /\ Taken
  /\ UNCHANGED <<relay, view, pending, subbed, wire, excused>>

\* SubControl::AuxAdd: the feed is replaced if the message is new to it.
RunAux ==
  /\ answer = Idle /\ commands # <<>> /\ Head(commands).kind = "aux"
  /\ LET ids == subbed \union {Head(commands).id}
     IN /\ subbed' = ids
        /\ IF ids = subbed THEN UNCHANGED wire
           ELSE \E again \in Replays(ids) : wire' = wire \o again
  /\ Taken
  /\ UNCHANGED <<relay, view, pending, answer, excused, used>>

-----------------------------------------------------------------------------
(* What the interface does with answers.                                   *)

\* load_history: the rows fetched, the live ones the answer does not have, the
\* sends in flight.  Overlays filed under the channel are forgotten and come again.
LoadHistory(ids) ==
  LET fetched == [i \in 1 .. Cardinality(ids \ deleted) |->
                    FromEvent(SetToSortSeq(ids \ deleted, <)[i])]
      kept == SelectSeq(rows, LAMBDA r : ~r.pending /\ r.id \in live \ ids)
      waiting == SelectSeq(rows, LAMBDA r : r.pending)
  IN /\ rows' = fetched \o kept \o waiting
     /\ seen' = {r.id : r \in Range(fetched \o kept)}
     /\ live' = (live \ ids) \intersect seen'
     /\ known' = known \ filed
     /\ filed' = {}
     /\ UNCHANGED <<deleted, counted, mine>>

OnWire(m) ==
  \E i \in DOMAIN wire :
    wire[i].kind = "overlay" /\ aux[wire[i].of].kind # "unreact" /\ aux[wire[i].of].to = m
\* Messages an overlay of which comes again after a reload and is not taken.
Lost ==
  {aux[a].to : a \in {b \in known \ filed : aux[b].kind \in {"react", "edit"} /\ ~Removed(b)}}
TakeHistory ==
  /\ answer.kind = "history"
  /\ LoadHistory(answer.ids)
  /\ subbed' = answer.ids
  /\ \E again \in Replays(answer.ids) : wire' = wire \o again
  /\ excused' = {m \in excused : m \notin answer.ids \/ OnWire(m)}
               \union Touched \union Removals \union Lost
  /\ answer' = Idle
  /\ UNCHANGED <<relay, pending, commands, used>>

Settle(local) == pending' = [l \in DOMAIN pending \ {local} |-> pending[l]]

\* remember_aux_channel.
RememberNothing(a) == UNCHANGED <<known, filed>> \* mutant
Remember(a) ==
  /\ known' = known \union {a}
  /\ filed' = filed \union {a}
\* The answer names no channel: channel_for_row asks the views for the row.
RememberAnswered(a, m) ==
  IF Shown(m) THEN Remember(a) ELSE known' = known \union {a} /\ UNCHANGED filed

CompleteWrite(local, id) ==
  LET op == pending[local]
  IN CASE op.kind = "send" ->
            /\ rows' = IF Shown(id) THEN Without(local)
                       ELSE ToRow(local, LAMBDA r : [r EXCEPT !.id = id, !.pending = FALSE])
            /\ seen' = seen \union {id}
            /\ UNCHANGED <<known, filed, counted, mine>>
       [] op.kind = "react" ->
            /\ RememberAnswered(id, op.row)
            /\ counted' = counted \union {id}
            /\ mine' = [m \in DOMAIN mine \union {op.row} |->
                          IF m = op.row THEN id ELSE mine[m]]
            /\ UNCHANGED <<rows, seen>>
       [] op.kind = "unreact" ->
            /\ RememberAnswered(id, op.row)
            /\ counted' = counted \ {op.reaction}
            /\ mine' = IF op.reaction \in counted
                       THEN [m \in DOMAIN mine \ {op.row} |-> mine[m]] ELSE mine
            /\ UNCHANGED <<rows, seen>>
       [] op.kind = "edit" ->
            /\ RememberAnswered(id, op.row)
            /\ rows' = ToRow(op.row, LAMBDA r : [r EXCEPT !.uncertain = FALSE])
            /\ UNCHANGED <<seen, counted, mine>>
       [] op.kind = "delete" ->
            /\ Remember(id)
            /\ UNCHANGED <<rows, seen, counted, mine>>

FailWrite(local) ==
  LET op == pending[local]
  IN CASE op.kind = "send"    -> rows' = Without(local) /\ UNCHANGED <<deleted, mine>>
       [] op.kind = "react"   -> rows' = ToRow(op.row, Fewer) /\ UNCHANGED <<deleted, mine>>
       [] op.kind = "unreact" ->
            /\ rows' = ToRow(op.row, More)
            /\ mine' = [m \in DOMAIN mine \union {op.row} |->
                          IF m = op.row THEN op.reaction ELSE mine[m]]
            /\ UNCHANGED deleted
       [] op.kind = "edit"    ->
            /\ rows' = ToRow(op.row, LAMBDA r : [r EXCEPT !.body = op.old, !.uncertain = FALSE])
            /\ UNCHANGED <<deleted, mine>>
       [] op.kind = "delete"  ->
            /\ rows' = Append(rows, op.row)
            /\ deleted' = deleted \ {op.row.id}
            /\ UNCHANGED mine

UncertainWrite(local) ==
  LET op == pending[local]
      unsure(m) == rows' = ToRow(m, LAMBDA r : [r EXCEPT !.pending = FALSE, !.uncertain = TRUE])
  IN CASE op.kind = "send" -> unsure(local)
       [] op.kind = "edit" -> unsure(op.row)
       [] OTHER            -> UNCHANGED rows

TakeAnswer ==
  /\ answer.kind \in {"ok", "refused", "unknown"}
  /\ CASE answer.kind = "ok" ->
            /\ CompleteWrite(answer.local, answer.id)
            /\ excused' = IF pending[answer.local].kind = "send" /\ answer.id \in deleted
                          THEN excused \union {answer.id} ELSE excused
            /\ UNCHANGED <<live, deleted>>
       [] answer.kind = "refused" ->
            /\ FailWrite(answer.local)
            /\ UNCHANGED <<seen, live, known, filed, counted, excused>>
       [] answer.kind = "unknown" ->
            /\ UncertainWrite(answer.local)
            /\ excused' = excused \union Target(pending[answer.local])
            /\ UNCHANGED <<seen, live, deleted, known, filed, counted, mine>>
  /\ Settle(answer.local)
  /\ answer' = Idle
  /\ UNCHANGED <<relay, commands, subbed, wire, used>>

-----------------------------------------------------------------------------
(* What the interface does with frames.                                    *)

\* Mutant: a live message is not looked for among the rows.
ApplyTimelineAgain(m) ==
  /\ IF m \in live
     THEN UNCHANGED <<rows, seen, live, commands>>
     ELSE /\ rows' = Append(rows, FromEvent(m))
          /\ seen' = seen \union {m}
          /\ live' = live \union {m}
          /\ commands' = Append(commands, [kind |-> "aux", id |-> m])
  /\ UNCHANGED <<deleted, known, filed, counted, mine, excused>>

\* apply_timeline.
ApplyTimeline(m) ==
  /\ IF m \in seen \/ Shown(m)
     THEN UNCHANGED <<rows, seen, live, commands>>
     ELSE /\ rows' = Append(rows, FromEvent(m))
          /\ seen' = seen \union {m}
          /\ live' = live \union {m}
          /\ commands' = Append(commands, [kind |-> "aux", id |-> m])
  /\ UNCHANGED <<deleted, known, filed, counted, mine, excused>>

\* An overlay meets a write of this terminal on the same message that is not
\* answered yet: it is that write's echo, or the row is hidden by a deletion, or
\* its body shows an edit.
Meets(a, m) ==
  \/ aux[a].text \in DOMAIN pending
  \/ \E l \in DOMAIN pending :
       \/ pending[l].kind = "delete" /\ pending[l].row.id = m
       \/ pending[l].kind = "edit" /\ pending[l].row = m /\ aux[a].kind = "edit"

\* apply_overlay: once per event, and only while a view shows the message.
ApplyOverlay(a) ==
  LET e == aux[a]
      m == IF e.kind = "unreact" THEN aux[e.to].to ELSE e.to
      takes == /\ a \notin known
               /\ Shown(m)
               /\ e.kind = "unreact" => e.to \in counted
  IN /\ excused' = IF a \notin known /\ Meets(a, m) THEN excused \union {m} ELSE excused
     /\ IF ~takes
        THEN UNCHANGED <<rows, live, deleted, known, filed, counted, mine>>
        ELSE /\ Remember(a)
             /\ CASE e.kind = "react" ->
                       /\ rows' = ToRow(m, More)
                       /\ counted' = counted \union {a}
                       /\ UNCHANGED <<live, deleted, mine>>
                  [] e.kind = "unreact" ->
                       /\ rows' = ToRow(m, Fewer)
                       /\ counted' = counted \ {e.to}
                       /\ mine' = [r \in DOMAIN mine \ {m} |-> mine[r]]
                       /\ UNCHANGED <<live, deleted>>
                  [] e.kind = "edit" ->
                       /\ rows' = ToRow(m, LAMBDA r : [r EXCEPT !.body = e.text])
                       /\ UNCHANGED <<live, deleted, counted, mine>>
                  [] e.kind = "delete" ->
                       /\ rows' = Without(m)
                       /\ live' = live \ {m}
                       /\ deleted' = deleted \union {m}
                       /\ UNCHANGED <<counted, mine>>
     /\ UNCHANGED <<seen, commands>>

TakeFrame ==
  /\ wire # <<>>
  /\ IF Head(wire).kind = "post" THEN ApplyTimeline(Head(wire).of)
     ELSE ApplyOverlay(Head(wire).of)
  /\ wire' = Tail(wire)
  /\ UNCHANGED <<relay, pending, answer, subbed, used>>

-----------------------------------------------------------------------------
\* The conversation has been opened and its rows read.
Init ==
  /\ by \in {[m \in 1 .. Stored |-> "me"], [m \in 1 .. Stored |-> "other"]}
  /\ gone = {} /\ aux = <<>>
  /\ rows = [m \in 1 .. Stored |-> FromEvent(m)]
  /\ seen = Messages /\ subbed = Messages
  /\ live = {} /\ deleted = {} /\ known = {} /\ filed = {} /\ counted = {}
  /\ mine = [m \in {} |-> 0] /\ pending = [l \in {} |-> Idle]
  /\ commands = <<>> /\ answer = Idle /\ wire = <<>> /\ excused = {}
  /\ used = [writes |-> 0, others |-> 0, faults |-> 0, reopens |-> 0]

Next ==
  \/ OthersDo \/ Reconnect
  \/ SendComposer \/ ReactFocused \/ EditFocused \/ DeleteFocused \/ Reopen
  \/ RunWrite \/ RunOpen \/ RunAux
  \/ TakeHistory \/ TakeAnswer \/ TakeFrame

Spec == Init /\ [][Next]_vars
-----------------------------------------------------------------------------
\* The variables range over what the code's types allow.
TypeOK ==
  /\ by \in Seq({"me", "other"})
  /\ gone \subseteq Messages
  /\ \A i \in DOMAIN rows : rows[i].id \in Messages \union -MaxWrites .. -1
  /\ seen \union live \union deleted \union subbed \subseteq Messages
  /\ filed \subseteq known /\ known \union counted \subseteq Overlays
  /\ DOMAIN mine \subseteq Messages

\* No message stands twice in the conversation, whichever of its answer, its
\* echo, a page and a repeated frame comes first (apply_timeline, complete_write).
NoRowTwice ==
  \A i, j \in DOMAIN rows :
    rows[i].id = rows[j].id => i = j \/ rows[i].id \in excused

\* A row shown as sending is a send the command pump still owes an answer, and
\* the conversation is well formed.
SendingIsOwed ==
  /\ TypeOK
  /\ LET owed == {commands[i].local : i \in {j \in DOMAIN commands :
                    commands[j].kind \notin {"open", "aux"}}}
                 \union (IF answer.kind \in {"ok", "refused", "unknown"} THEN {answer.local} ELSE {})
     IN /\ DOMAIN pending = owed
        /\ {rows[i].id : i \in {j \in DOMAIN rows : rows[j].pending}}
             = {l \in owed : pending[l].kind = "send"}

\* Nothing is on its way.
Settled == wire = <<>> /\ commands = <<>> /\ answer = Idle /\ pending = [l \in {} |-> Idle]

\* What the relay's events say of a message.
Count(m) == Cardinality({a \in Overlays : aux[a].kind = "react" /\ aux[a].to = m /\ ~Removed(a)})
Edits(m) == {aux[a].text : a \in {b \in Overlays : aux[b].kind = "edit" /\ aux[b].to = m}}

\* With nothing on its way the conversation shows what the relay holds: every
\* message, none of the deleted ones, each counter, and the body of an edit if
\* there is one - of the messages whose overlays are subscribed to, outside the
\* crossings named above.  A deletion of unknown outcome hides its message for
\* good (deleted_rows), whatever the relay holds.
ShowsTheRelay ==
  Settled =>
    /\ \A m \in Messages \ (gone \union excused \union deleted) : Shown(m)
    /\ \A m \in subbed \ (excused \union (deleted \ gone)) :
         IF m \in gone THEN ~Shown(m)
         ELSE /\ RowOf(m).count = Count(m)
              /\ IF Edits(m) = {} THEN RowOf(m).body = 0 ELSE RowOf(m).body \in Edits(m)

=============================================================================
