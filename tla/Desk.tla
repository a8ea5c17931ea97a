--------------------------------- MODULE Desk ---------------------------------
(* What the terminal shows, who gets the next key, and where the text the    *)
(* user typed is: app.rs (App), keys.rs (the key maps), main.rs (the loop)   *)
(* and ui.rs (the order in which the layers are drawn).                      *)
(*                                                                           *)
(* Three pieces of code, each with an order of its own, must agree on the    *)
(* layer in front: `draw` paints it, `map_navigation` reads the key by its   *)
(* table, and `handle` gives the result to its handler.  There is one        *)
(* composer for all conversations: its text is put away and taken out as the *)
(* user moves between conversations, threads, search results and the reader, *)
(* and events (a new list of conversations, a lost membership, a refused     *)
(* send, a confirmed creation) do the same behind the user's back.           *)
(*                                                                           *)
(* Abstractions: one community (SessionTasks and Web switch it), a terminal  *)
(* above the minimum size; a key is one of the Actions its table may yield;  *)
(* what a message is made of, cursors, filters, the sidebar and the mention  *)
(* list are left out; a row that a key needs may be there or not.  What the  *)
(* forms write is in Lifecycle, what the surfaces read in Views.             *)
EXTENDS Naturals, Sequences, FiniteSets

CONSTANTS
  NumChannels,  \* conversations, in the order of the list
  MaxTexts,     \* bound: texts typed or brought back for editing
  MaxEvents     \* bound: lists, lost memberships and refusals

ASSUME DeskAssumption == /\ NumChannels \in Nat \ {0}
                         /\ {MaxTexts, MaxEvents} \subseteq Nat

VARIABLES
  desk,     \* the list, the selection, the composer and the drafts put away
  mode,     \* whether keys are text
  view,     \* thread, context, search and reader, and the way back
  over,     \* overlays and forms
  pending,  \* messages and edits that wait for their answer
  creating, \* a creation that was submitted, and its channel
  events,   \* events so far
  home,     \* history: where the user was when each text was begun
  unkept,   \* history: texts that are done with, or that an event moved, cut off or lost
  known     \* history: the conversations there ever were, and those lost

vars == <<desk, mode, view, over, pending, creating, events, home, unkept, known>>
untouched == <<pending, creating, events, home, unkept, known>>

None == 0
Channels == 1..NumChannels
Texts == 1..MaxTexts

Empty == [text |-> None, reply |-> None, edit |-> None]
NoJourney == [channel |-> None, composer |-> Empty, thread |-> None,
              back |-> FALSE, composing |-> FALSE]
NoReader == [origin |-> "None", channel |-> None]
NoForm == [kind |-> "None", channel |-> None]
NoOver == [help |-> FALSE, about |-> FALSE, form |-> NoForm, picker |-> FALSE, palette |-> FALSE,
           switcher |-> "Closed", agents |-> "Closed"]
-----------------------------------------------------------------------------
(* The composer and the drafts.                                              *)

SaveDraft(d) == IF d.selected = None THEN d ELSE [d EXCEPT !.draft[d.selected] = d.composer]

AdoptDraft(d) ==
  IF d.blocked \/ d.selected = None THEN d ELSE [d EXCEPT !.composer = d.draft[d.selected]]

\* A mutant: the text follows the user into the next conversation.
SwitchCarrying(d, c) == [d EXCEPT !.selected = c]

SwitchChannel(d, c) ==
  IF c = d.selected THEN d ELSE AdoptDraft([SaveDraft(d) EXCEPT !.selected = c])

Text == desk.composer.text

\* A composer that was cut off is not exchanged for the draft of the conversation that
\* it comes to, and will be put away over it.
PassedOver(c) == IF desk.blocked /\ c # desk.selected THEN {desk.draft[c].text} \ {None} ELSE {}

\* A position in a list of conversations, and what is there once it has changed.
Place(c) == Cardinality({d \in desk.listed : d < c})
Neighbour(S, i) ==
  IF S = {} THEN None
  ELSE CHOOSE c \in S : Cardinality({d \in S : d < c}) = IF i < Cardinality(S) THEN i ELSE Cardinality(S) - 1

\* The list without the conversations that are gone, and the selection's place.
Kept(S, selected) ==
  [desk EXCEPT !.listed = S, !.selected = selected,
               !.draft = [c \in Channels |-> IF c \in S THEN desk.draft[c] ELSE Empty]]

ActionChannel ==
  IF view.context THEN view.at ELSE IF view.thread # None THEN view.thread ELSE desk.selected

\* The rows of conversation c can be found, to edit one or to reply to it.
Found(c) == c \in desk.listed \union {view.at, view.thread}

SendPending == \E p \in pending : p.kind = "Send"
ThreadPending == \E p \in pending : p.thread
-----------------------------------------------------------------------------
(* The three orders.                                                         *)

Surface ==
  IF view.reader # NoReader THEN "Reader" ELSE IF view.context THEN "Context"
  ELSE IF view.search # "Closed" THEN "Search" ELSE IF view.thread # None THEN "Thread" ELSE "Channel"

HasForm == over.form # NoForm

Overlay ==
  IF over.about \/ over.help THEN "Help" ELSE IF HasForm THEN over.form.kind
  ELSE IF over.picker THEN "Picker" ELSE IF over.palette THEN "Palette"
  ELSE IF over.switcher # "Closed" THEN "Switcher" ELSE IF over.agents # "Closed" THEN "Agents" ELSE "None"

Forms == {"Create", "Edit", "Archive", "Members", "MemberPicker"}

\* Whose table reads the next key.
KeyOwner ==
  IF mode = "Composer" /\ ~over.help THEN "Composer"
  ELSE IF Overlay \in Forms \union {"Help", "Palette", "Agents"} THEN Overlay
  ELSE IF Surface \in {"Search", "Context", "Reader"} \/ Overlay = "None" THEN Surface ELSE Overlay

\* The layer the last frame shows in front.
Drawn ==
  IF over.about \/ over.help THEN "Help" ELSE IF over.picker THEN "Picker"
  ELSE IF over.palette THEN "Palette" ELSE IF over.switcher # "Closed" THEN "Switcher"
  ELSE IF over.agents # "Closed" THEN "Agents" ELSE IF HasForm THEN over.form.kind
  ELSE IF mode = "Composer" /\ Surface \in {"Channel", "Thread", "Context"} THEN "Composer" ELSE Surface

\* Whose handler gets what the table made of the key.
HandledBy ==
  IF mode = "Composer" THEN (IF over.help THEN "Help" ELSE "Composer")
  ELSE IF HasForm THEN over.form.kind
  ELSE IF Surface # "Channel" THEN (IF over.help THEN "Help" ELSE Surface)
  ELSE IF over.about \/ over.help THEN "Help" ELSE IF over.picker THEN "Picker"
  ELSE IF over.palette THEN "Palette" ELSE IF over.switcher # "Closed" THEN "Switcher"
  ELSE IF over.agents # "Closed" THEN "Agents" ELSE "Channel"

\* The tables: what each makes of the keys, as far as it matters here.
ControlKeys ==
  IF Surface = "Channel" /\ Overlay \in {"None", "Palette"} THEN {"OpenSearch", "TogglePalette"} ELSE {}
FormKeys == [k \in Forms |->
  {"Dismiss"} \union (IF k = "Create" THEN {"ComposerSend"}
                      ELSE IF k \in {"Members", "MemberPicker"} THEN {"MemberAdd"} ELSE {})]
OverlayKeys ==
  [Help |-> {"Dismiss"}, Palette |-> {"PaletteConfirm", "Dismiss", "ToggleHelp"},
   Agents |-> {"AgentsConfirm", "Dismiss", "ToggleAgents", "ToggleHelp"},
   Picker |-> {"CommunityConfirm", "Dismiss", "ToggleHelp"},
   Switcher |-> {"SwitcherConfirm", "SwitcherInput", "Dismiss"}
                  \union (IF over.switcher = "List" THEN {"ToggleHelp"} ELSE {})]
SearchKeys ==
  {"SearchSubmit", "Dismiss"}
    \union (IF view.search = "Results" THEN {"SearchEdit", "SearchFilter", "ToggleHelp"}
            ELSE IF view.search = "Form" THEN {"SearchInput"} ELSE {})
SurfaceKeys ==
  [Search |-> SearchKeys,
   Context |-> {"ContextOpenThread", "ContextOpenReader", "ContextReply", "ContextLeave", "ToggleHelp"},
   Reader |-> {"ReaderReply", "ReaderClose", "ToggleHelp"}]
ThreadKeys ==
  {"OpenReader", "OpenSearch", "ThreadReplyFocused", "ThreadReplyRoot", "EditRow", "ThreadLeave", "ToggleHelp"}
ChannelKeys ==
  {"OpenSearch", "ToggleSwitcher", "ToggleCommunityPicker", "OpenReader", "OpenThread", "ComposeNew",
   "ComposeReply", "ToggleAgents", "EditRow", "ToggleHelp", "Dismiss", "Channel"}
ComposerKeys == {"OpenSearch", "ComposerInput", "ComposerBackspace", "ComposerEscape", "ComposerSend"}

Keys ==
  IF KeyOwner = "Composer" THEN ComposerKeys
  ELSE ControlKeys \union (IF KeyOwner \in Forms THEN FormKeys[KeyOwner]
                           ELSE IF KeyOwner \in DOMAIN OverlayKeys THEN OverlayKeys[KeyOwner]
                           ELSE IF KeyOwner \in DOMAIN SurfaceKeys THEN SurfaceKeys[KeyOwner]
                           ELSE IF KeyOwner = "Thread" THEN ThreadKeys ELSE ChannelKeys)
-----------------------------------------------------------------------------
(* Search, and the way back from what it led to.                             *)

Journey(composing) ==
  IF view.journey # NoJourney THEN view.journey
  ELSE [channel |-> ActionChannel, composer |-> desk.composer, thread |-> view.thread,
        back |-> view.back, composing |-> composing]

\* A mutant: only while the composer has the keys.
DetourDraftTyping == view.drafting /\ mode = "Composer" /\ Text # None

\* A reply begun on the way keeps the user from leaving it behind.
DetourDraft == view.drafting /\ Text # None

OriginDraftBlocks == view.journey.composer.text # None

\* A mutant: the overlays stay open under the search.
UnderSearchOpen == [over EXCEPT !.help = FALSE]

UnderSearch ==
  [over EXCEPT !.help = FALSE, !.switcher = "Closed", !.agents = "Closed", !.palette = FALSE]

OpenSearch(composing) ==
  /\ view.search = "Closed" /\ ~view.context /\ ActionChannel # None
  /\ composing => ~ThreadPending /\ ~SendPending
  /\ over' = UnderSearch
  /\ mode' = "Navigation"
  /\ view' = [view EXCEPT !.search = "Query", !.origin = ActionChannel, !.journey = Journey(composing)]
  /\ unkept' = IF view.journey = NoJourney THEN unkept ELSE unkept \union ({Text} \ {None})
  /\ UNCHANGED <<desk, pending, creating, events, home, known>>

LeaveSearchJourney ==
  LET j == view.journey
      lost == j.channel \notin desk.listed IN
  /\ ~DetourDraft
  /\ \/ /\ j = NoJourney /\ view' = [view EXCEPT !.search = "Closed"]
        /\ UNCHANGED <<desk, mode, unkept>>
     \/ /\ j # NoJourney
        /\ view' = [view EXCEPT !.search = "Closed", !.journey = NoJourney, !.drafting = FALSE,
                                !.thread = j.thread, !.back = j.back]
        /\ desk' = [desk EXCEPT !.composer = j.composer,
                                !.selected = IF lost THEN @ ELSE j.channel,
                                !.blocked = IF lost THEN j.composer.text # None ELSE @]
        /\ unkept' = IF lost THEN unkept \union ({j.composer.text} \ {None}) ELSE unkept
        /\ mode' = IF j.composing THEN "Composer" ELSE "Navigation"
  /\ UNCHANGED <<over, pending, creating, events, home, known>>

ContextReply ==
  LET c == view.at
      d == SwitchChannel(desk, c) IN
  /\ ~OriginDraftBlocks /\ mode' = "Composer"
  /\ \/ /\ DetourDraft /\ UNCHANGED desk
     \/ /\ ~DetourDraft
        /\ c \in desk.listed /\ (c # desk.selected => desk.draft[c].text = None)
        /\ desk' = [d EXCEPT !.composer.edit = None, !.composer.reply = c]

ThreadCompose ==
  LET c == view.thread IN
  /\ c # None /\ ~OriginDraftBlocks /\ mode' = "Composer"
  /\ ~(view.back /\ c # desk.selected /\ desk.draft[c].text # None)
  /\ \/ Text # None /\ {desk.composer.reply, desk.composer.edit} # {None} /\ UNCHANGED desk
     \/ Text = None /\ desk' = [desk EXCEPT !.composer.edit = None, !.composer.reply = c]

OpenContextThread ==
  /\ ~DetourDraft
  /\ view' = [view EXCEPT !.context = FALSE, !.thread = view.at, !.back = TRUE]
  /\ UNCHANGED <<desk, mode, over, untouched>>

OpenThread ==
  /\ view.thread = None /\ Text = None /\ desk.selected # None
  /\ view' = [view EXCEPT !.thread = desk.selected, !.back = FALSE]
  /\ over' = [over EXCEPT !.help = FALSE, !.switcher = "Closed", !.agents = "Closed"]
  /\ UNCHANGED <<desk, mode, untouched>>

LeaveThread ==
  /\ Text = None \/ (view.back /\ OriginDraftBlocks)
  /\ ~ThreadPending
  /\ view' = [view EXCEPT !.thread = None, !.back = FALSE, !.context = @ \/ view.back]
  /\ desk' = IF view.back THEN desk ELSE [desk EXCEPT !.composer.reply = None, !.composer.edit = None]
  /\ UNCHANGED <<mode, over, untouched>>

ReaderOrigin ==
  IF view.context THEN "Context" ELSE IF view.thread # None THEN "Thread" ELSE "Channel"

OpenReader ==
  /\ view.reader = NoReader /\ ActionChannel # None
  /\ view' = [view EXCEPT !.reader = [origin |-> ReaderOrigin, channel |-> ActionChannel]]
  /\ over' = [over EXCEPT !.help = FALSE, !.switcher = "Closed", !.agents = "Closed"]
  /\ UNCHANGED <<desk, mode, untouched>>

\* The conversation the reader was opened from is selected again.
Returned ==
  [desk EXCEPT !.selected = IF view.reader.origin = "Channel" /\ view.reader.channel \in desk.listed
                            THEN view.reader.channel ELSE @]

CloseReader ==
  /\ view' = [view EXCEPT !.reader = NoReader] /\ desk' = Returned
  /\ UNCHANGED <<mode, over, untouched>>

\* Where the reply itself is refused, the reader is closed all the same.
ReaderReply ==
  /\ ~OriginDraftBlocks /\ Text = None
  /\ \/ /\ \/ view.context /\ ContextReply
           \/ ~view.context /\ view.back /\ ThreadCompose
        /\ view' = [view EXCEPT !.reader = NoReader, !.drafting = TRUE]
        /\ UNCHANGED <<over, untouched>>
     \/ /\ ~view.context /\ ~view.back /\ view' = [view EXCEPT !.reader = NoReader]
        /\ desk' = [Returned EXCEPT !.composer.edit = None, !.composer.reply = view.reader.channel]
        /\ mode' = "Composer" /\ UNCHANGED <<over, untouched>>
     \/ (view.context \/ view.back) /\ CloseReader
-----------------------------------------------------------------------------
(* The composer.                                                             *)

Compose(target) ==
  /\ desk' = [desk EXCEPT !.composer.reply = target, !.composer.edit = None]
  /\ mode' = "Composer" /\ UNCHANGED <<view, over, untouched>>

\* A text that was not there before, begun where the user is; a composer that was cut
\* off from its conversation goes along with the user, and its text is of none.
Begin(composer) ==
  /\ Len(home) < MaxTexts
  /\ home' = Append(home, ActionChannel)
  /\ desk' = [desk EXCEPT !.composer = [composer EXCEPT !.text = Len(home) + 1]]
  /\ unkept' = unkept \union ({Text} \ {None}) \union (IF desk.blocked THEN {Len(home) + 1} ELSE {})
  /\ UNCHANGED <<view, over, pending, creating, events, known>>

EditRow ==
  /\ view.thread # None => Text = None
  /\ ActionChannel # None /\ mode' = "Composer"
  /\ Begin([reply |-> None, edit |-> ActionChannel, text |-> None])

Unblock(blocked) ==
  /\ desk.blocked # blocked /\ desk' = [desk EXCEPT !.blocked = blocked]
  /\ unkept' = unkept \union ({Text} \ {None})
  /\ UNCHANGED <<mode, view, over, pending, creating, events, home, known>>

Write(kind) ==
  /\ pending' = pending \union
       {[kind |-> kind, text |-> Text, channel |-> ActionChannel, reply |-> desk.composer.reply,
         edit |-> desk.composer.edit, thread |-> view.thread # None]}
  /\ desk' = [desk EXCEPT !.composer = Empty]
  /\ mode' = "Navigation" /\ UNCHANGED <<view, over, creating, events, home, unkept, known>>

SendComposer ==
  \/ Text = None /\ Unblock(FALSE)
  \/ /\ Text # None /\ ~desk.blocked
     /\ \/ ActionChannel \notin desk.listed \union {None} /\ Unblock(TRUE)
        \/ /\ ActionChannel \in desk.listed
           /\ \/ desk.composer.edit # None /\ Found(desk.composer.edit) /\ Write("Edit")
              \/ /\ desk.composer.edit = None
                 /\ desk.composer.reply # None => Found(desk.composer.reply)
                 /\ Write("Send")

ComposerEscape ==
  LET c == desk.composer
      leaves == view.thread # None \/ view.context \/ {c.reply, c.edit} = {None} IN
  /\ mode' = IF leaves THEN "Navigation" ELSE mode
  /\ desk' = IF leaves THEN desk
             ELSE IF c.reply # None THEN [desk EXCEPT !.composer.reply = None]
             ELSE [desk EXCEPT !.composer.edit = None]
  /\ UNCHANGED <<view, over, untouched>>

CloseHelp == over' = [over EXCEPT !.help = FALSE] /\ UNCHANGED <<desk, mode, view, untouched>>

HandleComposer(a) ==
  \/ over.help /\ a \in {"Dismiss", "ToggleHelp"} /\ CloseHelp
  \/ a = "OpenSearch" /\ view.thread = None /\ OpenSearch(TRUE)
  \/ a = "ComposerInput" /\ Text = None /\ Begin(desk.composer) /\ UNCHANGED mode
  \/ /\ a = "ComposerBackspace" /\ Text # None
     /\ desk' = [desk EXCEPT !.composer.text = None] /\ unkept' = unkept \union {Text}
     /\ UNCHANGED <<mode, view, over, pending, creating, events, home, known>>
  \/ a = "ComposerEscape" /\ ComposerEscape
  \/ a = "ComposerSend" /\ SendComposer
-----------------------------------------------------------------------------
(* The handlers of navigation.                                               *)

SetOver(o) == over' = o /\ UNCHANGED <<desk, mode, view, untouched>>
SetView(v) == view' = v /\ UNCHANGED <<desk, mode, over, untouched>>

HandleForm(a) ==
  LET f == over.form IN
  \/ /\ a = "Dismiss"
     /\ SetOver([over EXCEPT !.form = IF f.kind = "MemberPicker" THEN [f EXCEPT !.kind = "Members"] ELSE NoForm])
  \/ /\ a = "MemberAdd" /\ f.kind = "Members"
     /\ SetOver([over EXCEPT !.form = [f EXCEPT !.kind = "MemberPicker"]])
  \/ /\ a = "ComposerSend" /\ f.kind = "Create" /\ creating.state = "No"
     /\ \E c \in Channels \ known.ever : creating' = [state |-> "Sent", channel |-> c]
     /\ UNCHANGED <<desk, mode, view, over, pending, events, home, unkept, known>>

ToggleHelp(a) ==
  \/ over.help /\ a \in {"Dismiss", "ToggleHelp"} /\ CloseHelp
  \/ ~over.help /\ a = "ToggleHelp" /\ SetOver([over EXCEPT !.help = TRUE])

HandleReader(a) ==
  \/ ToggleHelp(a)
  \/ a \in {"ReaderClose", "Dismiss"} /\ ~over.help /\ CloseReader
  \/ a = "ReaderReply" /\ ReaderReply

HandleContext(a) ==
  \/ ToggleHelp(a)
  \/ /\ ~over.help
     /\ \/ a \in {"ContextLeave", "Dismiss"} /\ ~DetourDraft /\ ~SendPending
           /\ SetView([view EXCEPT !.context = FALSE, !.search = "Results"])
        \/ a = "ContextOpenReader" /\ OpenReader
        \/ a = "ContextOpenThread" /\ OpenContextThread
        \/ a = "ContextReply" /\ ContextReply /\ view' = [view EXCEPT !.drafting = TRUE]
           /\ UNCHANGED <<over, untouched>>

\* Where Enter and Esc lead from each part of the search screen.
Entered == [Query |-> "Results", Form |-> "Results", Author |-> "Form", Scope |-> "Form"]

HandleSearch(a) ==
  \/ ToggleHelp(a)
  \/ /\ ~over.help /\ view.search # "Results" /\ a \in {"SearchSubmit", "Dismiss"}
     /\ SetView([view EXCEPT !.search = Entered[@]])
  \/ /\ ~over.help /\ view.search = "Form" /\ a = "SearchInput"
     /\ \E s \in {"Author", "Scope"} : SetView([view EXCEPT !.search = s])
  \/ /\ ~over.help /\ view.search = "Results"
     /\ \/ a = "SearchEdit" /\ SetView([view EXCEPT !.search = "Query"])
        \/ a = "SearchFilter" /\ SetView([view EXCEPT !.search = "Form"])
        \/ a = "Dismiss" /\ LeaveSearchJourney
        \/ a = "SearchSubmit"
           /\ \E c \in desk.listed : SetView([view EXCEPT !.search = "Closed", !.context = TRUE, !.at = c])

HandleThread(a) ==
  \/ ToggleHelp(a)
  \/ a = "ThreadLeave" /\ LeaveThread
  \/ a = "OpenReader" /\ OpenReader
  \/ /\ a \in {"ThreadReplyRoot", "ThreadReplyFocused"} /\ ThreadCompose
     /\ view' = [view EXCEPT !.drafting = @ \/ (view.back /\ Text = None)] /\ UNCHANGED <<over, untouched>>
  \/ a = "EditRow" /\ EditRow

Uncovered == [over EXCEPT !.help = FALSE, !.about = FALSE, !.picker = FALSE, !.palette = FALSE,
                          !.switcher = "Closed", !.agents = "Closed"]

Dismiss ==
  SetOver(IF over.about THEN [over EXCEPT !.about = FALSE] ELSE IF over.help THEN [over EXCEPT !.help = FALSE]
          ELSE IF over.picker THEN [over EXCEPT !.picker = FALSE]
          ELSE IF over.palette THEN [over EXCEPT !.palette = FALSE]
          ELSE IF over.switcher = "Query" THEN [over EXCEPT !.switcher = "List"]
          ELSE IF over.switcher = "List" THEN [over EXCEPT !.switcher = "Closed"]
          ELSE [over EXCEPT !.agents = IF @ = "Detail" THEN "List" ELSE "Closed"])

\* What the palette and the keys of the channel have in common.
ToggleAgents(o) ==
  SetOver(IF o.agents # "Closed" THEN [o EXCEPT !.agents = "Closed"]
          ELSE [o EXCEPT !.help = FALSE, !.switcher = "Closed", !.palette = FALSE, !.agents = "List"])

ToggleSwitcher(o) ==
  SetOver(IF o.switcher # "Closed" THEN [o EXCEPT !.switcher = "Closed"]
          ELSE IF desk.listed = {} THEN o
          ELSE [o EXCEPT !.help = FALSE, !.agents = "Closed", !.palette = FALSE, !.picker = FALSE, !.switcher = "List"])

TogglePalette ==
  SetOver(IF over.palette THEN [over EXCEPT !.palette = FALSE] ELSE [Uncovered EXCEPT !.palette = TRUE])

ToggleCommunityPicker ==
  SetOver(IF over.picker THEN [over EXCEPT !.picker = FALSE]
          ELSE [over EXCEPT !.help = FALSE, !.switcher = "Closed", !.palette = FALSE, !.agents = "Closed",
                            !.picker = TRUE])

OpenForm(o, kind) ==
  /\ kind # "Create" => desk.selected # None
  /\ SetOver([o EXCEPT !.form = [kind |-> kind, channel |-> IF kind = "Create" THEN None ELSE desk.selected]])

RunPalette ==
  LET o == [over EXCEPT !.palette = FALSE] IN
  /\ over.palette
  /\ \/ ToggleSwitcher(o) \/ OpenSearch(FALSE) \/ ToggleAgents(o)
     \/ \E k \in {"Create", "Edit", "Archive", "Members"} : OpenForm(o, k)
     \/ SetOver([o EXCEPT !.about = TRUE, !.help = FALSE]) \/ SetOver([o EXCEPT !.help = TRUE])

Switch(o, c) ==
  /\ over' = o /\ desk' = SwitchChannel(desk, c) /\ unkept' = unkept \union PassedOver(c)
  /\ UNCHANGED <<mode, view, pending, creating, events, home, known>>

ConfirmAgents ==
  \/ over.agents = "List" /\ SetOver([over EXCEPT !.agents = "Detail"])
  \/ over.agents = "Detail" /\ \E c \in desk.listed : Switch([over EXCEPT !.agents = "Closed"], c)

HandleChannel(a) ==
  \/ /\ a = "ToggleHelp" /\ SetOver([over EXCEPT !.about = FALSE, !.help = ~@])
  \/ a = "Dismiss" /\ Dismiss
  \/ /\ a = "Channel" /\ over.switcher = "Closed"
     /\ \E c \in desk.listed : Switch([over EXCEPT !.palette = FALSE], c)
  \/ a = "ToggleAgents" /\ ToggleAgents(over)
  \/ a = "ToggleCommunityPicker" /\ ToggleCommunityPicker
  \/ a = "ToggleSwitcher" /\ ToggleSwitcher(over)
  \/ a = "TogglePalette" /\ TogglePalette
  \/ a = "PaletteConfirm" /\ RunPalette
  \/ a = "CommunityConfirm" /\ over.picker /\ SetOver([over EXCEPT !.picker = FALSE])
  \/ a = "SwitcherInput" /\ over.switcher = "List" /\ SetOver([over EXCEPT !.switcher = "Query"])
  \/ /\ a = "SwitcherConfirm" /\ over.switcher # "Closed"
     /\ \E c \in desk.listed : Switch([over EXCEPT !.switcher = "Closed"], c)
  \/ a = "AgentsConfirm" /\ ConfirmAgents
  \/ a = "ComposeNew" /\ Compose(None)
  \/ a = "ComposeReply" /\ \E target \in {None, desk.selected} : Compose(target)
  \/ a = "EditRow" /\ EditRow
  \/ a = "OpenSearch" /\ OpenSearch(FALSE)
  \/ a = "OpenThread" /\ OpenThread
  \/ a = "OpenReader" /\ OpenReader

Handle(a) ==
  \/ mode = "Composer" /\ HandleComposer(a)
  \/ /\ mode = "Navigation"
     /\ \/ HasForm /\ HandleForm(a)
        \/ /\ ~HasForm
           /\ \/ Surface = "Reader" /\ HandleReader(a)
              \/ Surface = "Context" /\ HandleContext(a)
              \/ Surface = "Search" /\ HandleSearch(a)
              \/ Surface = "Thread" /\ HandleThread(a)
              \/ Surface = "Channel" /\ HandleChannel(a)

\* One turn of the loop: a key is read and handled.
Press == \E a \in Keys : Handle(a)
-----------------------------------------------------------------------------
(* The events of the session.                                                *)

Answer(p) ==
  /\ pending' = pending \ {p} /\ unkept' = unkept \union {p.text}
  /\ UNCHANGED <<desk, mode, view, over, creating, events, home, known>>

\* The target in the composer is of the conversation in which it would be sent, or the
\* step changes neither: a draft without a text may have been put away with another
\* conversation than its target's, and where an event takes one out nothing is said of
\* what is typed there.
TargetFits == {desk.composer.reply, desk.composer.edit} \subseteq {None, ActionChannel}
Fitting == TargetFits' \/ <<desk.composer, ActionChannel>>' = <<desk.composer, ActionChannel>>

\* Where text t is to be found.  The copy left with the selected conversation is out of date.
Held(t) ==
  \/ t \in {Text, view.journey.composer.text}
  \/ \E c \in Channels \ {desk.selected} : desk.draft[c].text = t
  \/ \E p \in pending : p.text = t

\* The texts that an event loses: it puts a draft in the composer over what was there, or
\* forgets the drafts of a lost conversation.
Dropped == {t \in 1..Len(home) : Held(t) /\ ~Held(t)'}

\* Elsewhere an event that changes the composer, or opens it, has the user type a text
\* that is not known to belong to the detour, and is lost where the detour ends.
AtHome == Surface \in {"Channel", "Thread"} /\ view.journey = NoJourney
Displaced == IF Fitting /\ (AtHome' \/ UNCHANGED <<desk.composer, mode, view.thread>>) THEN {} ELSE Texts

FailWrite(p) ==
  /\ events < MaxEvents /\ events' = events + 1
  /\ pending' = pending \ {p}
  /\ \/ /\ p.kind = "Send" /\ mode' = "Composer"
        /\ desk' = [desk EXCEPT !.composer.text = p.text, !.composer.reply = p.reply]
        /\ UNCHANGED view
        /\ unkept' = unkept \union {p.text} \union Displaced \union Dropped
     \/ p.kind = "Edit" /\ UNCHANGED <<desk, mode, view>> /\ unkept' = unkept \union {p.text}
  /\ UNCHANGED <<over, creating, home, known>>

\* The thread that was on screen is gone, and its writes with it.
Untracked == {[p EXCEPT !.thread = FALSE] : p \in pending}

\* A confirmed creation is opened under a thread, a search or a reader, which will
\* not look for the texts where the switch puts them: nothing is said of any then.
Misplaced == IF Surface = "Channel" THEN Displaced ELSE Texts

\* The texts that an event takes out into the composer or loses.
Brought == ({desk'.composer.text} \ {Text, None}) \union Displaced \union Dropped

\* What a lost conversation leaves behind: with its thread, the origin of a search, which
\* takes the place of what is typed next when a later search is left; with its search, a
\* reader of the context, whose reply goes to the conversation that is selected now.
\* Nothing is said of any text then.
Stranded ==
  IF \/ view.thread # None /\ view'.thread = None /\ view'.journey # NoJourney
     \/ view.context /\ ~view'.context /\ view'.reader # NoReader
  THEN Texts ELSE {}

MergeChannels(S) ==
  LET lost == view.thread \notin S \union {None}
      kept == Kept(S, IF desk.selected \in S THEN desk.selected ELSE Neighbour(S, Place(desk.selected))) IN
  IF lost THEN [kept EXCEPT !.blocked = Text # None,
                            !.composer = IF Text # None THEN @ ELSE Empty]
  ELSE IF view.thread # None THEN kept ELSE AdoptDraft(kept)

Roster(S) ==
  LET lost == view.thread \notin S \union {None}
      d == MergeChannels(S)
      open == creating.state = "Unlisted" /\ creating.channel \in S IN
  /\ events < MaxEvents /\ events' = events + 1
  /\ desk' = IF open THEN SwitchChannel(d, creating.channel) ELSE d
  /\ creating' = IF open THEN [state |-> "No", channel |-> None] ELSE creating
  /\ view' = [view EXCEPT !.thread = IF lost THEN None ELSE @]
  /\ UNCHANGED mode
  /\ pending' = IF lost THEN Untracked ELSE pending
  /\ unkept' = unkept \union (IF lost THEN {Text} \ {None} ELSE {}) \union Brought
                      \union (IF open THEN Misplaced ELSE {}) \union Stranded
  /\ known' = [ever |-> known.ever \union S, lost |-> known.lost \union (desk.listed \ S)]
  /\ UNCHANGED <<over, home>>

Confirmed ==
  LET c == creating.channel
      open == c \in desk.listed IN
  /\ creating.state = "Sent"
  /\ over' = [over EXCEPT !.form = IF @.kind = "Create" THEN NoForm ELSE @]
  /\ creating' = IF open THEN [state |-> "No", channel |-> None] ELSE [creating EXCEPT !.state = "Unlisted"]
  /\ desk' = IF open THEN SwitchChannel(desk, c) ELSE desk
  /\ UNCHANGED <<view, mode>>
  /\ unkept' = IF open THEN unkept \union Misplaced \union PassedOver(c) ELSE unkept
  /\ UNCHANGED <<pending, events, home, known>>

ChannelGone(c) ==
  LET revoked == view.origin = c \/ (view.context /\ view.at = c)
      keeps == Text # None /\ (revoked \/ view.thread # None)
      rest == desk.listed \ {c}
      d == Kept(rest, Neighbour(rest, Place(c)))
      v == IF revoked THEN [view EXCEPT !.search = "Closed", !.origin = None, !.context = FALSE, !.at = None,
                                        !.journey = NoJourney, !.drafting = FALSE] ELSE view IN
  /\ c \in desk.listed /\ events < MaxEvents /\ events' = events + 1
  /\ desk' = IF keeps THEN [d EXCEPT !.blocked = TRUE] ELSE AdoptDraft(d)
  /\ mode' = IF keeps THEN "Composer" ELSE mode
  /\ view' = [v EXCEPT !.reader = IF @.channel = c THEN NoReader ELSE @,
                       !.thread = IF @ = c THEN None ELSE @]
  /\ pending' = IF view.thread = c THEN Untracked ELSE pending
  /\ over' = [over EXCEPT !.form = IF @.kind \in {"Members", "MemberPicker"} /\ @.channel = c THEN NoForm ELSE @]
  /\ unkept' = unkept \union (IF keeps THEN {Text} \union Displaced \union Dropped ELSE Brought)
                      \union Stranded
  /\ known' = [known EXCEPT !.lost = @ \union {c}]
  /\ UNCHANGED <<creating, home>>

Init ==
  \E S \in SUBSET Channels \ {{}} :
    /\ desk = [listed |-> S, selected |-> Neighbour(S, 0), composer |-> Empty, blocked |-> FALSE,
               draft |-> [c \in Channels |-> Empty]]
    /\ mode = "Navigation"
    /\ view = [thread |-> None, back |-> FALSE, context |-> FALSE, at |-> None, drafting |-> FALSE,
               search |-> "Closed", origin |-> None, journey |-> NoJourney, reader |-> NoReader]
    /\ over = NoOver
    /\ pending = {} /\ creating = [state |-> "No", channel |-> None] /\ events = 0
    /\ home = <<>> /\ unkept = {} /\ known = [ever |-> S, lost |-> {}]

Next ==
  \/ Press \/ Confirmed
  \/ \E p \in pending : Answer(p) \/ FailWrite(p)
  \/ \E S \in SUBSET Channels : Roster(S)
  \/ \E c \in Channels : ChannelGone(c)

Spec == Init /\ [][Next]_vars
-----------------------------------------------------------------------------
(* Properties.                                                               *)

ComposerType(c) == c.text \in {None} \union Texts /\ {c.reply, c.edit} \subseteq {None} \union Channels

\* The types, and: a draft is put away only with a conversation of the list, a
\* conversation is selected while there is one, and there is a way back from
\* what is not on screen only if something may lead to it.
TypeOK ==
  /\ desk.listed \subseteq Channels /\ desk.blocked \in BOOLEAN
  /\ IF desk.listed = {} THEN desk.selected = None ELSE desk.selected \in desk.listed
  /\ ComposerType(desk.composer) /\ \A c \in Channels : ComposerType(desk.draft[c])
  /\ \A c \in Channels \ desk.listed : desk.draft[c] = Empty
  /\ mode \in {"Navigation", "Composer"}
  /\ {view.thread, view.at, view.origin} \subseteq {None} \union Channels
  /\ view.search \in {"Closed", "Results"} \union DOMAIN Entered
  /\ ComposerType(view.journey.composer)
  /\ over.form.kind \in {"None"} \union Forms
  /\ over.switcher \in {"Closed", "List", "Query"} /\ over.agents \in {"Closed", "List", "Detail"}

\* The layer in front gets the keys, and nothing is in front of a composer in
\* use or of a surface other than the channel, but the help; nor a reader of a search.
Aligned ==
  /\ KeyOwner = Drawn /\ HandledBy = Drawn
  /\ mode = "Composer" => Surface \in {"Channel", "Thread", "Context"}
  /\ mode = "Composer" \/ Surface # "Channel" => over \in {NoOver, [NoOver EXCEPT !.help = TRUE]}
  /\ view.reader # NoReader => view.search = "Closed"

\* While the layer in front gets the keys, by its own table and its own handler,
\* it goes on getting them, whatever the user presses and whatever arrives.  Only
\* two events break this: a refused send and a lost conversation, which open the
\* composer under whatever is in front (draw, map_navigation, handle).
KeysFollowTheScreen ==
  [][Aligned => Aligned' \/ (events' > events /\ mode' = "Composer")]_vars

\* A text is sent where the user was when it was begun, and as a reply to or an
\* edit of a message of that conversation, through any detour by threads, search
\* results and the reader.  Excepted are the texts an event cut off or moved, and
\* targets in a conversation that was lost since.
SentAtHome ==
  \A p \in pending : p.text \notin unkept =>
    /\ p.channel = home[p.text]
    /\ {p.reply, p.edit} \subseteq {None, p.channel} \union known.lost

\* A text that was begun stays in the composer, with a conversation, with the suspended
\* origin of a search, or on its way, until the user erases or replaces it or its
\* write is answered: no key loses one, and no confirmed creation does.  Excepted are
\* what events lose, and a draft that the user visits with a composer that was cut off.
KeptByKeys == \A t \in 1..Len(home) \ unkept : Held(t)

\* While no conversation was lost, an inspection has an origin to go back to, and
\* an origin is kept only as long as there is an inspection to come back from.
InspectionHasOrigin ==
  known.lost # {} \/ ((view.search # "Closed" \/ view.context \/ (view.thread # None /\ view.back))
                   <=> view.journey # NoJourney)

\* Detours come home: inspections to their origin, texts to where they were begun.
\* Every layer is well formed.
DetoursComeHome == TypeOK /\ SentAtHome /\ InspectionHasOrigin
=============================================================================
