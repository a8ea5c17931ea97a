---------------------------- MODULE FeedRequests ----------------------------
(* The requests a session makes of the WebSocket pump (SubControl in       *)
(* src/sub.rs), and what each one does to the feeds the session wants.     *)
CONSTANTS
    Channels,   \* channel ids
    Messages    \* event ids an auxiliary feed may name

Request ==
       [kind : {"Timeline"}, channel : Channels]
  \cup [kind : {"Aux", "AuxAdd"}, channel : Channels, ids : SUBSET Messages]
  \cup [kind : {"Typing", "Inbox"}, channels : SUBSET Channels]

Nothing == [ timeline |-> {},
             aux      |-> [c \in Channels |-> {}],
             typing   |-> {},
             inbox    |-> {} ]

\* The wanted feeds once request r is taken into account: a timeline is added,
\* the typing and inbox lists are replaced, an auxiliary list is replaced or
\* added to.
After(w, r) ==
    CASE r.kind = "Timeline" -> [w EXCEPT !.timeline = @ \cup {r.channel}]
      [] r.kind = "Aux"      -> [w EXCEPT !.aux[r.channel] = r.ids]
      [] r.kind = "AuxAdd"   -> [w EXCEPT !.aux[r.channel] = @ \cup r.ids]
      [] r.kind = "Typing"   -> [w EXCEPT !.typing = r.channels]
      [] r.kind = "Inbox"    -> [w EXCEPT !.inbox = r.channels]
=============================================================================
