---------------------------- MODULE FeedRegistry ----------------------------
(***************************************************************************)
(* What the WebSocket pump (src/sub.rs) promises the session that drives   *)
(* it: the set of feeds the session wants is what its requests, taken in   *)
(* the order they were sent, ask for.  No connection, backoff or reconnect *)
(* changes it; only the relay may, by refusing a timeline feed, and then   *)
(* only that feed goes.                                                    *)
(*                                                                         *)
(* The comments this stands for: "dropping one would silently lose a       *)
(* subscription for the rest of the session" and "the session's retained   *)
(* channel list is authoritative on each connection" (src/sub.rs).         *)
(***************************************************************************)
EXTENDS FeedRequests

CONSTANT Requests   \* the requests the session may send

VARIABLE wanted     \* [timeline, aux, typing, inbox]

Init == wanted = Nothing

\* The session asks; the pump owes the answer from here on.
Ask(r) == wanted' = After(wanted, r)

\* The relay refuses, or ends, one channel's timeline feed.
TimelineGone(c) == wanted' = [wanted EXCEPT !.timeline = @ \ {c}]

Next == \/ \E r \in Requests : Ask(r)
        \/ \E c \in Channels : TimelineGone(c)

Spec == Init /\ [][Next]_wanted
=============================================================================
