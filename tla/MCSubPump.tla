------------------------------ MODULE MCSubPump ------------------------------
(* SubPump on a small instance, and its refinement of FeedRegistry.         *)
EXTENDS SubPump, SequencesExt

CONSTANTS c1, m1, m2

\* One channel, every kind of request, an auxiliary feed of up to two chunks.
OneChannelRequests ==
    {[kind |-> "Timeline", channel |-> c1], [kind |-> "Inbox", channels |-> {c1}],
     [kind |-> "Typing", channels |-> {c1}], [kind |-> "Typing", channels |-> {}],
     [kind |-> "Aux", channel |-> c1, ids |-> {m1, m2}],
     [kind |-> "Aux", channel |-> c1, ids |-> {m2}],
     [kind |-> "AuxAdd", channel |-> c1, ids |-> {m1}]}

\* The feeds the session wants: what the pump retains, and the requests it has
\* taken or will take off the channel, in order.
Wanted ==
    FoldLeft(After,
             [timeline |-> timeline, aux |-> auxIds, typing |-> typing,
              inbox |-> inbox],
             queued \o control)
Ledger == INSTANCE FeedRegistry WITH wanted <- Wanted

\* The pump implements the registry: no request is lost or reordered by a drop,
\* a backoff, a reconnect or a refusal.
ImplementsRegistry == Ledger!Spec
=============================================================================
