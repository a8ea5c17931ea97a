------------------------------- MODULE SubPump -------------------------------
(***************************************************************************)
(* The WebSocket pump of src/sub.rs: one task that owns the relay          *)
(* connection, keeps the subscriptions the session asked for, and rebuilds *)
(* them on every new connection.                                           *)
(*                                                                         *)
(* Actors: the session (sends SubControl requests, drops the sender to     *)
(* shut down), the pump, the relay, and the socket between the two, whose  *)
(* two directions are FIFO queues that can cross each other.               *)
(*                                                                         *)
(* Abstractions.  A subscription id is <<feed, channel, part>>, where feed *)
(* is the prefix the code puts in the id ("t", "a", "y", "i", "o") and     *)
(* part the chunk index of an auxiliary feed.  Which ids a chunk names is  *)
(* left out; how many chunks there are is kept.  EVENT, NOTICE and OK      *)
(* frames change no pump state and are left out; an observer frame that    *)
(* precedes the EOSE of its feed tells the interface what the EOSE does,   *)
(* and one that follows tells it nothing new.  An AUTH re-challenge that   *)
(* fails is a connection that ends (SocketDies).  The events channel to    *)
(* the interface is what it was told: the feeds that ended, and whether    *)
(* the observer feed is established (App.agents.observed).                 *)
(***************************************************************************)
EXTENDS FeedRequests, Integers, Sequences, FiniteSets

CONSTANTS
    NoChannel,      \* the channel of the observer feed: it has none
    AuxChunk,       \* AUX_CHUNK: auxiliary ids per REQ
    Requests,       \* the SubControl values the session may send
    MaxRequests,    \* bound: how many requests the session sends
    MaxFailures,    \* bound: connections that fail or die
    MaxRefusals     \* bound: subscriptions the relay refuses or ends

ASSUME ChannelsAssumption == NoChannel \notin Channels
ASSUME MessagesAssumption == IsFiniteSet(Messages)
ASSUME ChunkAssumption    == AuxChunk \in Nat \ {0}
ASSUME RequestsAssumption == Requests \subseteq Request
ASSUME BoundsAssumption   ==
    MaxRequests \in Nat /\ MaxFailures \in Nat /\ MaxRefusals \in Nat

VARIABLES
    phase,      \* where run_ws_pump is
    first,      \* no connection has succeeded yet
    subIds,     \* PumpState.sub_ids: the ids this connection routes
    timeline,   \* PumpState.timeline_channels
    auxIds,     \* PumpState.aux_ids
    typing,     \* PumpState.typing_channels
    inbox,      \* PumpState.inbox_channels
    queued,     \* requests received while backing off
    control,    \* the SubControl channel
    open,       \* the session still holds the sender
    alive,      \* the socket works
    toRelay,    \* frames on the way to the relay
    toClient,   \* frames on the way to the pump
    served,     \* subscriptions the relay serves on this connection
    told,       \* feeds the interface was told have ended, and not asked since
    observed,   \* the interface was told the observer feed is established
    sent, failures, refusals    \* counters for the bounds

pump    == <<phase, first>>
book    == <<subIds, timeline, auxIds, typing, inbox>>
socket  == <<alive, toRelay, toClient, served>>
session == <<control, open, sent>>
view    == <<told, observed>>
vars    == <<pump, book, queued, session, socket, view, failures, refusals>>
-----------------------------------------------------------------------------
(* Subscription ids.                                                       *)

Observer         == <<"o", NoChannel, 0>>
FeedIds(feed, S) == {<<feed, c, 0>> : c \in S}
Chunks(ids)      == (Cardinality(ids) + AuxChunk - 1) \div AuxChunk
AuxSubs(c, ids)  == {<<"a", c, k>> : k \in 0 .. Chunks(ids) - 1}

SubId == FeedIds("t", Channels) \cup FeedIds("y", Channels)
           \cup FeedIds("i", Channels) \cup {Observer}
           \cup {<<"a", c, k>> : c \in Channels, k \in 0 .. Cardinality(Messages)}

OfFeed(feed)    == {id \in subIds : id[1] = feed}
AuxOf(c)        == {id \in subIds : id[1] = "a" /\ id[2] = c}

\* The feeds whose end the interface is told of; an auxiliary one is not.
Reported == {id \in SubId : id[1] # "a"}

Close(ids)   == [type |-> "CLOSE", ids |-> ids]
Req(ids)     == [type |-> "REQ", ids |-> ids]
Closed(id)   == [type |-> "CLOSED", id |-> id]
Eose(id)     == [type |-> "EOSE", id |-> id]

Frame(type, ids) == IF ids = {} THEN <<>> ELSE <<[type |-> type, ids |-> ids]>>

\* What one handler writes to the socket: its CLOSEs, then its REQs.  Within
\* each kind the ids are distinct and their order is immaterial.
Frames(drop, ask) == Frame("CLOSE", drop) \o Frame("REQ", ask)

\* Mutant: the feeds whose lists are replaced are not rebuilt.
OwedOnce == FeedIds("t", timeline) \cup {Observer}
              \cup UNION {AuxSubs(c, auxIds[c]) : c \in Channels}

\* Every subscription a new connection owes (resubscribe_all).
Owed == FeedIds("t", timeline) \cup FeedIds("y", typing) \cup FeedIds("i", inbox)
          \cup {Observer} \cup UNION {AuxSubs(c, auxIds[c]) : c \in Channels}
-----------------------------------------------------------------------------
Init ==
    /\ phase = "connecting" /\ first = TRUE
    /\ subIds = {} /\ timeline = {} /\ typing = {} /\ inbox = {}
    /\ auxIds = [c \in Channels |-> {}]
    /\ queued = <<>> /\ control = <<>> /\ open = TRUE
    /\ alive = FALSE /\ toRelay = <<>> /\ toClient = <<>> /\ served = {}
    /\ told = {} /\ observed = FALSE
    /\ sent = 0 /\ failures = 0 /\ refusals = 0
-----------------------------------------------------------------------------
(* The session.                                                            *)

\* A send to a pump that has returned fails, and the session ignores it.
SendControl(r) ==
    /\ open /\ phase # "done" /\ sent < MaxRequests
    /\ control' = Append(control, r)
    /\ sent' = sent + 1
    /\ UNCHANGED <<pump, book, queued, open, socket, view, failures, refusals>>

\* Shutdown, or a switch to another community, drops the sender.
DropSender ==
    /\ open
    /\ open' = FALSE
    /\ UNCHANGED <<pump, book, queued, control, sent, socket, view, failures,
                   refusals>>
-----------------------------------------------------------------------------
(* Applying one request.  Ask replaces the subscriptions "drop" by "ask".  *)
(* On a dead socket the writes fail and only the pump's own state changes. *)

Ask(drop, ask) ==
    /\ subIds' = (subIds \ drop) \cup ask
    /\ toRelay' = IF alive THEN toRelay \o Frames(drop, ask) ELSE toRelay
    /\ told' = told \ ask

SubscribeTimeline(c) ==
    /\ IF <<"t", c, 0>> \in subIds
         THEN UNCHANGED <<subIds, toRelay, told, timeline>>
         ELSE /\ Ask({}, {<<"t", c, 0>>})
              /\ timeline' = timeline \cup {c}
    /\ UNCHANGED <<auxIds, typing, inbox>>

SubscribeAux(c, ids) ==
    /\ Ask(AuxOf(c), AuxSubs(c, ids))
    /\ auxIds' = [auxIds EXCEPT ![c] = ids]
    /\ UNCHANGED <<timeline, typing, inbox>>

AddAux(c, ids) ==
    IF ids \subseteq auxIds[c]
      THEN UNCHANGED <<book, toRelay, told>>
      ELSE SubscribeAux(c, auxIds[c] \cup ids)

SubscribeTyping(S) ==
    /\ Ask(OfFeed("y"), FeedIds("y", S))
    /\ typing' = S
    /\ UNCHANGED <<timeline, auxIds, inbox>>

SubscribeInbox(S) ==
    /\ Ask(OfFeed("i"), FeedIds("i", S))
    /\ inbox' = S
    /\ UNCHANGED <<timeline, auxIds, typing>>

ApplyControl(r) ==
    /\ \/ r.kind = "Timeline" /\ SubscribeTimeline(r.channel)
       \/ r.kind = "Aux"      /\ SubscribeAux(r.channel, r.ids)
       \/ r.kind = "AuxAdd"   /\ AddAux(r.channel, r.ids)
       \/ r.kind = "Typing"   /\ SubscribeTyping(r.channels)
       \/ r.kind = "Inbox"    /\ SubscribeInbox(r.channels)
    /\ UNCHANGED <<first, open, sent, alive, toClient, served, observed, failures,
                   refusals>>
-----------------------------------------------------------------------------
(* The pump: connecting and backing off.                                   *)

\* Mutant: the ids of the connection that died are kept, and not asked for.
ConnectOkKeepsIds ==
    /\ phase = "connecting"
    /\ phase' = "applying" /\ first' = FALSE
    /\ alive' = TRUE /\ toClient' = <<>> /\ served' = {}
    /\ subIds' = subIds \cup Owed
    /\ toRelay' = Frames({}, Owed \ subIds)
    /\ told' = {} /\ observed' = FALSE
    /\ UNCHANGED <<timeline, auxIds, typing, inbox, queued, session, failures,
                   refusals>>

\* resubscribe_all starts from no ids, so it writes REQs only.  The requests
\* queued during the backoff are applied next, before the read loop.
ConnectOk ==
    /\ phase = "connecting"
    /\ phase' = "applying" /\ first' = FALSE
    /\ alive' = TRUE /\ toClient' = <<>> /\ served' = {}
    /\ subIds' = Owed
    /\ toRelay' = Frames({}, Owed)
    /\ told' = {} /\ observed' = FALSE
    /\ UNCHANGED <<timeline, auxIds, typing, inbox, queued, session, failures,
                   refusals>>

\* The first failure ends the pump; a later one is reported, waits and tries
\* again.
ConnectFails ==
    /\ phase = "connecting" /\ failures < MaxFailures
    /\ phase' = IF first THEN "done" ELSE "backoff"
    /\ failures' = failures + 1
    /\ observed' = FALSE
    /\ UNCHANGED <<first, book, queued, session, socket, told, refusals>>

\* Mutant: a request that arrives during the backoff is dropped.
BackoffReceiveDrops ==
    /\ phase = "backoff" /\ control # <<>>
    /\ control' = Tail(control)
    /\ UNCHANGED <<pump, book, queued, open, sent, socket, view, failures, refusals>>

BackoffReceive ==
    /\ phase = "backoff" /\ control # <<>>
    /\ queued' = Append(queued, Head(control))
    /\ control' = Tail(control)
    /\ UNCHANGED <<pump, book, open, sent, socket, view, failures, refusals>>

\* Mutant: the closed channel cuts the backoff short.
BackoffShutdownRetries ==
    /\ phase = "backoff" /\ control = <<>> /\ ~open
    /\ phase' = "connecting"
    /\ UNCHANGED <<first, book, queued, session, socket, view, failures, refusals>>

BackoffShutdown ==
    /\ phase = "backoff" /\ control = <<>> /\ ~open
    /\ phase' = "done"
    /\ UNCHANGED <<first, book, queued, session, socket, view, failures, refusals>>

\* The delay is at least 25 s and a request, or the closed channel, is taken
\* as it comes, so the delay ends with the channel empty and open: one that
\* arrives at the same moment is one that arrives right after.
BackoffElapsed ==
    /\ phase = "backoff" /\ control = <<>> /\ open
    /\ phase' = "connecting"
    /\ UNCHANGED <<first, book, queued, session, socket, view, failures, refusals>>

ApplyQueued ==
    /\ phase = "applying" /\ queued # <<>>
    /\ ApplyControl(Head(queued))
    /\ queued' = Tail(queued)
    /\ UNCHANGED <<phase, control>>

QueueApplied ==
    /\ phase = "applying" /\ queued = <<>>
    /\ phase' = "up"
    /\ UNCHANGED <<first, book, queued, session, socket, view, failures, refusals>>
-----------------------------------------------------------------------------
(* The pump: serving a connection.                                         *)

DrainControl ==
    /\ phase = "up" /\ control # <<>>
    /\ ApplyControl(Head(control))
    /\ control' = Tail(control)
    /\ UNCHANGED <<phase, queued>>

\* drain_control answers Err("shutting down"), and the caller's ? passes it on
\* as the reason this connection ended.
ObserveShutdown ==
    /\ phase = "up" /\ control = <<>> /\ ~open
    /\ phase' = "backoff"
    /\ alive' = FALSE /\ toRelay' = <<>> /\ served' = {}
    /\ observed' = FALSE
    /\ UNCHANGED <<first, book, queued, session, toClient, told, failures,
                   refusals>>

ReadError ==
    /\ phase = "up" /\ ~alive
    /\ phase' = "backoff"
    /\ observed' = FALSE
    /\ UNCHANGED <<first, book, queued, session, socket, told, failures, refusals>>

\* Mutant: what is reported is the channel.
HandleClosedReportsChannel ==
    /\ phase = "up" /\ toClient # <<>> /\ Head(toClient).type = "CLOSED"
    /\ LET id == Head(toClient).id
       IN  /\ subIds' = subIds \ {id}
           /\ timeline' = timeline \ {c \in Channels : id = <<"t", c, 0>>}
           /\ told' = IF id \in subIds THEN told \cup {id[2]} ELSE told
           /\ observed' = (observed /\ id # Observer)
    /\ toClient' = Tail(toClient)
    /\ UNCHANGED <<pump, auxIds, typing, inbox, queued, session, alive, toRelay,
                   served, failures, refusals>>

\* close_subscription: an id this connection does not route is ignored, a
\* refused timeline is no longer retained, the other lists are kept.
HandleClosed ==
    /\ phase = "up" /\ toClient # <<>> /\ Head(toClient).type = "CLOSED"
    /\ LET id == Head(toClient).id
       IN  IF id \in subIds
             THEN /\ subIds' = subIds \ {id}
                  /\ timeline' = timeline \ {c \in Channels : id = <<"t", c, 0>>}
                  /\ told' = IF id \in Reported THEN told \cup {id} ELSE told
                  /\ observed' = (observed /\ id # Observer)
             ELSE UNCHANGED <<subIds, timeline, view>>
    /\ toClient' = Tail(toClient)
    /\ UNCHANGED <<pump, auxIds, typing, inbox, queued, session, alive, toRelay,
                   served, failures, refusals>>

\* EOSE matters on the observer feed only: from here on the absence of a frame
\* is evidence that no turn is running.
HandleEose ==
    /\ phase = "up" /\ toClient # <<>> /\ Head(toClient).type = "EOSE"
    /\ observed' = (observed \/ (Head(toClient).id = Observer /\ Observer \in subIds))
    /\ toClient' = Tail(toClient)
    /\ UNCHANGED <<pump, book, queued, session, alive, toRelay, served, told,
                   failures, refusals>>
-----------------------------------------------------------------------------
(* The relay and the socket.                                               *)

RelayTakesClose ==
    /\ alive /\ toRelay # <<>> /\ Head(toRelay).type = "CLOSE"
    /\ served' = served \ Head(toRelay).ids
    /\ toRelay' = Tail(toRelay)
    /\ UNCHANGED <<pump, book, queued, session, alive, toClient, view, failures,
                   refusals>>

\* The REQ frame once the relay has answered for id.
Answered(id) == Frame("REQ", Head(toRelay).ids \ {id}) \o Tail(toRelay)

RelayAccepts ==
    /\ alive /\ toRelay # <<>> /\ Head(toRelay).type = "REQ"
    /\ \E id \in Head(toRelay).ids :
         /\ served' = served \cup {id}
         /\ toRelay' = Answered(id)
         /\ toClient' = IF id = Observer THEN Append(toClient, Eose(id)) ELSE toClient
    /\ UNCHANGED <<pump, book, queued, session, alive, view, failures, refusals>>

RelayRefuses ==
    /\ alive /\ toRelay # <<>> /\ Head(toRelay).type = "REQ"
    /\ refusals < MaxRefusals
    /\ \E id \in Head(toRelay).ids :
         /\ served' = served \ {id}
         /\ toRelay' = Answered(id)
         /\ toClient' = Append(toClient, Closed(id))
    /\ refusals' = refusals + 1
    /\ UNCHANGED <<pump, book, queued, session, alive, view, failures>>

\* Membership ended, a rate limit, a relay restart behind the socket.
RelayEnds ==
    /\ alive /\ refusals < MaxRefusals
    /\ \E id \in served :
         /\ served' = served \ {id}
         /\ toClient' = Append(toClient, Closed(id))
    /\ refusals' = refusals + 1
    /\ UNCHANGED <<pump, book, queued, session, alive, toRelay, view, failures>>

\* What the relay had sent may still be read; what was on its way is gone.
SocketDies ==
    /\ alive /\ failures < MaxFailures
    /\ alive' = FALSE /\ toRelay' = <<>> /\ served' = {}
    /\ failures' = failures + 1
    /\ UNCHANGED <<pump, book, queued, session, toClient, view, refusals>>
-----------------------------------------------------------------------------
SessionStep == (\E r \in Requests : SendControl(r)) \/ DropSender

PumpStep == \/ ConnectOk \/ ConnectFails
            \/ BackoffReceive \/ BackoffShutdown \/ BackoffElapsed
            \/ ApplyQueued \/ QueueApplied
            \/ DrainControl \/ ObserveShutdown \/ ReadError
            \/ HandleClosed \/ HandleEose

RelayStep == RelayTakesClose \/ RelayAccepts \/ RelayRefuses \/ RelayEnds

Next == SessionStep \/ PumpStep \/ RelayStep \/ SocketDies

Spec == Init /\ [][Next]_vars

\* The pump is a task the runtime keeps scheduling, and each of its waits ends:
\* a connection attempt by its timeout, a socket read by SOCKET_POLL, a backoff
\* by its deadline.  The relay answers what it has received on a live socket.
\* That the network fails finitely often is MaxFailures; what the session asks,
\* and whether it ever shuts down, is left open.
Fairness == WF_vars(PumpStep) /\ WF_vars(RelayTakesClose) /\ WF_vars(RelayAccepts)
FairSpec == Spec /\ Fairness
-----------------------------------------------------------------------------
(* Properties.                                                             *)

Frame_ == [type : {"CLOSE", "REQ"}, ids : SUBSET SubId]

\* Every variable holds a value of the kind its field in src/sub.rs holds.
TypeOK ==
    /\ phase \in {"connecting", "applying", "up", "backoff", "done"}
    /\ first \in BOOLEAN /\ open \in BOOLEAN /\ alive \in BOOLEAN
    /\ observed \in BOOLEAN
    /\ subIds \subseteq SubId /\ served \subseteq SubId /\ told \subseteq SubId
    /\ timeline \subseteq Channels /\ typing \subseteq Channels
    /\ inbox \subseteq Channels
    /\ auxIds \in [Channels -> SUBSET Messages]
    /\ queued \in Seq(Request) /\ control \in Seq(Request)
    /\ toRelay \in Seq(Frame_)
    /\ toClient \in Seq([type : {"CLOSED", "EOSE"}, id : SubId])
    /\ sent \in Nat /\ failures \in Nat /\ refusals \in Nat

Connected == phase \in {"applying", "up"}

\* While the pump holds a connection, every feed it retains is routed on this
\* connection, or the interface was told that it ended and nothing has asked
\* for it since: no retained feed is silently missing after any sequence of
\* drops, reconnects, refusals and replacements.  A retained timeline is always
\* routed, and only a retained one is (claim_timeline, plan_resubscribe,
\* close_subscription).
RetainedIsRoutedOrTold ==
    Connected =>
      /\ OfFeed("t") = FeedIds("t", timeline)
      /\ FeedIds("y", typing) \subseteq subIds \cup told
      /\ FeedIds("i", inbox)  \subseteq subIds \cup told
      /\ Observer \in subIds \cup told

\* The frame that last mentions id on the way to the relay is of this type.
LastOnWire(id, type) ==
    \E i \in 1 .. Len(toRelay) :
        /\ toRelay[i].type = type /\ id \in toRelay[i].ids
        /\ \A j \in i + 1 .. Len(toRelay) : id \notin toRelay[j].ids

ClosedInFlight(id) == \E i \in 1 .. Len(toClient) : toClient[i] = Closed(id)

\* An id the pump routes is one the relay serves, is being asked to serve, or
\* has answered with a CLOSED the pump has yet to read: the pump never waits on
\* a feed that nobody will ever deliver or refuse.
RoutedIsAccounted ==
    (Connected /\ alive) =>
      \A id \in subIds :
        id \in served \/ LastOnWire(id, "REQ") \/ ClosedInFlight(id)

\* "A stale channel would keep its indicators alive after the identity left it"
\* (subscribe_typing): as long as the relay has ended nothing itself, what it
\* serves and the pump no longer routes has its CLOSE on the way.  Holds for
\* shrinking chunk counts too (subscribe_aux).
ReplacedIsClosed ==
    (Connected /\ alive /\ refusals = 0) =>
      \A id \in served \ subIds : LastOnWire(id, "CLOSE")

\* A timeline feed the relay serves is one the pump routes, even though CLOSED
\* and REQ can cross on the socket: claim_timeline never asks for an id twice.
TimelineNeverOrphaned ==
    (Connected /\ alive) =>
      \A c \in Channels : <<"t", c, 0>> \in served => <<"t", c, 0>> \in subIds

\* What the interface takes for "the observer feed is established" is backed by
\* this connection: the relay serves the feed, or the news that it does not is
\* on its way.
ObservedIsBacked ==
    observed => /\ phase = "up" /\ Observer \in subIds
                /\ alive => (Observer \in served \/ ClosedInFlight(Observer))

\* The pump, the relay and the interface agree on which feeds there are, in
\* whatever order closes, requests and refusals cross on the socket.
FeedsAgree ==
    RoutedIsAccounted /\ ReplacedIsClosed /\ TimelineNeverOrphaned /\ ObservedIsBacked

\* Once the session drops its sender, the pump ends.
PumpEnds == ~open ~> (phase = "done")

\* A feed the pump retains is eventually served and routed, or the interface is
\* told that it ended, or the session stops wanting it, or the pump is over.
FeedsSettle ==
    \A id \in FeedIds("t", Channels) \cup FeedIds("y", Channels)
                \cup FeedIds("i", Channels) :
      (id \in Owed) ~> ( \/ id \in served \cap subIds \/ id \in told
                        \/ id \notin Owed \/ phase = "done" )

=============================================================================
