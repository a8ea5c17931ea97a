---------------------------- MODULE SubPumpProofs ----------------------------
(* Theorems about SubPump, for any channels, messages, requests and bounds. *)
EXTENDS SubPump, TLAPS, FiniteSetTheorems, SequenceTheorems

(* Subscription ids.                                                       *)

\* A list of n ids makes no more than n chunks.
LEMMA ChunkBound ==
  ASSUME NEW n \in Nat, NEW k \in 0 .. ((n + AuxChunk - 1) \div AuxChunk) - 1
  PROVE  k \in 0 .. n
<1> DEFINE q == (n + AuxChunk - 1) \div AuxChunk
<1>1. AuxChunk \in Nat /\ AuxChunk >= 1
  BY ChunkAssumption
<1>2. q \in Int /\ AuxChunk * q <= n + AuxChunk - 1
  BY <1>1
<1>3. k \in Nat /\ k + 1 <= q
  BY <1>2
<1>4. AuxChunk * (k + 1) <= AuxChunk * q
  BY <1>1, <1>2, <1>3
<1>5. AuxChunk * (k + 1) = AuxChunk * k + AuxChunk
  BY <1>1, <1>3
<1>6. k <= AuxChunk * k
  BY <1>1, <1>3
<1>7. AuxChunk * k \in Nat /\ AuxChunk * (k + 1) \in Nat /\ AuxChunk * q \in Int
  BY <1>1, <1>2, <1>3
<1> QED
  BY <1>1, <1>2, <1>3, <1>4, <1>5, <1>6, <1>7

LEMMA AuxSubsType ==
  ASSUME NEW c \in Channels, NEW ids \in SUBSET Messages
  PROVE  AuxSubs(c, ids) \subseteq SubId
<1>1. /\ IsFiniteSet(ids) /\ Cardinality(ids) \in Nat
      /\ Cardinality(Messages) \in Nat /\ Cardinality(ids) <= Cardinality(Messages)
  BY MessagesAssumption, FS_Subset, FS_CardinalityType
<1>2. ASSUME NEW k \in 0 .. Chunks(ids) - 1
      PROVE  k \in 0 .. Cardinality(Messages)
  <2>1. k \in 0 .. Cardinality(ids)
    BY <1>1, ChunkBound DEF Chunks
  <2> QED
    BY <1>1, <2>1
<1> QED
  BY <1>2 DEF AuxSubs, SubId

LEMMA FeedIdsType ==
  ASSUME NEW S \in SUBSET Channels
  PROVE  /\ FeedIds("t", S) \subseteq SubId
         /\ FeedIds("y", S) \subseteq SubId
         /\ FeedIds("i", S) \subseteq SubId
         /\ Observer \in SubId
  BY DEF FeedIds, SubId, Observer

LEMMA OwedType ==
  ASSUME TypeOK
  PROVE  Owed \subseteq SubId
<1>1. \A c \in Channels : AuxSubs(c, auxIds[c]) \subseteq SubId
  BY AuxSubsType DEF TypeOK
<1> QED
  BY <1>1, FeedIdsType DEF TypeOK, Owed

LEMMA FrameType ==
  ASSUME NEW type \in {"CLOSE", "REQ"}, NEW ids \in SUBSET SubId
  PROVE  Frame(type, ids) \in Seq(Frame_)
<1>1. [type |-> type, ids |-> ids] \in Frame_
  BY DEF Frame_
<1>2. <<[type |-> type, ids |-> ids]>> \in Seq(Frame_) /\ <<>> \in Seq(Frame_)
  BY <1>1
<1> QED
  BY <1>2 DEF Frame

LEMMA FramesType ==
  ASSUME NEW drop \in SUBSET SubId, NEW ask \in SUBSET SubId
  PROVE  Frames(drop, ask) \in Seq(Frame_)
  BY FrameType, ConcatProperties DEF Frames

-----------------------------------------------------------------------------
(* Type correctness.  Control is what applying one request may change.     *)

BookOK == /\ subIds \subseteq SubId /\ told \subseteq SubId
          /\ timeline \subseteq Channels /\ typing \subseteq Channels
          /\ inbox \subseteq Channels
          /\ auxIds \in [Channels -> SUBSET Messages]
          /\ toRelay \in Seq(Frame_)

LEMMA AskType ==
  ASSUME TypeOK, NEW drop \in SUBSET SubId, NEW ask \in SUBSET SubId, Ask(drop, ask)
  PROVE  /\ subIds' \subseteq SubId /\ told' \subseteq SubId
         /\ toRelay' \in Seq(Frame_)
<1>1. toRelay \o Frames(drop, ask) \in Seq(Frame_)
  BY FramesType, ConcatProperties DEF TypeOK
<1> QED
  BY <1>1 DEF TypeOK, Ask

LEMMA AuxOfType == TypeOK => \A c : AuxOf(c) \subseteq SubId
  BY DEF TypeOK, AuxOf

LEMMA OfFeedType == TypeOK => \A feed : OfFeed(feed) \subseteq SubId
  BY DEF TypeOK, OfFeed

LEMMA SubscribeAuxType ==
  ASSUME TypeOK, NEW c \in Channels, NEW ids \in SUBSET Messages, SubscribeAux(c, ids)
  PROVE  BookOK'
<1>1. AuxSubs(c, ids) \subseteq SubId /\ AuxOf(c) \subseteq SubId
  BY AuxSubsType, AuxOfType
<1>2. Ask(AuxOf(c), AuxSubs(c, ids))
  BY DEF SubscribeAux
<1>3. subIds' \subseteq SubId /\ told' \subseteq SubId /\ toRelay' \in Seq(Frame_)
  BY <1>1, <1>2, AskType
<1> QED
  BY <1>3 DEF TypeOK, BookOK, SubscribeAux

LEMMA ApplyControlType ==
  ASSUME TypeOK, NEW r \in Request, ApplyControl(r)
  PROVE  BookOK'
<1>1. CASE r.kind = "Timeline" /\ SubscribeTimeline(r.channel)
  <2>1. r.channel \in Channels
    BY <1>1 DEF Request
  <2>2. CASE <<"t", r.channel, 0>> \in subIds
    BY <1>1, <2>2 DEF TypeOK, BookOK, SubscribeTimeline
  <2>3. CASE <<"t", r.channel, 0>> \notin subIds
    <3>1. {<<"t", r.channel, 0>>} \subseteq SubId
      BY <2>1 DEF SubId, FeedIds
    <3>2. Ask({}, {<<"t", r.channel, 0>>})
      BY <1>1, <2>3 DEF SubscribeTimeline
    <3>3. subIds' \subseteq SubId /\ told' \subseteq SubId /\ toRelay' \in Seq(Frame_)
      BY <3>1, <3>2, AskType
    <3> QED
      BY <1>1, <2>1, <2>3, <3>3 DEF TypeOK, BookOK, SubscribeTimeline
  <2> QED
    BY <2>2, <2>3
<1>2. CASE r.kind = "Aux" /\ SubscribeAux(r.channel, r.ids)
  BY <1>2, SubscribeAuxType DEF Request
<1>3. CASE r.kind = "AuxAdd" /\ AddAux(r.channel, r.ids)
  <2>1. r.channel \in Channels /\ r.ids \in SUBSET Messages
    BY <1>3 DEF Request
  <2>2. auxIds[r.channel] \cup r.ids \in SUBSET Messages
    BY <2>1 DEF TypeOK
  <2>3. CASE r.ids \subseteq auxIds[r.channel]
    BY <1>3, <2>3 DEF TypeOK, BookOK, AddAux, book
  <2>4. CASE ~(r.ids \subseteq auxIds[r.channel])
    BY <1>3, <2>1, <2>2, <2>4, SubscribeAuxType DEF AddAux
  <2> QED
    BY <2>3, <2>4
<1>4. CASE r.kind = "Typing" /\ SubscribeTyping(r.channels)
  <2>1. r.channels \in SUBSET Channels
    BY <1>4 DEF Request
  <2>2. FeedIds("y", r.channels) \subseteq SubId /\ OfFeed("y") \subseteq SubId
    BY <2>1, FeedIdsType, OfFeedType
  <2>3. subIds' \subseteq SubId /\ told' \subseteq SubId /\ toRelay' \in Seq(Frame_)
    BY <1>4, <2>2, AskType DEF SubscribeTyping
  <2> QED
    BY <1>4, <2>1, <2>3 DEF TypeOK, BookOK, SubscribeTyping
<1>5. CASE r.kind = "Inbox" /\ SubscribeInbox(r.channels)
  <2>1. r.channels \in SUBSET Channels
    BY <1>5 DEF Request
  <2>2. FeedIds("i", r.channels) \subseteq SubId /\ OfFeed("i") \subseteq SubId
    BY <2>1, FeedIdsType, OfFeedType
  <2>3. subIds' \subseteq SubId /\ told' \subseteq SubId /\ toRelay' \in Seq(Frame_)
    BY <1>5, <2>2, AskType DEF SubscribeInbox
  <2> QED
    BY <1>5, <2>1, <2>3 DEF TypeOK, BookOK, SubscribeInbox
<1> QED
  BY <1>1, <1>2, <1>3, <1>4, <1>5 DEF ApplyControl
Answer == [type : {"CLOSED", "EOSE"}, id : SubId]

LEMMA InitType == Init => TypeOK
<1> SUFFICES ASSUME Init PROVE TypeOK
  OBVIOUS
<1>1. /\ queued \in Seq(Request) /\ control \in Seq(Request)
      /\ toRelay \in Seq(Frame_) /\ toClient \in Seq(Answer)
  BY DEF Init
<1>2. auxIds \in [Channels -> SUBSET Messages]
  BY DEF Init
<1> QED
  BY <1>1, <1>2 DEF Init, TypeOK, Answer

LEMMA TypeStep == TypeOK /\ [Next]_vars => TypeOK'
<1> SUFFICES ASSUME TypeOK, [Next]_vars PROVE TypeOK'
  OBVIOUS
<1> USE DEF pump, book, socket, session, view
<1>0. /\ toClient \in Seq(Answer) /\ \A s \in Seq(Answer) :
            s \in Seq([type : {"CLOSED", "EOSE"}, id : SubId])
      /\ <<>> \in Seq(Answer) /\ <<>> \in Seq(Frame_)
      /\ failures + 1 \in Nat /\ refusals + 1 \in Nat
  <2>1. /\ toClient \in Seq(Answer) /\ \A s \in Seq(Answer) :
              s \in Seq([type : {"CLOSED", "EOSE"}, id : SubId])
    BY DEF TypeOK, Answer
  <2>2. <<>> \in Seq(Answer) /\ <<>> \in Seq(Frame_)
    OBVIOUS
  <2>3. failures + 1 \in Nat /\ refusals + 1 \in Nat
    BY DEF TypeOK
  <2> QED
    BY <2>1, <2>2, <2>3
<1>1. CASE UNCHANGED vars
  BY <1>1 DEF TypeOK, vars
<1>2. ASSUME NEW r \in Requests, SendControl(r) PROVE TypeOK'
  <2>1. r \in Request
    BY RequestsAssumption
  <2>2. Append(control, r) \in Seq(Request)
    BY <2>1 DEF TypeOK
  <2> QED
    BY <1>2, <2>2 DEF TypeOK, SendControl
<1>3. CASE DropSender
  BY <1>3 DEF TypeOK, DropSender
<1>4. CASE ConnectOk
  <2>1. Owed \subseteq SubId /\ Frames({}, Owed) \in Seq(Frame_)
    BY OwedType, FramesType
  <2> QED
    BY <1>0, <1>4, <2>1 DEF TypeOK, ConnectOk
<1>5. CASE ConnectFails
  <2>1. phase' \in {"done", "backoff"} /\ failures' \in Nat
    BY <1>0, <1>5 DEF ConnectFails
  <2> QED
    BY <1>5, <2>1 DEF TypeOK, ConnectFails
<1>6. CASE BackoffReceive
  <2>1. Head(control) \in Request /\ Tail(control) \in Seq(Request)
    BY <1>6 DEF TypeOK, BackoffReceive
  <2>2. Append(queued, Head(control)) \in Seq(Request)
    BY <2>1 DEF TypeOK
  <2> QED
    BY <1>6, <2>1, <2>2 DEF TypeOK, BackoffReceive
<1>7. CASE BackoffShutdown
  BY <1>7 DEF TypeOK, BackoffShutdown
<1>8. CASE BackoffElapsed
  BY <1>8 DEF TypeOK, BackoffElapsed
<1>9. CASE ApplyQueued
  <2>1. Head(queued) \in Request /\ Tail(queued) \in Seq(Request)
    BY <1>9 DEF TypeOK, ApplyQueued
  <2>2. BookOK'
    BY <1>9, <2>1, ApplyControlType DEF ApplyQueued
  <2> QED
    BY <1>9, <2>1, <2>2 DEF TypeOK, BookOK, ApplyQueued, ApplyControl
<1>10. CASE QueueApplied
  BY <1>10 DEF TypeOK, QueueApplied
<1>11. CASE DrainControl
  <2>1. Head(control) \in Request /\ Tail(control) \in Seq(Request)
    BY <1>11 DEF TypeOK, DrainControl
  <2>2. BookOK'
    BY <1>11, <2>1, ApplyControlType DEF DrainControl
  <2> QED
    BY <1>11, <2>1, <2>2 DEF TypeOK, BookOK, DrainControl, ApplyControl
<1>12. CASE ObserveShutdown
  BY <1>0, <1>12 DEF TypeOK, ObserveShutdown
<1>13. CASE ReadError
  BY <1>13 DEF TypeOK, ReadError
<1>14. CASE HandleClosed
  <2>1. Head(toClient).id \in SubId /\ Tail(toClient) \in Seq(Answer)
    <3>1. Head(toClient) \in Answer /\ Tail(toClient) \in Seq(Answer)
      BY <1>0, <1>14 DEF HandleClosed
    <3> QED
      BY <3>1 DEF Answer
  <2>2. /\ subIds' \subseteq SubId /\ told' \subseteq SubId
        /\ timeline' \subseteq Channels /\ observed' \in BOOLEAN
    BY <1>14, <2>1 DEF TypeOK, HandleClosed
  <2> QED
    BY <1>0, <1>14, <2>1, <2>2 DEF TypeOK, HandleClosed
<1>15. CASE HandleEose
  <2>1. Tail(toClient) \in Seq(Answer)
    BY <1>0, <1>15 DEF HandleEose
  <2> QED
    BY <1>0, <1>15, <2>1 DEF TypeOK, HandleEose
<1>16. CASE RelayTakesClose
  <2>1. Tail(toRelay) \in Seq(Frame_)
    BY <1>16 DEF TypeOK, RelayTakesClose
  <2> QED
    BY <1>16, <2>1 DEF TypeOK, RelayTakesClose
<1>17. ASSUME toRelay # <<>>, Head(toRelay).type = "REQ",
              NEW id \in Head(toRelay).ids
       PROVE  id \in SubId /\ Answered(id) \in Seq(Frame_)
  <2>1. Head(toRelay) \in Frame_ /\ Tail(toRelay) \in Seq(Frame_)
    BY <1>17 DEF TypeOK
  <2>2. Head(toRelay).ids \in SUBSET SubId
    BY <2>1 DEF Frame_
  <2>3. Frame("REQ", Head(toRelay).ids \ {id}) \in Seq(Frame_)
    BY <2>2, FrameType
  <2> QED
    BY <2>1, <2>2, <2>3, ConcatProperties DEF Answered
<1>18. ASSUME NEW id \in SubId
       PROVE  /\ Append(toClient, Eose(id)) \in Seq(Answer)
              /\ Append(toClient, Closed(id)) \in Seq(Answer)
  <2>1. Eose(id) \in Answer /\ Closed(id) \in Answer
    BY DEF Eose, Closed, Answer
  <2> QED
    BY <1>0, <2>1
<1>19. CASE RelayAccepts
  <2>1. PICK id \in Head(toRelay).ids :
          /\ served' = served \cup {id}
          /\ toRelay' = Answered(id)
          /\ toClient' = IF id = Observer THEN Append(toClient, Eose(id)) ELSE toClient
    BY <1>19 DEF RelayAccepts
  <2>2. id \in SubId /\ toRelay' \in Seq(Frame_)
    BY <1>17, <1>19, <2>1 DEF RelayAccepts
  <2>3. toClient' \in Seq(Answer)
    BY <1>0, <1>18, <2>1, <2>2
  <2> QED
    BY <1>0, <1>19, <2>1, <2>2, <2>3 DEF TypeOK, RelayAccepts
<1>20. CASE RelayRefuses
  <2>1. PICK id \in Head(toRelay).ids :
          /\ served' = served \ {id}
          /\ toRelay' = Answered(id)
          /\ toClient' = Append(toClient, Closed(id))
    BY <1>20 DEF RelayRefuses
  <2>2. id \in SubId /\ toRelay' \in Seq(Frame_)
    BY <1>17, <1>20, <2>1 DEF RelayRefuses
  <2>3. toClient' \in Seq(Answer)
    BY <1>18, <2>1, <2>2
  <2>4. refusals' \in Nat
    BY <1>0, <1>20 DEF RelayRefuses
  <2> QED
    BY <1>0, <1>20, <2>1, <2>2, <2>3, <2>4 DEF TypeOK, RelayRefuses
<1>21. CASE RelayEnds
  <2>1. PICK id \in served : /\ served' = served \ {id}
                             /\ toClient' = Append(toClient, Closed(id))
    BY <1>21 DEF RelayEnds
  <2>2. toClient' \in Seq(Answer)
    BY <1>18, <2>1 DEF TypeOK
  <2>3. refusals' \in Nat
    BY <1>0, <1>21 DEF RelayEnds
  <2> QED
    BY <1>0, <1>21, <2>1, <2>2, <2>3 DEF TypeOK, RelayEnds
<1>22. CASE SocketDies
  <2>1. failures' \in Nat /\ toRelay' \in Seq(Frame_)
    BY <1>0, <1>22 DEF SocketDies
  <2> QED
    BY <1>22, <2>1 DEF TypeOK, SocketDies
<1> QED
  BY <1>1, <1>2, <1>3, <1>4, <1>5, <1>6, <1>7, <1>8, <1>9, <1>10, <1>11, <1>12, <1>13,
     <1>14, <1>15, <1>16, <1>19, <1>20, <1>21, <1>22
     DEF Next, SessionStep, PumpStep, RelayStep

\* Every variable of SubPump always holds a value of its kind; in particular a
\* subscription id never names a chunk beyond the ids the feed was asked for.
THEOREM TypeCorrect == Spec => []TypeOK
  BY InitType, TypeStep, PTL DEF Spec
-----------------------------------------------------------------------------
(* No retained feed is silently missing.                                   *)

\* The invariant without its guard: what a connection just made establishes
\* and every request, refusal and answer preserves.
Retained == /\ OfFeed("t") = FeedIds("t", timeline)
            /\ FeedIds("y", typing) \subseteq subIds \cup told
            /\ FeedIds("i", inbox)  \subseteq subIds \cup told
            /\ Observer \in subIds \cup told

LEMMA SubscribeAuxRetains ==
  ASSUME TypeOK, Retained, NEW c, NEW ids, SubscribeAux(c, ids)
  PROVE  Retained'
<1>1. Ask(AuxOf(c), AuxSubs(c, ids))
  BY DEF SubscribeAux
<1>2. \A id \in AuxOf(c) \cup AuxSubs(c, ids) : id[1] = "a"
  BY DEF AuxOf, AuxSubs
<1>3. OfFeed("t")' = OfFeed("t")
  BY <1>1, <1>2 DEF Ask, OfFeed
<1>4. \A id \in subIds \cup told : id[1] # "a" => id \in subIds' \cup told'
  BY <1>1, <1>2 DEF Ask
<1>5. /\ \A id \in FeedIds("y", typing) \cup FeedIds("i", inbox) : id[1] # "a"
      /\ Observer[1] # "a"
  BY DEF FeedIds, Observer
<1> QED
  BY <1>3, <1>4, <1>5 DEF Retained, SubscribeAux, FeedIds

LEMMA ApplyControlRetains ==
  ASSUME TypeOK, Retained, NEW r \in Request, ApplyControl(r)
  PROVE  Retained'
<1>1. CASE r.kind = "Timeline" /\ SubscribeTimeline(r.channel)
  <2>1. CASE <<"t", r.channel, 0>> \in subIds
    BY <1>1, <2>1 DEF SubscribeTimeline, Retained, OfFeed, FeedIds
  <2>2. CASE <<"t", r.channel, 0>> \notin subIds
    <3>1. Ask({}, {<<"t", r.channel, 0>>}) /\ timeline' = timeline \cup {r.channel}
      BY <1>1, <2>2 DEF SubscribeTimeline
    <3>2. subIds' = subIds \cup {<<"t", r.channel, 0>>}
          /\ told' = told \ {<<"t", r.channel, 0>>}
      BY <3>1 DEF Ask
    <3>3. OfFeed("t")' = OfFeed("t") \cup {<<"t", r.channel, 0>>}
      BY <3>2 DEF OfFeed
    <3>4. FeedIds("t", timeline)' = FeedIds("t", timeline) \cup {<<"t", r.channel, 0>>}
      BY <3>1 DEF FeedIds
    <3>5. \A id \in subIds \cup told : id \in subIds' \cup told'
      BY <3>2
    <3> QED
      BY <1>1, <3>3, <3>4, <3>5 DEF Retained, SubscribeTimeline, FeedIds
  <2> QED
    BY <2>1, <2>2
<1>2. CASE r.kind = "Aux" /\ SubscribeAux(r.channel, r.ids)
  BY <1>2, SubscribeAuxRetains
<1>3. CASE r.kind = "AuxAdd" /\ AddAux(r.channel, r.ids)
  <2>1. CASE r.ids \subseteq auxIds[r.channel]
    BY <1>3, <2>1 DEF AddAux, book, Retained, OfFeed, FeedIds
  <2>2. CASE ~(r.ids \subseteq auxIds[r.channel])
    BY <1>3, <2>2, SubscribeAuxRetains DEF AddAux
  <2> QED
    BY <2>1, <2>2
<1>4. CASE r.kind = "Typing" /\ SubscribeTyping(r.channels)
  <2>1. /\ subIds' = (subIds \ OfFeed("y")) \cup FeedIds("y", r.channels)
        /\ told' = told \ FeedIds("y", r.channels)
        /\ typing' = r.channels /\ UNCHANGED <<timeline, inbox>>
    BY <1>4 DEF SubscribeTyping, Ask
  <2>2. \A id \in OfFeed("y") \cup FeedIds("y", r.channels) : id[1] = "y"
    BY DEF OfFeed, FeedIds
  <2>3. OfFeed("t")' = OfFeed("t")
    BY <2>1, <2>2 DEF OfFeed
  <2>4. /\ \A id \in FeedIds("i", inbox) : id[1] # "y"
        /\ Observer[1] # "y"
    BY DEF FeedIds, Observer
  <2>5. \A id \in subIds \cup told : id[1] # "y" => id \in subIds' \cup told'
    BY <2>1, <2>2
  <2>6. FeedIds("y", typing') \subseteq subIds' \cup told'
    BY <2>1
  <2> QED
    BY <2>1, <2>3, <2>4, <2>5, <2>6 DEF Retained, FeedIds
<1>5. CASE r.kind = "Inbox" /\ SubscribeInbox(r.channels)
  <2>1. /\ subIds' = (subIds \ OfFeed("i")) \cup FeedIds("i", r.channels)
        /\ told' = told \ FeedIds("i", r.channels)
        /\ inbox' = r.channels /\ UNCHANGED <<timeline, typing>>
    BY <1>5 DEF SubscribeInbox, Ask
  <2>2. \A id \in OfFeed("i") \cup FeedIds("i", r.channels) : id[1] = "i"
    BY DEF OfFeed, FeedIds
  <2>3. OfFeed("t")' = OfFeed("t")
    BY <2>1, <2>2 DEF OfFeed
  <2>4. /\ \A id \in FeedIds("y", typing) : id[1] # "i"
        /\ Observer[1] # "i"
    BY DEF FeedIds, Observer
  <2>5. \A id \in subIds \cup told : id[1] # "i" => id \in subIds' \cup told'
    BY <2>1, <2>2
  <2>6. FeedIds("i", inbox') \subseteq subIds' \cup told'
    BY <2>1
  <2> QED
    BY <2>1, <2>3, <2>4, <2>5, <2>6 DEF Retained, FeedIds
<1> QED
  BY <1>1, <1>2, <1>3, <1>4, <1>5 DEF ApplyControl

\* A new connection owes every retained feed, and nothing else.
LEMMA OwedRetains ==
  ASSUME TypeOK, ConnectOk
  PROVE  Retained'
<1>1. subIds' = Owed /\ UNCHANGED <<timeline, typing, inbox>>
  BY DEF ConnectOk
<1>2. \A id \in Owed : id[1] = "t" => id \in FeedIds("t", timeline)
  BY DEF Owed, FeedIds, Observer, AuxSubs
<1>3. \A id \in FeedIds("t", timeline) : id \in Owed /\ id[1] = "t"
  BY DEF Owed, FeedIds
<1>4. OfFeed("t")' = FeedIds("t", timeline)
  BY <1>1, <1>2, <1>3 DEF OfFeed
<1>5. FeedIds("y", typing) \cup FeedIds("i", inbox) \cup {Observer} \subseteq Owed
  BY DEF Owed
<1> QED
  BY <1>1, <1>4, <1>5 DEF Retained, FeedIds, Observer

\* A CLOSED takes the id away, and the interface is told unless nobody was
\* owed it.
LEMMA HandleClosedRetains ==
  ASSUME TypeOK, Retained, HandleClosed
  PROVE  Retained'
<1> DEFINE id == Head(toClient).id
<1>1. UNCHANGED <<typing, inbox>>
  BY DEF HandleClosed
<1>2. CASE id \notin subIds
  BY <1>1, <1>2 DEF HandleClosed, view, Retained, OfFeed, FeedIds
<1>3. CASE id \in subIds
  <2>1. /\ subIds' = subIds \ {id}
        /\ timeline' = timeline \ {c \in Channels : id = <<"t", c, 0>>}
        /\ told' = IF id \in Reported THEN told \cup {id} ELSE told
    BY <1>3 DEF HandleClosed
  <2>2. OfFeed("t")' = OfFeed("t") \ {id}
    BY <2>1 DEF OfFeed
  <2>3. FeedIds("t", timeline') = FeedIds("t", timeline) \ {id}
    BY <2>1 DEF TypeOK, FeedIds
  <2>4. \A j \in subIds \cup told : j[1] # "a" => j \in subIds' \cup told'
    BY <1>3, <2>1 DEF TypeOK, Reported
  <2>5. /\ \A j \in FeedIds("y", typing) \cup FeedIds("i", inbox) : j[1] # "a"
        /\ Observer[1] # "a"
    BY DEF FeedIds, Observer
  <2> QED
    BY <1>1, <2>2, <2>3, <2>4, <2>5 DEF Retained, FeedIds, OfFeed
<1> QED
  BY <1>2, <1>3

LEMMA RetainedStep ==
  TypeOK /\ RetainedIsRoutedOrTold /\ [Next]_vars => RetainedIsRoutedOrTold'
<1> SUFFICES ASSUME TypeOK, Connected => Retained, [Next]_vars, Connected'
             PROVE  Retained'
  BY DEF RetainedIsRoutedOrTold, Retained
<1>1. ASSUME Connected, UNCHANGED <<subIds, timeline, typing, inbox, told>>
      PROVE  Retained'
  BY <1>1 DEF Retained, OfFeed, FeedIds
<1> USE DEF pump, book, socket, session, view
<1>2. CASE UNCHANGED vars
  BY <1>1, <1>2 DEF Connected, vars
<1>3. CASE SessionStep
  BY <1>1, <1>3 DEF Connected, SessionStep, SendControl, DropSender
<1>4. CASE ConnectOk
  BY <1>4, OwedRetains
<1>5. CASE ConnectFails \/ BackoffReceive \/ BackoffShutdown \/ BackoffElapsed
           \/ ObserveShutdown \/ ReadError
  BY <1>5 DEF Connected, ConnectFails, BackoffReceive, BackoffShutdown,
              BackoffElapsed, ObserveShutdown, ReadError
<1>6. CASE ApplyQueued
  BY <1>6, ApplyControlRetains DEF TypeOK, Connected, ApplyQueued
<1>7. CASE DrainControl
  BY <1>7, ApplyControlRetains DEF TypeOK, Connected, DrainControl
<1>8. CASE QueueApplied
  BY <1>1, <1>8 DEF Connected, QueueApplied
<1>9. CASE HandleClosed
  BY <1>9, HandleClosedRetains DEF Connected, HandleClosed
<1>10. CASE HandleEose
  BY <1>1, <1>10 DEF Connected, HandleEose
<1>11. CASE RelayStep
  BY <1>1, <1>11
     DEF Connected, RelayStep, RelayTakesClose, RelayAccepts, RelayRefuses, RelayEnds
<1>12. CASE SocketDies
  BY <1>1, <1>12 DEF Connected, SocketDies
<1> QED
  BY <1>2, <1>3, <1>4, <1>5, <1>6, <1>7, <1>8, <1>9, <1>10, <1>11, <1>12
     DEF Next, PumpStep

\* Whatever the session asks, however often the connection drops and whatever
\* the relay refuses: on every connection each retained feed is routed or the
\* interface was told that it ended (claim_timeline, plan_resubscribe,
\* resubscribe_all, close_subscription).
THEOREM NoFeedSilentlyMissing == Spec => []RetainedIsRoutedOrTold
<1>1. Init => RetainedIsRoutedOrTold
  BY DEF Init, RetainedIsRoutedOrTold, Connected
<1> QED
  BY <1>1, InitType, TypeStep, RetainedStep, PTL DEF Spec

-----------------------------------------------------------------------------
(* The pump, the relay and the interface agree on the feeds.               *)
(*                                                                         *)
(* What is on the way to the relay is a sequence of frames; of each id only *)
(* the last frame that names it counts.  Timeline feeds and the observer   *)
(* feed are never replaced, so of them there is one thing at a time: a     *)
(* request on its way, a feed served, or the news that it ended.           *)

\* s names id; the last frame of s that does is of this type; only one does.
Named(s, id)      == \E i \in 1 .. Len(s) : id \in s[i].ids
LastNamed(s, id, type) ==
  \E i \in 1 .. Len(s) :
    /\ s[i].type = type /\ id \in s[i].ids
    /\ \A j \in i + 1 .. Len(s) : id \notin s[j].ids
NamedOnce(s, id)  == \A i, j \in 1 .. Len(s) : id \in s[i].ids /\ id \in s[j].ids => i = j

\* The answer x is in s; it is there once.
Told(s, x)     == \E i \in 1 .. Len(s) : s[i] = x
ToldOnce(s, x) == \A i, j \in 1 .. Len(s) : s[i] = x /\ s[j] = x => i = j

\* What a routed id is owed, and what is left of one that is not routed.
Answerable(id) ==
  id \in subIds => \/ LastNamed(toRelay, id, "REQ")
                   \/ /\ ~Named(toRelay, id)
                      /\ id \in served \/ Told(toClient, Closed(id))

Dropped(id) ==
  id \notin subIds => \/ LastNamed(toRelay, id, "CLOSE")
                      \/ ~Named(toRelay, id) /\ id \notin served

\* Feeds that no request replaces.
Lasting == FeedIds("t", Channels) \cup {Observer}

OneThing(id) ==
  /\ NamedOnce(toRelay, id) /\ ToldOnce(toClient, Closed(id))
  /\ Named(toRelay, id) => id \notin served /\ ~Told(toClient, Closed(id)) /\ id \in subIds
  /\ id \in served => ~Told(toClient, Closed(id)) /\ id \in subIds
  /\ Told(toClient, Closed(id)) => id \in subIds

Agreed ==
  /\ refusals = 0 => \A id \in SubId : ~Told(toClient, Closed(id))
  /\ observed => phase = "up" /\ Observer \in subIds
  /\ alive => /\ \A id \in SubId : Answerable(id)
              /\ refusals = 0 => \A id \in SubId : Dropped(id)
              /\ \A id \in Lasting : OneThing(id)
              /\ observed \/ Told(toClient, Eose(Observer)) => ~Named(toRelay, Observer)

\* Of a sequence in two parts.
LEMMA ConcatNames ==
  ASSUME NEW S, NEW s \in Seq(S), NEW t \in Seq(S), NEW id
  PROVE  /\ Named(s \o t, id) <=> (Named(s, id) \/ Named(t, id))
         /\ \A type : LastNamed(s \o t, id, type) <=>
                        (LastNamed(t, id, type) \/ (LastNamed(s, id, type) /\ ~Named(t, id)))
         /\ NamedOnce(s \o t, id) <=>
              (NamedOnce(s, id) /\ NamedOnce(t, id) /\ ~(Named(s, id) /\ Named(t, id)))
<1> DEFINE u == s \o t
           m == Len(s)
           n == Len(t)
<1>1. m \in Nat /\ n \in Nat /\ Len(u) = m + n
  OBVIOUS
<1>2. \A i \in 1 .. m : i \in 1 .. m + n /\ u[i] = s[i]
  BY <1>1
<1>3. \A i \in 1 .. n : m + i \in 1 .. m + n /\ u[m + i] = t[i]
  BY <1>1
<1>4. \A i \in 1 .. m + n : i \in 1 .. m \/ (i - m \in 1 .. n /\ i = m + (i - m))
  BY <1>1
<1> HIDE DEF u, m, n
<1>5. Named(u, id) <=> (Named(s, id) \/ Named(t, id))
  <2>1. ASSUME Named(u, id)
        PROVE  Named(s, id) \/ Named(t, id)
    <3>1. PICK i \in 1 .. m + n : id \in u[i].ids
      BY <1>1, <2>1 DEF Named
    <3>2. CASE i \in 1 .. m
      BY <1>2, <3>1, <3>2 DEF Named, m
    <3>3. CASE i - m \in 1 .. n /\ i = m + (i - m)
      <4>1. u[i] = t[i - m]
        BY <1>3, <3>3
      <4> QED
        BY <3>1, <3>3, <4>1 DEF Named, n
    <3> QED
      BY <1>4, <3>2, <3>3
  <2>2. ASSUME Named(s, id)
        PROVE  Named(u, id)
    <3>1. PICK i \in 1 .. m : id \in s[i].ids
      BY <2>2 DEF Named, m
    <3> QED
      BY <1>1, <1>2, <3>1 DEF Named
  <2>3. ASSUME Named(t, id)
        PROVE  Named(u, id)
    <3>1. PICK i \in 1 .. n : id \in t[i].ids
      BY <2>3 DEF Named, n
    <3> QED
      BY <1>1, <1>3, <3>1 DEF Named
  <2> QED
    BY <2>1, <2>2, <2>3
<1>6. ASSUME NEW type
      PROVE  LastNamed(u, id, type) <=>
               (LastNamed(t, id, type) \/ (LastNamed(s, id, type) /\ ~Named(t, id)))
  <2>1. ASSUME LastNamed(u, id, type)
        PROVE  LastNamed(t, id, type) \/ (LastNamed(s, id, type) /\ ~Named(t, id))
    <3>1. PICK i \in 1 .. m + n : /\ u[i].type = type /\ id \in u[i].ids
                                  /\ \A j \in i + 1 .. m + n : id \notin u[j].ids
      BY <1>1, <2>1 DEF LastNamed
    <3>2. CASE i \in 1 .. m
      <4>1. \A j \in i + 1 .. m : id \notin s[j].ids
        <5> SUFFICES ASSUME NEW j \in i + 1 .. m
                     PROVE  id \notin s[j].ids
          OBVIOUS
        <5>1. j \in 1 .. m /\ j \in i + 1 .. m + n
          BY <1>1, <3>2
        <5> QED
          BY <1>2, <3>1, <5>1
      <4>2. LastNamed(s, id, type)
        BY <1>2, <3>1, <3>2, <4>1 DEF LastNamed, m
      <4>3. ~Named(t, id)
        <5> SUFFICES ASSUME NEW k \in 1 .. n
                     PROVE  id \notin t[k].ids
          BY DEF Named, n
        <5>1. m + k \in i + 1 .. m + n
          BY <1>1, <3>2
        <5> QED
          BY <1>3, <3>1, <5>1
      <4> QED
        BY <4>2, <4>3
    <3>3. CASE i - m \in 1 .. n /\ i = m + (i - m)
      <4>1. u[i] = t[i - m]
        BY <1>3, <3>3
      <4>2. \A j \in (i - m) + 1 .. n : id \notin t[j].ids
        <5> SUFFICES ASSUME NEW j \in (i - m) + 1 .. n
                     PROVE  id \notin t[j].ids
          OBVIOUS
        <5>1. j \in 1 .. n /\ m + j \in i + 1 .. m + n
          BY <1>1, <3>3
        <5> QED
          BY <1>3, <3>1, <5>1
      <4> QED
        BY <3>1, <3>3, <4>1, <4>2 DEF LastNamed, n
    <3> QED
      BY <1>4, <3>2, <3>3
  <2>2. ASSUME LastNamed(t, id, type)
        PROVE  LastNamed(u, id, type)
    <3>1. PICK i \in 1 .. n : /\ t[i].type = type /\ id \in t[i].ids
                              /\ \A j \in i + 1 .. n : id \notin t[j].ids
      BY <2>2 DEF LastNamed, n
    <3>2. \A j \in (m + i) + 1 .. m + n : id \notin u[j].ids
      <4> SUFFICES ASSUME NEW j \in (m + i) + 1 .. m + n
                   PROVE  id \notin u[j].ids
        OBVIOUS
      <4>1. j - m \in i + 1 .. n /\ j - m \in 1 .. n /\ j = m + (j - m)
        BY <1>1
      <4>2. u[j] = t[j - m]
        BY <1>3, <4>1
      <4> QED
        BY <3>1, <4>1, <4>2
    <3>3. m + i \in 1 .. m + n /\ u[m + i] = t[i]
      BY <1>3
    <3> QED
      BY <1>1, <3>1, <3>2, <3>3 DEF LastNamed
  <2>3. ASSUME LastNamed(s, id, type), ~Named(t, id)
        PROVE  LastNamed(u, id, type)
    <3>1. PICK i \in 1 .. m : /\ s[i].type = type /\ id \in s[i].ids
                              /\ \A j \in i + 1 .. m : id \notin s[j].ids
      BY <2>3 DEF LastNamed, m
    <3>2. \A j \in i + 1 .. m + n : id \notin u[j].ids
      <4> SUFFICES ASSUME NEW j \in i + 1 .. m + n
                   PROVE  id \notin u[j].ids
        OBVIOUS
      <4>0. j \in 1 .. m + n
        BY <1>1
      <4>1. CASE j \in 1 .. m
        <5>1. j \in i + 1 .. m
          BY <1>1, <4>1
        <5> QED
          BY <1>2, <3>1, <4>1, <5>1
      <4>2. CASE j - m \in 1 .. n /\ j = m + (j - m)
        <5>1. u[j] = t[j - m]
          BY <1>3, <4>2
        <5> QED
          BY <2>3, <4>2, <5>1 DEF Named, n
      <4> QED
        BY <1>4, <4>0, <4>1, <4>2
    <3>3. i \in 1 .. m + n /\ u[i] = s[i]
      BY <1>2
    <3> QED
      BY <1>1, <3>1, <3>2, <3>3 DEF LastNamed
  <2> QED
    BY <2>1, <2>2, <2>3
<1>7. NamedOnce(u, id) <=>
        (NamedOnce(s, id) /\ NamedOnce(t, id) /\ ~(Named(s, id) /\ Named(t, id)))
  <2>1. ASSUME NamedOnce(u, id)
        PROVE  NamedOnce(s, id) /\ NamedOnce(t, id) /\ ~(Named(s, id) /\ Named(t, id))
    <3>0. \A i, j \in 1 .. m + n : id \in u[i].ids /\ id \in u[j].ids => i = j
      BY <1>1, <2>1 DEF NamedOnce
    <3>1. NamedOnce(s, id)
      BY <1>2, <3>0 DEF NamedOnce, m
    <3>2. NamedOnce(t, id)
      <4> SUFFICES ASSUME NEW i \in 1 .. n, NEW j \in 1 .. n, id \in t[i].ids, id \in t[j].ids
                   PROVE  i = j
        BY DEF NamedOnce, n
      <4>1. m + i = m + j
        BY <1>3, <3>0
      <4> QED
        BY <1>1, <4>1
    <3>3. ASSUME Named(s, id), Named(t, id)
          PROVE  FALSE
      <4>1. PICK i \in 1 .. m : id \in s[i].ids
        BY <3>3 DEF Named, m
      <4>2. PICK j \in 1 .. n : id \in t[j].ids
        BY <3>3 DEF Named, n
      <4>3. i = m + j
        BY <1>2, <1>3, <3>0, <4>1, <4>2
      <4> QED
        BY <1>1, <4>3
    <3> QED
      BY <3>1, <3>2, <3>3
  <2>2. ASSUME NamedOnce(s, id), NamedOnce(t, id), ~(Named(s, id) /\ Named(t, id))
        PROVE  NamedOnce(u, id)
    <3> SUFFICES ASSUME NEW i \in 1 .. m + n, NEW j \in 1 .. m + n, id \in u[i].ids, id \in u[j].ids
                 PROVE  i = j
      BY <1>1 DEF NamedOnce
    <3>1. CASE i \in 1 .. m /\ j \in 1 .. m
      BY <1>2, <2>2, <3>1 DEF NamedOnce, m
    <3>2. CASE i - m \in 1 .. n /\ i = m + (i - m) /\ j - m \in 1 .. n /\ j = m + (j - m)
      <4>1. u[i] = t[i - m] /\ u[j] = t[j - m]
        BY <1>3, <3>2
      <4>2. i - m = j - m
        BY <2>2, <3>2, <4>1 DEF NamedOnce, n
      <4> QED
        BY <3>2, <4>2
    <3>3. CASE i \in 1 .. m /\ j - m \in 1 .. n /\ j = m + (j - m)
      <4>1. u[i] = s[i] /\ u[j] = t[j - m]
        BY <1>2, <1>3, <3>3
      <4>2. Named(s, id) /\ Named(t, id)
        BY <3>3, <4>1 DEF Named, m, n
      <4> QED
        BY <2>2, <4>2
    <3>4. CASE j \in 1 .. m /\ i - m \in 1 .. n /\ i = m + (i - m)
      <4>1. u[j] = s[j] /\ u[i] = t[i - m]
        BY <1>2, <1>3, <3>4
      <4>2. Named(s, id) /\ Named(t, id)
        BY <3>4, <4>1 DEF Named, m, n
      <4> QED
        BY <2>2, <4>2
    <3> QED
      BY <1>4, <3>1, <3>2, <3>3, <3>4
  <2> QED
    BY <2>1, <2>2
<1> QED
  BY <1>5, <1>6, <1>7 DEF u

LEMMA OneNames ==
  ASSUME NEW f \in Frame_, NEW id
  PROVE  /\ Named(<<f>>, id) <=> id \in f.ids
         /\ \A type : LastNamed(<<f>>, id, type) <=> (f.type = type /\ id \in f.ids)
         /\ NamedOnce(<<f>>, id)
         /\ ~Named(<<>>, id) /\ NamedOnce(<<>>, id) /\ \A type : ~LastNamed(<<>>, id, type)
<1> DEFINE s == <<f>>
<1>1. Len(s) = 1 /\ s[1] = f /\ 1 .. 1 = {1} /\ 2 .. 1 = {}
  OBVIOUS
<1> HIDE DEF s
<1>2. /\ Named(s, id) <=> id \in f.ids
      /\ NamedOnce(s, id)
  BY <1>1 DEF Named, NamedOnce
<1>3. \A type : LastNamed(s, id, type) <=> (f.type = type /\ id \in f.ids)
  BY <1>1 DEF LastNamed
<1>4. ~Named(<<>>, id) /\ NamedOnce(<<>>, id) /\ \A type : ~LastNamed(<<>>, id, type)
  BY DEF Named, NamedOnce, LastNamed
<1> QED
  BY <1>2, <1>3, <1>4 DEF s

LEMMA FrameNames ==
  ASSUME NEW type \in {"CLOSE", "REQ"}, NEW ids \in SUBSET SubId, NEW id
  PROVE  /\ Frame(type, ids) \in Seq(Frame_)
         /\ Named(Frame(type, ids), id) <=> id \in ids
         /\ \A ty : LastNamed(Frame(type, ids), id, ty) <=> (type = ty /\ id \in ids)
         /\ NamedOnce(Frame(type, ids), id)
<1> DEFINE f == [type |-> type, ids |-> ids]
<1>1. f \in Frame_ /\ f.type = type /\ f.ids = ids
  BY DEF Frame_
<1>2. Frame(type, ids) = IF ids = {} THEN <<>> ELSE <<f>>
  BY DEF Frame
<1> HIDE DEF f
<1>3. CASE ids = {}
  <2>1. Frame(type, ids) = <<>>
    BY <1>2, <1>3
  <2>2. ~Named(<<>>, id) /\ NamedOnce(<<>>, id) /\ \A ty : ~LastNamed(<<>>, id, ty)
    BY <1>1, OneNames
  <2>3. <<>> \in Seq(Frame_)
    OBVIOUS
  <2> QED
    BY <1>3, <2>1, <2>2, <2>3
<1>4. CASE ids # {}
  <2>1. Frame(type, ids) = <<f>>
    BY <1>2, <1>4
  <2> QED
    BY <1>1, <2>1, OneNames, FrameType
<1> QED
  BY <1>3, <1>4

\* What one handler writes after what is on the way.
LEMMA FramesName ==
  ASSUME NEW s \in Seq(Frame_), NEW drop \in SUBSET SubId, NEW ask \in SUBSET SubId, NEW id
  PROVE  LET t == s \o Frames(drop, ask)
         IN  /\ Named(t, id) <=> (Named(s, id) \/ id \in drop \/ id \in ask)
             /\ LastNamed(t, id, "REQ") <=>
                  (id \in ask \/ (id \notin drop /\ LastNamed(s, id, "REQ")))
             /\ LastNamed(t, id, "CLOSE") <=>
                  (id \notin ask /\ (id \in drop \/ LastNamed(s, id, "CLOSE")))
             /\ id \notin drop => (NamedOnce(t, id) <=> (NamedOnce(s, id) /\ ~(Named(s, id) /\ id \in ask)))
<1> DEFINE c == Frame("CLOSE", drop)
           q == Frame("REQ", ask)
           w == c \o q
           t == s \o w
<1>1. /\ c \in Seq(Frame_) /\ (Named(c, id) <=> id \in drop) /\ NamedOnce(c, id)
      /\ \A ty : LastNamed(c, id, ty) <=> (ty = "CLOSE" /\ id \in drop)
  BY FrameNames
<1>2. /\ q \in Seq(Frame_) /\ (Named(q, id) <=> id \in ask) /\ NamedOnce(q, id)
      /\ \A ty : LastNamed(q, id, ty) <=> (ty = "REQ" /\ id \in ask)
  BY FrameNames
<1>3. w \in Seq(Frame_) /\ s \o Frames(drop, ask) = t
  BY FramesType DEF Frames
<1> HIDE DEF c, q
<1>4. /\ Named(w, id) <=> (Named(c, id) \/ Named(q, id))
      /\ \A ty : LastNamed(w, id, ty) <=>
                    (LastNamed(q, id, ty) \/ (LastNamed(c, id, ty) /\ ~Named(q, id)))
      /\ NamedOnce(w, id) <=> (NamedOnce(c, id) /\ NamedOnce(q, id) /\ ~(Named(c, id) /\ Named(q, id)))
  BY <1>1, <1>2, ConcatNames
<1> HIDE DEF w
<1>5. /\ Named(t, id) <=> (Named(s, id) \/ Named(w, id))
      /\ \A ty : LastNamed(t, id, ty) <=>
                    (LastNamed(w, id, ty) \/ (LastNamed(s, id, ty) /\ ~Named(w, id)))
      /\ NamedOnce(t, id) <=> (NamedOnce(s, id) /\ NamedOnce(w, id) /\ ~(Named(s, id) /\ Named(w, id)))
  BY <1>3, ConcatNames
<1> HIDE DEF t
<1>6. Named(w, id) <=> (id \in drop \/ id \in ask)
  BY <1>1, <1>2, <1>4
<1>7. /\ LastNamed(w, id, "REQ") <=> id \in ask
      /\ LastNamed(w, id, "CLOSE") <=> (id \in drop /\ id \notin ask)
  BY <1>1, <1>2, <1>4
<1>8. id \notin drop => NamedOnce(w, id)
  BY <1>1, <1>2, <1>4
<1> QED
  BY <1>3, <1>5, <1>6, <1>7, <1>8

\* The frame at the head, and what follows it.
LEMMA HeadNames ==
  ASSUME NEW s \in Seq(Frame_), s # <<>>, NEW id
  PROVE  /\ Tail(s) \in Seq(Frame_) /\ Head(s) \in Frame_
         /\ Named(s, id) <=> (id \in Head(s).ids \/ Named(Tail(s), id))
         /\ \A type : LastNamed(s, id, type) <=>
                        (LastNamed(Tail(s), id, type)
                           \/ (Head(s).type = type /\ id \in Head(s).ids /\ ~Named(Tail(s), id)))
         /\ NamedOnce(s, id) <=> (NamedOnce(Tail(s), id) /\ ~(id \in Head(s).ids /\ Named(Tail(s), id)))
<1>1. Tail(s) \in Seq(Frame_) /\ Head(s) \in Frame_ /\ <<Head(s)>> \in Seq(Frame_)
  BY HeadTailProperties
<1>2. s = <<Head(s)>> \o Tail(s)
  OBVIOUS
<1> DEFINE h == Head(s)
           r == Tail(s)
<1> HIDE DEF h, r
<1>3. h \in Frame_ /\ r \in Seq(Frame_) /\ <<h>> \in Seq(Frame_) /\ s = <<h>> \o r
  BY <1>1, <1>2 DEF h, r
<1>4. /\ Named(<<h>> \o r, id) <=> (Named(<<h>>, id) \/ Named(r, id))
      /\ \A type : LastNamed(<<h>> \o r, id, type) <=>
                     (LastNamed(r, id, type) \/ (LastNamed(<<h>>, id, type) /\ ~Named(r, id)))
      /\ NamedOnce(<<h>> \o r, id) <=>
           (NamedOnce(<<h>>, id) /\ NamedOnce(r, id) /\ ~(Named(<<h>>, id) /\ Named(r, id)))
  BY <1>3, ConcatNames
<1>5. /\ Named(<<h>>, id) <=> id \in h.ids
      /\ \A type : LastNamed(<<h>>, id, type) <=> (h.type = type /\ id \in h.ids)
      /\ NamedOnce(<<h>>, id)
  BY <1>3, OneNames
<1>6. /\ Named(s, id) <=> (id \in h.ids \/ Named(r, id))
      /\ \A type : LastNamed(s, id, type) <=>
                     (LastNamed(r, id, type) \/ (h.type = type /\ id \in h.ids /\ ~Named(r, id)))
      /\ NamedOnce(s, id) <=> (NamedOnce(r, id) /\ ~(id \in h.ids /\ Named(r, id)))
  BY <1>3, <1>4, <1>5
<1> QED
  BY <1>1, <1>6 DEF h, r

\* The request at the head, answered for the id x.
LEMMA AnsweredNames ==
  ASSUME toRelay \in Seq(Frame_), toRelay # <<>>, Head(toRelay).type = "REQ",
         NEW x \in Head(toRelay).ids, NEW id
  PROVE  /\ Answered(x) \in Seq(Frame_)
         /\ id # x => /\ Named(Answered(x), id) <=> Named(toRelay, id)
                      /\ \A type : LastNamed(Answered(x), id, type) <=> LastNamed(toRelay, id, type)
                      /\ NamedOnce(Answered(x), id) <=> NamedOnce(toRelay, id)
         /\ id = x => /\ Named(Answered(x), id) <=> Named(Tail(toRelay), id)
                      /\ \A type : LastNamed(Answered(x), id, type) <=> LastNamed(Tail(toRelay), id, type)
                      /\ NamedOnce(Answered(x), id) <=> NamedOnce(Tail(toRelay), id)
<1> DEFINE h == Head(toRelay)
           r == Tail(toRelay)
           f == Frame("REQ", h.ids \ {x})
<1>1. /\ r \in Seq(Frame_) /\ h \in Frame_
      /\ Named(toRelay, id) <=> (id \in h.ids \/ Named(r, id))
      /\ \A type : LastNamed(toRelay, id, type) <=>
                     (LastNamed(r, id, type) \/ (h.type = type /\ id \in h.ids /\ ~Named(r, id)))
      /\ NamedOnce(toRelay, id) <=> (NamedOnce(r, id) /\ ~(id \in h.ids /\ Named(r, id)))
  BY HeadNames
<1>2. h.ids \ {x} \in SUBSET SubId /\ h.type = "REQ"
  BY <1>1 DEF Frame_
<1>3. Answered(x) = f \o r
  BY DEF Answered
<1> HIDE DEF h, r
<1>4. /\ f \in Seq(Frame_) /\ NamedOnce(f, id)
      /\ Named(f, id) <=> (id \in h.ids /\ id # x)
      /\ \A type : LastNamed(f, id, type) <=> (type = "REQ" /\ id \in h.ids /\ id # x)
  BY <1>2, FrameNames
<1> HIDE DEF f
<1>5. /\ Named(f \o r, id) <=> (Named(f, id) \/ Named(r, id))
      /\ \A type : LastNamed(f \o r, id, type) <=>
                     (LastNamed(r, id, type) \/ (LastNamed(f, id, type) /\ ~Named(r, id)))
      /\ NamedOnce(f \o r, id) <=> (NamedOnce(f, id) /\ NamedOnce(r, id) /\ ~(Named(f, id) /\ Named(r, id)))
  BY <1>1, <1>4, ConcatNames
<1>6. f \o r \in Seq(Frame_)
  BY <1>1, <1>4, ConcatProperties
<1> QED
  BY <1>1, <1>2, <1>3, <1>4, <1>5, <1>6 DEF r

\* Answers on their way.
LEMMA AppendTells ==
  ASSUME NEW s \in Seq(Answer), NEW a \in Answer, NEW x
  PROVE  /\ Told(Append(s, a), x) <=> (Told(s, x) \/ a = x)
         /\ ToldOnce(s, x) /\ ~(Told(s, x) /\ a = x) => ToldOnce(Append(s, a), x)
<1> DEFINE t == Append(s, a)
           n == Len(s)
<1>1. n \in Nat /\ Len(t) = n + 1 /\ t[n + 1] = a /\ \A i \in 1 .. n : t[i] = s[i]
  OBVIOUS
<1>2. 1 .. n + 1 = (1 .. n) \union {n + 1}
  BY <1>1
<1> HIDE DEF t, n
<1>3. Told(t, x) <=> (Told(s, x) \/ a = x)
  BY <1>1, <1>2 DEF Told, n
<1>4. ASSUME ToldOnce(s, x), ~(Told(s, x) /\ a = x)
      PROVE  ToldOnce(t, x)
  <2>1. \A i, j \in 1 .. n : s[i] = x /\ s[j] = x => i = j
    BY <1>4 DEF ToldOnce, n
  <2>2. \A i \in 1 .. n : s[i] = x => a # x
    BY <1>4 DEF Told, n
  <2> QED
    BY <1>1, <1>2, <2>1, <2>2 DEF ToldOnce
<1> QED
  BY <1>3, <1>4 DEF t

LEMMA TailTells ==
  ASSUME NEW s \in Seq(Answer), s # <<>>, NEW x
  PROVE  /\ Head(s) \in Answer /\ Tail(s) \in Seq(Answer)
         /\ Told(s, x) <=> (Head(s) = x \/ Told(Tail(s), x))
         /\ ToldOnce(s, x) => ToldOnce(Tail(s), x) /\ ~(Head(s) = x /\ Told(Tail(s), x))
<1> DEFINE t == Tail(s)
           n == Len(t)
<1>1. /\ n \in Nat /\ Len(s) = n + 1 /\ s[1] = Head(s) /\ Head(s) \in Answer /\ t \in Seq(Answer)
      /\ \A i \in 1 .. n : t[i] = s[i + 1]
  BY HeadTailProperties
<1>2. 1 \in 1 .. n + 1 /\ \A i \in 1 .. n : i + 1 \in 1 .. n + 1 /\ i + 1 # 1
  BY <1>1
<1>3. \A i \in 1 .. n + 1 : i = 1 \/ (i - 1 \in 1 .. n /\ i = (i - 1) + 1)
  BY <1>1
<1> HIDE DEF t, n
<1>4. ASSUME Told(s, x)
      PROVE  Head(s) = x \/ Told(t, x)
  <2>1. PICK i \in 1 .. n + 1 : s[i] = x
    BY <1>1, <1>4 DEF Told
  <2>2. CASE i = 1
    BY <1>1, <2>1, <2>2
  <2>3. CASE i - 1 \in 1 .. n /\ i = (i - 1) + 1
    <3>1. t[i - 1] = x
      BY <1>1, <2>1, <2>3
    <3> QED
      BY <2>3, <3>1 DEF Told, n
  <2> QED
    BY <1>3, <2>2, <2>3
<1>5. ASSUME Told(t, x)
      PROVE  Told(s, x)
  <2>1. PICK i \in 1 .. n : t[i] = x
    BY <1>5 DEF Told, n
  <2> QED
    BY <1>1, <1>2, <2>1 DEF Told
<1>6. Head(s) = x => Told(s, x)
  BY <1>1, <1>2 DEF Told
<1>7. ASSUME ToldOnce(s, x)
      PROVE  ToldOnce(t, x) /\ ~(Head(s) = x /\ Told(t, x))
  <2>0. \A i, j \in 1 .. n + 1 : s[i] = x /\ s[j] = x => i = j
    BY <1>1, <1>7 DEF ToldOnce
  <2>1. ToldOnce(t, x)
    <3> SUFFICES ASSUME NEW i \in 1 .. n, NEW j \in 1 .. n, t[i] = x, t[j] = x
                 PROVE  i = j
      BY DEF ToldOnce, n
    <3>1. i + 1 = j + 1
      BY <1>1, <1>2, <2>0
    <3> QED
      BY <1>1, <3>1
  <2>2. ASSUME Head(s) = x, Told(t, x)
        PROVE  FALSE
    <3>1. PICK i \in 1 .. n : t[i] = x
      BY <2>2 DEF Told, n
    <3> QED
      BY <1>1, <1>2, <2>0, <2>2, <3>1
  <2> QED
    BY <2>1, <2>2
<1> QED
  BY <1>1, <1>4, <1>5, <1>6, <1>7 DEF t

LEMMA LastingType ==
  /\ Lasting \subseteq SubId /\ Observer \in Lasting
  /\ \A id \in Lasting : id[1] = "t" \/ id = Observer
  /\ Observer[1] = "o"
  BY FeedIdsType DEF Lasting, FeedIds, Observer

LEMMA AnswersDiffer ==
  ASSUME NEW x, NEW y
  PROVE  /\ Closed(x) # Eose(y) /\ (Closed(x) = Closed(y) => x = y)
         /\ Closed(x).type = "CLOSED" /\ Eose(x).type = "EOSE"
         /\ Closed(x).id = x /\ Eose(x).id = x
  BY DEF Closed, Eose

LEMMA InitAgreed == Init => Agreed
  BY DEF Init, Agreed, Told

\* Neither the feeds nor what is on the way changes.
LEMMA QuietAgrees ==
  ASSUME Agreed, UNCHANGED <<subIds, toRelay, toClient, refusals>>,
         \/ UNCHANGED <<alive, served>>
         \/ alive' = FALSE,
         observed' => observed /\ phase' = "up"
  PROVE  Agreed'
<1>1. CASE alive' = FALSE
  BY <1>1 DEF Agreed, Told
<1>2. CASE UNCHANGED <<alive, served>>
  BY <1>2 DEF Agreed, Told, Answerable, Dropped, OneThing, Named, LastNamed, NamedOnce, ToldOnce
<1> QED
  BY <1>1, <1>2

\* Feeds that may be replaced are replaced, and nothing is asked twice that
\* may not be.
LEMMA AskAgrees ==
  ASSUME TypeOK, Agreed, NEW drop \in SUBSET SubId, NEW ask \in SUBSET SubId, Ask(drop, ask),
         UNCHANGED <<phase, alive, toClient, served, observed, refusals>>,
         drop \cap Lasting = {}, ask \cap Lasting \cap subIds = {}, Observer \notin ask
  PROVE  Agreed'
<1>1. subIds' = (subIds \ drop) \cup ask
  BY DEF Ask
<1>2. Observer \notin drop /\ Observer \in Lasting
  BY LastingType
<1>3. CASE ~alive
  BY <1>1, <1>2, <1>3 DEF Agreed, Told
<1>4. CASE alive
  <2> DEFINE t == toRelay \o Frames(drop, ask)
  <2>1. toRelay' = t /\ toRelay \in Seq(Frame_)
    BY <1>4 DEF Ask, TypeOK
  <2> HIDE DEF t
  <2>2. ASSUME NEW id
        PROVE  /\ Named(t, id) <=> (Named(toRelay, id) \/ id \in drop \/ id \in ask)
               /\ LastNamed(t, id, "REQ") <=>
                    (id \in ask \/ (id \notin drop /\ LastNamed(toRelay, id, "REQ")))
               /\ LastNamed(t, id, "CLOSE") <=>
                    (id \notin ask /\ (id \in drop \/ LastNamed(toRelay, id, "CLOSE")))
               /\ id \notin drop => (NamedOnce(t, id) <=>
                                       (NamedOnce(toRelay, id) /\ ~(Named(toRelay, id) /\ id \in ask)))
    BY <2>1, FramesName DEF t
  <2>3. \A id \in SubId : Answerable(id)'
    <3> SUFFICES ASSUME NEW id \in SubId, id \in subIds'
                 PROVE  \/ LastNamed(t, id, "REQ")
                        \/ ~Named(t, id) /\ (id \in served \/ Told(toClient, Closed(id)))
      BY <2>1 DEF Answerable
    <3>1. Answerable(id)
      BY <1>4 DEF Agreed
    <3> QED
      BY <1>1, <2>2, <3>1 DEF Answerable
  <2>4. refusals' = 0 => \A id \in SubId : Dropped(id)'
    <3> SUFFICES ASSUME refusals = 0, NEW id \in SubId, id \notin subIds'
                 PROVE  LastNamed(t, id, "CLOSE") \/ (~Named(t, id) /\ id \notin served)
      BY <2>1 DEF Dropped
    <3>1. Dropped(id)
      BY <1>4 DEF Agreed
    <3> QED
      BY <1>1, <2>2, <3>1 DEF Dropped
  <2>5. \A id \in Lasting : OneThing(id)'
    <3> SUFFICES ASSUME NEW id \in Lasting
                 PROVE  OneThing(id)'
      OBVIOUS
    <3>1. OneThing(id) /\ id \notin drop /\ (id \in ask => id \notin subIds)
      BY <1>4 DEF Agreed
    <3>2. /\ NamedOnce(t, id)
          /\ Named(t, id) => id \notin served /\ ~Told(toClient, Closed(id)) /\ id \in subIds'
          /\ id \in served => ~Told(toClient, Closed(id)) /\ id \in subIds'
          /\ Told(toClient, Closed(id)) => id \in subIds'
          /\ ToldOnce(toClient, Closed(id))
      BY <1>1, <2>2, <3>1 DEF OneThing
    <3> QED
      BY <2>1, <3>2 DEF OneThing
  <2>6. observed' \/ Told(toClient', Eose(Observer)) => ~Named(toRelay', Observer)
    BY <1>2, <1>4, <2>1, <2>2 DEF Agreed
  <2>7. observed' => phase' = "up" /\ Observer \in subIds'
    BY <1>1, <1>2 DEF Agreed
  <2>8. refusals' = 0 => \A id \in SubId : ~Told(toClient', Closed(id))
    BY DEF Agreed
  <2> QED
    BY <2>3, <2>4, <2>5, <2>6, <2>7, <2>8 DEF Agreed
<1> QED
  BY <1>3, <1>4 DEF TypeOK

LEMMA SubscribeAuxAgrees ==
  ASSUME TypeOK, Agreed, NEW c \in Channels, NEW ids \in SUBSET Messages, SubscribeAux(c, ids),
         UNCHANGED <<phase, alive, toClient, served, observed, refusals>>
  PROVE  Agreed'
<1>1. AuxSubs(c, ids) \subseteq SubId /\ AuxOf(c) \subseteq SubId
  BY AuxSubsType, AuxOfType
<1>2. \A id \in AuxOf(c) \cup AuxSubs(c, ids) : id[1] = "a"
  BY DEF AuxOf, AuxSubs
<1>3. AuxOf(c) \cap Lasting = {} /\ AuxSubs(c, ids) \cap Lasting = {} /\ Observer \notin AuxSubs(c, ids)
  BY <1>2, LastingType
<1>4. Ask(AuxOf(c), AuxSubs(c, ids))
  BY DEF SubscribeAux
<1> QED
  BY <1>1, <1>3, <1>4, AskAgrees

LEMMA ApplyControlAgrees ==
  ASSUME TypeOK, Agreed, NEW r \in Request, ApplyControl(r), UNCHANGED phase
  PROVE  Agreed'
<1>0. UNCHANGED <<phase, alive, toClient, served, observed, refusals>>
  BY DEF ApplyControl
<1>1. CASE r.kind = "Timeline" /\ SubscribeTimeline(r.channel)
  <2> DEFINE id == <<"t", r.channel, 0>>
  <2>1. r.channel \in Channels
    BY <1>1 DEF Request
  <2>2. CASE id \in subIds
    BY <1>0, <1>1, <2>2, QuietAgrees DEF SubscribeTimeline, Agreed
  <2>3. CASE id \notin subIds
    <3>1. {id} \subseteq SubId /\ id # Observer /\ {} \subseteq SubId
      BY <2>1 DEF SubId, FeedIds, Observer
    <3>2. Ask({}, {id})
      BY <1>1, <2>3 DEF SubscribeTimeline
    <3> HIDE DEF id
    <3>3. {} \cap Lasting = {} /\ {id} \cap Lasting \cap subIds = {} /\ Observer \notin {id}
      BY <2>3, <3>1
    <3> QED
      BY <1>0, <3>1, <3>2, <3>3, AskAgrees
  <2> QED
    BY <2>2, <2>3
<1>2. CASE r.kind = "Aux" /\ SubscribeAux(r.channel, r.ids)
  BY <1>0, <1>2, SubscribeAuxAgrees DEF Request
<1>3. CASE r.kind = "AuxAdd" /\ AddAux(r.channel, r.ids)
  <2>1. r.channel \in Channels /\ r.ids \in SUBSET Messages
    BY <1>3 DEF Request
  <2>2. auxIds[r.channel] \cup r.ids \in SUBSET Messages
    BY <2>1 DEF TypeOK
  <2>3. CASE r.ids \subseteq auxIds[r.channel]
    BY <1>0, <1>3, <2>3, QuietAgrees DEF AddAux, book, Agreed
  <2>4. CASE ~(r.ids \subseteq auxIds[r.channel])
    BY <1>0, <1>3, <2>1, <2>2, <2>4, SubscribeAuxAgrees DEF AddAux
  <2> QED
    BY <2>3, <2>4
<1>4. ASSUME NEW feed \in {"y", "i"}, NEW S \in SUBSET Channels, Ask(OfFeed(feed), FeedIds(feed, S))
      PROVE  Agreed'
  <2>1. FeedIds(feed, S) \subseteq SubId /\ OfFeed(feed) \subseteq SubId
    BY <1>4, FeedIdsType, OfFeedType
  <2>2. \A id \in OfFeed(feed) \cup FeedIds(feed, S) : id[1] = feed
    BY DEF OfFeed, FeedIds
  <2>3. /\ OfFeed(feed) \cap Lasting = {} /\ FeedIds(feed, S) \cap Lasting = {}
        /\ Observer \notin FeedIds(feed, S)
    BY <1>4, <2>2, LastingType
  <2> QED
    BY <1>0, <1>4, <2>1, <2>3, AskAgrees
<1>5. CASE r.kind = "Typing" /\ SubscribeTyping(r.channels)
  BY <1>4, <1>5 DEF Request, SubscribeTyping
<1>6. CASE r.kind = "Inbox" /\ SubscribeInbox(r.channels)
  BY <1>4, <1>6 DEF Request, SubscribeInbox
<1> QED
  BY <1>1, <1>2, <1>3, <1>5, <1>6 DEF ApplyControl

LEMMA ConnectOkAgrees ==
  ASSUME TypeOK, ConnectOk
  PROVE  Agreed'
<1> DEFINE t == Frame("REQ", Owed)
<1>1. /\ subIds' = Owed /\ toRelay' = Frames({}, Owed) /\ toClient' = <<>> /\ served' = {}
      /\ observed' = FALSE
  BY DEF ConnectOk
<1>2. Frames({}, Owed) = t
  <2>1. Frame("CLOSE", {}) = <<>>
    BY DEF Frame
  <2>2. t \in Seq(Frame_)
    BY OwedType, FrameNames
  <2> HIDE DEF t
  <2>3. <<>> \o t = t
    BY <2>2, ConcatEmptySeq
  <2> QED
    BY <2>1, <2>3 DEF Frames, t
<1>3. \A id : /\ Named(t, id) <=> id \in Owed
              /\ LastNamed(t, id, "REQ") <=> id \in Owed
              /\ NamedOnce(t, id)
  BY OwedType, FrameNames
<1> HIDE DEF t
<1>4. \A x : ~Told(<<>>, x) /\ ToldOnce(<<>>, x)
  BY DEF Told, ToldOnce
<1>5. \A id : Answerable(id)' /\ Dropped(id)' /\ OneThing(id)'
  BY <1>1, <1>2, <1>3, <1>4 DEF Answerable, Dropped, OneThing
<1> QED
  BY <1>1, <1>4, <1>5 DEF Agreed

\* The relay takes a CLOSE: what the frame names and nothing names after it is
\* no longer served.
LEMMA RelayTakesCloseAgrees ==
  ASSUME TypeOK, Agreed, RelayTakesClose
  PROVE  Agreed'
<1> DEFINE h == Head(toRelay)
           r == Tail(toRelay)
<1>1. /\ alive /\ toRelay # <<>> /\ h.type = "CLOSE" /\ toRelay' = r /\ served' = served \ h.ids
      /\ UNCHANGED <<alive, phase, subIds, toClient, observed, refusals>>
  BY DEF RelayTakesClose, pump, book, view
<1>2. ASSUME NEW id
      PROVE  /\ Named(toRelay, id) <=> (id \in h.ids \/ Named(r, id))
             /\ LastNamed(toRelay, id, "REQ") <=> LastNamed(r, id, "REQ")
             /\ LastNamed(toRelay, id, "CLOSE") <=>
                  (LastNamed(r, id, "CLOSE") \/ (id \in h.ids /\ ~Named(r, id)))
             /\ NamedOnce(toRelay, id) => NamedOnce(r, id)
  <2>1. toRelay \in Seq(Frame_)
    BY DEF TypeOK
  <2> QED
    BY <1>1, <2>1, HeadNames
<1> HIDE DEF h, r
<1>3. ASSUME NEW id \in SubId
      PROVE  Answerable(id)'
  <2>1. Answerable(id)
    BY <1>1 DEF Agreed
  <2> QED
    BY <1>1, <1>2, <2>1 DEF Answerable
<1>4. ASSUME refusals' = 0, NEW id \in SubId
      PROVE  Dropped(id)'
  <2>1. Dropped(id)
    BY <1>1, <1>4 DEF Agreed
  <2> QED
    BY <1>1, <1>2, <2>1 DEF Dropped
<1>5. ASSUME NEW id \in Lasting
      PROVE  OneThing(id)'
  <2>1. OneThing(id)
    BY <1>1 DEF Agreed
  <2> QED
    BY <1>1, <1>2, <2>1 DEF OneThing
<1>6. observed' \/ Told(toClient', Eose(Observer)) => ~Named(toRelay', Observer)
  BY <1>1, <1>2 DEF Agreed
<1>7. /\ refusals' = 0 => \A id \in SubId : ~Told(toClient', Closed(id))
      /\ observed' => phase' = "up" /\ Observer \in subIds'
  BY <1>1 DEF Agreed
<1> QED
  BY <1>3, <1>4, <1>5, <1>6, <1>7 DEF Agreed

\* The relay serves one id of a REQ.
LEMMA RelayAcceptsAgrees ==
  ASSUME TypeOK, Agreed, RelayAccepts
  PROVE  Agreed'
<1>1. PICK x \in Head(toRelay).ids :
        /\ served' = served \cup {x} /\ toRelay' = Answered(x)
        /\ toClient' = IF x = Observer THEN Append(toClient, Eose(x)) ELSE toClient
  BY DEF RelayAccepts
<1>2. /\ alive /\ toRelay # <<>> /\ Head(toRelay).type = "REQ"
      /\ UNCHANGED <<alive, phase, subIds, observed, refusals>>
  BY DEF RelayAccepts, pump, book, view
<1>3. toRelay \in Seq(Frame_) /\ toClient \in Seq(Answer)
  BY DEF TypeOK, Answer
<1> DEFINE r == Tail(toRelay)
           t == Answered(x)
<1>4. x \in SubId
  <2>1. Head(toRelay) \in Frame_
    BY <1>2, <1>3, HeadNames
  <2> QED
    BY <2>1 DEF Frame_
<1>5. ASSUME NEW id, id # x
      PROVE  /\ Named(t, id) <=> Named(toRelay, id)
             /\ LastNamed(t, id, "REQ") <=> LastNamed(toRelay, id, "REQ")
             /\ LastNamed(t, id, "CLOSE") <=> LastNamed(toRelay, id, "CLOSE")
             /\ NamedOnce(t, id) <=> NamedOnce(toRelay, id)
  BY <1>2, <1>3, <1>5, AnsweredNames
<1>6. /\ Named(t, x) <=> Named(r, x)
      /\ LastNamed(t, x, "REQ") <=> LastNamed(r, x, "REQ")
      /\ LastNamed(t, x, "CLOSE") <=> LastNamed(r, x, "CLOSE")
      /\ NamedOnce(t, x) <=> NamedOnce(r, x)
  BY <1>2, <1>3, AnsweredNames
<1>7. /\ Named(toRelay, x)
      /\ LastNamed(toRelay, x, "REQ") <=> (LastNamed(r, x, "REQ") \/ ~Named(r, x))
      /\ LastNamed(toRelay, x, "CLOSE") <=> LastNamed(r, x, "CLOSE")
      /\ NamedOnce(toRelay, x) => NamedOnce(r, x) /\ ~Named(r, x)
  BY <1>2, <1>3, HeadNames
<1> HIDE DEF r, t
<1>8. ASSUME NEW id
      PROVE  /\ Told(toClient', Closed(id)) <=> Told(toClient, Closed(id))
             /\ ToldOnce(toClient, Closed(id)) => ToldOnce(toClient', Closed(id))
  <2>1. Eose(x) \in Answer /\ Eose(x) # Closed(id)
    BY <1>4, AnswersDiffer DEF Answer, Eose
  <2>2. /\ Told(Append(toClient, Eose(x)), Closed(id)) <=> Told(toClient, Closed(id))
        /\ ToldOnce(toClient, Closed(id)) => ToldOnce(Append(toClient, Eose(x)), Closed(id))
    BY <1>3, <2>1, AppendTells
  <2> QED
    BY <1>1, <2>2
<1>9. ASSUME NEW id \in SubId
      PROVE  Answerable(id)'
  <2>1. Answerable(id)
    BY <1>2 DEF Agreed
  <2>2. CASE id = x
    BY <1>1, <1>2, <1>6, <1>7, <1>8, <2>1, <2>2 DEF Answerable, t
  <2>3. CASE id # x
    BY <1>1, <1>2, <1>5, <1>8, <2>1, <2>3 DEF Answerable, t
  <2> QED
    BY <2>2, <2>3
<1>10. ASSUME refusals' = 0, NEW id \in SubId
       PROVE  Dropped(id)'
  <2>1. Dropped(id)
    BY <1>2, <1>10 DEF Agreed
  <2>2. CASE id = x
    BY <1>1, <1>2, <1>6, <1>7, <2>1, <2>2 DEF Dropped, t
  <2>3. CASE id # x
    BY <1>1, <1>2, <1>5, <2>1, <2>3 DEF Dropped, t
  <2> QED
    BY <2>2, <2>3
<1>11. ASSUME NEW id \in Lasting
       PROVE  OneThing(id)'
  <2>1. OneThing(id)
    BY <1>2 DEF Agreed
  <2>2. CASE id = x
    BY <1>1, <1>2, <1>6, <1>7, <1>8, <2>1, <2>2 DEF OneThing, t
  <2>3. CASE id # x
    BY <1>1, <1>2, <1>5, <1>8, <2>1, <2>3 DEF OneThing, t
  <2> QED
    BY <2>2, <2>3
<1>12. observed' \/ Told(toClient', Eose(Observer)) => ~Named(toRelay', Observer)
  <2>1. OneThing(Observer)
    BY <1>2, LastingType DEF Agreed
  <2>2. CASE x = Observer
    BY <1>1, <1>6, <1>7, <2>1, <2>2 DEF OneThing, t
  <2>3. CASE x # Observer
    BY <1>1, <1>2, <1>5, <2>3 DEF Agreed, t
  <2> QED
    BY <2>2, <2>3
<1>13. /\ refusals' = 0 => \A id \in SubId : ~Told(toClient', Closed(id))
       /\ observed' => phase' = "up" /\ Observer \in subIds'
  BY <1>2, <1>8 DEF Agreed
<1> QED
  BY <1>9, <1>10, <1>11, <1>12, <1>13 DEF Agreed

\* The relay refuses one id of a REQ.
LEMMA RelayRefusesAgrees ==
  ASSUME TypeOK, Agreed, RelayRefuses
  PROVE  Agreed'
<1>1. PICK x \in Head(toRelay).ids :
        /\ served' = served \ {x} /\ toRelay' = Answered(x)
        /\ toClient' = Append(toClient, Closed(x))
  BY DEF RelayRefuses
<1>2. /\ alive /\ toRelay # <<>> /\ Head(toRelay).type = "REQ" /\ refusals' = refusals + 1
      /\ UNCHANGED <<alive, phase, subIds, observed>>
  BY DEF RelayRefuses, pump, book, view
<1>3. toRelay \in Seq(Frame_) /\ toClient \in Seq(Answer) /\ refusals' # 0
  BY <1>2 DEF TypeOK, Answer
<1> DEFINE r == Tail(toRelay)
           t == Answered(x)
<1>4. x \in SubId
  <2>1. Head(toRelay) \in Frame_
    BY <1>2, <1>3, HeadNames
  <2> QED
    BY <2>1 DEF Frame_
<1>5. ASSUME NEW id, id # x
      PROVE  /\ Named(t, id) <=> Named(toRelay, id)
             /\ LastNamed(t, id, "REQ") <=> LastNamed(toRelay, id, "REQ")
             /\ NamedOnce(t, id) <=> NamedOnce(toRelay, id)
  BY <1>2, <1>3, <1>5, AnsweredNames
<1>6. /\ Named(t, x) <=> Named(r, x)
      /\ LastNamed(t, x, "REQ") <=> LastNamed(r, x, "REQ")
      /\ NamedOnce(t, x) <=> NamedOnce(r, x)
  BY <1>2, <1>3, AnsweredNames
<1>7. /\ Named(toRelay, x)
      /\ LastNamed(toRelay, x, "REQ") <=> (LastNamed(r, x, "REQ") \/ ~Named(r, x))
      /\ NamedOnce(toRelay, x) => NamedOnce(r, x) /\ ~Named(r, x)
  BY <1>2, <1>3, HeadNames
<1> HIDE DEF r, t
<1>8. ASSUME NEW id
      PROVE  /\ Told(toClient', Closed(id)) <=> (Told(toClient, Closed(id)) \/ id = x)
             /\ ToldOnce(toClient, Closed(id)) /\ ~(Told(toClient, Closed(id)) /\ id = x)
                  => ToldOnce(toClient', Closed(id))
             /\ Told(toClient', Eose(id)) <=> Told(toClient, Eose(id))
  <2>1. Closed(x) \in Answer /\ Closed(x) # Eose(id) /\ (Closed(x) = Closed(id) <=> x = id)
    BY <1>4, AnswersDiffer DEF Answer, Closed
  <2> QED
    BY <1>1, <1>3, <2>1, AppendTells
<1>9. ASSUME NEW id \in SubId
      PROVE  Answerable(id)'
  <2>1. Answerable(id)
    BY <1>2 DEF Agreed
  <2>2. CASE id = x
    BY <1>1, <1>2, <1>6, <1>7, <1>8, <2>1, <2>2 DEF Answerable, t
  <2>3. CASE id # x
    BY <1>1, <1>2, <1>5, <1>8, <2>1, <2>3 DEF Answerable, t
  <2> QED
    BY <2>2, <2>3
<1>10. ASSUME NEW id \in Lasting
       PROVE  OneThing(id)'
  <2>1. OneThing(id)
    BY <1>2 DEF Agreed
  <2>2. CASE id = x
    BY <1>1, <1>2, <1>6, <1>7, <1>8, <2>1, <2>2 DEF OneThing, t
  <2>3. CASE id # x
    BY <1>1, <1>2, <1>5, <1>8, <2>1, <2>3 DEF OneThing, t
  <2> QED
    BY <2>2, <2>3
<1>11. observed' \/ Told(toClient', Eose(Observer)) => ~Named(toRelay', Observer)
  <2>1. observed' \/ Told(toClient', Eose(Observer)) => ~Named(toRelay, Observer)
    BY <1>2, <1>8 DEF Agreed
  <2> QED
    BY <1>1, <1>5, <1>7, <2>1 DEF t
<1>12. observed' => phase' = "up" /\ Observer \in subIds'
  BY <1>2 DEF Agreed
<1> QED
  BY <1>3, <1>9, <1>10, <1>11, <1>12 DEF Agreed

\* The relay ends a feed it served.
LEMMA RelayEndsAgrees ==
  ASSUME TypeOK, Agreed, RelayEnds
  PROVE  Agreed'
<1>1. PICK x \in served : served' = served \ {x} /\ toClient' = Append(toClient, Closed(x))
  BY DEF RelayEnds
<1>2. /\ alive /\ refusals' = refusals + 1
      /\ UNCHANGED <<alive, phase, subIds, toRelay, observed>>
  BY DEF RelayEnds, pump, book, view
<1>3. toClient \in Seq(Answer) /\ refusals' # 0 /\ x \in SubId
  BY <1>2 DEF TypeOK, Answer
<1>4. ASSUME NEW id
      PROVE  /\ Told(toClient', Closed(id)) <=> (Told(toClient, Closed(id)) \/ id = x)
             /\ ToldOnce(toClient, Closed(id)) /\ ~(Told(toClient, Closed(id)) /\ id = x)
                  => ToldOnce(toClient', Closed(id))
             /\ Told(toClient', Eose(id)) <=> Told(toClient, Eose(id))
  <2>1. Closed(x) \in Answer /\ Closed(x) # Eose(id) /\ (Closed(x) = Closed(id) <=> x = id)
    BY <1>3, AnswersDiffer DEF Answer, Closed
  <2> QED
    BY <1>1, <1>3, <2>1, AppendTells
<1>5. ASSUME NEW id \in SubId
      PROVE  Answerable(id)'
  <2>1. Answerable(id)
    BY <1>2 DEF Agreed
  <2> QED
    BY <1>1, <1>2, <1>4, <2>1 DEF Answerable
<1>6. ASSUME NEW id \in Lasting
      PROVE  OneThing(id)'
  <2>1. OneThing(id)
    BY <1>2 DEF Agreed
  <2> QED
    BY <1>1, <1>2, <1>4, <2>1 DEF OneThing
<1>7. observed' \/ Told(toClient', Eose(Observer)) => ~Named(toRelay', Observer)
  BY <1>2, <1>4 DEF Agreed
<1>8. observed' => phase' = "up" /\ Observer \in subIds'
  BY <1>2 DEF Agreed
<1> QED
  BY <1>3, <1>5, <1>6, <1>7, <1>8 DEF Agreed

\* The pump reads that a feed was refused or has ended.
LEMMA HandleClosedAgrees ==
  ASSUME TypeOK, Agreed, HandleClosed
  PROVE  Agreed'
<1> DEFINE a == Head(toClient)
           x == a.id
           r == Tail(toClient)
<1>1. /\ phase = "up" /\ toClient # <<>> /\ a.type = "CLOSED" /\ toClient' = r
      /\ UNCHANGED <<phase, alive, toRelay, served, refusals>>
  BY DEF HandleClosed, pump
<1>2. subIds' = subIds \ {x} /\ (observed' => observed /\ x # Observer)
  <2>1. CASE x \in subIds
    BY <2>1 DEF HandleClosed, TypeOK
  <2>2. CASE x \notin subIds
    <3>1. UNCHANGED <<subIds, observed>>
      BY <2>2 DEF HandleClosed, view
    <3>2. observed => x # Observer
      BY <2>2 DEF Agreed
    <3> QED
      BY <2>2, <3>1, <3>2
  <2> QED
    BY <2>1, <2>2
<1>3. toClient \in Seq(Answer)
  BY DEF TypeOK, Answer
<1>4. a \in Answer
  BY <1>1, <1>3, TailTells
<1>5. x \in SubId /\ a = Closed(x)
  BY <1>1, <1>4 DEF Answer, Closed
<1> HIDE DEF x
<1>6. ASSUME NEW id
      PROVE  /\ Told(toClient, Closed(id)) <=> (x = id \/ Told(r, Closed(id)))
             /\ ToldOnce(toClient, Closed(id)) => ToldOnce(r, Closed(id)) /\ ~(x = id /\ Told(r, Closed(id)))
             /\ Told(r, Eose(id)) => Told(toClient, Eose(id))
  <2>1. a = Closed(id) <=> x = id
    BY <1>5, AnswersDiffer
  <2> QED
    BY <1>1, <1>3, <2>1, TailTells
<1> HIDE DEF a, r
<1>7. refusals' = 0 => FALSE
  BY <1>1, <1>5, <1>6 DEF Agreed
<1>8. observed' => phase' = "up" /\ Observer \in subIds'
  BY <1>1, <1>2 DEF Agreed
<1>9. CASE ~alive
  BY <1>1, <1>7, <1>8, <1>9 DEF Agreed
<1>10. CASE alive
  <2>1. ASSUME NEW id \in SubId
        PROVE  Answerable(id)'
    <3>1. Answerable(id)
      BY <1>10 DEF Agreed
    <3> QED
      BY <1>1, <1>2, <1>6, <3>1 DEF Answerable
  <2>2. ASSUME NEW id \in Lasting
        PROVE  OneThing(id)'
    <3>1. OneThing(id)
      BY <1>10 DEF Agreed
    <3>2. CASE id = x
      BY <1>1, <1>2, <1>6, <3>1, <3>2 DEF OneThing
    <3>3. CASE id # x
      BY <1>1, <1>2, <1>6, <3>1, <3>3 DEF OneThing
    <3> QED
      BY <3>2, <3>3
  <2>3. observed' \/ Told(toClient', Eose(Observer)) => ~Named(toRelay', Observer)
    BY <1>1, <1>2, <1>6, <1>10 DEF Agreed
  <2> QED
    BY <1>7, <1>8, <2>1, <2>2, <2>3 DEF Agreed
<1> QED
  BY <1>9, <1>10 DEF TypeOK

\* The pump reads that a feed has been served from the start.
LEMMA HandleEoseAgrees ==
  ASSUME TypeOK, Agreed, HandleEose
  PROVE  Agreed'
<1> DEFINE a == Head(toClient)
           r == Tail(toClient)
<1>1. /\ phase = "up" /\ toClient # <<>> /\ a.type = "EOSE" /\ toClient' = r
      /\ observed' = (observed \/ (a.id = Observer /\ Observer \in subIds))
      /\ UNCHANGED <<phase, subIds, alive, toRelay, served, refusals>>
  BY DEF HandleEose, pump, book
<1>2. toClient \in Seq(Answer)
  BY DEF TypeOK, Answer
<1>3. a \in Answer
  BY <1>1, <1>2, TailTells
<1>4. a = Eose(a.id)
  BY <1>1, <1>3 DEF Answer, Eose
<1>5. ASSUME NEW id
      PROVE  /\ Told(toClient, Closed(id)) <=> Told(r, Closed(id))
             /\ ToldOnce(toClient, Closed(id)) => ToldOnce(r, Closed(id))
             /\ Told(toClient, Eose(id)) <=> (a.id = id \/ Told(r, Eose(id)))
  <2>1. a # Closed(id)
    BY <1>4, AnswersDiffer
  <2>2. a = Eose(id) <=> a.id = id
    BY <1>4, AnswersDiffer
  <2> QED
    BY <1>1, <1>2, <2>1, <2>2, TailTells
<1> HIDE DEF a, r
<1>6. observed' => phase' = "up" /\ Observer \in subIds'
  BY <1>1 DEF Agreed
<1>7. refusals' = 0 => \A id \in SubId : ~Told(toClient', Closed(id))
  BY <1>1, <1>5 DEF Agreed
<1>8. ASSUME alive, NEW id \in SubId
      PROVE  Answerable(id)'
  <2>1. Answerable(id)
    BY <1>8 DEF Agreed
  <2> QED
    BY <1>1, <1>5, <2>1 DEF Answerable
<1>9. ASSUME alive, refusals' = 0, NEW id \in SubId
      PROVE  Dropped(id)'
  <2>1. Dropped(id)
    BY <1>1, <1>9 DEF Agreed
  <2> QED
    BY <1>1, <2>1 DEF Dropped
<1>10. ASSUME alive, NEW id \in Lasting
       PROVE  OneThing(id)'
  <2>1. OneThing(id)
    BY <1>10 DEF Agreed
  <2> QED
    BY <1>1, <1>5, <2>1 DEF OneThing
<1>11. alive => (observed' \/ Told(toClient', Eose(Observer)) => ~Named(toRelay', Observer))
  BY <1>1, <1>5 DEF Agreed
<1>12. alive' = alive
  BY <1>1
<1> QED
  BY <1>6, <1>7, <1>8, <1>9, <1>10, <1>11, <1>12 DEF Agreed

LEMMA AgreedStep ==
  ASSUME TypeOK, Agreed, [Next]_vars
  PROVE  Agreed'
<1> USE DEF pump, book, socket, session, view
<1>1. ASSUME NEW r \in Requests, SendControl(r)
      PROVE  Agreed'
  BY <1>1, QuietAgrees DEF SendControl, Agreed
<1>2. CASE DropSender
  BY <1>2, QuietAgrees DEF DropSender, Agreed
<1>3. CASE ConnectFails
  BY <1>3, QuietAgrees DEF ConnectFails
<1>4. CASE BackoffReceive
  BY <1>4, QuietAgrees DEF BackoffReceive, Agreed
<1>5. CASE BackoffShutdown
  BY <1>5, QuietAgrees DEF BackoffShutdown, Agreed
<1>6. CASE BackoffElapsed
  BY <1>6, QuietAgrees DEF BackoffElapsed, Agreed
<1>7. CASE QueueApplied
  BY <1>7, QuietAgrees DEF QueueApplied, Agreed
<1>8. CASE ReadError
  BY <1>8, QuietAgrees DEF ReadError
<1>9. CASE ObserveShutdown
  <2>1. /\ UNCHANGED <<subIds, toClient, refusals>> /\ alive' = FALSE /\ observed' = FALSE
    BY <1>9 DEF ObserveShutdown
  <2> QED
    BY <2>1 DEF Agreed, Told
<1>10. CASE SocketDies
  <2>1. UNCHANGED <<phase, subIds, toClient, refusals, observed>> /\ alive' = FALSE
    BY <1>10 DEF SocketDies
  <2> QED
    BY <2>1 DEF Agreed, Told
<1>11. CASE UNCHANGED vars
  BY <1>11, QuietAgrees DEF vars, Agreed
<1>12. CASE ApplyQueued
  <2>1. Head(queued) \in Request
    BY <1>12, HeadTailProperties DEF ApplyQueued, TypeOK
  <2> QED
    BY <1>12, <2>1, ApplyControlAgrees DEF ApplyQueued
<1>13. CASE DrainControl
  <2>1. Head(control) \in Request
    BY <1>13, HeadTailProperties DEF DrainControl, TypeOK
  <2> QED
    BY <1>13, <2>1, ApplyControlAgrees DEF DrainControl
<1> QED
  BY <1>1, <1>2, <1>3, <1>4, <1>5, <1>6, <1>7, <1>8, <1>9, <1>10, <1>11, <1>12, <1>13,
     ConnectOkAgrees, HandleClosedAgrees, HandleEoseAgrees, RelayTakesCloseAgrees,
     RelayAcceptsAgrees, RelayRefusesAgrees, RelayEndsAgrees
  DEF Next, SessionStep, PumpStep, RelayStep

LEMMA AgreedMeans ==
  ASSUME TypeOK, Agreed
  PROVE  FeedsAgree
<1>1. /\ \A id, type : LastOnWire(id, type) <=> LastNamed(toRelay, id, type)
      /\ \A id : ClosedInFlight(id) <=> Told(toClient, Closed(id))
  BY DEF LastOnWire, LastNamed, ClosedInFlight, Told
<1>2. subIds \subseteq SubId /\ served \subseteq SubId
  BY DEF TypeOK
<1>3. RoutedIsAccounted
  BY <1>1, <1>2 DEF RoutedIsAccounted, Agreed, Answerable
<1>4. ReplacedIsClosed
  BY <1>1, <1>2 DEF ReplacedIsClosed, Agreed, Dropped
<1>5. TimelineNeverOrphaned
  <2> SUFFICES ASSUME alive, NEW c \in Channels, <<"t", c, 0>> \in served
               PROVE  <<"t", c, 0>> \in subIds
    BY DEF TimelineNeverOrphaned
  <2>1. <<"t", c, 0>> \in Lasting
    BY DEF Lasting, FeedIds
  <2> QED
    BY <2>1 DEF Agreed, OneThing
<1>6. ObservedIsBacked
  <2> SUFFICES ASSUME observed
               PROVE  /\ phase = "up" /\ Observer \in subIds
                      /\ alive => (Observer \in served \/ ClosedInFlight(Observer))
    BY DEF ObservedIsBacked
  <2>1. phase = "up" /\ Observer \in subIds
    BY DEF Agreed
  <2>2. ASSUME alive
        PROVE  Observer \in served \/ ClosedInFlight(Observer)
    <3>1. Answerable(Observer) /\ ~Named(toRelay, Observer)
      BY <1>2, <2>1, <2>2 DEF Agreed
    <3>2. LastNamed(toRelay, Observer, "REQ") => Named(toRelay, Observer)
      BY DEF LastNamed, Named
    <3> QED
      BY <1>1, <2>1, <3>1, <3>2 DEF Answerable
  <2> QED
    BY <2>1, <2>2
<1> QED
  BY <1>3, <1>4, <1>5, <1>6 DEF FeedsAgree

\* The pump, the relay and the interface agree on which feeds there are,
\* whatever the session asks for and however the frames of subscribe_timeline,
\* subscribe_aux and close_subscription cross on the socket: what the pump
\* routes is served, asked for or refused on its way, what it no longer routes
\* has its CLOSE on the way, no timeline feed is orphaned, and the observer
\* feed the interface counts on is there.
THEOREM FeedsStayAgreed == Spec => []FeedsAgree
<1>1. Init => Agreed
  BY InitAgreed
<1>2. TypeOK /\ Agreed /\ [Next]_vars => Agreed'
  BY AgreedStep
<1>3. TypeOK /\ Agreed => FeedsAgree
  BY AgreedMeans
<1> QED
  BY <1>1, <1>2, <1>3, InitType, TypeStep, PTL DEF Spec
=============================================================================
