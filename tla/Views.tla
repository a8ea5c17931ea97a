------------------------------- MODULE Views -------------------------------
(***************************************************************************)
(* What the user reads a conversation through (app.rs): the channel's      *)
(* window, the search, the context around a search result, the focused     *)
(* thread and the reader of one message.  Every view keeps its own rows    *)
(* and asks the command pump for more; the pump runs the commands in order *)
(* and answers in order, while the live feed brings new messages and       *)
(* deletions on a stream of its own, and only to the views that are open.  *)
(*                                                                         *)
(* A message is its place in time, so a page is a set of numbers; messages *)
(* of one second, and a page read in several queries, are left out.        *)
(* Search works on one conversation, whose results a query selects. Focus  *)
(* is left out: a key that acts on the focused row acts on any row.  So    *)
(* are drafts and writes (modules Desk, Timeline) and the branches of a    *)
(* thread.  The deletion feed covers every message shown.                  *)
(*                                                                         *)
(* The code loses track of three things, which history variables name:     *)
(*   - what reaches a view while another one hides it: the answer it waits *)
(*     for, or a deletion (`missed`);                                      *)
(*   - a page of the channel asked for while a reload is under way, whose  *)
(*     cursor is older than the rows the reload leaves (`strayed`);        *)
(*   - messages of an outage, or of a stay in another conversation, longer *)
(*     than one window, and until it is read again any of them (`strayed`).*)
(***************************************************************************)
EXTENDS Integers, Sequences, FiniteSets, TLC, FiniteSetsExt, SequencesExt

CONSTANTS
  MaxMessage,   \* bound: the messages the conversation ever holds
  Stored,       \* those it holds at the start
  RootOf,       \* the thread root of every message, itself if it is none's reply
  Queries,      \* what can be searched for
  Found,        \* the messages each query matches
  PageSize,     \* limit of one page of history
  HistoryLimit, \* limit of the newest window
  ThreadLimit,  \* limit of the first read of a thread
  Radius,       \* messages of context on either side of a result
  MaxAnswers,   \* bound: answers the interface has not applied
  MaxAsks,      \* bound: commands the user causes
  MaxEvents     \* bound: deletions, failed reads and lost connections

Messages == 1 .. MaxMessage

ASSUME Constants ==
  /\ {MaxMessage, HistoryLimit, ThreadLimit, Radius, MaxAnswers, MaxAsks, MaxEvents} \subseteq Nat
  /\ Stored \in Messages /\ PageSize \in Nat \ {0, 1}
  /\ RootOf \in [Messages -> Messages] /\ Found \in [Queries -> SUBSET Messages]

VARIABLES
  stored,   \* messages posted so far: 1 .. stored
  erased,   \* messages the relay deleted
  feed,     \* live frames under way
  up,       \* conn = Connected
  deleted,  \* deleted_rows
  channel,  \* the ChannelEntry, and whether another one is selected
  search, context, thread, \* SearchView, ContextView, ThreadView
  reader,   \* ReaderView: the message, and whether it was deleted
  request,  \* thread_request, and the tokens search gives out with it
  queue,    \* commands the pump has not run
  answers,  \* answers the interface has not applied
  missed,   \* history: views that were hidden when something for them came
  strayed,  \* history: windows that may have a hole
  asks, events  \* how much of each bound is spent

views == <<channel, search, context, thread, reader>>
history == <<missed, strayed>>
viewsVars == <<stored, erased, feed, up, deleted, channel, search, context, thread,
          reader, request, queue, answers, missed, strayed, asks, events>>

\* A view that is closed for good: what the code leaves in it is never shown,
\* for opening the view again replaces it.
NoSearch == [open |-> FALSE, request |-> 0, loading |-> FALSE, failed |-> FALSE, hits |-> {}]
NoContext ==
  [open |-> FALSE, target |-> 0, request |-> 0, rows |-> {}, loading |-> FALSE,
   older |-> FALSE, newer |-> FALSE, before |-> FALSE, after |-> FALSE, upto |-> 0]
NoThread ==
  [open |-> FALSE, root |-> 0, request |-> 0, entered |-> 0, wanted |-> FALSE, rows |-> {},
   live |-> {}, loading |-> FALSE, failed |-> FALSE, loaded |-> FALSE, stale |-> FALSE,
   older |-> FALSE, rootGone |-> FALSE, back |-> FALSE]

There == (1 .. stored) \ erased
Replies(root) == {m \in There : RootOf[m] = root /\ m # root}
\* The n messages of S at one end.
Newest(S, n) == {m \in S : Cardinality({x \in S : x > m}) < n}
Oldest(S, n) == {m \in S : Cardinality({x \in S : x < m}) < n}

-----------------------------------------------------------------------------
(* The command pump: a command names the view it is for, the row or query   *)
(* it is about, and the request the view remembers.                         *)

Ask(op, on, of, way, cursor, token) ==
  [op |-> op, on |-> on, of |-> of, way |-> way, cursor |-> cursor, request |-> token]
Push(c) == queue' = Append(queue, c)
UnderWay == ToSet(queue) \cup {answers[i].ask : i \in DOMAIN answers}

\* history_page: an inclusive cursor; an older page is cut when it is full, a
\* newer one when the walk saw more than it hands out.
Page(c) ==
  LET among == IF c.on = "thread" THEN Replies(c.of) ELSE There
      older == {m \in among : m <= c.cursor}
      newer == {m \in among : m >= c.cursor}
  IN IF c.way = "older"
     THEN [rows |-> Newest(older, PageSize), cut |-> Cardinality(older) >= PageSize]
     ELSE [rows |-> Oldest(newer, PageSize), cut |-> Cardinality(newer) > PageSize]
Window(S, n) == [rows |-> Newest(S, n), cut |-> Cardinality(S) >= n]
ThreadRead(root) ==
  LET read == Window(Replies(root), ThreadLimit)
  IN [read EXCEPT !.rows = @ \cup {root}]
\* Client::context: the later side asks from the target on, so the target
\* takes one of its rows.
Around(target) ==
  LET until == {m \in There : m <= target}
      since == {m \in There : m >= target}
      before == Newest(until \ {target}, Radius)
      after == Oldest(since, Radius) \ {target}
  IN [rows |-> before \cup {target} \cup after,
      before |-> Cardinality(before) < Radius /\ Cardinality(until) < 2 * Radius + 1,
      after |-> Cardinality(after) < Radius /\ Cardinality(since) <= Radius]

Refused(c) ==
  \/ c.op = "context" /\ c.of \notin There
  \/ c.op \in {"thread", "newest"} /\ c.on = "thread" /\ c.of \notin There
Read(c) ==
  CASE c.op = "page" -> Page(c)
    [] c.op = "context" -> Around(c.of)
    [] c.op = "search" -> [rows |-> There \cap Found[c.of]]
    [] OTHER -> IF c.on = "thread" THEN ThreadRead(c.of) ELSE Window(There, HistoryLimit)

RunCommand ==
  /\ queue # <<>> /\ Len(answers) < MaxAnswers
  /\ queue' = Tail(queue)
  /\ \/ ~Refused(Head(queue))
        /\ answers' = Append(answers, [ask |-> Head(queue), ok |-> TRUE, read |-> Read(Head(queue)), upto |-> stored])
        /\ UNCHANGED events
     \/ Refused(Head(queue))
        /\ answers' = Append(answers, [ask |-> Head(queue), ok |-> FALSE])
        /\ UNCHANGED events
     \/ events < MaxEvents
        /\ answers' = Append(answers, [ask |-> Head(queue), ok |-> FALSE])
        /\ events' = events + 1
  /\ UNCHANGED <<stored, erased, feed, up, deleted, views, request, history, asks>>

-----------------------------------------------------------------------------
(* The user.  One view takes the keys: the reader over the context over     *)
(* the search over the thread over the channel.                             *)

Reading == reader.of # 0
OnContext == ~Reading /\ context.open
OnSearch == ~Reading /\ ~context.open /\ search.open
OnThread == ~Reading /\ ~context.open /\ ~search.open /\ thread.open
OnChannel ==
  ~Reading /\ ~context.open /\ ~search.open /\ ~thread.open /\ ~channel.away

Spend == asks < MaxAsks /\ asks' = asks + 1
world == <<stored, erased, feed, up, deleted, answers, events>>

\* request_channel_page: newer_complete of a channel is always true, so only
\* the older side is ever asked for.
Reloading == \E c \in UnderWay : c.on = "channel" /\ c.op \in {"open", "newest"}
RequestChannelPage ==
  /\ OnChannel /\ ~channel.loading /\ ~channel.older /\ channel.rows # {}
  /\ Spend
  /\ Push(Ask("page", "channel", 0, "older", Min(channel.rows), 0))
  /\ channel' = [channel EXCEPT !.loading = TRUE]
  /\ strayed' = IF Reloading THEN strayed \cup {"channel"} ELSE strayed
  /\ UNCHANGED <<world, search, context, thread, reader, request, missed>>

RequestNewestChannel ==
  /\ OnChannel /\ ~channel.loading
  /\ Spend
  /\ request' = request + 1
  /\ Push(Ask("newest", "channel", 0, "none", 0, request'))
  /\ channel' = [channel EXCEPT !.loading = TRUE]
  /\ UNCHANGED <<world, search, context, thread, reader, history>>

\* switch_channel to another conversation, and back.
SwitchAway ==
  /\ OnChannel /\ Spend
  /\ channel' = [channel EXCEPT !.away = TRUE]
  /\ UNCHANGED <<world, search, context, thread, reader, request, queue, history>>
SwitchBack ==
  /\ channel.away
  /\ Push(Ask("open", "channel", 0, "none", 0, 0))
  /\ channel' = [channel EXCEPT !.away = FALSE, !.loading = TRUE]
  /\ UNCHANGED <<world, search, context, thread, reader, request, history, asks>>

\* open_search: query, results and filters start empty; leave_search_journey
\* puts the channel back.
OpenSearch ==
  /\ OnChannel
  /\ search' = [NoSearch EXCEPT !.open = TRUE, !.request = search.request]
  /\ missed' = missed \ {"search"}
  /\ UNCHANGED <<world, channel, context, thread, reader, request, queue, strayed, asks>>
LeaveSearch ==
  /\ OnSearch
  /\ search' = [NoSearch EXCEPT !.request = search.request]
  /\ UNCHANGED <<world, channel, context, thread, reader, request, queue, history, asks>>

\* submit_search: the results on screen stay until the answer comes.
SubmitSearch(q) ==
  /\ OnSearch /\ Spend
  /\ search' = [search EXCEPT !.request = @ + 1, !.loading = TRUE, !.failed = FALSE]
  /\ Push(Ask("search", "search", q, "none", 0, search'.request))
  /\ missed' = missed \ {"search"}
  /\ UNCHANGED <<world, channel, context, thread, reader, request, strayed>>

OpenContext(m) ==
  /\ OnSearch /\ ~search.failed /\ m \in search.hits /\ Spend
  /\ request' = request + 1
  /\ context' = [open |-> TRUE, target |-> m, request |-> request', rows |-> {},
                 loading |-> TRUE, older |-> FALSE, newer |-> FALSE,
                 before |-> FALSE, after |-> FALSE, upto |-> 0]
  /\ search' = [search EXCEPT !.open = FALSE]
  /\ Push(Ask("context", "context", m, "none", 0, request'))
  /\ missed' = missed \ {"context"}
  /\ UNCHANGED <<world, channel, thread, reader, strayed>>
LeaveContext ==
  /\ OnContext
  /\ context' = NoContext
  /\ search' = [search EXCEPT !.open = TRUE]
  /\ UNCHANGED <<world, channel, thread, reader, request, queue, history, asks>>

ContextBusy == context.loading \/ context.older \/ context.newer
RequestContextPage(way) ==
  /\ OnContext /\ context.rows # {} /\ ~ContextBusy
  /\ IF way = "older" THEN ~context.before ELSE ~context.after
  /\ Spend
  /\ request' = request + 1
  /\ context' = [context EXCEPT !.request = request', ![way] = TRUE]
  /\ Push(Ask("page", "context", 0, way,
              IF way = "older" THEN Min(context.rows) ELSE Max(context.rows), request'))
  /\ UNCHANGED <<world, channel, search, thread, reader, history>>
RequestNewestContext ==
  /\ OnContext /\ ~ContextBusy /\ Spend
  /\ request' = request + 1
  /\ context' = [context EXCEPT !.request = request', !.loading = TRUE]
  /\ Push(Ask("newest", "context", 0, "none", 0, request'))
  /\ UNCHANGED <<world, channel, search, thread, reader, history>>

\* open_thread and open_context_thread.
Entered(m, back) ==
  /\ Spend
  /\ request' = request + 1
  /\ thread' = [open |-> TRUE, root |-> RootOf[m], request |-> request', entered |-> m,
                wanted |-> m # RootOf[m], rows |-> {}, live |-> {}, loading |-> TRUE,
                failed |-> FALSE, loaded |-> FALSE, stale |-> ~up, older |-> FALSE,
                rootGone |-> FALSE, back |-> back]
  /\ Push(Ask("thread", "thread", RootOf[m], "none", 0, request'))
  /\ strayed' = IF up THEN strayed \ {"thread"} ELSE strayed \cup {"thread"}
OpenThread(m) ==
  /\ OnChannel /\ m \in channel.rows
  /\ Entered(m, FALSE)
  /\ UNCHANGED <<world, channel, search, context, reader, missed>>
OpenContextThread(m) ==
  /\ OnContext /\ m \in context.rows
  /\ Entered(m, TRUE)
  /\ context' = [context EXCEPT !.open = FALSE]
  /\ UNCHANGED <<world, channel, search, reader, missed>>
LeaveThread ==
  /\ OnThread
  /\ thread' = NoThread
  /\ context' = [context EXCEPT !.open = thread.back]
  /\ UNCHANGED <<world, channel, search, reader, request, queue, history, asks>>

\* request_thread_page, from the second row on; newer_complete of a thread is
\* always true.
CanPage(t) == ~t.loading /\ Cardinality(t.rows) > 1 /\ ~t.older
ThreadPage(t) ==
  /\ request' = request + 1
  /\ thread' = [t EXCEPT !.loading = TRUE, !.request = request']
  /\ Push(Ask("page", "thread", t.root, "older", Min(t.rows \ {Min(t.rows)}), request'))
RequestThreadPage ==
  /\ OnThread /\ CanPage(thread) /\ Spend
  /\ ThreadPage(thread)
  /\ UNCHANGED <<world, channel, search, context, reader, history>>
RequestNewestThread ==
  /\ OnThread /\ ~thread.loading /\ Spend
  /\ request' = request + 1
  /\ thread' = [thread EXCEPT !.loading = TRUE, !.request = request']
  /\ Push(Ask("newest", "thread", thread.root, "none", 0, request'))
  /\ UNCHANGED <<world, channel, search, context, reader, history>>

Reread(t, token) == [t EXCEPT !.request = token, !.loading = TRUE, !.failed = FALSE]
RetryThread ==
  /\ OnThread /\ thread.failed /\ Spend
  /\ request' = request + 1
  /\ thread' = Reread(thread, request')
  /\ Push(Ask("thread", "thread", thread.root, "none", 0, request'))
  /\ UNCHANGED <<world, channel, search, context, reader, history>>

OpenReader(m) ==
  /\ \/ OnContext /\ m \in context.rows
     \/ OnThread /\ m \in thread.rows
     \/ OnChannel /\ m \in channel.rows
  /\ Spend
  /\ reader' = [of |-> m, gone |-> FALSE]
  /\ UNCHANGED <<world, channel, search, context, thread, request, queue, history>>
CloseReader ==
  /\ Reading
  /\ reader' = [of |-> 0, gone |-> FALSE]
  /\ UNCHANGED <<world, channel, search, context, thread, request, queue, history, asks>>

-----------------------------------------------------------------------------
(* The answers.                                                            *)

KeptAll(rows) == rows \* mutant
Kept(rows) == rows \ deleted

\* load_history, history_failed; apply_newest_window; apply_history_page and
\* its failure, which a channel that is not selected does not hear of.
ChannelAfter(a) ==
  LET got == Kept(a.read.rows)
      window == got \cup ((channel.rows \cap channel.live) \ a.read.rows)
      failed == IF channel.away /\ a.ask.op # "open" THEN channel
                ELSE [channel EXCEPT !.loading = FALSE]
  IN CASE ~a.ok -> failed
       [] a.ok /\ a.ask.op = "open" ->
            [channel EXCEPT !.rows = window, !.live = (@ \ a.read.rows) \cap window,
              !.older = FALSE, !.loading = FALSE]
       [] a.ok /\ a.ask.op = "newest" ->
            [channel EXCEPT !.rows = window, !.older = ~a.read.cut, !.loading = FALSE]
       [] a.ok /\ a.ask.op = "page" ->
            [channel EXCEPT !.rows = @ \cup got, !.older = @ \/ ~a.read.cut,
              !.loading = FALSE]

\* load_search and search_failed.
SearchAfter(a) ==
  IF a.ok THEN [search EXCEPT !.hits = Kept(a.read.rows), !.loading = FALSE, !.failed = FALSE]
  ELSE [search EXCEPT !.loading = FALSE, !.failed = TRUE]

ContextAfterStuck(a) == \* mutant
  LET idle == [context EXCEPT !.loading = FALSE, !.older = FALSE, !.newer = FALSE]
  IN CASE ~a.ok -> [context EXCEPT !.loading = FALSE]
       [] a.ok /\ a.ask.op = "context" ->
            IF context.target \in deleted THEN [context EXCEPT !.rows = {}, !.loading = FALSE]
            ELSE [idle EXCEPT !.rows = Kept(a.read.rows), !.before = a.read.before,
                   !.after = a.read.after, !.upto = a.upto]
       [] a.ok /\ a.ask.op = "newest" ->
            [context EXCEPT !.rows = Kept(a.read.rows), !.loading = FALSE,
              !.before = ~a.read.cut, !.after = TRUE, !.upto = a.upto]
       [] a.ok /\ a.ask.op = "page" ->
            IF a.ask.way = "older"
            THEN [idle EXCEPT !.rows = @ \cup Kept(a.read.rows), !.before = @ \/ ~a.read.cut]
            ELSE [idle EXCEPT !.rows = @ \cup Kept(a.read.rows), !.after = @ \/ ~a.read.cut,
                   !.upto = a.upto]
\* load_context, context_failed and the context's side of the pages.
ContextAfter(a) ==
  LET idle == [context EXCEPT !.loading = FALSE, !.older = FALSE, !.newer = FALSE]
  IN CASE ~a.ok -> [context EXCEPT ![IF a.ask.op = "page" THEN a.ask.way ELSE "loading"] = FALSE]
       [] a.ok /\ a.ask.op = "context" ->
            IF context.target \in deleted THEN [context EXCEPT !.rows = {}, !.loading = FALSE]
            ELSE [idle EXCEPT !.rows = Kept(a.read.rows), !.before = a.read.before,
                   !.after = a.read.after, !.upto = a.upto]
       [] a.ok /\ a.ask.op = "newest" ->
            [context EXCEPT !.rows = Kept(a.read.rows), !.loading = FALSE,
              !.before = ~a.read.cut, !.after = TRUE, !.upto = a.upto]
       [] a.ok /\ a.ask.op = "page" ->
            IF a.ask.way = "older"
            THEN [idle EXCEPT !.rows = @ \cup Kept(a.read.rows), !.before = @ \/ ~a.read.cut]
            ELSE [idle EXCEPT !.rows = @ \cup Kept(a.read.rows), !.after = @ \/ ~a.read.cut,
                   !.upto = a.upto]

ThreadAfterDrops(a) == \* mutant
  LET root == thread.root
      kept == IF thread.rootGone THEN thread.rows ELSE {}
      rows == IF a.ask.op = "page" THEN thread.rows \cup Kept(a.read.rows)
              ELSE (a.read.rows \ (deleted \ {root})) \cup kept
      idle == [thread EXCEPT !.loading = FALSE]
      found == thread.entered \in rows
  IN CASE ~a.ok -> [idle EXCEPT !.failed = @ \/ a.ask.op = "thread"]
       [] a.ok /\ a.ask.op = "page" ->
            [idle EXCEPT !.rows = rows, !.wanted = @ /\ ~found, !.older = @ \/ ~a.read.cut]
       [] a.ok /\ a.ask.op # "page" ->
            [idle EXCEPT !.rows = rows, !.live = @ \cap rows, !.loaded = TRUE,
              !.stale = FALSE, !.failed = FALSE, !.wanted = ~found, !.older = ~a.read.cut,
              !.rootGone = @ \/ root \in deleted]
\* load_thread and thread_failed; a page extends the rows.
ThreadAfter(a) ==
  LET root == thread.root
      kept == IF thread.rootGone THEN thread.rows ELSE thread.rows \cap thread.live
      rows == IF a.ask.op = "page" THEN thread.rows \cup Kept(a.read.rows)
              ELSE (a.read.rows \ (deleted \ {root})) \cup kept
      idle == [thread EXCEPT !.loading = FALSE]
      found == thread.entered \in rows
  IN CASE ~a.ok -> [idle EXCEPT !.failed = @ \/ a.ask.op = "thread"]
       [] a.ok /\ a.ask.op = "page" ->
            [idle EXCEPT !.rows = rows, !.wanted = @ /\ ~found, !.older = @ \/ ~a.read.cut]
       [] a.ok /\ a.ask.op # "page" ->
            [idle EXCEPT !.rows = rows, !.live = @ \cap rows, !.loaded = TRUE,
              !.stale = FALSE, !.failed = FALSE, !.wanted = ~found, !.older = ~a.read.cut,
              !.rootGone = @ \/ root \in deleted]
\* A thread entered at a reply that was not read yet asks for older pages
\* until it is there.
Seeks(a, t) == a.ok /\ a.read.cut /\ thread.wanted /\ t.wanted /\ CanPage(t)

Answered(on) ==
  /\ answers # <<>> /\ Head(answers).ask.on = on
  /\ answers' = Tail(answers)
quiet == <<stored, erased, feed, up, deleted, reader, strayed, asks, events>>
TakeChannel ==
  /\ Answered("channel")
  /\ channel' = ChannelAfter(Head(answers))
  /\ UNCHANGED <<quiet, search, context, thread, request, queue, missed>>
\* Every other answer is for the open view that asked for it, or nobody's.
Fits(a, view) == view.open /\ view.request = a.ask.request
Hidden(a, view) ==
  IF ~view.open /\ view.request = a.ask.request THEN {a.ask.on} ELSE {}
TakeSearch ==
  /\ Answered("search")
  /\ LET a == Head(answers)
     IN /\ search' = IF Fits(a, search) THEN SearchAfter(a) ELSE search
        /\ missed' = missed \cup Hidden(a, search)
  /\ UNCHANGED <<quiet, channel, context, thread, request, queue>>
TakeContext ==
  /\ Answered("context")
  /\ LET a == Head(answers)
     IN /\ context' = IF Fits(a, context) THEN ContextAfter(a) ELSE context
        /\ missed' = missed \cup Hidden(a, context)
  /\ UNCHANGED <<quiet, channel, search, thread, request, queue>>
TakeThread ==
  /\ Answered("thread")
  /\ LET a == Head(answers)
     IN \/ ~Fits(a, thread)
           /\ UNCHANGED <<thread, request, queue>>
        \/ Fits(a, thread) /\ Seeks(a, ThreadAfter(a))
           /\ ThreadPage(ThreadAfter(a))
        \/ Fits(a, thread) /\ ~Seeks(a, ThreadAfter(a))
           /\ thread' = ThreadAfter(a)
           /\ UNCHANGED <<request, queue>>
  /\ UNCHANGED <<quiet, channel, search, context, missed>>

-----------------------------------------------------------------------------
(* The live feed.                                                          *)

Frame(kind, m) == [kind |-> kind, of |-> m]
Send(f) == feed' = IF up THEN Append(feed, f) ELSE feed
Post ==
  /\ stored < MaxMessage
  /\ stored' = stored + 1
  /\ Send(Frame("post", stored'))
  /\ UNCHANGED <<erased, up, deleted, views, request, queue, answers, history, asks, events>>
Delete(m) ==
  /\ m \in There /\ events < MaxEvents
  /\ events' = events + 1
  /\ erased' = erased \cup {m}
  /\ Send(Frame("delete", m))
  /\ UNCHANGED <<stored, up, deleted, views, request, queue, answers, history, asks>>

\* apply_timeline: a conversation that is not selected only counts it unread.
TakePost ==
  /\ feed # <<>> /\ Head(feed).kind = "post"
  /\ feed' = Tail(feed)
  /\ LET m == Head(feed).of
         joins == thread.open /\ RootOf[m] = thread.root /\ m # thread.root
     IN /\ channel' = IF channel.away \/ m \in channel.rows THEN channel
                      ELSE [channel EXCEPT !.rows = @ \cup {m}, !.live = @ \cup {m}]
        /\ thread' = IF channel.away \/ ~joins \/ m \in thread.rows THEN thread
                     ELSE [thread EXCEPT !.rows = @ \cup {m}, !.live = @ \cup {m}]
  /\ strayed' = IF channel.away THEN strayed \cup {"channel"} ELSE strayed
  /\ UNCHANGED <<stored, erased, up, deleted, search, context, reader, request, queue,
                 answers, missed, asks, events>>

\* remove_row: every view but a context that is not open.
ThreadWithout(m) ==
  LET ours == thread.open /\ m \in channel.rows \cup thread.rows \cup {thread.root}
      live == IF ours THEN thread.live \ {m} ELSE thread.live
  IN IF m = thread.root
     THEN [thread EXCEPT !.live = live, !.rootGone = @ \/ ours \/ m \in thread.rows,
             !.rows = IF ours THEN @ \cup {m} ELSE @]
     ELSE [thread EXCEPT !.live = live, !.rows = @ \ {m}]
ContextWithout(m) ==
  IF ~context.open THEN context
  ELSE IF m = context.target THEN [context EXCEPT !.rows = {}, !.loading = FALSE]
  ELSE [context EXCEPT !.rows = @ \ {m}]
TakeDelete ==
  /\ feed # <<>> /\ Head(feed).kind = "delete"
  /\ feed' = Tail(feed)
  /\ LET m == Head(feed).of
     IN /\ deleted' = deleted \cup {m}
        /\ channel' = [channel EXCEPT !.rows = @ \ {m}]
        /\ search' = [search EXCEPT !.hits = @ \ {m}]
        /\ context' = ContextWithout(m)
        /\ thread' = ThreadWithout(m)
        /\ reader' = [reader EXCEPT !.gone = @ \/ reader.of = m]
        /\ missed' = IF context.open THEN missed ELSE missed \cup {"context"}
  /\ UNCHANGED <<stored, erased, up, request, queue, answers, strayed, asks, events>>

\* ChatEvent::Disconnected: frames under way are lost, an open thread is stale.
Disconnect ==
  /\ up /\ events < MaxEvents
  /\ events' = events + 1
  /\ up' = FALSE /\ feed' = <<>>
  /\ strayed' = strayed \cup {"channel", "thread"}
  /\ request' = IF thread.open THEN request + 1 ELSE request
  /\ thread' = IF thread.open THEN [thread EXCEPT !.stale = TRUE, !.request = request']
               ELSE thread
  /\ UNCHANGED <<stored, erased, deleted, channel, search, context, reader, queue,
                 answers, missed, asks>>
\* ChatEvent::Connected: the selected conversation and an open thread are read
\* again.
Reconnect ==
  /\ ~up /\ up' = TRUE
  /\ request' = IF thread.open THEN request + 1 ELSE request
  /\ thread' = IF thread.open THEN Reread(thread, request') ELSE thread
  /\ queue' = queue
       \o (IF channel.away THEN <<>> ELSE <<Ask("open", "channel", 0, "none", 0, 0)>>)
       \o (IF thread.open THEN <<Ask("thread", "thread", thread.root, "none", 0, request')>>
           ELSE <<>>)
  /\ UNCHANGED <<stored, erased, feed, deleted, channel, search, context, reader,
                 answers, history, asks, events>>

\* The conversation was opened, and its first load has landed.
ViewsInit ==
  /\ stored = Stored /\ erased = {} /\ feed = <<>> /\ up = TRUE /\ deleted = {}
  /\ channel = [rows |-> Newest(1 .. Stored, HistoryLimit), live |-> {}, older |-> FALSE,
                loading |-> FALSE, away |-> FALSE]
  /\ search = NoSearch /\ context = NoContext /\ thread = NoThread
  /\ reader = [of |-> 0, gone |-> FALSE]
  /\ request = 0
  /\ queue = <<>> /\ answers = <<>>
  /\ missed = {} /\ strayed = {} /\ asks = 0 /\ events = 0

UserStep ==
  \/ RequestChannelPage \/ RequestNewestChannel \/ SwitchAway \/ SwitchBack
  \/ OpenSearch \/ LeaveSearch \/ \E q \in Queries : SubmitSearch(q)
  \/ \E m \in Messages : OpenContext(m) \/ OpenThread(m) \/ OpenContextThread(m) \/ OpenReader(m)
  \/ LeaveContext \/ \E way \in {"older", "newer"} : RequestContextPage(way)
  \/ RequestNewestContext
  \/ RequestThreadPage \/ RequestNewestThread \/ RetryThread \/ LeaveThread \/ CloseReader
ViewsNext ==
  \/ UserStep \/ RunCommand
  \/ TakeChannel \/ TakeSearch \/ TakeContext \/ TakeThread
  \/ Post \/ (\E m \in Messages : Delete(m)) \/ TakePost \/ TakeDelete
  \/ Disconnect \/ Reconnect
ViewsSpec == ViewsInit /\ [][ViewsNext]_viewsVars

-----------------------------------------------------------------------------
\* Type invariant of the views and of what is under way for them.
ViewsTypeOK ==
  /\ stored \in Messages /\ erased \subseteq 1 .. stored /\ deleted \subseteq erased
  /\ channel.rows \subseteq 1 .. stored /\ channel.live \subseteq 1 .. stored
  /\ search.hits \subseteq 1 .. stored
  /\ context.rows \subseteq 1 .. stored /\ context.target \in 0 .. stored
  /\ thread.rows \subseteq {m \in 1 .. stored : m = thread.root \/ RootOf[m] = thread.root}
  /\ reader.of \in 0 .. stored /\ up \in BOOLEAN
  /\ \A c \in UnderWay : c.on \in {"channel", "search", "context", "thread"}
  /\ ~(context.open /\ (search.open \/ thread.open)) /\ ~(search.open /\ thread.open)

\* A view that says it is loading has an answer on its way, so no view stays
\* closed to its keys: none is dropped for a number that went stale or a flag
\* a failure left set.  Excepted are views that were hidden when the answer
\* came, and a thread while the connection is down (it is read again).  The views
\* are well formed.
Owed(on, token) == \E c \in UnderWay : c.on = on /\ c.request = token
NothingWaitsForever ==
  /\ ViewsTypeOK
  /\ channel.loading /\ ~channel.away => \E c \in UnderWay : c.on = "channel"
  /\ search.open /\ search.loading /\ "search" \notin missed => Owed("search", search.request)
  /\ context.open /\ ContextBusy /\ "context" \notin missed => Owed("context", context.request)
  /\ thread.open /\ thread.loading /\ up => Owed("thread", thread.request)

\* What a view shows has no hole: between two messages it shows it shows every
\* one the relay still has, an end it calls complete is the end there was when
\* it was read, and a thread that is neither loading, stale nor failed misses
\* no reply that was delivered.  A context whose message was deleted keeps its
\* claims of completeness while the page it was waiting for refills it.
Whole(rows, among) ==
  rows = {} \/ \A m \in among : Min(rows) < m /\ m < Max(rows) => m \in rows
Delivered == There \ {feed[i].of : i \in DOMAIN feed}
NoHoles ==
  /\ "channel" \in strayed \/ Whole(channel.rows, Delivered)
  /\ channel.older /\ "channel" \notin strayed /\ channel.rows # {} =>
       \A m \in There : m >= Min(channel.rows)
  /\ "context" \in missed \/ Whole(context.rows, There)
  /\ context.rows # {} /\ "context" \notin missed /\ context.target \notin deleted =>
       /\ context.before => \A m \in There : m >= Min(context.rows)
       /\ context.after => \A m \in There : m <= context.upto => m <= Max(context.rows)
  /\ thread.loaded /\ "thread" \notin strayed =>
       Whole(thread.rows \ {thread.root}, Delivered \cap Replies(thread.root))
  /\ thread.open /\ thread.loaded /\ up /\ ~(thread.loading \/ thread.failed \/ thread.stale) =>
       \A m \in Delivered \cap Replies(thread.root) :
         m \in thread.rows \/ \A r \in thread.rows \ {thread.root} : m < r

\* A message known to be deleted is not shown by the context around a result.
DeletedStaysGone == context.open => context.rows \cap deleted = {}

\* A message known to be deleted is shown nowhere, whatever read was under way
\* when the deletion came.  Excepted: a context that a thread was hiding when
\* it came; the root of a thread, which keeps its place, and whose text the
\* reader opens as if it were there.
Shows ==
  (IF ~channel.away THEN channel.rows ELSE {}) \cup (IF search.open THEN search.hits ELSE {})
    \cup (IF thread.open THEN thread.rows \ {thread.root} ELSE {})
DeletedStaysGoneInView ==
  /\ Shows \cap deleted = {}
  /\ "context" \notin missed => DeletedStaysGone
  /\ reader.of \in deleted /\ ~reader.gone => reader.of = thread.root \/ "context" \in missed

=============================================================================
