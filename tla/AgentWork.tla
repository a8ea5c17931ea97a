------------------------------- MODULE AgentWork -------------------------------
(* Which of the user's agents are working: agents.rs (Work, View), the part  *)
(* of app.rs that keeps and shows it, and the observer feed of sub.rs.       *)
(*                                                                           *)
(* An agent's process reports its turns in frames: started, still running,   *)
(* ended.  Frames are ephemeral: the relay forwards those published while    *)
(* this connection's feed is served and keeps none.  The client reduces what *)
(* it hears to a bounded table and shows one status for each agent: silence  *)
(* must never pass for rest, nor what was heard on another connection, or    *)
(* too long ago, for work.                                                   *)
(*                                                                           *)
(* Abstractions: frames may be lost, late, repeated and out of order, so on a *)
(* served feed any frame of any turn may come next; signatures, decryption   *)
(* and parsing leave a frame as it is (one that fails them is a lost one);   *)
(* names and the order of the list are the agents' numbers; completed,       *)
(* failed and died are all ended, and only a bare panic names neither a turn *)
(* nor a conversation; which conversation the second cursor is on is left    *)
(* open.                                                                     *)
EXTENDS Naturals, Sequences, FiniteSets, Functions

CONSTANTS
  NumAgents,      \* the agents the user owns
  TurnAgent,      \* the agent of each turn
  TurnChannel,    \* the conversation of each turn, or None
  Unnamed,        \* the turns whose frames name no turn
  Typers,         \* bound: the agents seen to type
  Fresh,          \* TURN_FRESH_SECS
  TypingTTL,      \* TYPING_TTL_SECS
  TurnsPerAgent,  \* TURNS_PER_AGENT
  EndedPerAgent,  \* ENDED_PER_AGENT
  AgentsKept,     \* AGENTS
  MaxTime,        \* bound: seconds
  MaxInputs,      \* bound: frames, typing and messages heard, and keys
  MaxSeq          \* bound: the seq of frames that name no turn

None == 0
Agents == 1..NumAgents
Turns == DOMAIN TurnAgent
Conversation == 1
Keys == Turns \union {Len(TurnAgent) + n : n \in 1..MaxSeq}

ASSUME AgentWorkAssumption ==
  /\ NumAgents \in Nat \ {0} /\ TurnAgent \in Seq(Agents) /\ Unnamed \subseteq Turns
  /\ Typers \subseteq Agents /\ TurnChannel \in [Turns -> {None, Conversation}]
  /\ \A t \in Unnamed : TurnChannel[t] # None
  /\ {Fresh, TypingTTL, TurnsPerAgent, EndedPerAgent, AgentsKept} \subseteq Nat \ {0}
  /\ {MaxTime, MaxInputs, MaxSeq} \subseteq Nat /\ MaxTime >= 2

VARIABLES
  now,       \* this machine's clock
  swept,     \* whether stale turns were retired since it last moved
  feed,      \* the relay's side of this connection's feed
  told,      \* what the relay said of the feed and did not arrive yet
  conn,      \* whether the WebSocket is up
  observed,  \* AgentView::observed
  work,      \* AgentView::work
  roster,    \* AgentView::roster
  cursor,    \* AgentView::open and ::cursor
  typing,    \* App::typing of the conversation, and whether it is still listed
  inputs,    \* frames, typing, messages and keys so far
  heard,     \* history: over this connection, which turns were last heard to run when
  ends,      \* history: over this connection, the ends heard, in order
  spoken     \* history: the newest message of each agent since it last claimed to type

vars == <<now, swept, feed, told, conn, observed, work, roster, cursor, typing,
          inputs, heard, ends, spoken>>
clock == <<now, swept>>
relay == <<feed, told>>
log == <<heard, ends>>

Input == inputs < MaxInputs /\ inputs' = inputs + 1
-----------------------------------------------------------------------------
(* The table of work.                                                        *)

NoTurns == [k \in {} |-> None]
NoWork == [turns |-> NoTurns, ended |-> <<>>, signal |-> None]

Key(f) == IF f.turn # None THEN f.turn ELSE Len(TurnAgent) + f.seq

\* The element of S that comes first, or last, by f.
FirstBy(S, f) == CHOOSE x \in S : \A y \in S : f[x] <= f[y]
LastBy(S, f) == CHOOSE x \in S : \A y \in S : f[y] <= f[x]
Activity(turns) == [k \in DOMAIN turns |-> turns[k].last]

Insert(w, k, channel) ==
  LET full == Cardinality(DOMAIN w.turns) >= TurnsPerAgent /\ k \notin DOMAIN w.turns
      kept == IF full THEN DOMAIN w.turns \ {FirstBy(DOMAIN w.turns, Activity(w.turns))} ELSE DOMAIN w.turns
  IN [w EXCEPT !.turns = [j \in kept \union {k} |->
                            IF j = k THEN [channel |-> channel, last |-> now] ELSE @[j]]]

Tombstone(w, k) ==
  IF k \in Range(w.ended) THEN w
  ELSE [w EXCEPT !.ended = Append(IF Len(@) >= EndedPerAgent THEN Tail(@) ELSE @, k)]

Without(w, k) == [w EXCEPT !.turns = [j \in DOMAIN @ \ {k} |-> @[j]]]

\* A mutant: whatever the frame names, the newest turn of its conversation ends.
EndNewest(w, f) ==
  LET here == {k \in DOMAIN w.turns : w.turns[k].channel = f.channel}
      newest == LastBy(here, Activity(w.turns)) IN
  IF here = {} THEN w ELSE Tombstone(Without(w, newest), newest)

\* A terminal frame ends its own turn, or the newest one of its conversation.
End(w, f) ==
  LET here == {k \in DOMAIN w.turns : w.turns[k].channel = f.channel}
      newest == LastBy(here, Activity(w.turns)) IN
  IF f.turn # None THEN Tombstone(Without(w, f.turn), f.turn)
  ELSE IF f.channel = None \/ here = {} THEN w ELSE Tombstone(Without(w, newest), newest)

\* A mutant: a turn that was not seen to start is taken up whatever became of it.
RunsOn(w, f) ==
  IF Key(f) \in DOMAIN w.turns THEN [w EXCEPT !.turns[Key(f)].last = now]
  ELSE IF f.channel # None THEN Insert(w, Key(f), f.channel) ELSE w

\* A turn is still running.  One that was not seen to start is taken up.
Running(w, f) ==
  IF Key(f) \in Range(w.ended) THEN w
  ELSE IF Key(f) \in DOMAIN w.turns THEN [w EXCEPT !.turns[Key(f)].last = now]
  ELSE IF f.channel # None THEN Insert(w, Key(f), f.channel) ELSE w

Took(w, f) ==
  CASE f.kind = "Started" -> IF Key(f) \in Range(w.ended) THEN w ELSE Insert(w, Key(f), f.channel)
    [] f.kind = "Liveness" -> Running(w, f)
    [] f.kind = "Ended" ->
         IF f.turn = None /\ f.channel = None THEN [w EXCEPT !.turns = NoTurns] ELSE End(w, f)

Known == {a \in Agents : work[a].signal # None}
Signals == [a \in Agents |-> work[a].signal]

\* Room for one more agent: the one that was silent longest is forgotten.
Forgotten(a) ==
  IF a \notin Known /\ Cardinality(Known) >= AgentsKept
  THEN [work EXCEPT ![FirstBy(Known, Signals)] = NoWork] ELSE work

Retired(w) == [w EXCEPT !.turns = [k \in {j \in DOMAIN @ : now <= @[j].last + Fresh} |-> @[k]]]
-----------------------------------------------------------------------------
(* What the screen says.                                                     *)

Types(a) ==
  typing.listed /\ \E e \in typing.entries : e.agent = a /\ ~e.thread /\ e.expires > now

Status(a) ==
  IF ~observed THEN "Unknown" ELSE IF DOMAIN work[a].turns # {} THEN "Working"
  ELSE IF Types(a) THEN "Typing" ELSE "NoTurn"

Count(load) == IF load.state = "Loaded" THEN Cardinality(load.agents) ELSE 0

Selected(load, at) == CHOOSE a \in load.agents : Cardinality({b \in load.agents : b < a}) = at

Contexts(load, w, at) ==
  IF at >= Count(load) THEN 0 ELSE Cardinality(DOMAIN w[Selected(load, at)].turns)

Below(i, n) == IF i < n THEN i ELSE IF n = 0 THEN 0 ELSE n - 1

\* Both cursors stay within their lists, and the second is that of the agent
\* the first was on.
Clamp(c, load, w) ==
  [c EXCEPT !.at = Below(@, Count(load)), !.context = Below(@, Contexts(load, w, c.at))]
-----------------------------------------------------------------------------
(* What the agents publish and the relay does.                               *)

FrameOf(kind, t, seq) ==
  [kind |-> kind, agent |-> TurnAgent[t], seq |-> IF t \in Unnamed THEN seq ELSE None,
   turn |-> IF t \in Unnamed THEN None ELSE t, channel |-> TurnChannel[t]]

\* The process died, with all its turns: the frame names none.
Panic(a) == [kind |-> "Ended", agent |-> a, seq |-> None, turn |-> None, channel |-> None]

Frames == {FrameOf(kind, t, seq) : kind \in {"Started", "Liveness", "Ended"}, t \in Turns, seq \in 1..MaxSeq}
            \union {Panic(a) : a \in Agents}

Client == <<clock, conn, observed, work, roster, cursor, typing, inputs, log, spoken>>

Serve ==
  /\ feed = "Asked" /\ feed' = "Served" /\ told' = told \union {"Ready"}
  /\ UNCHANGED Client
Refuse ==
  /\ feed # "Off" /\ feed' = "Off" /\ told' = told \union {"Closed"}
  /\ UNCHANGED Client
-----------------------------------------------------------------------------
(* The connection.                                                           *)

Nothing == [a \in Agents |-> NoWork]

\* A mutant: the feed still passes for watched.
ForgetWork == observed' = observed /\ work' = Nothing

Unobserve == observed' = FALSE /\ work' = Nothing

Connect ==
  /\ ~conn /\ conn' = TRUE /\ feed' = "Asked" /\ heard' = {} /\ ends' = <<>>
  /\ Unobserve /\ cursor' = [cursor EXCEPT !.asked = @ \/ cursor.open]
  /\ UNCHANGED <<clock, told, roster, typing, inputs, spoken>>

Disconnect ==
  /\ conn /\ conn' = FALSE /\ feed' = "Off" /\ told' = {} /\ heard' = {} /\ ends' = <<>>
  /\ Unobserve /\ typing' = [typing EXCEPT !.entries = {}]
  /\ UNCHANGED <<clock, roster, cursor, inputs, spoken>>

Ready ==
  /\ "Ready" \in told /\ told' = told \ {"Ready"} /\ observed' = TRUE
  /\ UNCHANGED <<clock, feed, conn, work, roster, cursor, typing, inputs, log, spoken>>

Closed ==
  /\ told = {"Closed"} /\ told' = {}
  /\ Unobserve /\ heard' = {} /\ ends' = <<>>
  /\ cursor' = Clamp(cursor, roster, work')
  /\ UNCHANGED <<clock, feed, conn, roster, typing, inputs, spoken>>

\* A frame arrives: what the relay forwarded before it closed the feed.
Hear(f) ==
  LET kept == Forgotten(f.agent)
      w == [Took(kept[f.agent], f) EXCEPT !.signal = now]
      run == [agent |-> f.agent, key |-> Key(f), at |-> now] IN
  /\ feed = "Served" \/ "Closed" \in told
  /\ Input
  /\ observed' = TRUE /\ work' = [kept EXCEPT ![f.agent] = w]
  /\ cursor' = Clamp(cursor, roster, work')
  /\ IF f.kind = "Ended" THEN ends' = Append(ends, f) /\ UNCHANGED heard
     ELSE heard' = {h \in heard : <<h.agent, h.key>> # <<f.agent, Key(f)>>} \union {run} /\ UNCHANGED ends
  /\ UNCHANGED <<clock, relay, conn, roster, typing, spoken>>

Tick ==
  /\ now < MaxTime /\ now' = now + 1 /\ swept' = FALSE
  /\ UNCHANGED <<relay, conn, observed, work, roster, cursor, typing, inputs, log, spoken>>

\* The end of a turn of the loop: what is no longer fresh is retired, then drawn.
Expire ==
  /\ ~swept /\ swept' = TRUE
  /\ work' = [a \in Agents |-> Retired(work[a])]
  /\ cursor' = IF work' = work THEN cursor ELSE Clamp(cursor, roster, work')
  /\ typing' = [typing EXCEPT !.entries = {e \in @ : e.expires > now}]
  /\ UNCHANGED <<relay, now, conn, observed, roster, inputs, log, spoken>>
-----------------------------------------------------------------------------
(* Typing.                                                                   *)

Typed == <<relay, clock, conn, observed, work, roster, cursor, log>>

\* An indicator of the conversation or of one of its threads; one entry for each.
Type(a, thread) ==
  /\ conn /\ Input
  /\ typing' = [typing EXCEPT !.entries =
       {e \in @ : <<e.agent, e.thread>> # <<a, thread>>}
         \union {[agent |-> a, thread |-> thread, since |-> now, expires |-> now + TypingTTL]}]
  /\ spoken' = IF thread THEN spoken ELSE [spoken EXCEPT ![a] = 0]
  /\ UNCHANGED Typed

\* A message ends a claim that is not younger.
EndedBy(e, at) == at >= e.since

Message(a, at) ==
  /\ conn /\ Input /\ typing.listed
  /\ typing' = [typing EXCEPT !.entries = {e \in @ : e.agent = a => ~EndedBy(e, at)}]
  /\ spoken' = [spoken EXCEPT ![a] = IF at > @ THEN at ELSE @]
  /\ UNCHANGED Typed

\* The typing feed is refused, or the conversation is gone.
TypingClosed ==
  /\ Input
  /\ typing' \in {[typing EXCEPT !.entries = {}], [typing EXCEPT !.entries = {}, !.listed = FALSE]}
  /\ UNCHANGED <<Typed, spoken>>
-----------------------------------------------------------------------------
(* The overlay.                                                              *)

Overlay == <<relay, clock, conn, observed, work, typing, log, spoken>>

Toggle ==
  /\ Input
  /\ cursor' = IF cursor.open THEN [cursor EXCEPT !.open = FALSE]
               ELSE [cursor EXCEPT !.open = TRUE, !.level = "List", !.asked = TRUE]
  /\ UNCHANGED <<Overlay, roster>>

Move ==
  LET n == IF cursor.level = "List" THEN Count(roster) ELSE Contexts(roster, work, cursor.at)
      to(i) == {Below(i + 1, n), Below(IF i = 0 THEN 0 ELSE i - 1, n)} IN
  /\ Input /\ cursor.open
  /\ \/ cursor.level = "List" /\ \E i \in to(cursor.at) : cursor' = [cursor EXCEPT !.at = i]
     \/ cursor.level = "Detail" /\ \E i \in to(cursor.context) : cursor' = [cursor EXCEPT !.context = i]
  /\ UNCHANGED <<Overlay, roster>>

Enter ==
  /\ Input /\ cursor.open
  /\ \/ /\ cursor.level = "List" /\ cursor.at < Count(roster)
        /\ cursor' = [cursor EXCEPT !.level = "Detail", !.context = 0]
     \/ /\ cursor.level = "Detail" /\ cursor.at < Count(roster) /\ typing.listed
        /\ \E k \in DOMAIN work[Selected(roster, cursor.at)].turns :
             work[Selected(roster, cursor.at)].turns[k].channel = Conversation
        /\ cursor' = [cursor EXCEPT !.open = FALSE]
  /\ UNCHANGED <<Overlay, roster>>

Back ==
  /\ Input /\ cursor.open
  /\ cursor' = IF cursor.level = "Detail" THEN [cursor EXCEPT !.level = "List"] ELSE [cursor EXCEPT !.open = FALSE]
  /\ UNCHANGED <<Overlay, roster>>

LoadAgents ==
  /\ cursor.asked
  /\ \/ \E S \in SUBSET Agents : roster' = [state |-> "Loaded", agents |-> S]
     \/ \E s \in {"Unavailable", "Failed"} : roster' = [state |-> s, agents |-> {}]
  /\ cursor' = [Clamp(cursor, roster', work) EXCEPT !.asked = FALSE]
  /\ UNCHANGED <<Overlay, inputs>>

Init ==
  /\ now = 2 /\ swept = TRUE
  /\ feed = "Off" /\ told = {} /\ conn = FALSE
  /\ observed = FALSE /\ work = Nothing
  /\ roster = [state |-> "Unknown", agents |-> {}]
  /\ cursor = [open |-> FALSE, level |-> "List", at |-> 0, context |-> 0, asked |-> FALSE]
  /\ typing = [entries |-> {}, listed |-> TRUE]
  /\ inputs = 0 /\ heard = {} /\ ends = <<>> /\ spoken = [a \in Agents |-> 0]

Next ==
  \/ Serve \/ Refuse \/ Connect \/ Disconnect \/ Ready \/ Closed \/ Tick \/ Expire
  \/ \E f \in Frames : Hear(f)
  \/ \E a \in Typers, at \in {now, now - 1} : Message(a, at)
  \/ \E a \in Typers, thread \in BOOLEAN : Type(a, thread)
  \/ TypingClosed \/ Toggle \/ Move \/ Enter \/ Back \/ LoadAgents

Spec == Init /\ [][Next]_vars
-----------------------------------------------------------------------------
(* Properties.                                                               *)

HeardOf == {h.agent : h \in heard} \union {e.agent : e \in Range(ends)}
Shown(a) == DOMAIN work[a].turns

\* The types; the table keeps its bounds, and the cursor is on an agent of the
\* list while there is one (Work, View).
TypeOK ==
  /\ now \in 2..MaxTime /\ swept \in BOOLEAN /\ {conn, observed} \subseteq BOOLEAN
  /\ feed \in {"Off", "Asked", "Served"} /\ told \subseteq {"Ready", "Closed"}
  /\ Cardinality(Known) <= AgentsKept
  /\ \A a \in Agents : /\ Shown(a) \subseteq Keys /\ Cardinality(Shown(a)) <= TurnsPerAgent
                       /\ Len(work[a].ended) <= EndedPerAgent
  /\ cursor.level \in {"List", "Detail"} /\ cursor.at = Below(cursor.at, Count(roster))

\* A turn shown as running was reported as running over this connection, within
\* the bound, and its agent's feed was not closed since (Work::expire, clear).
WorkingWasHeard ==
  swept => \A a \in Agents : \A k \in Shown(a) :
    \E h \in heard : h.agent = a /\ h.key = k /\ now <= h.at + Fresh

\* A turn reported as ended is not shown again, whatever late or repeated frame
\* says it runs, unless as many other ends were heard since the first that may have
\* been its own as are remembered: an end repeated renews nothing (Work::tombstone).
FinishedStaysFinished ==
  Cardinality(HeardOf) <= AgentsKept => \A i \in DOMAIN ends :
    LET own == {j \in DOMAIN ends : ends[j].agent = ends[i].agent}
        others == {j \in own : j > i /\ ends[j].turn # ends[i].turn} IN
    /\ ends[i].turn # None /\ Cardinality(others) < EndedPerAgent
    /\ \A j \in own : j < i => ends[j].turn \notin {None, ends[i].turn}
    => ends[i].turn \notin Shown(ends[i].agent)

\* A turn of which a frame was heard within the bound, and no end, is shown,
\* though another turn of its agent or its conversation ended; as long as all
\* agents and turns heard of have room, and no end was left without a name.
LiveTurnIsShown ==
  Cardinality(HeardOf) <= AgentsKept => \A h \in heard :
    LET own == {e \in Range(ends) : e.agent = h.agent} IN
    /\ h.key \in Turns /\ TurnChannel[h.key] # None /\ now <= h.at + Fresh
    /\ \A e \in own : e.turn \notin {None, h.key}
    /\ Cardinality({g.key : g \in {j \in heard : j.agent = h.agent}} \union {e.turn : e \in own}) <= TurnsPerAgent
    => h.key \in Shown(h.agent)

\* Nothing is said of an agent that rests unless the relay serves the feed, or
\* its refusal is on the way; and an agent is said to type only on a connection,
\* in a conversation of the list, and not once a later message of its arrived.
StatusHasEvidence ==
  /\ \A a \in Agents : Status(a) # "Unknown" => conn /\ (feed = "Served" \/ "Closed" \in told)
  /\ \A e \in typing.entries : conn /\ (~e.thread => e.since > spoken[e.agent])

\* Nothing is said of an agent without evidence: neither work, nor rest, nor
\* typing.  The table keeps its bounds and the cursor its place.
SaidOnEvidence == TypeOK /\ WorkingWasHeard /\ StatusHasEvidence
================================================================================
