----------------------------- MODULE ReadMarker ------------------------------
(***************************************************************************)
(* The shared read marker: the terminals of one identity, each publishing  *)
(* what it has read (session.rs: ReadProgress, publish_read, flush_read;   *)
(* client.rs: read_state, publish_read_state), and the one replaceable     *)
(* slot on the relay they all write (read_state.rs: slot is derived from   *)
(* the public key alone).                                                  *)
(*                                                                         *)
(* The interface sends what it has to say at the top of its loop.  A read  *)
(* of a conversation is claimed before that point, so it is on the channel *)
(* before anything else can happen; a read of a thread is claimed after    *)
(* the frame is drawn (main.rs), so it waits in the outbox for one turn of *)
(* the loop, and a key that quits in that turn leaves it there.            *)
(*                                                                         *)
(* A publish is two requests: the read-back of every slot, then the write  *)
(* of the merged contexts.  Anything may happen in between.  A write whose *)
(* outcome is Unknown may have been admitted, or be admitted later.        *)
(*                                                                         *)
(* Abstractions.  A marker is a function from contexts to timestamps with  *)
(* 0 for "absent": request_publish sends only frontiers above 0, and the   *)
(* merge starts an absent context at 0.  Slots other software writes, and  *)
(* slots that do not decode, are a read-back that fails (gaps is an error  *)
(* of the publish).  A local seed is not a frontier here: it is never      *)
(* published (see Inbox).                                                  *)
(***************************************************************************)
EXTENDS Integers, FiniteSets, Functions

CONSTANTS
    Terminals,  \* processes signed in with this identity
    Contexts,   \* context keys: conversations, and messages of threads
    Threads,    \* those of them that are messages of a thread
    Horizon,    \* bound: the latest timestamp
    MaxFaults,  \* bound: requests that fail, are refused or get no answer
    MaxLate,    \* bound: writes admitted after their outcome was Unknown
    MaxWeeks,   \* bound: times the slot ages past READ_STATE_WINDOW_SECS
    MaxSessions \* bound: sessions that start

ASSUME ThreadsAssumption == Threads \subseteq Contexts
ASSUME MarkerBounds ==
    /\ Horizon \in Nat /\ MaxFaults \in Nat /\ MaxLate \in Nat
    /\ MaxWeeks \in Nat /\ MaxSessions \in Nat

VARIABLES
    slot,       \* relay: the contexts of the newest read-state event
    aged,       \* relay: that event is older than the query window
    wire,       \* writes whose sender stopped waiting, not yet admitted
    frontier,   \* the marked frontiers of each terminal's interface
    run,        \* "off", "on", "quitting" (Shutdown is queued)
    outbox,     \* the thread claim the interface has yet to send
    pending,    \* pending_read and the ReadProgress still on the channel
    job,        \* the publish the command pump is in
    presented,  \* latest time each context was presented up to, by anyone
    owed,       \* what this session presented and no fault excuses
    faults, late, weeks, sessions   \* counters for the bounds

relay    == <<slot, aged, wire>>
counters == <<faults, late, weeks, sessions>>
vars     == <<relay, frontier, run, outbox, pending, job, presented, owed, counters>>
-----------------------------------------------------------------------------
Frontiers == [Contexts -> 0 .. Horizon]
Unread    == [k \in Contexts |-> 0]
None      == [step |-> "none", contexts |-> Unread]

\* Mutant: the merge adds the two frontiers up.
LaterSummed(a, b) == a + b
Later(a, b)  == IF a >= b THEN a ELSE b
MergeMax(f, g)  == [k \in Contexts |-> Later(f[k], g[k])]
Covers(f, g) == \A k \in Contexts : f[k] >= g[k]

Job(step, contexts) == [step |-> step, contexts |-> contexts]

\* What a query for this identity's slots answers: the filter reaches a week
\* back, so an older event is not in the answer at all.
Visible == IF aged THEN Unread ELSE slot

Init ==
    /\ slot = Unread /\ aged = FALSE /\ wire = {}
    /\ frontier = [t \in Terminals |-> Unread]
    /\ run = [t \in Terminals |-> "off"]
    /\ outbox = [t \in Terminals |-> Unread]
    /\ pending = [t \in Terminals |-> Unread]
    /\ job = [t \in Terminals |-> None]
    /\ presented = Unread
    /\ owed = [t \in Terminals |-> Unread]
    /\ faults = 0 /\ late = 0 /\ weeks = 0
    /\ sessions = [t \in Terminals |-> 0]
-----------------------------------------------------------------------------
(* A terminal's session.                                                   *)

SessionsSoFar == FoldFunction(LAMBDA n, m : n + m, 0, sessions)

\* A process starts with nothing read.
Start(t) ==
    /\ run[t] = "off" /\ SessionsSoFar < MaxSessions
    /\ run' = [run EXCEPT ![t] = "on"]
    /\ sessions' = [sessions EXCEPT ![t] = @ + 1]
    /\ frontier' = [frontier EXCEPT ![t] = Unread]
    /\ owed' = [owed EXCEPT ![t] = Unread]
    /\ UNCHANGED <<relay, outbox, pending, job, presented, faults, late, weeks>>

\* load_read_state, at the start and after every reconnect.  An answer that
\* fails tells the interface nothing, and leaves the state as it is.
LoadReadState(t) ==
    /\ run[t] = "on" /\ job[t].step = "none"
    /\ frontier' = [frontier EXCEPT ![t] = MergeMax(@, Visible)]
    /\ UNCHANGED <<relay, run, outbox, pending, job, presented, owed, counters>>

\* A claim that context k was read up to a time moves its frontier forward.
Claim(t, k, at) ==
    /\ run[t] = "on" /\ frontier[t][k] < at
    /\ frontier' = [frontier EXCEPT ![t][k] = at]
    /\ presented' = [presented EXCEPT ![k] = Later(@, at)]
    /\ owed' = [owed EXCEPT ![t][k] = at]
    /\ UNCHANGED <<relay, run, job, counters>>

\* Mutant: the window keeps the first picture instead of the newest.
PresentKeepsFirst(t, k, at) ==
    /\ k \notin Threads /\ Claim(t, k, at)
    /\ pending' = [pending EXCEPT ![t] = IF @ = Unread THEN frontier'[t] ELSE @]
    /\ outbox' = [outbox EXCEPT ![t] = Unread]

\* note_presented: request_publish sends every frontier, this one included, and
\* the newest picture replaces the one still pending.
Present(t, k, at) ==
    /\ k \notin Threads /\ Claim(t, k, at)
    /\ pending' = [pending EXCEPT ![t] = frontier'[t]]
    /\ outbox' = [outbox EXCEPT ![t] = Unread]

\* note_thread_presented, after the frame was drawn.
PresentThread(t, k, at) ==
    /\ k \in Threads /\ Claim(t, k, at)
    /\ outbox' = [outbox EXCEPT ![t] = frontier'[t]]
    /\ UNCHANGED pending

\* The next turn of the loop.
SendOutbox(t) ==
    /\ run[t] = "on" /\ outbox[t] # Unread
    /\ pending' = [pending EXCEPT ![t] = outbox[t]]
    /\ outbox' = [outbox EXCEPT ![t] = Unread]
    /\ UNCHANGED <<relay, frontier, run, job, presented, owed, counters>>

\* The loop ends with Shutdown; what is in the outbox is not sent.
Quit(t) ==
    /\ run[t] = "on"
    /\ run' = [run EXCEPT ![t] = "quitting"]
    /\ outbox' = [outbox EXCEPT ![t] = Unread]
    /\ UNCHANGED <<relay, frontier, pending, job, presented, owed, counters>>
-----------------------------------------------------------------------------
(* The command pump: it does one thing at a time.                          *)

\* READ_PUBLISH_WINDOW ended (publish_read), or the session is ending
\* (flush_read).  Either takes what is pending.
BeginPublish(t) ==
    /\ run[t] # "off" /\ job[t].step = "none" /\ pending[t] # Unread
    /\ job' = [job EXCEPT ![t] = Job("read-back", pending[t])]
    /\ pending' = [pending EXCEPT ![t] = Unread]
    /\ UNCHANGED <<relay, frontier, run, outbox, presented, owed, counters>>

\* Mutant: a blind write, without what was read back.
ReadBackBlind(t) ==
    /\ job[t].step = "read-back"
    /\ job' = [job EXCEPT ![t] = Job("write", @.contexts)]
    /\ UNCHANGED <<relay, frontier, run, outbox, pending, presented, owed, counters>>

\* Mutant: what was read back is written again, without the new read.
ReadBackOnly(t) ==
    /\ job[t].step = "read-back"
    /\ job' = [job EXCEPT ![t] = Job("write", Visible)]
    /\ UNCHANGED <<relay, frontier, run, outbox, pending, presented, owed, counters>>

ReadBack(t) ==
    /\ job[t].step = "read-back"
    /\ job' = [job EXCEPT ![t] = Job("write", MergeMax(Visible, @.contexts))]
    /\ UNCHANGED <<relay, frontier, run, outbox, pending, presented, owed, counters>>

\* On Stored the merged contexts come back to the interface (ReadState).
WriteStored(t) ==
    /\ job[t].step = "write"
    /\ slot' = job[t].contexts /\ aged' = FALSE
    /\ frontier' = [frontier EXCEPT ![t] = MergeMax(@, job[t].contexts)]
    /\ job' = [job EXCEPT ![t] = None]
    /\ UNCHANGED <<wire, run, outbox, pending, presented, owed, counters>>

\* The read-back failed or found a gap, or the write was refused or never
\* admitted: ReadPublished says so and the contexts are dropped, not retried.
PublishFails(t) ==
    /\ job[t].step # "none" /\ faults < MaxFaults
    /\ faults' = faults + 1
    /\ job' = [job EXCEPT ![t] = None]
    /\ owed' = [owed EXCEPT ![t] = Unread]
    /\ UNCHANGED <<relay, frontier, run, outbox, pending, presented, late, weeks,
                   sessions>>

\* The write was sent and no answer came: Unknown.
WriteUnknown(t) ==
    /\ job[t].step = "write" /\ late < MaxLate
    /\ late' = late + 1
    /\ wire' = wire \cup {job[t].contexts}
    /\ job' = [job EXCEPT ![t] = None]
    /\ owed' = [owed EXCEPT ![t] = Unread]
    /\ UNCHANGED <<slot, aged, frontier, run, outbox, pending, presented, faults, weeks,
                   sessions>>

\* Shutdown was handled: what was pending has been flushed.
Finish(t) ==
    /\ run[t] = "quitting" /\ job[t].step = "none" /\ pending[t] = Unread
    /\ run' = [run EXCEPT ![t] = "off"]
    /\ UNCHANGED <<relay, frontier, outbox, pending, job, presented, owed, counters>>

\* QUIT_FLUSH ended first, or the process was killed.
Die(t) ==
    /\ run[t] # "off" /\ faults < MaxFaults
    /\ faults' = faults + 1
    /\ run' = [run EXCEPT ![t] = "off"]
    /\ outbox' = [outbox EXCEPT ![t] = Unread]
    /\ pending' = [pending EXCEPT ![t] = Unread]
    /\ job' = [job EXCEPT ![t] = None]
    /\ owed' = [owed EXCEPT ![t] = Unread]
    /\ UNCHANGED <<relay, frontier, presented, late, weeks, sessions>>
-----------------------------------------------------------------------------
(* The relay.                                                              *)

\* A write nobody waits for any more arrives.  Whether it replaces the event the
\* relay holds by now is the relay's rule for replaceable events.
LateWrite ==
    /\ \E w \in wire :
         /\ wire' = wire \ {w}
         /\ \/ slot' = w /\ aged' = FALSE
            \/ UNCHANGED <<slot, aged>>
    /\ UNCHANGED <<frontier, run, outbox, pending, job, presented, owed, counters>>

WeekPasses ==
    /\ ~aged /\ weeks < MaxWeeks
    /\ aged' = TRUE
    /\ weeks' = weeks + 1
    /\ UNCHANGED <<slot, wire, frontier, run, outbox, pending, job, presented, owed,
                   faults, late, sessions>>
-----------------------------------------------------------------------------
Next ==
    \/ \E t \in Terminals :
         \/ Start(t) \/ LoadReadState(t) \/ Quit(t)
         \/ \E k \in Contexts, at \in 1 .. Horizon : Present(t, k, at) \/ PresentThread(t, k, at)
         \/ SendOutbox(t) \/ BeginPublish(t) \/ ReadBack(t) \/ WriteStored(t)
         \/ PublishFails(t) \/ WriteUnknown(t) \/ Finish(t) \/ Die(t)
    \/ LateWrite \/ WeekPasses

Spec == Init /\ [][Next]_vars

\* The command pump's timer and its requests end; a terminal need not start,
\* present anything or quit, and the relay need not admit a late write.
Publishing(t) ==
    SendOutbox(t) \/ BeginPublish(t) \/ ReadBack(t) \/ WriteStored(t)
      \/ PublishFails(t) \/ WriteUnknown(t) \/ Finish(t)
FairSpec == Spec /\ \A t \in Terminals : WF_vars(Publishing(t))
-----------------------------------------------------------------------------
(* Properties.                                                             *)

\* Every variable holds a value of the kind the code holds.
TypeOK ==
    /\ slot \in Frontiers /\ aged \in BOOLEAN /\ wire \subseteq Frontiers
    /\ frontier \in [Terminals -> Frontiers]
    /\ run \in [Terminals -> {"off", "on", "quitting"}]
    /\ outbox \in [Terminals -> Frontiers]
    /\ pending \in [Terminals -> Frontiers]
    /\ job \in [Terminals -> [step : {"none", "read-back", "write"},
                              contexts : Frontiers]]
    /\ presented \in Frontiers /\ owed \in [Terminals -> Frontiers]
    /\ faults \in Nat /\ late \in Nat /\ weeks \in Nat
    /\ sessions \in [Terminals -> Nat]

\* No read is ever invented: what the relay holds, what is on its way there and
\* what any terminal believes was presented by some terminal, whatever the
\* interleaving of publishes, faults, late writes and restarts.
NothingInvented ==
    /\ Covers(presented, slot)
    /\ \A w \in wire : Covers(presented, w)
    /\ \A t \in Terminals :
         /\ Covers(presented, frontier[t]) /\ Covers(presented, outbox[t])
         /\ Covers(presented, pending[t])  /\ Covers(presented, job[t].contexts)

\* So far one terminal alone wrote to a slot that did not age, and every write
\* was answered.  What follows is promised only as long as that is so: two
\* read-backs that both precede their writes, or a write that is admitted late,
\* put an older frontier back.
Undisturbed ==
    /\ late = 0 /\ weeks = 0
    /\ \A t, u \in Terminals : sessions[t] > 0 /\ sessions[u] > 0 => t = u

\* "A session that ends must not drop it" (flush_read): once a session is over,
\* the relay holds every read of a conversation that no failed publish excuses.
EndedSessionPublished ==
    \A t \in Terminals, k \in Contexts \ Threads :
        (Undisturbed /\ run[t] = "off") => slot[k] >= owed[t][k]

\* While the session runs, what it presented and the relay does not yet hold is
\* in the outbox, pending, or in the publish under way: neither the window nor a
\* newer claim swallows a read.
OwedIsOnItsWay ==
    \A t \in Terminals, k \in Contexts :
        (Undisturbed /\ run[t] = "on") =>
          \/ owed[t][k] <= Visible[k] \/ owed[t][k] <= outbox[t][k]
          \/ owed[t][k] <= pending[t][k] \/ owed[t][k] <= job[t].contexts[k]

\* The pump drops no read, neither while the session runs nor when it ends.
NoReadIsDropped == EndedSessionPublished /\ OwedIsOnItsWay

\* A read of a conversation reaches the relay in the end, unless a failed
\* publish excuses it.
ReadReachesRelay ==
    \A t \in Terminals, k \in Contexts \ Threads :
        (owed[t][k] > slot[k]) ~> (owed[t][k] <= slot[k] \/ ~Undisturbed)

\* A session that was asked to quit is over at some point.
QuitEnds == \A t \in Terminals : (run[t] = "quitting") ~> (run[t] # "quitting")

\* Reads arrive and sessions end.
SessionsSettle == ReadReachesRelay /\ QuitEnds

Register == INSTANCE MaxRegister WITH marker <- slot
\* Until a second terminal, a late write or an aged slot disturbs it, the slot
\* moves as the register does.
ImplementsRegister ==
    Register!Init /\ [][Undisturbed' => Register!Next]_<<slot, presented>>
=============================================================================
