---------------------------- MODULE ReadingProofs -----------------------------
(* What a conversation shows, and how far it is read.  Theorems about         *)
(* ReadMarker, for any terminals, contexts and bounds, and, in the second     *)
(* half, about Views, for any messages, threads, pages and windows.  The two  *)
(* share no variable and no definition.                                       *)
EXTENDS ReadMarker, Views, FiniteSetTheorems, SequenceTheorems, TLAPS

LEMMA UnreadType == Unread \in Frontiers
  BY MarkerBounds DEF Unread, Frontiers

\* Merging two frontiers is a frontier, and reaches no further than both do.
LEMMA MergeType ==
  ASSUME NEW f \in Frontiers, NEW g \in Frontiers
  PROVE  MergeMax(f, g) \in Frontiers
  BY MarkerBounds DEF Frontiers, MergeMax, Later

LEMMA MergeCovered ==
  ASSUME NEW p \in Frontiers, NEW f \in Frontiers, NEW g \in Frontiers,
         Covers(p, f), Covers(p, g)
  PROVE  Covers(p, MergeMax(f, g))
  BY MarkerBounds DEF Frontiers, MergeMax, Later, Covers

LEMMA MergeCovers ==
  ASSUME NEW f \in Frontiers, NEW g \in Frontiers
  PROVE  /\ Covers(MergeMax(f, g), f)
         /\ Covers(MergeMax(f, g), g)
  BY MarkerBounds DEF Frontiers, MergeMax, Later, Covers

LEMMA CoversTransitive ==
  ASSUME NEW f \in Frontiers, NEW g \in Frontiers, NEW h \in Frontiers,
         Covers(f, g), Covers(g, h)
  PROVE  Covers(f, h)
  BY MarkerBounds DEF Frontiers, Covers

LEMMA UnreadCovered ==
  ASSUME NEW p \in Frontiers
  PROVE  Covers(p, Unread)
  BY MarkerBounds DEF Frontiers, Unread, Covers

LEMMA VisibleType ==
  ASSUME TypeOK
  PROVE  Visible \in Frontiers
  BY UnreadType DEF TypeOK, Visible

-----------------------------------------------------------------------------
(* Type correctness, one step per action.                                  *)

LEMMA ClaimType ==
  ASSUME TypeOK, NEW t \in Terminals, NEW k \in Contexts, NEW at \in 1 .. Horizon,
         Claim(t, k, at)
  PROVE  /\ frontier' \in [Terminals -> Frontiers]
         /\ presented' \in Frontiers
         /\ owed' \in [Terminals -> Frontiers]
  <1>1. at \in 0 .. Horizon
    BY MarkerBounds
  <1>2. Later(presented[k], at) \in 0 .. Horizon
    BY <1>1 DEF TypeOK, Frontiers, Later
  <1> QED
    BY <1>1, <1>2 DEF TypeOK, Frontiers, Claim

LEMMA TypeStep == TypeOK /\ [Next]_vars => TypeOK'
<1> SUFFICES ASSUME TypeOK, [Next]_vars PROVE TypeOK'
  OBVIOUS
<1> USE UnreadType
<1>1. CASE UNCHANGED vars
  BY <1>1 DEF TypeOK, vars, relay, counters
<1>2. ASSUME NEW t \in Terminals, Start(t) PROVE TypeOK'
  BY <1>2 DEF TypeOK, Start, relay, counters
<1>3. ASSUME NEW t \in Terminals, LoadReadState(t) PROVE TypeOK'
  <2>1. MergeMax(frontier[t], Visible) \in Frontiers
    BY MergeType, VisibleType DEF TypeOK
  <2> QED
    BY <1>3, <2>1 DEF TypeOK, LoadReadState, relay, counters
<1>4. ASSUME NEW t \in Terminals, Quit(t) PROVE TypeOK'
  BY <1>4 DEF TypeOK, Quit, relay, counters
<1>5. ASSUME NEW t \in Terminals, NEW k \in Contexts, NEW at \in 1 .. Horizon,
             Present(t, k, at)
      PROVE  TypeOK'
  <2>1. Claim(t, k, at)
    BY <1>5 DEF Present
  <2> QED
    BY <1>5, <2>1, ClaimType DEF TypeOK, Present, Claim, relay, counters
<1>6. ASSUME NEW t \in Terminals, NEW k \in Contexts, NEW at \in 1 .. Horizon,
             PresentThread(t, k, at)
      PROVE  TypeOK'
  <2>1. Claim(t, k, at)
    BY <1>6 DEF PresentThread
  <2> QED
    BY <1>6, <2>1, ClaimType DEF TypeOK, PresentThread, Claim, relay, counters
<1>7. ASSUME NEW t \in Terminals, SendOutbox(t) PROVE TypeOK'
  BY <1>7 DEF TypeOK, SendOutbox, relay, counters
<1>8. ASSUME NEW t \in Terminals, BeginPublish(t) PROVE TypeOK'
  BY <1>8 DEF TypeOK, BeginPublish, Job, relay, counters
<1>9. ASSUME NEW t \in Terminals, ReadBack(t) PROVE TypeOK'
  <2>1. MergeMax(Visible, job[t].contexts) \in Frontiers
    BY MergeType, VisibleType DEF TypeOK
  <2> QED
    BY <1>9, <2>1 DEF TypeOK, ReadBack, Job, relay, counters
<1>10. ASSUME NEW t \in Terminals, WriteStored(t) PROVE TypeOK'
  <2>1. /\ job[t].contexts \in Frontiers
        /\ MergeMax(frontier[t], job[t].contexts) \in Frontiers
    BY MergeType DEF TypeOK
  <2> QED
    BY <1>10, <2>1 DEF TypeOK, WriteStored, None, relay, counters
<1>11. ASSUME NEW t \in Terminals, PublishFails(t) PROVE TypeOK'
  BY <1>11 DEF TypeOK, PublishFails, None, relay, counters
<1>12. ASSUME NEW t \in Terminals, WriteUnknown(t) PROVE TypeOK'
  BY <1>12 DEF TypeOK, WriteUnknown, None, relay, counters
<1>13. ASSUME NEW t \in Terminals, Finish(t) PROVE TypeOK'
  BY <1>13 DEF TypeOK, Finish, relay, counters
<1>14. ASSUME NEW t \in Terminals, Die(t) PROVE TypeOK'
  BY <1>14 DEF TypeOK, Die, None, relay, counters
<1>15. CASE LateWrite
  BY <1>15 DEF TypeOK, LateWrite, relay, counters
<1>16. CASE WeekPasses
  BY <1>16 DEF TypeOK, WeekPasses, relay, counters
<1> QED
  BY <1>1, <1>2, <1>3, <1>4, <1>5, <1>6, <1>7, <1>8, <1>9, <1>10, <1>11, <1>12,
     <1>13, <1>14, <1>15, <1>16 DEF Next

LEMMA InitType == Init => TypeOK
<1> USE UnreadType
<1>1. None \in [step : {"none", "read-back", "write"}, contexts : Frontiers]
  BY DEF None
<1> SUFFICES ASSUME Init PROVE TypeOK
  OBVIOUS
<1>2. /\ slot \in Frontiers /\ aged \in BOOLEAN /\ wire \subseteq Frontiers
      /\ presented \in Frontiers
  BY DEF Init
<1>3. /\ frontier \in [Terminals -> Frontiers] /\ outbox \in [Terminals -> Frontiers]
      /\ pending \in [Terminals -> Frontiers] /\ owed \in [Terminals -> Frontiers]
  BY DEF Init
<1>4. /\ run \in [Terminals -> {"off", "on", "quitting"}]
      /\ job \in [Terminals -> [step : {"none", "read-back", "write"},
                                contexts : Frontiers]]
  BY <1>1 DEF Init
<1>5. /\ faults \in Nat /\ late \in Nat /\ weeks \in Nat
      /\ sessions \in [Terminals -> Nat]
  BY DEF Init
<1> QED
  BY <1>2, <1>3, <1>4, <1>5 DEF TypeOK

\* Every variable of ReadMarker always holds a value of its kind.
THEOREM TypeCorrect == Spec => []TypeOK
  BY InitType, TypeStep, PTL DEF Spec
-----------------------------------------------------------------------------
(* No read is ever invented.                                               *)

LEMMA UnreadClaimsNothing ==
  ASSUME TypeOK
  PROVE  Covers(presented, Unread) /\ Covers(presented, None.contexts)
  BY UnreadCovered DEF TypeOK, None

LEMMA VisibleCovered ==
  ASSUME TypeOK, NothingInvented
  PROVE  Covers(presented, Visible)
  BY UnreadClaimsNothing DEF NothingInvented, Visible

\* A claim moves what was presented at least as far as the frontier it moves.
LEMMA ClaimCovered ==
  ASSUME TypeOK, NothingInvented, NEW t \in Terminals, NEW k \in Contexts,
         NEW at \in 1 .. Horizon, Claim(t, k, at)
  PROVE  /\ \A f \in Frontiers : Covers(presented, f) => Covers(presented', f)
         /\ \A u \in Terminals : Covers(presented', frontier'[u])
<1>1. presented \in Frontiers /\ presented' \in Frontiers
  BY ClaimType DEF TypeOK
<1>2. Covers(presented', presented)
  BY MarkerBounds DEF TypeOK, Frontiers, Claim, Covers, Later
<1>3. \A f \in Frontiers : Covers(presented, f) => Covers(presented', f)
  BY <1>1, <1>2, CoversTransitive
<1>4. ASSUME NEW u \in Terminals PROVE Covers(presented', frontier'[u])
  <2>1. Covers(presented', frontier[u])
    BY <1>3 DEF TypeOK, NothingInvented
  <2>2. presented'[k] >= at
    BY MarkerBounds DEF TypeOK, Frontiers, Claim, Later
  <2>3. \A j \in Contexts : frontier'[u][j] = frontier[u][j] \/ (j = k /\ frontier'[u][j] = at)
    BY DEF TypeOK, Frontiers, Claim
  <2> QED
    BY <2>1, <2>2, <2>3 DEF Covers
<1> QED
  BY <1>3, <1>4

LEMMA InventStep == TypeOK /\ NothingInvented /\ [Next]_vars => NothingInvented'
<1> SUFFICES ASSUME TypeOK, NothingInvented, [Next]_vars PROVE NothingInvented'
  OBVIOUS
<1> USE UnreadClaimsNothing
<1>1. CASE UNCHANGED vars
  BY <1>1 DEF NothingInvented, Covers, vars, relay
<1>2. ASSUME NEW t \in Terminals, Start(t) PROVE NothingInvented'
  BY <1>2 DEF TypeOK, NothingInvented, Start, relay
<1>3. ASSUME NEW t \in Terminals, LoadReadState(t) PROVE NothingInvented'
  <2>1. Covers(presented, MergeMax(frontier[t], Visible))
    BY MergeCovered, VisibleType, VisibleCovered DEF TypeOK, NothingInvented
  <2> QED
    BY <1>3, <2>1 DEF TypeOK, NothingInvented, LoadReadState, relay
<1>4. ASSUME NEW t \in Terminals, Quit(t) PROVE NothingInvented'
  BY <1>4 DEF TypeOK, NothingInvented, Quit, relay
<1>5. ASSUME NEW t \in Terminals, NEW k \in Contexts, NEW at \in 1 .. Horizon,
             Present(t, k, at) \/ PresentThread(t, k, at)
      PROVE  NothingInvented'
  <2>1. Claim(t, k, at)
    BY <1>5 DEF Present, PresentThread
  <2>2. /\ \A f \in Frontiers : Covers(presented, f) => Covers(presented', f)
        /\ \A u \in Terminals : Covers(presented', frontier'[u])
    BY <2>1, ClaimCovered
  <2>3. /\ Covers(presented', slot') /\ \A w \in wire' : Covers(presented', w)
        /\ \A u \in Terminals : Covers(presented', job'[u].contexts)
    BY <2>1, <2>2 DEF TypeOK, NothingInvented, Claim, relay
  <2>4. Covers(presented', Unread)
    BY <2>2, UnreadType
  <2>5. ASSUME NEW u \in Terminals
        PROVE  Covers(presented', outbox'[u]) /\ Covers(presented', pending'[u])
    <3>1. outbox'[u] \in {outbox[u], frontier'[t], Unread}
      BY <1>5 DEF TypeOK, Present, PresentThread
    <3>2. pending'[u] \in {pending[u], frontier'[t]}
      BY <1>5 DEF TypeOK, Present, PresentThread
    <3>3. Covers(presented', outbox[u]) /\ Covers(presented', pending[u])
      BY <2>2 DEF TypeOK, NothingInvented
    <3> QED
      BY <2>2, <2>4, <3>1, <3>2, <3>3
  <2> QED
    BY <2>2, <2>3, <2>5 DEF NothingInvented
<1>6. ASSUME NEW t \in Terminals, SendOutbox(t) PROVE NothingInvented'
  BY <1>6 DEF TypeOK, NothingInvented, SendOutbox, relay
<1>7. ASSUME NEW t \in Terminals, BeginPublish(t) PROVE NothingInvented'
  BY <1>7 DEF TypeOK, NothingInvented, BeginPublish, Job, relay
<1>8. ASSUME NEW t \in Terminals, ReadBack(t) PROVE NothingInvented'
  <2>1. Covers(presented, MergeMax(Visible, job[t].contexts))
    BY MergeCovered, VisibleType, VisibleCovered DEF TypeOK, NothingInvented
  <2> QED
    BY <1>8, <2>1 DEF TypeOK, NothingInvented, ReadBack, Job, relay
<1>9. ASSUME NEW t \in Terminals, WriteStored(t) PROVE NothingInvented'
  <2>1. Covers(presented, MergeMax(frontier[t], job[t].contexts))
    BY MergeCovered DEF TypeOK, NothingInvented
  <2> QED
    BY <1>9, <2>1 DEF TypeOK, NothingInvented, WriteStored
<1>10. ASSUME NEW t \in Terminals, PublishFails(t) PROVE NothingInvented'
  BY <1>10 DEF TypeOK, NothingInvented, PublishFails, relay
<1>11. ASSUME NEW t \in Terminals, WriteUnknown(t) PROVE NothingInvented'
  BY <1>11 DEF TypeOK, NothingInvented, WriteUnknown
<1>12. ASSUME NEW t \in Terminals, Finish(t) PROVE NothingInvented'
  BY <1>12 DEF TypeOK, NothingInvented, Finish, relay
<1>13. ASSUME NEW t \in Terminals, Die(t) PROVE NothingInvented'
  BY <1>13 DEF TypeOK, NothingInvented, Die, relay
<1>14. CASE LateWrite
  BY <1>14 DEF TypeOK, NothingInvented, LateWrite
<1>15. CASE WeekPasses
  BY <1>15 DEF TypeOK, NothingInvented, WeekPasses
<1> QED
  BY <1>1, <1>2, <1>3, <1>4, <1>5, <1>6, <1>7, <1>8, <1>9, <1>10, <1>11, <1>12,
     <1>13, <1>14, <1>15 DEF Next

\* No terminal believes, sends or stores a frontier nobody presented, whatever
\* the interleaving of publishes, faults, late writes and restarts.
THEOREM NothingIsInvented == Spec => []NothingInvented
<1>1. Init => TypeOK /\ NothingInvented
  <2> SUFFICES ASSUME Init PROVE TypeOK /\ NothingInvented
    OBVIOUS
  <2>1. TypeOK
    BY InitType
  <2> QED
    BY <2>1, UnreadClaimsNothing DEF Init, NothingInvented
<1> QED
  BY <1>1, TypeStep, InventStep, PTL DEF Spec
-----------------------------------------------------------------------------
(* As long as one terminal alone writes, the slot is a register of maxima  *)
(* and no read is dropped.                                                 *)

\* A terminal that never started has done nothing, one that is over has nothing
\* left to do, and one that publishes nothing carries nothing.
Resting ==
    \A t \in Terminals :
      /\ sessions[t] = 0 => run[t] = "off" /\ owed[t] = Unread
      /\ run[t] = "off" => pending[t] = Unread /\ job[t] = None
      /\ run[t] # "on" => outbox[t] = Unread
      /\ job[t].step = "none" => job[t] = None

\* What is about to be written still reaches as far as the relay's marker: the
\* read-back and the write of the same publish enclose no other write.
ReadBackIsCurrent ==
    Undisturbed =>
      /\ ~aged /\ wire = {}
      /\ \A t \in Terminals : job[t].step = "write" => Covers(job[t].contexts, slot)

LEMMA RestingStep ==
  ASSUME TypeOK, Resting, [Next]_vars
  PROVE  Resting'
<1> USE DEF Resting
<1>1. CASE UNCHANGED vars
  BY <1>1 DEF vars, relay, counters
<1>2. ASSUME NEW t \in Terminals,
             Start(t) \/ LoadReadState(t) \/ Quit(t) \/ SendOutbox(t) \/ Finish(t)
      PROVE  Resting'
  BY <1>2 DEF TypeOK, Start, LoadReadState, Quit, SendOutbox, Finish, relay, counters
<1>3. ASSUME NEW t \in Terminals, NEW k \in Contexts, NEW at \in 1 .. Horizon,
             Present(t, k, at) \/ PresentThread(t, k, at)
      PROVE  Resting'
  BY <1>3 DEF TypeOK, Present, PresentThread, Claim, relay, counters
<1>4. ASSUME NEW t \in Terminals, BeginPublish(t) \/ ReadBack(t)
      PROVE  Resting'
  BY <1>4 DEF TypeOK, BeginPublish, ReadBack, Job, None, relay, counters
<1>5. ASSUME NEW t \in Terminals,
             WriteStored(t) \/ PublishFails(t) \/ WriteUnknown(t) \/ Die(t)
      PROVE  Resting'
  BY <1>5 DEF TypeOK, WriteStored, PublishFails, WriteUnknown, Die, None, relay, counters
<1>6. CASE LateWrite \/ WeekPasses
  BY <1>6 DEF LateWrite, WeekPasses, counters
<1> QED
  BY <1>1, <1>2, <1>3, <1>4, <1>5, <1>6 DEF Next

\* What is undisturbed now was so before: the counters never go back.
LEMMA UndisturbedBefore ==
  ASSUME TypeOK, [Next]_vars, Undisturbed'
  PROVE  Undisturbed
<1> DEFINE Forward == /\ late' >= late /\ weeks' >= weeks
                      /\ \A t \in Terminals : sessions'[t] >= sessions[t]
<1>1. Forward
  <2>1. ASSUME NEW t \in Terminals, Start(t) PROVE Forward
    BY <2>1 DEF TypeOK, Start
  <2>2. ASSUME NEW t \in Terminals, WriteUnknown(t) PROVE Forward
    BY <2>2 DEF TypeOK, WriteUnknown
  <2>3. CASE WeekPasses
    BY <2>3 DEF TypeOK, WeekPasses
  <2>4. ASSUME NEW t \in Terminals, NEW k \in Contexts, NEW at \in 1 .. Horizon,
               Present(t, k, at) \/ PresentThread(t, k, at)
        PROVE  Forward
    BY <2>4 DEF TypeOK, Present, PresentThread, Claim, counters
  <2>5. ASSUME NEW t \in Terminals,
               \/ LoadReadState(t) \/ Quit(t) \/ SendOutbox(t) \/ Finish(t) \/ BeginPublish(t)
               \/ ReadBack(t) \/ WriteStored(t) \/ PublishFails(t) \/ Die(t)
        PROVE  Forward
    BY <2>5 DEF TypeOK, LoadReadState, Quit, SendOutbox, Finish, BeginPublish, ReadBack,
                WriteStored, PublishFails, Die, counters
  <2>6. CASE LateWrite \/ UNCHANGED vars
    BY <2>6 DEF TypeOK, LateWrite, vars, counters
  <2> QED
    BY <2>1, <2>2, <2>3, <2>4, <2>5, <2>6 DEF Next
<1>2. TypeOK'
  BY TypeStep
<1>3. late = 0 /\ weeks = 0
  BY <1>1 DEF TypeOK, Undisturbed
<1>4. \A t \in Terminals : sessions[t] > 0 => sessions'[t] > 0
  BY <1>1, <1>2 DEF TypeOK
<1> QED
  BY <1>3, <1>4 DEF Undisturbed

\* A terminal that publishes has a session, so that it is the only one.
LEMMA OnlyWriter ==
  ASSUME TypeOK, Resting, Undisturbed,
         NEW t \in Terminals, job[t].step # "none", NEW u \in Terminals, sessions[u] > 0
  PROVE  u = t
  BY DEF TypeOK, Resting, Undisturbed, None

LEMMA CurrentStep ==
  ASSUME TypeOK, Resting, ReadBackIsCurrent, [Next]_vars
  PROVE  ReadBackIsCurrent'
<1> SUFFICES ASSUME Undisturbed'
             PROVE  /\ ~aged' /\ wire' = {}
                    /\ \A t \in Terminals :
                         job'[t].step = "write" => Covers(job'[t].contexts, slot')
  BY DEF ReadBackIsCurrent
<1> DEFINE Current == /\ ~aged /\ wire = {}
                      /\ \A t \in Terminals : job[t].step = "write" => Covers(job[t].contexts, slot)
<1>0. Undisturbed /\ Current
  BY UndisturbedBefore DEF ReadBackIsCurrent
<1>1. CASE UNCHANGED vars
  BY <1>0, <1>1 DEF vars, relay, counters
<1>2. ASSUME NEW t \in Terminals, ReadBack(t) PROVE Current'
  <2>1. Covers(MergeMax(slot, job[t].contexts), slot)
    BY MergeCovers DEF TypeOK
  <2> QED
    BY <1>0, <1>2, <2>1 DEF TypeOK, ReadBack, Visible, Job, relay
<1>3. ASSUME NEW t \in Terminals, WriteStored(t) PROVE Current'
  <2>1. \A u \in Terminals : u # t => job[u].step = "none"
    BY <1>0, <1>3, OnlyWriter DEF TypeOK, Resting, WriteStored, None
  <2> QED
    BY <1>0, <1>3, <2>1 DEF TypeOK, WriteStored, None
<1>4. ASSUME NEW t \in Terminals, NEW k \in Contexts, NEW at \in 1 .. Horizon,
             Present(t, k, at) \/ PresentThread(t, k, at)
      PROVE  Current'
  BY <1>0, <1>4 DEF Present, PresentThread, Claim, relay
<1>5. ASSUME NEW t \in Terminals,
             Start(t) \/ LoadReadState(t) \/ Quit(t) \/ SendOutbox(t) \/ Finish(t)
      PROVE  Current'
  BY <1>0, <1>5 DEF Start, LoadReadState, Quit, SendOutbox, Finish, relay
<1>6. ASSUME NEW t \in Terminals, BeginPublish(t) \/ PublishFails(t) \/ Die(t)
      PROVE  Current'
  <2>1. UNCHANGED relay
    BY <1>6 DEF BeginPublish, PublishFails, Die
  <2>2. \A u \in Terminals : job'[u] = job[u] \/ job'[u].step # "write"
    BY <1>6 DEF TypeOK, BeginPublish, PublishFails, Die, Job, None
  <2> QED
    BY <1>0, <2>1, <2>2 DEF relay
<1>7. ASSUME NEW t \in Terminals, WriteUnknown(t) PROVE FALSE
  BY <1>7 DEF TypeOK, WriteUnknown, Undisturbed
<1>8. CASE LateWrite
  BY <1>0, <1>8 DEF LateWrite
<1>9. CASE WeekPasses
  BY <1>9 DEF TypeOK, WeekPasses, Undisturbed
<1> QED
  BY <1>1, <1>2, <1>3, <1>4, <1>5, <1>6, <1>7, <1>8, <1>9 DEF Next

LEMMA RegisterStep ==
  ASSUME TypeOK, NothingInvented, ReadBackIsCurrent, [Next]_vars
  PROVE  [Undisturbed' => Register!Next]_<<slot, presented>>
<1> SUFFICES ASSUME Undisturbed' PROVE [Register!Next]_<<slot, presented>>
  OBVIOUS
<1>0. Undisturbed
  BY UndisturbedBefore
<1>1. TypeOK'
  BY TypeStep
<1>2. ASSUME NEW t \in Terminals, WriteStored(t) PROVE Register!Merge
  <2>1. Covers(slot', slot) /\ Covers(presented, slot') /\ UNCHANGED presented
    BY <1>0, <1>2 DEF WriteStored, ReadBackIsCurrent, NothingInvented
  <2> QED
    BY <1>1, <2>1, MarkerBounds
       DEF TypeOK, Covers, Register!Merge, Register!Frontiers, Frontiers
<1>3. ASSUME NEW t \in Terminals, NEW k \in Contexts, NEW at \in 1 .. Horizon,
             Present(t, k, at) \/ PresentThread(t, k, at)
      PROVE  Register!Present
  <2>1. Claim(t, k, at)
    BY <1>3 DEF Present, PresentThread
  <2>2. \A j \in Contexts : presented'[j] >= presented[j]
    BY <2>1, MarkerBounds DEF TypeOK, Frontiers, Claim, Later
  <2> QED
    BY <1>1, <2>1, <2>2
       DEF TypeOK, Claim, relay, Register!Present, Register!Frontiers, Frontiers
<1>4. ASSUME NEW t \in Terminals,
             \/ Start(t) \/ LoadReadState(t) \/ Quit(t) \/ SendOutbox(t) \/ Finish(t)
             \/ BeginPublish(t) \/ ReadBack(t) \/ PublishFails(t) \/ Die(t)
             \/ WriteUnknown(t)
      PROVE  UNCHANGED <<slot, presented>>
  BY <1>4 DEF Start, LoadReadState, Quit, SendOutbox, Finish, BeginPublish, ReadBack,
              PublishFails, Die, WriteUnknown, relay
<1>5. LateWrite => UNCHANGED <<slot, presented>>
  BY <1>0 DEF LateWrite, ReadBackIsCurrent
<1>6. WeekPasses \/ UNCHANGED vars => UNCHANGED <<slot, presented>>
  BY DEF WeekPasses, vars, relay
<1> QED
  BY <1>2, <1>3, <1>4, <1>5, <1>6 DEF Next, Register!Next

\* However many terminals there are, however often they restart and whichever of
\* their publishes fail: until a second one has a session, a write is admitted late
\* or the slot has aged, every frontier the relay holds moves forward only, and
\* never past what was presented: decision 0006's "prevents a write from replacing
\* a later frontier with an older one" for a single writer.
THEOREM UndisturbedImplementsRegister == Spec => ImplementsRegister
<1> DEFINE IInv == TypeOK /\ NothingInvented /\ Resting /\ ReadBackIsCurrent
<1>1. Init => IInv
  <2> SUFFICES ASSUME Init PROVE IInv
    OBVIOUS
  <2>1. TypeOK
    BY InitType
  <2> QED
    BY <2>1, UnreadClaimsNothing DEF Init, NothingInvented, Resting, ReadBackIsCurrent, None
<1>2. IInv /\ [Next]_vars => IInv'
  BY TypeStep, InventStep, RestingStep, CurrentStep
<1>3. Init => Register!Init
  BY DEF Init, Unread, Register!Init
<1>4. IInv /\ [Next]_vars => [Undisturbed' => Register!Next]_<<slot, presented>>
  BY RegisterStep
<1> QED
  BY <1>1, <1>2, <1>3, <1>4, PTL DEF Spec, ImplementsRegister

-----------------------------------------------------------------------------
(* Nor is a read dropped.                                                  *)

\* What is claimed for the outbox, and what is claimed next, reach as far as
\* every read before.
ClaimsCover ==
    \A t \in Terminals :
      /\ Covers(frontier[t], owed[t])
      /\ outbox[t] # Unread => Covers(outbox[t], owed[t])

\* A read is at the relay, pending, or in the publish under way, also while the
\* session ends; a read of a thread may be in the outbox instead, and be lost
\* with it when the session ends.
OnItsWay(t, k) ==
    owed[t][k] <= Visible[k] \/ owed[t][k] <= pending[t][k] \/ owed[t][k] <= job[t].contexts[k]

ReadsAccounted ==
    Undisturbed => \A t \in Terminals, k \in Contexts :
      OnItsWay(t, k) \/ (k \in Threads /\ (run[t] = "on" => owed[t][k] <= outbox[t][k]))

LEMMA ClaimReaches ==
  ASSUME TypeOK, ClaimsCover, NEW t \in Terminals, NEW k \in Contexts, NEW at \in 1 .. Horizon,
         Claim(t, k, at)
  PROVE  /\ Covers(frontier'[t], owed'[t])
         /\ \A u \in Terminals \ {t} : owed'[u] = owed[u] /\ frontier'[u] = frontier[u]
         /\ \A j \in Contexts \ {k} : owed'[t][j] = owed[t][j]
  BY MarkerBounds DEF TypeOK, ClaimsCover, Frontiers, Claim, Covers

LEMMA ClaimsCoverStep ==
  ASSUME TypeOK, Resting, ClaimsCover, [Next]_vars
  PROVE  ClaimsCover'
<1> USE DEF ClaimsCover
<1>1. CASE UNCHANGED vars
  BY <1>1 DEF vars, relay, counters
<1>2. ASSUME NEW t \in Terminals, Start(t) PROVE ClaimsCover'
  BY <1>2, UnreadType, UnreadCovered DEF TypeOK, Resting, Start
<1>3. ASSUME NEW t \in Terminals, LoadReadState(t) PROVE ClaimsCover'
  <2>1. Covers(MergeMax(frontier[t], Visible), owed[t])
    <3>1. {frontier[t], owed[t], Visible} \subseteq Frontiers
      BY VisibleType DEF TypeOK
    <3>2. MergeMax(frontier[t], Visible) \in Frontiers
      BY <3>1, MergeType
    <3>3. Covers(MergeMax(frontier[t], Visible), frontier[t])
      BY <3>1, MergeCovers
    <3> QED
      BY <3>1, <3>2, <3>3, CoversTransitive
  <2> QED
    BY <1>3, <2>1 DEF TypeOK, LoadReadState
<1>4. ASSUME NEW t \in Terminals, NEW k \in Contexts, NEW at \in 1 .. Horizon, Present(t, k, at)
      PROVE  ClaimsCover'
  BY <1>4, ClaimReaches DEF TypeOK, Present
<1>5. ASSUME NEW t \in Terminals, NEW k \in Contexts, NEW at \in 1 .. Horizon,
             PresentThread(t, k, at)
      PROVE  ClaimsCover'
  BY <1>5, ClaimReaches DEF TypeOK, PresentThread
<1>6. ASSUME NEW t \in Terminals,
             SendOutbox(t) \/ Quit(t) \/ BeginPublish(t) \/ ReadBack(t) \/ Finish(t)
      PROVE  ClaimsCover'
  BY <1>6 DEF TypeOK, SendOutbox, Quit, BeginPublish, ReadBack, Finish
<1>7. ASSUME NEW t \in Terminals, WriteStored(t) PROVE ClaimsCover'
  <2>1. Covers(MergeMax(frontier[t], job[t].contexts), owed[t])
    <3>1. {frontier[t], owed[t], job[t].contexts} \subseteq Frontiers
      BY DEF TypeOK
    <3>2. MergeMax(frontier[t], job[t].contexts) \in Frontiers
      BY <3>1, MergeType
    <3>3. Covers(MergeMax(frontier[t], job[t].contexts), frontier[t])
      BY <3>1, MergeCovers
    <3> QED
      BY <3>1, <3>2, <3>3, CoversTransitive
  <2> QED
    BY <1>7, <2>1 DEF TypeOK, WriteStored
<1>8. ASSUME NEW t \in Terminals, PublishFails(t) \/ WriteUnknown(t) \/ Die(t)
      PROVE  ClaimsCover'
  BY <1>8, UnreadCovered DEF TypeOK, PublishFails, WriteUnknown, Die
<1>9. CASE LateWrite \/ WeekPasses
  BY <1>9 DEF LateWrite, WeekPasses
<1> QED
  BY <1>1, <1>2, <1>3, <1>4, <1>5, <1>6, <1>7, <1>8, <1>9 DEF Next

LEMMA AccountedStep ==
  ASSUME TypeOK, Resting, ReadBackIsCurrent, ClaimsCover, ReadsAccounted, [Next]_vars
  PROVE  ReadsAccounted'
<1> SUFFICES ASSUME Undisturbed', NEW u \in Terminals, NEW j \in Contexts
             PROVE  \/ OnItsWay(u, j)'
                    \/ j \in Threads /\ (run'[u] = "on" => owed'[u][j] <= outbox'[u][j])
  BY DEF ReadsAccounted
<1> DEFINE Accounted == \/ OnItsWay(u, j)
                        \/ j \in Threads /\ (run[u] = "on" => owed[u][j] <= outbox[u][j])
<1>0. Undisturbed /\ Accounted
  BY UndisturbedBefore DEF ReadsAccounted
<1>a. TypeOK' /\ Visible' \in Frontiers
  BY TypeStep, UnreadType DEF TypeOK, Visible
<1>b. ASSUME owed'[u] = Unread PROVE Accounted'
  BY <1>a, <1>b, UnreadCovered DEF Covers, OnItsWay
<1>1. CASE UNCHANGED vars
  BY <1>0, <1>1 DEF vars, relay, counters, OnItsWay, Visible
<1>2. ASSUME NEW t \in Terminals, Start(t) PROVE Accounted'
  BY <1>0, <1>b, <1>2 DEF TypeOK, Start, relay, OnItsWay, Visible
<1>3. ASSUME NEW t \in Terminals, LoadReadState(t) \/ Quit(t) \/ Finish(t) PROVE Accounted'
  BY <1>0, <1>3 DEF TypeOK, LoadReadState, Quit, Finish, relay, OnItsWay, Visible
<1>4. ASSUME NEW t \in Terminals, NEW k \in Contexts, NEW at \in 1 .. Horizon, Present(t, k, at)
      PROVE  Accounted'
  <2>1. CASE u = t
    BY <1>4, <2>1, ClaimReaches DEF TypeOK, Present, Covers, OnItsWay
  <2>2. CASE u # t
    BY <1>0, <1>4, <2>2 DEF TypeOK, Present, Claim, relay, OnItsWay, Visible
  <2> QED
    BY <2>1, <2>2
<1>5. ASSUME NEW t \in Terminals, NEW k \in Contexts, NEW at \in 1 .. Horizon,
             PresentThread(t, k, at)
      PROVE  Accounted'
  <2>1. CASE u = t /\ j \in Threads
    BY <1>5, <2>1, ClaimReaches DEF TypeOK, PresentThread, Covers
  <2>2. CASE u = t /\ j \notin Threads
    <3>1. owed'[u][j] = owed[u][j]
      BY <1>5, <2>2, ClaimReaches DEF PresentThread
    <3> QED
      BY <1>0, <1>5, <2>2, <3>1 DEF PresentThread, Claim, relay, OnItsWay, Visible
  <2>3. CASE u # t
    BY <1>0, <1>5, <2>3 DEF TypeOK, PresentThread, Claim, relay, OnItsWay, Visible
  <2> QED
    BY <2>1, <2>2, <2>3
<1>6. ASSUME NEW t \in Terminals, SendOutbox(t) PROVE Accounted'
  BY <1>0, <1>6 DEF TypeOK, ClaimsCover, Covers, SendOutbox, relay, OnItsWay, Visible
<1>7. ASSUME NEW t \in Terminals, BeginPublish(t) PROVE Accounted'
  <2>1. CASE u = t /\ owed[u][j] <= job[u].contexts[j]
    <3>1. job[u].contexts = Unread
      BY <1>7, <2>1 DEF Resting, BeginPublish, None
    <3>2. Visible[j] >= Unread[j]
      BY VisibleType, UnreadCovered DEF Covers
    <3>3. /\ owed[u][j] \in Int /\ Unread[j] \in Int /\ Visible[j] \in Int
          /\ owed' = owed /\ Visible' = Visible
      BY <1>7, VisibleType, UnreadType, MarkerBounds
         DEF TypeOK, Frontiers, BeginPublish, relay, Visible
    <3> QED
      BY <2>1, <3>1, <3>2, <3>3 DEF OnItsWay
  <2>2. CASE u = t /\ ~(owed[u][j] <= job[u].contexts[j])
    BY <1>0, <1>7, <2>2 DEF TypeOK, BeginPublish, Job, relay, OnItsWay, Visible
  <2>3. CASE u # t
    BY <1>0, <1>7, <2>3 DEF TypeOK, BeginPublish, Job, relay, OnItsWay, Visible
  <2> QED
    BY <2>1, <2>2, <2>3
<1>8. ASSUME NEW t \in Terminals, ReadBack(t) PROVE Accounted'
  <2>1. MergeMax(Visible, job[t].contexts)[j] >= job[t].contexts[j]
    BY VisibleType, MergeCovers DEF TypeOK, Covers
  <2>2. /\ owed[u][j] \in Int /\ job[t].contexts[j] \in Int
        /\ MergeMax(Visible, job[t].contexts)[j] \in Int
    <3>1. {owed[u], job[t].contexts, Visible} \subseteq Frontiers
      BY VisibleType DEF TypeOK
    <3>2. MergeMax(Visible, job[t].contexts) \in Frontiers
      BY <3>1, MergeType
    <3> QED
      BY <3>1, <3>2, MarkerBounds DEF Frontiers
  <2> QED
    BY <1>0, <1>8, <2>1, <2>2 DEF TypeOK, ReadBack, Job, relay, OnItsWay, Visible
<1>9. ASSUME NEW t \in Terminals, WriteStored(t) PROVE Accounted'
  <2>1. CASE u = t
    <3>1. Visible = slot /\ slot[j] <= job[t].contexts[j] /\ Visible' = job[t].contexts
      BY <1>0, <1>9 DEF ReadBackIsCurrent, WriteStored, Visible, Covers
    <3>2. {owed[u][j], slot[j], job[t].contexts[j]} \subseteq Int
      BY MarkerBounds DEF TypeOK, Frontiers
    <3> QED
      BY <1>0, <1>9, <2>1, <3>1, <3>2 DEF WriteStored, OnItsWay
  <2>2. CASE u # t
    <3>1. sessions[u] = 0
      BY <1>0, <1>9, <2>2, OnlyWriter DEF TypeOK, WriteStored
    <3> QED
      BY <1>b, <1>9, <3>1 DEF Resting, WriteStored
  <2> QED
    BY <2>1, <2>2
<1>10. ASSUME NEW t \in Terminals, PublishFails(t) \/ Die(t) PROVE Accounted'
  BY <1>0, <1>b, <1>10 DEF TypeOK, PublishFails, Die, relay, OnItsWay, Visible
<1>11. ASSUME NEW t \in Terminals, WriteUnknown(t) PROVE FALSE
  BY <1>11 DEF TypeOK, WriteUnknown, Undisturbed
<1>12. ASSUME LateWrite \/ WeekPasses PROVE FALSE
  BY <1>0, <1>12 DEF TypeOK, LateWrite, WeekPasses, ReadBackIsCurrent, Undisturbed
<1> QED
  BY <1>1, <1>2, <1>3, <1>4, <1>5, <1>6, <1>7, <1>8, <1>9, <1>10, <1>11, <1>12 DEF Next

LEMMA AccountedMeansKept ==
  ASSUME TypeOK, Resting, ReadBackIsCurrent, ReadsAccounted
  PROVE  NoReadIsDropped
<1>1. ASSUME NEW t \in Terminals, NEW k \in Contexts \ Threads, Undisturbed, run[t] = "off"
      PROVE  slot[k] >= owed[t][k]
  <2>1. OnItsWay(t, k) /\ Visible = slot
    BY <1>1 DEF ReadsAccounted, ReadBackIsCurrent, Visible
  <2>2. pending[t] = Unread /\ job[t].contexts = Unread
    BY <1>1 DEF Resting, None
  <2>3. slot[k] >= Unread[k] /\ {slot[k], owed[t][k], Unread[k]} \subseteq Int
    <3>1. {slot, owed[t], Unread} \subseteq Frontiers
      BY UnreadType DEF TypeOK
    <3>2. Covers(slot, Unread)
      BY <3>1, UnreadCovered
    <3> QED
      BY <3>1, <3>2, MarkerBounds DEF Frontiers, Covers
  <2> QED
    BY <2>1, <2>2, <2>3 DEF OnItsWay
<1>2. ASSUME NEW t \in Terminals, NEW k \in Contexts, Undisturbed, run[t] = "on"
      PROVE  \/ owed[t][k] <= Visible[k] \/ owed[t][k] <= outbox[t][k]
             \/ owed[t][k] <= pending[t][k] \/ owed[t][k] <= job[t].contexts[k]
  BY <1>2 DEF ReadsAccounted, OnItsWay
<1> QED
  BY <1>1, <1>2 DEF NoReadIsDropped, EndedSessionPublished, OwedIsOnItsWay

\* The pump drops no read, for any number of terminals, sessions, contexts and
\* faults: while the session runs every read is on its way, and once the session
\* is over the relay holds every read of a conversation - until a second terminal
\* has a session, a write is admitted late or the slot has aged, and except for what
\* a failed publish excuses ("A session that ends must not drop it", flush_read).
THEOREM ReadsAreKept == Spec => []NoReadIsDropped
<1> DEFINE IInv == TypeOK /\ Resting /\ ReadBackIsCurrent /\ ClaimsCover /\ ReadsAccounted
<1>1. Init => IInv
  <2> SUFFICES ASSUME Init PROVE IInv
    OBVIOUS
  <2>1. TypeOK
    BY InitType
  <2>2. Covers(Unread, Unread)
    BY UnreadType, UnreadCovered
  <2> QED
    BY <2>1, <2>2 DEF Init, Resting, ReadBackIsCurrent, ClaimsCover, ReadsAccounted,
                      OnItsWay, Covers, Visible, None
<1>2. IInv /\ [Next]_vars => IInv'
  BY TypeStep, RestingStep, CurrentStep, ClaimsCoverStep, AccountedStep
<1>3. IInv => NoReadIsDropped
  BY AccountedMeansKept
<1> QED
  BY <1>1, <1>2, <1>3, PTL DEF Spec

-----------------------------------------------------------------------------
(* Views.                                                                    *)
(*                                                                           *)
(* The invariant says, beside what each view holds, what is under way for    *)
(* it: a number that a view remembers stands for one request, about the      *)
(* thread or the side of the context the view still waits for (Numbers), so  *)
(* the answer that fits clears exactly what waits (Waiting); an answer read  *)
(* before a deletion is filtered by what is known when it is applied, and    *)
(* the feed tells of no message after its deletion (FeedOrder, Gone).        *)
Past == 1 .. stored
\* Every view, and what else it keeps, is of its kind and shows only what was posted.
ChannelViews ==
  [rows : SUBSET Past, live : SUBSET Past, older : BOOLEAN, loading : BOOLEAN, away : BOOLEAN]
SearchViews ==
  [open : BOOLEAN, request : Nat, loading : BOOLEAN, failed : BOOLEAN, hits : SUBSET Past]
ContextViews ==
  [open : BOOLEAN, target : Past \cup {0}, request : Nat, rows : SUBSET Past,
   loading : BOOLEAN, older : BOOLEAN, newer : BOOLEAN, before : BOOLEAN, after : BOOLEAN,
   upto : Nat]
ThreadViews ==
  [open : BOOLEAN, root : Nat, request : Nat, entered : Nat, wanted : BOOLEAN,
   rows : SUBSET Past, live : SUBSET Past, loading : BOOLEAN, failed : BOOLEAN,
   loaded : BOOLEAN, stale : BOOLEAN, older : BOOLEAN, rootGone : BOOLEAN, back : BOOLEAN]
Readers == [of : Past \cup {0}, gone : BOOLEAN]
TypedWorld ==
  /\ stored \in Messages /\ erased \subseteq Past /\ deleted \subseteq erased
  /\ up \in BOOLEAN /\ request \in Nat
TypedViews ==
  /\ channel \in ChannelViews /\ search \in SearchViews /\ context \in ContextViews
  /\ thread \in ThreadViews /\ reader \in Readers
TypedLines ==
  /\ queue \in Seq(ToSet(queue)) /\ answers \in Seq(ToSet(answers))
  /\ feed \in Seq([kind : {"post", "delete"}, of : Past])

\* At most one of the views that hide each other is open.
Layers ==
  /\ ~(context.open /\ (search.open \/ thread.open))
  /\ ~(search.open /\ thread.open)

\* A command is of a kind its view sends.
WellFormed(c) ==
  \/ c.on = "channel" /\ c.op \in {"open", "newest", "page"}
  \/ c.on = "search" /\ c.op = "search"
  \/ c.on = "context" /\ c.op \in {"context", "newest", "page"}
  \/ c.on = "thread" /\ c.op \in {"thread", "newest", "page"}
\* The numbers the context and the thread give out are used once, so the one a
\* view remembers says what it asked for: the page on one side, or the whole.
ForContext(c) ==
  c.on = "context" =>
    /\ c.request \in 1 .. request
    /\ c.op = "page" => c.way \in {"older", "newer"}
    /\ c.request = context.request =>
         /\ context.loading => c.op # "page"
         /\ context.older => c.op = "page" /\ c.way = "older"
         /\ context.newer => c.op = "page" /\ c.way = "newer"
ForThread(c) ==
  c.on = "thread" =>
    /\ c.request \in 1 .. request
    /\ c.request = thread.request => c.of = thread.root
Numbers ==
  /\ context.request <= request /\ thread.request <= request
  /\ \A c \in UnderWay : WellFormed(c) /\ ForContext(c) /\ ForThread(c)

OfThread(rows, root) == \A m \in rows : m = root \/ RootOf[m] = root
ThreadIsOne == OfThread(thread.rows, thread.root)
\* An answer holds messages that were posted, those of one thread if it is of one.
Reliable(a) ==
  /\ a.ok \in BOOLEAN
  /\ a.ok => /\ a.read.rows \subseteq Past /\ a.upto \in Nat
             /\ a.ask.on = "thread" => OfThread(a.read.rows, a.ask.of)
             /\ a.ask.op \in {"page", "newest", "open", "thread"} => a.read.cut \in BOOLEAN
             /\ a.ask.op = "context" => a.read.before \in BOOLEAN /\ a.read.after \in BOOLEAN
Results == \A a \in ToSet(answers) : Reliable(a)

\* The feed tells of a deletion after the message, and of one that was made.
FeedOrder ==
  /\ \A i \in DOMAIN feed :
       IF feed[i].kind = "post" THEN feed[i].of \notin deleted ELSE feed[i].of \in erased
  /\ \A i, j \in DOMAIN feed :
       i < j /\ feed[i].kind = "delete" /\ feed[j].kind = "post" => feed[i].of # feed[j].of

\* What is deleted is in no view, shown or not, but for the root of a thread.
Gone ==
  /\ channel.rows \cap deleted = {} /\ search.hits \cap deleted = {}
  /\ thread.rows \cap deleted \subseteq {thread.root}
  /\ "context" \notin missed => context.rows \cap deleted = {}
  /\ reader.of \in deleted /\ ~reader.gone => reader.of = thread.root \/ "context" \in missed

\* What waits is owed, whether it is shown or hidden.
Waiting ==
  /\ channel.loading /\ ~channel.away => \E c \in UnderWay : c.on = "channel"
  /\ search.loading /\ "search" \notin missed => Owed("search", search.request)
  /\ ContextBusy /\ "context" \notin missed => Owed("context", context.request)
  /\ thread.open /\ thread.loading /\ up => Owed("thread", thread.request)

IInv ==
  /\ TypedWorld /\ TypedViews /\ TypedLines /\ Layers /\ Numbers /\ ThreadIsOne
  /\ Results /\ FeedOrder /\ Gone /\ Waiting

-----------------------------------------------------------------------------
(* Sequences as sets.                                                      *)

LEMMA SeqOfOwn ==
  ASSUME NEW S, NEW s \in Seq(S)
  PROVE s \in Seq(ToSet(s))
<1>1. PICK n \in Nat : s \in [1 .. n -> S]
  BY SeqDef
<1>2. s \in [1 .. n -> ToSet(s)]
  BY <1>1 DEF ToSet
<1> QED BY <1>2, SeqDef

LEMMA SetOfAppend ==
  ASSUME NEW S, NEW s \in Seq(S), NEW e
  PROVE /\ Append(s, e) \in Seq(ToSet(Append(s, e)))
        /\ ToSet(Append(s, e)) = ToSet(s) \cup {e}
<1> DEFINE t == Append(s, e)
<1>1. t \in Seq(S \cup {e}) /\ Len(t) = Len(s) + 1
  OBVIOUS
<1>2. \A i \in 1 .. Len(s) + 1 : t[i] = IF i = Len(s) + 1 THEN e ELSE s[i]
  OBVIOUS
<1>3. DOMAIN t = 1 .. Len(s) + 1 /\ DOMAIN s = 1 .. Len(s) /\ Len(s) \in Nat
  BY <1>1
<1>4. ToSet(t) = ToSet(s) \cup {e}
  BY <1>2, <1>3 DEF ToSet
<1>5. t \in Seq(ToSet(t))
  BY <1>1, SeqOfOwn
<1> QED BY <1>4, <1>5

LEMMA SetOfTail ==
  ASSUME NEW S, NEW s \in Seq(S), s # <<>>
  PROVE /\ Tail(s) \in Seq(ToSet(Tail(s)))
        /\ ToSet(s) = ToSet(Tail(s)) \cup {Head(s)}
<1> DEFINE t == Tail(s)
<1>1. t \in Seq(S) /\ Len(t) = Len(s) - 1 /\ Len(s) \in Nat \ {0}
  OBVIOUS
<1>2. \A i \in 1 .. Len(s) - 1 : t[i] = s[i + 1]
  OBVIOUS
<1>3. DOMAIN t = 1 .. Len(s) - 1 /\ DOMAIN s = 1 .. Len(s) /\ Head(s) = s[1]
  BY <1>1
<1>4. ToSet(t) \cup {Head(s)} \subseteq ToSet(s)
  BY <1>1, <1>2, <1>3 DEF ToSet
<1>5. ASSUME NEW i \in 1 .. Len(s) PROVE s[i] \in ToSet(t) \cup {Head(s)}
  <2>1. CASE i = 1
    BY <2>1, <1>3
  <2>2. CASE i # 1
    <3>1. i - 1 \in DOMAIN t /\ t[i - 1] = s[i]
      BY <2>2, <1>1, <1>2, <1>3
    <3> QED BY <3>1 DEF ToSet
  <2> QED BY <2>1, <2>2
<1>6. ToSet(s) \subseteq ToSet(t) \cup {Head(s)}
  BY <1>3, <1>5 DEF ToSet
<1>7. t \in Seq(ToSet(t))
  BY <1>1, SeqOfOwn
<1> QED BY <1>4, <1>6, <1>7

LEMMA SetOfConcat ==
  ASSUME NEW S, NEW s \in Seq(S), NEW e
  PROVE s \o <<e>> = Append(s, e) /\ s \o << >> = s
OBVIOUS

-----------------------------------------------------------------------------
(* What is under way.                                                      *)

LEMMA UnderWayIs ==
  /\ UnderWay = ToSet(queue) \cup {a.ask : a \in ToSet(answers)}
  /\ UnderWay' = ToSet(queue') \cup {a.ask : a \in ToSet(answers')}
BY DEF UnderWay, ToSet

LEMMA Pushed ==
  ASSUME TypedLines, NEW c, Push(c), UNCHANGED answers
  PROVE /\ queue' \in Seq(ToSet(queue')) /\ answers' \in Seq(ToSet(answers'))
        /\ UnderWay' = UnderWay \cup {c}
<1>1. queue' \in Seq(ToSet(queue')) /\ ToSet(queue') = ToSet(queue) \cup {c}
  BY SetOfAppend DEF TypedLines, Push
<1>2. UnderWay' = ToSet(queue') \cup {answers[i].ask : i \in DOMAIN answers}
  BY DEF UnderWay
<1> QED BY <1>1, <1>2 DEF UnderWay, TypedLines

LEMMA Ran ==
  ASSUME TypedLines, queue # <<>>, queue' = Tail(queue),
         NEW a, a.ask = Head(queue), answers' = Append(answers, a)
  PROVE /\ queue' \in Seq(ToSet(queue')) /\ answers' \in Seq(ToSet(answers'))
        /\ ToSet(answers') = ToSet(answers) \cup {a}
        /\ UnderWay' = UnderWay /\ Head(queue) \in UnderWay
<1>1. queue' \in Seq(ToSet(queue')) /\ ToSet(queue) = ToSet(queue') \cup {Head(queue)}
  BY SetOfTail DEF TypedLines
<1>2. /\ answers' \in Seq(ToSet(answers'))
      /\ ToSet(answers') = ToSet(answers) \cup {a}
  BY SetOfAppend DEF TypedLines
<1>3. UnderWay' = ToSet(queue') \cup {b.ask : b \in ToSet(answers')}
  BY UnderWayIs
<1> QED BY <1>1, <1>2, <1>3, UnderWayIs

LEMMA Took ==
  ASSUME TypedLines, NEW on, Answered(on)
  PROVE /\ answers' \in Seq(ToSet(answers')) /\ ToSet(answers') \subseteq ToSet(answers)
        /\ Head(answers) \in ToSet(answers)
        /\ Head(answers).ask \in UnderWay /\ Head(answers).ask.on = on
        /\ queue' = queue => /\ UnderWay' \subseteq UnderWay
                             /\ UnderWay \subseteq UnderWay' \cup {Head(answers).ask}
        /\ \A c : Push(c) => /\ UnderWay' \subseteq UnderWay \cup {c} /\ c \in UnderWay'
                            /\ UnderWay \subseteq UnderWay' \cup {Head(answers).ask}
<1>1. /\ answers' \in Seq(ToSet(answers'))
      /\ ToSet(answers) = ToSet(answers') \cup {Head(answers)}
  BY SetOfTail DEF TypedLines, Answered
<1>2. UnderWay' = ToSet(queue') \cup {b.ask : b \in ToSet(answers')}
  BY UnderWayIs
<1>3. \A c : Push(c) => ToSet(queue') = ToSet(queue) \cup {c}
  BY SetOfAppend DEF TypedLines, Push
<1>4. {a.ask : a \in ToSet(answers)} = {b.ask : b \in ToSet(answers')} \cup {Head(answers).ask}
  BY <1>1
<1>5. Head(answers).ask \in UnderWay
  BY <1>1, UnderWayIs
<1>6. ASSUME queue' = queue
      PROVE /\ UnderWay' \subseteq UnderWay
            /\ UnderWay \subseteq UnderWay' \cup {Head(answers).ask}
  BY <1>2, <1>4, <1>6, UnderWayIs
<1>7. ASSUME NEW c, Push(c)
      PROVE /\ UnderWay' \subseteq UnderWay \cup {c} /\ c \in UnderWay'
            /\ UnderWay \subseteq UnderWay' \cup {Head(answers).ask}
  BY <1>2, <1>3, <1>4, <1>7, UnderWayIs
<1> QED BY <1>1, <1>5, <1>6, <1>7 DEF Answered

-----------------------------------------------------------------------------
(* The user.                                                               *)

LEMMA PastFacts ==
  ASSUME TypedWorld
  PROVE /\ stored \in Nat /\ Past \subseteq Nat \ {0} /\ There \subseteq Past
        /\ stored' = stored => Past' = Past
BY Constants DEF TypedWorld, Messages, Past, There

LEMMA RootsAreNat == \A m \in Messages : m \in Nat /\ RootOf[m] \in Nat
BY Constants DEF Messages

\* What a user's step leaves alone.
LEMMA UserFrame ==
  ASSUME TypedWorld, Results, FeedOrder, UNCHANGED world, request' \in Nat
  PROVE TypedWorld' /\ Results' /\ FeedOrder' /\ Past' = Past
<1>1. Past' = Past
  BY PastFacts DEF world
<1>2. TypedWorld'
  BY <1>1 DEF TypedWorld, world
<1>3. Results'
  BY <1>1 DEF Results, Reliable, world
<1>4. FeedOrder'
  BY DEF FeedOrder, world
<1> QED BY <1>1, <1>2, <1>3, <1>4

LEMMA RequestChannelPageKeeps ==
  ASSUME IInv, RequestChannelPage
  PROVE IInv'
<1> DEFINE c == Ask("page", "channel", 0, "older", Min(channel.rows), 0)
<1>1. /\ queue' \in Seq(ToSet(queue')) /\ answers' \in Seq(ToSet(answers'))
      /\ UnderWay' = UnderWay \cup {c}
  BY Pushed DEF RequestChannelPage, world, history, Push, Ask, OnChannel, IInv
<1>2. request' \in Nat /\ request <= request' /\ UNCHANGED world
  BY DEF RequestChannelPage, world, history, Push, Ask, OnChannel, IInv, TypedWorld
<1>3. TypedWorld' /\ Results' /\ FeedOrder' /\ Past' = Past
  BY <1>2, UserFrame DEF IInv
<1>4. TypedLines'
  BY <1>1, <1>2, <1>3 DEF TypedLines, world, IInv
<1>5. TypedViews'
  <2>1. channel' \in ChannelViews'
    BY <1>3 DEF RequestChannelPage, world, history, Push, Ask, OnChannel, TypedViews, ChannelViews, IInv
  <2>2. search' \in SearchViews'
    BY <1>3 DEF RequestChannelPage, world, history, Push, Ask, OnChannel, TypedViews, SearchViews, IInv
  <2>3. context' \in ContextViews'
    BY <1>2, <1>3 DEF RequestChannelPage, world, history, Push, Ask, OnChannel, TypedViews, SearchViews, ContextViews, ThreadViews, IInv
  <2>4. thread' \in ThreadViews'
    BY <1>2, <1>3, RootsAreNat DEF RequestChannelPage, world, history, Push, Ask, OnChannel, TypedViews, TypedWorld, ThreadViews, IInv
  <2>5. reader' \in Readers'
    BY <1>3 DEF RequestChannelPage, world, history, Push, Ask, OnChannel, TypedViews, ChannelViews, ContextViews, ThreadViews, Readers, IInv
  <2> QED BY <2>1, <2>2, <2>3, <2>4, <2>5 DEF TypedViews
<1>9. Layers' /\ ThreadIsOne'
  BY DEF RequestChannelPage, world, history, Push, Ask, OnChannel, TypedViews, Layers, ThreadIsOne, OfThread, SearchViews, ContextViews, ThreadViews, IInv
<1>6. Numbers'
  BY <1>1, <1>2 DEF RequestChannelPage, world, history, Push, Ask, OnChannel, Numbers, WellFormed, ForContext, ForThread, TypedViews,
     ContextViews, ThreadViews, TypedWorld, IInv
<1>7. Gone'
  BY <1>2, <1>3, PastFacts DEF RequestChannelPage, world, history, Push, Ask, OnChannel, Gone, TypedViews, TypedWorld,
     ChannelViews, SearchViews, ContextViews, ThreadViews, Readers, IInv
<1>8. Waiting'
  BY <1>1, <1>2 DEF RequestChannelPage, world, history, Push, Ask, OnChannel, Waiting, Owed, ContextBusy, TypedViews,
     ChannelViews, SearchViews, ContextViews, ThreadViews, IInv
<1> QED BY <1>3, <1>4, <1>5, <1>6, <1>7, <1>8, <1>9 DEF IInv

LEMMA RequestNewestChannelKeeps ==
  ASSUME IInv, RequestNewestChannel
  PROVE IInv'
<1> DEFINE c == Ask("newest", "channel", 0, "none", 0, request')
<1>1. /\ queue' \in Seq(ToSet(queue')) /\ answers' \in Seq(ToSet(answers'))
      /\ UnderWay' = UnderWay \cup {c}
  BY Pushed DEF RequestNewestChannel, world, history, Push, Ask, IInv
<1>2. request' \in Nat /\ request <= request' /\ UNCHANGED world
  BY DEF RequestNewestChannel, world, history, Push, Ask, IInv, TypedWorld
<1>3. TypedWorld' /\ Results' /\ FeedOrder' /\ Past' = Past
  BY <1>2, UserFrame DEF IInv
<1>4. TypedLines'
  BY <1>1, <1>2, <1>3 DEF TypedLines, world, IInv
<1>5. TypedViews'
  <2>1. channel' \in ChannelViews'
    BY <1>3 DEF RequestNewestChannel, world, history, Push, Ask, TypedViews, ChannelViews, IInv
  <2>2. search' \in SearchViews'
    BY <1>3 DEF RequestNewestChannel, world, history, Push, Ask, TypedViews, SearchViews, IInv
  <2>3. context' \in ContextViews'
    BY <1>2, <1>3 DEF RequestNewestChannel, world, history, Push, Ask, TypedViews, SearchViews, ContextViews, ThreadViews, IInv
  <2>4. thread' \in ThreadViews'
    BY <1>2, <1>3, RootsAreNat DEF RequestNewestChannel, world, history, Push, Ask, TypedViews, TypedWorld, ThreadViews, IInv
  <2>5. reader' \in Readers'
    BY <1>3 DEF RequestNewestChannel, world, history, Push, Ask, TypedViews, ChannelViews, ContextViews, ThreadViews, Readers, IInv
  <2> QED BY <2>1, <2>2, <2>3, <2>4, <2>5 DEF TypedViews
<1>9. Layers' /\ ThreadIsOne'
  BY DEF RequestNewestChannel, world, history, Push, Ask, TypedViews, Layers, ThreadIsOne, OfThread, SearchViews, ContextViews, ThreadViews, IInv
<1>6. Numbers'
  BY <1>1, <1>2 DEF RequestNewestChannel, world, history, Push, Ask, Numbers, WellFormed, ForContext, ForThread, TypedViews,
     ContextViews, ThreadViews, TypedWorld, IInv
<1>7. Gone'
  BY <1>2, <1>3, PastFacts DEF RequestNewestChannel, world, history, Push, Ask, Gone, TypedViews, TypedWorld,
     ChannelViews, SearchViews, ContextViews, ThreadViews, Readers, IInv
<1>8. Waiting'
  BY <1>1, <1>2 DEF RequestNewestChannel, world, history, Push, Ask, Waiting, Owed, ContextBusy, TypedViews,
     ChannelViews, SearchViews, ContextViews, ThreadViews, IInv
<1> QED BY <1>3, <1>4, <1>5, <1>6, <1>7, <1>8, <1>9 DEF IInv

LEMMA SwitchAwayKeeps ==
  ASSUME IInv, SwitchAway
  PROVE IInv'
<1>1. UnderWay' = UnderWay
  BY DEF SwitchAway, world, history, UnderWay
<1>2. request' \in Nat /\ request <= request' /\ UNCHANGED world
  BY DEF SwitchAway, world, history, IInv, TypedWorld
<1>3. TypedWorld' /\ Results' /\ FeedOrder' /\ Past' = Past
  BY <1>2, UserFrame DEF IInv
<1>4. TypedLines'
  BY <1>1, <1>2, <1>3 DEF TypedLines, world, IInv, SwitchAway
<1>5. TypedViews'
  <2>1. channel' \in ChannelViews'
    BY <1>3 DEF SwitchAway, world, history, TypedViews, ChannelViews, IInv
  <2>2. search' \in SearchViews'
    BY <1>3 DEF SwitchAway, world, history, TypedViews, SearchViews, IInv
  <2>3. context' \in ContextViews'
    BY <1>2, <1>3 DEF SwitchAway, world, history, TypedViews, SearchViews, ContextViews, ThreadViews, IInv
  <2>4. thread' \in ThreadViews'
    BY <1>2, <1>3, RootsAreNat DEF SwitchAway, world, history, TypedViews, TypedWorld, ThreadViews, IInv
  <2>5. reader' \in Readers'
    BY <1>3 DEF SwitchAway, world, history, TypedViews, ChannelViews, ContextViews, ThreadViews, Readers, IInv
  <2> QED BY <2>1, <2>2, <2>3, <2>4, <2>5 DEF TypedViews
<1>9. Layers' /\ ThreadIsOne'
  BY DEF SwitchAway, world, history, TypedViews, Layers, ThreadIsOne, OfThread, SearchViews, ContextViews, ThreadViews, IInv
<1>6. Numbers'
  BY <1>1, <1>2 DEF SwitchAway, world, history, Numbers, WellFormed, ForContext, ForThread, TypedViews,
     ContextViews, ThreadViews, TypedWorld, IInv
<1>7. Gone'
  BY <1>2, <1>3, PastFacts DEF SwitchAway, world, history, Gone, TypedViews, TypedWorld,
     ChannelViews, SearchViews, ContextViews, ThreadViews, Readers, IInv
<1>8. Waiting'
  BY <1>1, <1>2 DEF SwitchAway, world, history, Waiting, Owed, ContextBusy, TypedViews,
     ChannelViews, SearchViews, ContextViews, ThreadViews, IInv
<1> QED BY <1>3, <1>4, <1>5, <1>6, <1>7, <1>8, <1>9 DEF IInv

LEMMA SwitchBackKeeps ==
  ASSUME IInv, SwitchBack
  PROVE IInv'
<1> DEFINE c == Ask("open", "channel", 0, "none", 0, 0)
<1>1. /\ queue' \in Seq(ToSet(queue')) /\ answers' \in Seq(ToSet(answers'))
      /\ UnderWay' = UnderWay \cup {c}
  BY Pushed DEF SwitchBack, world, history, Push, Ask, IInv
<1>2. request' \in Nat /\ request <= request' /\ UNCHANGED world
  BY DEF SwitchBack, world, history, Push, Ask, IInv, TypedWorld
<1>3. TypedWorld' /\ Results' /\ FeedOrder' /\ Past' = Past
  BY <1>2, UserFrame DEF IInv
<1>4. TypedLines'
  BY <1>1, <1>2, <1>3 DEF TypedLines, world, IInv
<1>5. TypedViews'
  <2>1. channel' \in ChannelViews'
    BY <1>3 DEF SwitchBack, world, history, Push, Ask, TypedViews, ChannelViews, IInv
  <2>2. search' \in SearchViews'
    BY <1>3 DEF SwitchBack, world, history, Push, Ask, TypedViews, SearchViews, IInv
  <2>3. context' \in ContextViews'
    BY <1>2, <1>3 DEF SwitchBack, world, history, Push, Ask, TypedViews, SearchViews, ContextViews, ThreadViews, IInv
  <2>4. thread' \in ThreadViews'
    BY <1>2, <1>3, RootsAreNat DEF SwitchBack, world, history, Push, Ask, TypedViews, TypedWorld, ThreadViews, IInv
  <2>5. reader' \in Readers'
    BY <1>3 DEF SwitchBack, world, history, Push, Ask, TypedViews, ChannelViews, ContextViews, ThreadViews, Readers, IInv
  <2> QED BY <2>1, <2>2, <2>3, <2>4, <2>5 DEF TypedViews
<1>9. Layers' /\ ThreadIsOne'
  BY DEF SwitchBack, world, history, Push, Ask, TypedViews, Layers, ThreadIsOne, OfThread, SearchViews, ContextViews, ThreadViews, IInv
<1>6. Numbers'
  BY <1>1, <1>2 DEF SwitchBack, world, history, Push, Ask, Numbers, WellFormed, ForContext, ForThread, TypedViews,
     ContextViews, ThreadViews, TypedWorld, IInv
<1>7. Gone'
  BY <1>2, <1>3, PastFacts DEF SwitchBack, world, history, Push, Ask, Gone, TypedViews, TypedWorld,
     ChannelViews, SearchViews, ContextViews, ThreadViews, Readers, IInv
<1>8. Waiting'
  BY <1>1, <1>2 DEF SwitchBack, world, history, Push, Ask, Waiting, Owed, ContextBusy, TypedViews,
     ChannelViews, SearchViews, ContextViews, ThreadViews, IInv
<1> QED BY <1>3, <1>4, <1>5, <1>6, <1>7, <1>8, <1>9 DEF IInv

LEMMA OpenSearchKeeps ==
  ASSUME IInv, OpenSearch
  PROVE IInv'
<1>1. UnderWay' = UnderWay
  BY DEF OpenSearch, world, history, OnChannel, NoSearch, UnderWay
<1>2. request' \in Nat /\ request <= request' /\ UNCHANGED world
  BY DEF OpenSearch, world, history, OnChannel, NoSearch, IInv, TypedWorld
<1>3. TypedWorld' /\ Results' /\ FeedOrder' /\ Past' = Past
  BY <1>2, UserFrame DEF IInv
<1>4. TypedLines'
  BY <1>1, <1>2, <1>3 DEF TypedLines, world, IInv, OpenSearch
<1>5. TypedViews'
  <2>1. channel' \in ChannelViews'
    BY <1>3 DEF OpenSearch, world, history, OnChannel, NoSearch, TypedViews, ChannelViews, IInv
  <2>2. search' \in SearchViews'
    BY <1>3 DEF OpenSearch, world, history, OnChannel, NoSearch, TypedViews, SearchViews, IInv
  <2>3. context' \in ContextViews'
    BY <1>2, <1>3 DEF OpenSearch, world, history, OnChannel, NoSearch, TypedViews, SearchViews, ContextViews, ThreadViews, IInv
  <2>4. thread' \in ThreadViews'
    BY <1>2, <1>3, RootsAreNat DEF OpenSearch, world, history, OnChannel, NoSearch, TypedViews, TypedWorld, ThreadViews, IInv
  <2>5. reader' \in Readers'
    BY <1>3 DEF OpenSearch, world, history, OnChannel, NoSearch, TypedViews, ChannelViews, ContextViews, ThreadViews, Readers, IInv
  <2> QED BY <2>1, <2>2, <2>3, <2>4, <2>5 DEF TypedViews
<1>9. Layers' /\ ThreadIsOne'
  BY DEF OpenSearch, world, history, OnChannel, NoSearch, TypedViews, Layers, ThreadIsOne, OfThread, SearchViews, ContextViews, ThreadViews, IInv
<1>6. Numbers'
  BY <1>1, <1>2 DEF OpenSearch, world, history, OnChannel, NoSearch, Numbers, WellFormed, ForContext, ForThread, TypedViews,
     ContextViews, ThreadViews, TypedWorld, IInv
<1>7. Gone'
  BY <1>2, <1>3, PastFacts DEF OpenSearch, world, history, OnChannel, NoSearch, Gone, TypedViews, TypedWorld,
     ChannelViews, SearchViews, ContextViews, ThreadViews, Readers, IInv
<1>8. Waiting'
  BY <1>1, <1>2 DEF OpenSearch, world, history, OnChannel, NoSearch, Waiting, Owed, ContextBusy, TypedViews,
     ChannelViews, SearchViews, ContextViews, ThreadViews, IInv
<1> QED BY <1>3, <1>4, <1>5, <1>6, <1>7, <1>8, <1>9 DEF IInv

LEMMA LeaveSearchKeeps ==
  ASSUME IInv, LeaveSearch
  PROVE IInv'
<1>1. UnderWay' = UnderWay
  BY DEF LeaveSearch, world, history, OnSearch, NoSearch, UnderWay
<1>2. request' \in Nat /\ request <= request' /\ UNCHANGED world
  BY DEF LeaveSearch, world, history, OnSearch, NoSearch, IInv, TypedWorld
<1>3. TypedWorld' /\ Results' /\ FeedOrder' /\ Past' = Past
  BY <1>2, UserFrame DEF IInv
<1>4. TypedLines'
  BY <1>1, <1>2, <1>3 DEF TypedLines, world, IInv, LeaveSearch
<1>5. TypedViews'
  <2>1. channel' \in ChannelViews'
    BY <1>3 DEF LeaveSearch, world, history, OnSearch, NoSearch, TypedViews, ChannelViews, IInv
  <2>2. search' \in SearchViews'
    BY <1>3 DEF LeaveSearch, world, history, OnSearch, NoSearch, TypedViews, SearchViews, IInv
  <2>3. context' \in ContextViews'
    BY <1>2, <1>3 DEF LeaveSearch, world, history, OnSearch, NoSearch, TypedViews, SearchViews, ContextViews, ThreadViews, IInv
  <2>4. thread' \in ThreadViews'
    BY <1>2, <1>3, RootsAreNat DEF LeaveSearch, world, history, OnSearch, NoSearch, TypedViews, TypedWorld, ThreadViews, IInv
  <2>5. reader' \in Readers'
    BY <1>3 DEF LeaveSearch, world, history, OnSearch, NoSearch, TypedViews, ChannelViews, ContextViews, ThreadViews, Readers, IInv
  <2> QED BY <2>1, <2>2, <2>3, <2>4, <2>5 DEF TypedViews
<1>9. Layers' /\ ThreadIsOne'
  BY DEF LeaveSearch, world, history, OnSearch, NoSearch, TypedViews, Layers, ThreadIsOne, OfThread, SearchViews, ContextViews, ThreadViews, IInv
<1>6. Numbers'
  BY <1>1, <1>2 DEF LeaveSearch, world, history, OnSearch, NoSearch, Numbers, WellFormed, ForContext, ForThread, TypedViews,
     ContextViews, ThreadViews, TypedWorld, IInv
<1>7. Gone'
  BY <1>2, <1>3, PastFacts DEF LeaveSearch, world, history, OnSearch, NoSearch, Gone, TypedViews, TypedWorld,
     ChannelViews, SearchViews, ContextViews, ThreadViews, Readers, IInv
<1>8. Waiting'
  BY <1>1, <1>2 DEF LeaveSearch, world, history, OnSearch, NoSearch, Waiting, Owed, ContextBusy, TypedViews,
     ChannelViews, SearchViews, ContextViews, ThreadViews, IInv
<1> QED BY <1>3, <1>4, <1>5, <1>6, <1>7, <1>8, <1>9 DEF IInv

LEMMA SubmitSearchKeeps ==
  ASSUME IInv, NEW q \in Queries, SubmitSearch(q)
  PROVE IInv'
<1> DEFINE c == Ask("search", "search", q, "none", 0, search'.request)
<1>1. /\ queue' \in Seq(ToSet(queue')) /\ answers' \in Seq(ToSet(answers'))
      /\ UnderWay' = UnderWay \cup {c}
  BY Pushed DEF SubmitSearch, world, history, Push, Ask, OnSearch, IInv
<1>2. request' \in Nat /\ request <= request' /\ UNCHANGED world
  BY DEF SubmitSearch, world, history, Push, Ask, OnSearch, IInv, TypedWorld
<1>3. TypedWorld' /\ Results' /\ FeedOrder' /\ Past' = Past
  BY <1>2, UserFrame DEF IInv
<1>4. TypedLines'
  BY <1>1, <1>2, <1>3 DEF TypedLines, world, IInv
<1>5. TypedViews'
  <2>1. channel' \in ChannelViews'
    BY <1>3 DEF SubmitSearch, world, history, Push, Ask, OnSearch, TypedViews, ChannelViews, IInv
  <2>2. search' \in SearchViews'
    <3>1. search \in SearchViews /\ search.request + 1 \in Nat
      BY DEF TypedViews, SearchViews, IInv
    <3>2. search' = [search EXCEPT !.request = @ + 1, !.loading = TRUE, !.failed = FALSE]
      BY DEF SubmitSearch
    <3> QED BY <1>3, <3>1, <3>2 DEF SearchViews
  <2>3. context' \in ContextViews'
    BY <1>2, <1>3 DEF SubmitSearch, world, history, Push, Ask, OnSearch, TypedViews, SearchViews, ContextViews, ThreadViews, IInv
  <2>4. thread' \in ThreadViews'
    BY <1>2, <1>3, RootsAreNat DEF SubmitSearch, world, history, Push, Ask, OnSearch, TypedViews, TypedWorld, ThreadViews, IInv
  <2>5. reader' \in Readers'
    BY <1>3 DEF SubmitSearch, world, history, Push, Ask, OnSearch, TypedViews, ChannelViews, ContextViews, ThreadViews, Readers, IInv
  <2> QED BY <2>1, <2>2, <2>3, <2>4, <2>5 DEF TypedViews
<1>9. Layers' /\ ThreadIsOne'
  BY DEF SubmitSearch, world, history, Push, Ask, OnSearch, TypedViews, Layers, ThreadIsOne, OfThread, SearchViews, ContextViews, ThreadViews, IInv
<1>6. Numbers'
  BY <1>1, <1>2 DEF SubmitSearch, world, history, Push, Ask, OnSearch, Numbers, WellFormed, ForContext, ForThread, TypedViews,
     ContextViews, ThreadViews, TypedWorld, IInv
<1>7. Gone'
  BY <1>2, <1>3, PastFacts DEF SubmitSearch, world, history, Push, Ask, OnSearch, Gone, TypedViews, TypedWorld,
     ChannelViews, SearchViews, ContextViews, ThreadViews, Readers, IInv
<1>8. Waiting'
  <2>1. channel'.loading /\ ~channel'.away => \E d \in UnderWay' : d.on = "channel"
    BY <1>1, <1>2 DEF SubmitSearch, world, history, Push, Ask, OnSearch, Waiting, Owed, ContextBusy, TypedViews,
       ChannelViews, SearchViews, ContextViews, ThreadViews, IInv
  <2>2. search'.loading /\ "search" \notin missed' => Owed("search", search.request)'
    BY <1>1, <1>2 DEF SubmitSearch, world, history, Push, Ask, OnSearch, Waiting, Owed, ContextBusy, TypedViews,
       ChannelViews, SearchViews, ContextViews, ThreadViews, IInv
  <2>3. ContextBusy' /\ "context" \notin missed' => Owed("context", context.request)'
    BY <1>1, <1>2 DEF SubmitSearch, world, history, Push, Ask, OnSearch, Waiting, Owed, ContextBusy, TypedViews,
       ChannelViews, SearchViews, ContextViews, ThreadViews, IInv
  <2>4. thread'.open /\ thread'.loading /\ up' => Owed("thread", thread.request)'
    BY <1>1, <1>2 DEF SubmitSearch, world, history, Push, Ask, OnSearch, Waiting, Owed, ContextBusy, TypedViews,
       ChannelViews, SearchViews, ContextViews, ThreadViews, IInv
  <2> QED BY <2>1, <2>2, <2>3, <2>4 DEF Waiting
<1> QED BY <1>3, <1>4, <1>5, <1>6, <1>7, <1>8, <1>9 DEF IInv

LEMMA OpenContextKeeps ==
  ASSUME IInv, NEW m \in Messages, OpenContext(m)
  PROVE IInv'
<1> DEFINE c == Ask("context", "context", m, "none", 0, request')
<1>1. /\ queue' \in Seq(ToSet(queue')) /\ answers' \in Seq(ToSet(answers'))
      /\ UnderWay' = UnderWay \cup {c}
  BY Pushed DEF OpenContext, world, history, Push, Ask, OnSearch, IInv
<1>2. request' \in Nat /\ request <= request' /\ UNCHANGED world
  BY DEF OpenContext, world, history, Push, Ask, OnSearch, IInv, TypedWorld
<1>3. TypedWorld' /\ Results' /\ FeedOrder' /\ Past' = Past
  BY <1>2, UserFrame DEF IInv
<1>4. TypedLines'
  BY <1>1, <1>2, <1>3 DEF TypedLines, world, IInv
<1>5. TypedViews'
  <2>1. channel' \in ChannelViews'
    BY <1>3 DEF OpenContext, world, history, Push, Ask, OnSearch, TypedViews, ChannelViews, IInv
  <2>2. search' \in SearchViews'
    BY <1>3 DEF OpenContext, world, history, Push, Ask, OnSearch, TypedViews, SearchViews, IInv
  <2>3. context' \in ContextViews'
    BY <1>2, <1>3 DEF OpenContext, world, history, Push, Ask, OnSearch, TypedViews, SearchViews, ContextViews, ThreadViews, IInv
  <2>4. thread' \in ThreadViews'
    BY <1>2, <1>3, RootsAreNat DEF OpenContext, world, history, Push, Ask, OnSearch, TypedViews, TypedWorld, ThreadViews, IInv
  <2>5. reader' \in Readers'
    BY <1>3 DEF OpenContext, world, history, Push, Ask, OnSearch, TypedViews, ChannelViews, ContextViews, ThreadViews, Readers, IInv
  <2> QED BY <2>1, <2>2, <2>3, <2>4, <2>5 DEF TypedViews
<1>9. Layers' /\ ThreadIsOne'
  BY DEF OpenContext, world, history, Push, Ask, OnSearch, TypedViews, Layers, ThreadIsOne, OfThread, SearchViews, ContextViews, ThreadViews, IInv
<1>6. Numbers'
  BY <1>1, <1>2 DEF OpenContext, world, history, Push, Ask, OnSearch, Numbers, WellFormed, ForContext, ForThread, TypedViews,
     ContextViews, ThreadViews, TypedWorld, IInv
<1>7. Gone'
  <2>1. channel'.rows \cap deleted' = {} /\ search'.hits \cap deleted' = {}
    BY <1>2, <1>3, PastFacts DEF OpenContext, world, history, Push, Ask, OnSearch, Gone, TypedViews, TypedWorld,
       ChannelViews, SearchViews, ContextViews, ThreadViews, Readers, IInv
  <2>2. thread'.rows \cap deleted' \subseteq {thread'.root}
    BY <1>2, <1>3, PastFacts DEF OpenContext, world, history, Push, Ask, OnSearch, Gone, TypedViews, TypedWorld,
       ChannelViews, SearchViews, ContextViews, ThreadViews, Readers, IInv
  <2>3. "context" \notin missed' => context'.rows \cap deleted' = {}
    BY <1>2, <1>3, PastFacts DEF OpenContext, world, history, Push, Ask, OnSearch, Gone, TypedViews, TypedWorld,
       ChannelViews, SearchViews, ContextViews, ThreadViews, Readers, IInv
  <2>4. reader'.of \in deleted' /\ ~reader'.gone => reader'.of = thread'.root \/ "context" \in missed'
    BY <1>2, <1>3, PastFacts DEF OpenContext, world, history, Push, Ask, OnSearch, Reading, Gone, TypedViews, TypedWorld,
       ChannelViews, SearchViews, ContextViews, ThreadViews, Readers, IInv
  <2> QED BY <2>1, <2>2, <2>3, <2>4 DEF Gone
<1>8. Waiting'
  <2>1. channel'.loading /\ ~channel'.away => \E d \in UnderWay' : d.on = "channel"
    BY <1>1, <1>2 DEF OpenContext, world, history, Push, Ask, OnSearch, Waiting, Owed, ContextBusy, TypedViews,
       ChannelViews, SearchViews, ContextViews, ThreadViews, IInv
  <2>2. search'.loading /\ "search" \notin missed' => Owed("search", search.request)'
    BY <1>1, <1>2 DEF OpenContext, world, history, Push, Ask, OnSearch, Waiting, Owed, ContextBusy, TypedViews,
       ChannelViews, SearchViews, ContextViews, ThreadViews, IInv
  <2>3. ContextBusy' /\ "context" \notin missed' => Owed("context", context.request)'
    BY <1>1, <1>2 DEF OpenContext, world, history, Push, Ask, OnSearch, Waiting, Owed, ContextBusy, TypedViews,
       ChannelViews, SearchViews, ContextViews, ThreadViews, IInv
  <2>4. thread'.open /\ thread'.loading /\ up' => Owed("thread", thread.request)'
    BY <1>1, <1>2 DEF OpenContext, world, history, Push, Ask, OnSearch, Waiting, Owed, ContextBusy, TypedViews,
       ChannelViews, SearchViews, ContextViews, ThreadViews, IInv
  <2> QED BY <2>1, <2>2, <2>3, <2>4 DEF Waiting
<1> QED BY <1>3, <1>4, <1>5, <1>6, <1>7, <1>8, <1>9 DEF IInv

LEMMA LeaveContextKeeps ==
  ASSUME IInv, LeaveContext
  PROVE IInv'
<1>1. UnderWay' = UnderWay
  BY DEF LeaveContext, world, history, OnContext, NoContext, UnderWay
<1>2. request' \in Nat /\ request <= request' /\ UNCHANGED world
  BY DEF LeaveContext, world, history, OnContext, NoContext, IInv, TypedWorld
<1>3. TypedWorld' /\ Results' /\ FeedOrder' /\ Past' = Past
  BY <1>2, UserFrame DEF IInv
<1>4. TypedLines'
  BY <1>1, <1>2, <1>3 DEF TypedLines, world, IInv, LeaveContext
<1>5. TypedViews'
  <2>1. channel' \in ChannelViews'
    BY <1>3 DEF LeaveContext, world, history, OnContext, NoContext, TypedViews, ChannelViews, IInv
  <2>2. search' \in SearchViews'
    BY <1>3 DEF LeaveContext, world, history, OnContext, NoContext, TypedViews, SearchViews, IInv
  <2>3. context' \in ContextViews'
    BY <1>2, <1>3 DEF LeaveContext, world, history, OnContext, NoContext, TypedViews, SearchViews, ContextViews, ThreadViews, IInv
  <2>4. thread' \in ThreadViews'
    BY <1>2, <1>3, RootsAreNat DEF LeaveContext, world, history, OnContext, NoContext, TypedViews, TypedWorld, ThreadViews, IInv
  <2>5. reader' \in Readers'
    BY <1>3 DEF LeaveContext, world, history, OnContext, NoContext, TypedViews, ChannelViews, ContextViews, ThreadViews, Readers, IInv
  <2> QED BY <2>1, <2>2, <2>3, <2>4, <2>5 DEF TypedViews
<1>9. Layers' /\ ThreadIsOne'
  BY DEF LeaveContext, world, history, OnContext, NoContext, TypedViews, Layers, ThreadIsOne, OfThread, SearchViews, ContextViews, ThreadViews, IInv
<1>6. Numbers'
  BY <1>1, <1>2 DEF LeaveContext, world, history, OnContext, NoContext, Numbers, WellFormed, ForContext, ForThread, TypedViews,
     ContextViews, ThreadViews, TypedWorld, IInv
<1>7. Gone'
  BY <1>2, <1>3, PastFacts DEF LeaveContext, world, history, OnContext, NoContext, Gone, TypedViews, TypedWorld,
     ChannelViews, SearchViews, ContextViews, ThreadViews, Readers, IInv
<1>8. Waiting'
  BY <1>1, <1>2 DEF LeaveContext, world, history, OnContext, NoContext, Waiting, Owed, ContextBusy, TypedViews,
     ChannelViews, SearchViews, ContextViews, ThreadViews, IInv
<1> QED BY <1>3, <1>4, <1>5, <1>6, <1>7, <1>8, <1>9 DEF IInv

LEMMA RequestContextPageKeeps ==
  ASSUME IInv, NEW way \in {"older", "newer"}, RequestContextPage(way)
  PROVE IInv'
<1> DEFINE c == Ask("page", "context", 0, way, IF way = "older" THEN Min(context.rows) ELSE Max(context.rows), request')
<1>1. /\ queue' \in Seq(ToSet(queue')) /\ answers' \in Seq(ToSet(answers'))
      /\ UnderWay' = UnderWay \cup {c}
  BY Pushed DEF RequestContextPage, world, history, Push, Ask, OnContext, ContextBusy, IInv
<1>2. request' \in Nat /\ request <= request' /\ UNCHANGED world
  BY DEF RequestContextPage, world, history, Push, Ask, OnContext, ContextBusy, IInv, TypedWorld
<1>3. TypedWorld' /\ Results' /\ FeedOrder' /\ Past' = Past
  BY <1>2, UserFrame DEF IInv
<1>4. TypedLines'
  BY <1>1, <1>2, <1>3 DEF TypedLines, world, IInv
<1>5. TypedViews'
  <2>1. channel' \in ChannelViews'
    BY <1>3 DEF RequestContextPage, world, history, Push, Ask, OnContext, ContextBusy, TypedViews, ChannelViews, IInv
  <2>2. search' \in SearchViews'
    BY <1>3 DEF RequestContextPage, world, history, Push, Ask, OnContext, ContextBusy, TypedViews, SearchViews, IInv
  <2>3. context' \in ContextViews'
    BY <1>2, <1>3 DEF RequestContextPage, world, history, Push, Ask, OnContext, ContextBusy, TypedViews, SearchViews, ContextViews, ThreadViews, IInv
  <2>4. thread' \in ThreadViews'
    BY <1>2, <1>3, RootsAreNat DEF RequestContextPage, world, history, Push, Ask, OnContext, ContextBusy, TypedViews, TypedWorld, ThreadViews, IInv
  <2>5. reader' \in Readers'
    BY <1>3 DEF RequestContextPage, world, history, Push, Ask, OnContext, ContextBusy, TypedViews, ChannelViews, ContextViews, ThreadViews, Readers, IInv
  <2> QED BY <2>1, <2>2, <2>3, <2>4, <2>5 DEF TypedViews
<1>9. Layers' /\ ThreadIsOne'
  BY DEF RequestContextPage, world, history, Push, Ask, OnContext, ContextBusy, TypedViews, Layers, ThreadIsOne, OfThread, SearchViews, ContextViews, ThreadViews, IInv
<1>6. Numbers'
  <2>1. /\ context'.request = request' /\ request' = request + 1
        /\ ~context'.loading /\ (context'.older => way = "older")
        /\ (context'.newer => way = "newer")
    BY DEF RequestContextPage, ContextBusy, TypedViews, ContextViews, IInv
  <2>2. /\ c.on = "context" /\ c.op = "page" /\ c.way = way /\ c.request = request'
        /\ thread' = thread
    BY DEF RequestContextPage, Ask
  <2>3. \A d \in UnderWay : WellFormed(d) /\ ForContext(d)' /\ ForThread(d)'
    BY <2>1, <2>2 DEF Numbers, ForContext, ForThread, TypedWorld, IInv
  <2>4. ASSUME NEW d, d = c PROVE WellFormed(d) /\ ForContext(d)' /\ ForThread(d)'
    <3>1. /\ d.on = "context" /\ d.op = "page" /\ d.way = way /\ d.request = request'
          /\ way \in {"older", "newer"} /\ request \in Nat
      BY <2>2, <2>4 DEF TypedWorld, IInv
    <3> HIDE DEF c
    <3> QED BY <2>1, <3>1 DEF WellFormed, ForContext, ForThread
  <2>5. \A d \in UnderWay' : WellFormed(d) /\ ForContext(d)' /\ ForThread(d)'
    <3> HIDE DEF c
    <3> QED BY <1>1, <2>3, <2>4
  <2>6. context'.request <= request' /\ thread'.request <= request'
    BY <2>1, <2>2 DEF Numbers, TypedWorld, TypedViews, ThreadViews, IInv
  <2> QED BY <2>5, <2>6 DEF Numbers, WellFormed
<1>7. Gone'
  BY <1>2, <1>3, PastFacts DEF RequestContextPage, world, history, Push, Ask, OnContext, ContextBusy, Gone, TypedViews, TypedWorld,
     ChannelViews, SearchViews, ContextViews, ThreadViews, Readers, IInv
<1>8. Waiting'
  <2>1. channel'.loading /\ ~channel'.away => \E d \in UnderWay' : d.on = "channel"
    BY <1>1, <1>2 DEF RequestContextPage, world, history, Push, Ask, OnContext, ContextBusy, Waiting, Owed, ContextBusy, TypedViews,
       ChannelViews, SearchViews, ContextViews, ThreadViews, IInv
  <2>2. search'.loading /\ "search" \notin missed' => Owed("search", search.request)'
    BY <1>1, <1>2 DEF RequestContextPage, world, history, Push, Ask, OnContext, ContextBusy, Waiting, Owed, ContextBusy, TypedViews,
       ChannelViews, SearchViews, ContextViews, ThreadViews, IInv
  <2>3. ContextBusy' /\ "context" \notin missed' => Owed("context", context.request)'
    <3>1. context'.request = request' /\ c.request = request' /\ c.on = "context"
      BY DEF RequestContextPage, Ask, TypedViews, ContextViews, IInv
    <3> QED BY <1>1, <3>1 DEF Owed
  <2>4. thread'.open /\ thread'.loading /\ up' => Owed("thread", thread.request)'
    BY <1>1, <1>2 DEF RequestContextPage, world, history, Push, Ask, OnContext, ContextBusy, Waiting, Owed, ContextBusy, TypedViews,
       ChannelViews, SearchViews, ContextViews, ThreadViews, IInv
  <2> QED BY <2>1, <2>2, <2>3, <2>4 DEF Waiting
<1> QED BY <1>3, <1>4, <1>5, <1>6, <1>7, <1>8, <1>9 DEF IInv

LEMMA RequestNewestContextKeeps ==
  ASSUME IInv, RequestNewestContext
  PROVE IInv'
<1> DEFINE c == Ask("newest", "context", 0, "none", 0, request')
<1>1. /\ queue' \in Seq(ToSet(queue')) /\ answers' \in Seq(ToSet(answers'))
      /\ UnderWay' = UnderWay \cup {c}
  BY Pushed DEF RequestNewestContext, world, history, Push, Ask, OnContext, ContextBusy, IInv
<1>2. request' \in Nat /\ request <= request' /\ UNCHANGED world
  BY DEF RequestNewestContext, world, history, Push, Ask, OnContext, ContextBusy, IInv, TypedWorld
<1>3. TypedWorld' /\ Results' /\ FeedOrder' /\ Past' = Past
  BY <1>2, UserFrame DEF IInv
<1>4. TypedLines'
  BY <1>1, <1>2, <1>3 DEF TypedLines, world, IInv
<1>5. TypedViews'
  <2>1. channel' \in ChannelViews'
    BY <1>3 DEF RequestNewestContext, world, history, Push, Ask, OnContext, ContextBusy, TypedViews, ChannelViews, IInv
  <2>2. search' \in SearchViews'
    BY <1>3 DEF RequestNewestContext, world, history, Push, Ask, OnContext, ContextBusy, TypedViews, SearchViews, IInv
  <2>3. context' \in ContextViews'
    BY <1>2, <1>3 DEF RequestNewestContext, world, history, Push, Ask, OnContext, ContextBusy, TypedViews, SearchViews, ContextViews, ThreadViews, IInv
  <2>4. thread' \in ThreadViews'
    BY <1>2, <1>3, RootsAreNat DEF RequestNewestContext, world, history, Push, Ask, OnContext, ContextBusy, TypedViews, TypedWorld, ThreadViews, IInv
  <2>5. reader' \in Readers'
    BY <1>3 DEF RequestNewestContext, world, history, Push, Ask, OnContext, ContextBusy, TypedViews, ChannelViews, ContextViews, ThreadViews, Readers, IInv
  <2> QED BY <2>1, <2>2, <2>3, <2>4, <2>5 DEF TypedViews
<1>9. Layers' /\ ThreadIsOne'
  BY DEF RequestNewestContext, world, history, Push, Ask, OnContext, ContextBusy, TypedViews, Layers, ThreadIsOne, OfThread, SearchViews, ContextViews, ThreadViews, IInv
<1>6. Numbers'
  BY <1>1, <1>2 DEF RequestNewestContext, world, history, Push, Ask, OnContext, ContextBusy, Numbers, WellFormed, ForContext, ForThread, TypedViews,
     ContextViews, ThreadViews, TypedWorld, IInv
<1>7. Gone'
  BY <1>2, <1>3, PastFacts DEF RequestNewestContext, world, history, Push, Ask, OnContext, ContextBusy, Gone, TypedViews, TypedWorld,
     ChannelViews, SearchViews, ContextViews, ThreadViews, Readers, IInv
<1>8. Waiting'
  BY <1>1, <1>2 DEF RequestNewestContext, world, history, Push, Ask, OnContext, ContextBusy, Waiting, Owed, ContextBusy, TypedViews,
     ChannelViews, SearchViews, ContextViews, ThreadViews, IInv
<1> QED BY <1>3, <1>4, <1>5, <1>6, <1>7, <1>8, <1>9 DEF IInv

LEMMA OpenThreadKeeps ==
  ASSUME IInv, NEW m \in Messages, OpenThread(m)
  PROVE IInv'
<1> DEFINE c == Ask("thread", "thread", RootOf[m], "none", 0, request')
<1>1. /\ queue' \in Seq(ToSet(queue')) /\ answers' \in Seq(ToSet(answers'))
      /\ UnderWay' = UnderWay \cup {c}
  BY Pushed DEF OpenThread, world, history, Push, Ask, OnChannel, Entered, IInv
<1>2. request' \in Nat /\ request <= request' /\ UNCHANGED world
  BY DEF OpenThread, world, history, Push, Ask, OnChannel, Entered, IInv, TypedWorld
<1>3. TypedWorld' /\ Results' /\ FeedOrder' /\ Past' = Past
  BY <1>2, UserFrame DEF IInv
<1>4. TypedLines'
  BY <1>1, <1>2, <1>3 DEF TypedLines, world, IInv
<1>5. TypedViews'
  <2>1. channel' \in ChannelViews'
    BY <1>3 DEF OpenThread, world, history, Push, Ask, OnChannel, Entered, TypedViews, ChannelViews, IInv
  <2>2. search' \in SearchViews'
    BY <1>3 DEF OpenThread, world, history, Push, Ask, OnChannel, Entered, TypedViews, SearchViews, IInv
  <2>3. context' \in ContextViews'
    BY <1>2, <1>3 DEF OpenThread, world, history, Push, Ask, OnChannel, Entered, TypedViews, SearchViews, ContextViews, ThreadViews, IInv
  <2>4. thread' \in ThreadViews'
    BY <1>2, <1>3, RootsAreNat DEF OpenThread, world, history, Push, Ask, OnChannel, Entered, TypedViews, TypedWorld, ThreadViews, IInv
  <2>5. reader' \in Readers'
    BY <1>3 DEF OpenThread, world, history, Push, Ask, OnChannel, Entered, TypedViews, ChannelViews, ContextViews, ThreadViews, Readers, IInv
  <2> QED BY <2>1, <2>2, <2>3, <2>4, <2>5 DEF TypedViews
<1>9. Layers' /\ ThreadIsOne'
  BY DEF OpenThread, world, history, Push, Ask, OnChannel, Entered, TypedViews, Layers, ThreadIsOne, OfThread, SearchViews, ContextViews, ThreadViews, IInv
<1>6. Numbers'
  BY <1>1, <1>2 DEF OpenThread, world, history, Push, Ask, OnChannel, Entered, Numbers, WellFormed, ForContext, ForThread, TypedViews,
     ContextViews, ThreadViews, TypedWorld, IInv
<1>7. Gone'
  <2>1. channel'.rows \cap deleted' = {} /\ search'.hits \cap deleted' = {}
    BY <1>2, <1>3, PastFacts DEF OpenThread, world, history, Push, Ask, OnChannel, Entered, Gone, TypedViews, TypedWorld,
       ChannelViews, SearchViews, ContextViews, ThreadViews, Readers, IInv
  <2>2. thread'.rows \cap deleted' \subseteq {thread'.root}
    BY <1>2, <1>3, PastFacts DEF OpenThread, world, history, Push, Ask, OnChannel, Entered, Gone, TypedViews, TypedWorld,
       ChannelViews, SearchViews, ContextViews, ThreadViews, Readers, IInv
  <2>3. "context" \notin missed' => context'.rows \cap deleted' = {}
    BY <1>2, <1>3, PastFacts DEF OpenThread, world, history, Push, Ask, OnChannel, Entered, Gone, TypedViews, TypedWorld,
       ChannelViews, SearchViews, ContextViews, ThreadViews, Readers, IInv
  <2>4. reader'.of \in deleted' /\ ~reader'.gone => reader'.of = thread'.root \/ "context" \in missed'
    BY <1>2, <1>3, PastFacts DEF OpenThread, world, history, Push, Ask, OnChannel, Entered, Reading, Gone, TypedViews, TypedWorld,
       ChannelViews, SearchViews, ContextViews, ThreadViews, Readers, IInv
  <2> QED BY <2>1, <2>2, <2>3, <2>4 DEF Gone
<1>8. Waiting'
  <2>1. channel'.loading /\ ~channel'.away => \E d \in UnderWay' : d.on = "channel"
    BY <1>1, <1>2 DEF OpenThread, world, history, Push, Ask, OnChannel, Entered, Waiting, Owed, ContextBusy, TypedViews,
       ChannelViews, SearchViews, ContextViews, ThreadViews, IInv
  <2>2. search'.loading /\ "search" \notin missed' => Owed("search", search.request)'
    BY <1>1, <1>2 DEF OpenThread, world, history, Push, Ask, OnChannel, Entered, Waiting, Owed, ContextBusy, TypedViews,
       ChannelViews, SearchViews, ContextViews, ThreadViews, IInv
  <2>3. ContextBusy' /\ "context" \notin missed' => Owed("context", context.request)'
    BY <1>1, <1>2 DEF OpenThread, world, history, Push, Ask, OnChannel, Entered, Waiting, Owed, ContextBusy, TypedViews,
       ChannelViews, SearchViews, ContextViews, ThreadViews, IInv
  <2>4. thread'.open /\ thread'.loading /\ up' => Owed("thread", thread.request)'
    <3>1. thread'.request = request' /\ c.request = request' /\ c.on = "thread"
      BY DEF OpenThread, Entered, Ask, TypedViews, ThreadViews, IInv
    <3> QED BY <1>1, <3>1 DEF Owed
  <2> QED BY <2>1, <2>2, <2>3, <2>4 DEF Waiting
<1> QED BY <1>3, <1>4, <1>5, <1>6, <1>7, <1>8, <1>9 DEF IInv

LEMMA OpenContextThreadKeeps ==
  ASSUME IInv, NEW m \in Messages, OpenContextThread(m)
  PROVE IInv'
<1> DEFINE c == Ask("thread", "thread", RootOf[m], "none", 0, request')
<1>1. /\ queue' \in Seq(ToSet(queue')) /\ answers' \in Seq(ToSet(answers'))
      /\ UnderWay' = UnderWay \cup {c}
  BY Pushed DEF OpenContextThread, world, history, Push, Ask, OnContext, Entered, IInv
<1>2. request' \in Nat /\ request <= request' /\ UNCHANGED world
  BY DEF OpenContextThread, world, history, Push, Ask, OnContext, Entered, IInv, TypedWorld
<1>3. TypedWorld' /\ Results' /\ FeedOrder' /\ Past' = Past
  BY <1>2, UserFrame DEF IInv
<1>4. TypedLines'
  BY <1>1, <1>2, <1>3 DEF TypedLines, world, IInv
<1>5. TypedViews'
  <2>1. channel' \in ChannelViews'
    BY <1>3 DEF OpenContextThread, world, history, Push, Ask, OnContext, Entered, TypedViews, ChannelViews, IInv
  <2>2. search' \in SearchViews'
    BY <1>3 DEF OpenContextThread, world, history, Push, Ask, OnContext, Entered, TypedViews, SearchViews, IInv
  <2>3. context' \in ContextViews'
    BY <1>2, <1>3 DEF OpenContextThread, world, history, Push, Ask, OnContext, Entered, TypedViews, SearchViews, ContextViews, ThreadViews, IInv
  <2>4. thread' \in ThreadViews'
    BY <1>2, <1>3, RootsAreNat DEF OpenContextThread, world, history, Push, Ask, OnContext, Entered, TypedViews, TypedWorld, ThreadViews, IInv
  <2>5. reader' \in Readers'
    BY <1>3 DEF OpenContextThread, world, history, Push, Ask, OnContext, Entered, TypedViews, ChannelViews, ContextViews, ThreadViews, Readers, IInv
  <2> QED BY <2>1, <2>2, <2>3, <2>4, <2>5 DEF TypedViews
<1>9. Layers' /\ ThreadIsOne'
  BY DEF OpenContextThread, world, history, Push, Ask, OnContext, Entered, TypedViews, Layers, ThreadIsOne, OfThread, SearchViews, ContextViews, ThreadViews, IInv
<1>6. Numbers'
  BY <1>1, <1>2 DEF OpenContextThread, world, history, Push, Ask, OnContext, Entered, Numbers, WellFormed, ForContext, ForThread, TypedViews,
     ContextViews, ThreadViews, TypedWorld, IInv
<1>7. Gone'
  <2>1. channel'.rows \cap deleted' = {} /\ search'.hits \cap deleted' = {}
    BY <1>2, <1>3, PastFacts DEF OpenContextThread, world, history, Push, Ask, OnContext, Entered, Gone, TypedViews, TypedWorld,
       ChannelViews, SearchViews, ContextViews, ThreadViews, Readers, IInv
  <2>2. thread'.rows \cap deleted' \subseteq {thread'.root}
    BY <1>2, <1>3, PastFacts DEF OpenContextThread, world, history, Push, Ask, OnContext, Entered, Gone, TypedViews, TypedWorld,
       ChannelViews, SearchViews, ContextViews, ThreadViews, Readers, IInv
  <2>3. "context" \notin missed' => context'.rows \cap deleted' = {}
    BY <1>2, <1>3, PastFacts DEF OpenContextThread, world, history, Push, Ask, OnContext, Entered, Gone, TypedViews, TypedWorld,
       ChannelViews, SearchViews, ContextViews, ThreadViews, Readers, IInv
  <2>4. reader'.of \in deleted' /\ ~reader'.gone => reader'.of = thread'.root \/ "context" \in missed'
    BY <1>2, <1>3, PastFacts DEF OpenContextThread, world, history, Push, Ask, OnContext, Entered, Reading, Gone, TypedViews, TypedWorld,
       ChannelViews, SearchViews, ContextViews, ThreadViews, Readers, IInv
  <2> QED BY <2>1, <2>2, <2>3, <2>4 DEF Gone
<1>8. Waiting'
  BY <1>1, <1>2 DEF OpenContextThread, world, history, Push, Ask, OnContext, Entered, Waiting, Owed, ContextBusy, TypedViews,
     ChannelViews, SearchViews, ContextViews, ThreadViews, IInv
<1> QED BY <1>3, <1>4, <1>5, <1>6, <1>7, <1>8, <1>9 DEF IInv

LEMMA LeaveThreadKeeps ==
  ASSUME IInv, LeaveThread
  PROVE IInv'
<1>1. UnderWay' = UnderWay
  BY DEF LeaveThread, world, history, OnThread, NoThread, UnderWay
<1>2. request' \in Nat /\ request <= request' /\ UNCHANGED world
  BY DEF LeaveThread, world, history, OnThread, NoThread, IInv, TypedWorld
<1>3. TypedWorld' /\ Results' /\ FeedOrder' /\ Past' = Past
  BY <1>2, UserFrame DEF IInv
<1>4. TypedLines'
  BY <1>1, <1>2, <1>3 DEF TypedLines, world, IInv, LeaveThread
<1>5. TypedViews'
  <2>1. channel' \in ChannelViews'
    BY <1>3 DEF LeaveThread, world, history, OnThread, NoThread, TypedViews, ChannelViews, IInv
  <2>2. search' \in SearchViews'
    BY <1>3 DEF LeaveThread, world, history, OnThread, NoThread, TypedViews, SearchViews, IInv
  <2>3. context' \in ContextViews'
    BY <1>2, <1>3 DEF LeaveThread, world, history, OnThread, NoThread, TypedViews, SearchViews, ContextViews, ThreadViews, IInv
  <2>4. thread' \in ThreadViews'
    BY <1>2, <1>3, RootsAreNat DEF LeaveThread, world, history, OnThread, NoThread, TypedViews, TypedWorld, ThreadViews, IInv
  <2>5. reader' \in Readers'
    BY <1>3 DEF LeaveThread, world, history, OnThread, NoThread, TypedViews, ChannelViews, ContextViews, ThreadViews, Readers, IInv
  <2> QED BY <2>1, <2>2, <2>3, <2>4, <2>5 DEF TypedViews
<1>9. Layers' /\ ThreadIsOne'
  BY DEF LeaveThread, world, history, OnThread, NoThread, TypedViews, Layers, ThreadIsOne, OfThread, SearchViews, ContextViews, ThreadViews, IInv
<1>6. Numbers'
  BY <1>1, <1>2 DEF LeaveThread, world, history, OnThread, NoThread, Numbers, WellFormed, ForContext, ForThread, TypedViews,
     ContextViews, ThreadViews, TypedWorld, IInv
<1>7. Gone'
  <2>1. channel'.rows \cap deleted' = {} /\ search'.hits \cap deleted' = {}
    BY <1>2, <1>3, PastFacts DEF LeaveThread, world, history, OnThread, NoThread, Gone, TypedViews, TypedWorld,
       ChannelViews, SearchViews, ContextViews, ThreadViews, Readers, IInv
  <2>2. thread'.rows \cap deleted' \subseteq {thread'.root}
    BY <1>2, <1>3, PastFacts DEF LeaveThread, world, history, OnThread, NoThread, Gone, TypedViews, TypedWorld,
       ChannelViews, SearchViews, ContextViews, ThreadViews, Readers, IInv
  <2>3. "context" \notin missed' => context'.rows \cap deleted' = {}
    BY <1>2, <1>3, PastFacts DEF LeaveThread, world, history, OnThread, NoThread, Gone, TypedViews, TypedWorld,
       ChannelViews, SearchViews, ContextViews, ThreadViews, Readers, IInv
  <2>4. reader'.of \in deleted' /\ ~reader'.gone => reader'.of = thread'.root \/ "context" \in missed'
    BY <1>2, <1>3, PastFacts DEF LeaveThread, world, history, OnThread, NoThread, Reading, Gone, TypedViews, TypedWorld,
       ChannelViews, SearchViews, ContextViews, ThreadViews, Readers, IInv
  <2> QED BY <2>1, <2>2, <2>3, <2>4 DEF Gone
<1>8. Waiting'
  BY <1>1, <1>2 DEF LeaveThread, world, history, OnThread, NoThread, Waiting, Owed, ContextBusy, TypedViews,
     ChannelViews, SearchViews, ContextViews, ThreadViews, IInv
<1> QED BY <1>3, <1>4, <1>5, <1>6, <1>7, <1>8, <1>9 DEF IInv

LEMMA RequestThreadPageKeeps ==
  ASSUME IInv, RequestThreadPage
  PROVE IInv'
<1> DEFINE c == Ask("page", "thread", thread.root, "older", Min(thread.rows \ {Min(thread.rows)}), request')
<1>1. /\ queue' \in Seq(ToSet(queue')) /\ answers' \in Seq(ToSet(answers'))
      /\ UnderWay' = UnderWay \cup {c}
  BY Pushed DEF RequestThreadPage, world, history, Push, Ask, OnThread, ThreadPage, IInv
<1>2. request' \in Nat /\ request <= request' /\ UNCHANGED world
  BY DEF RequestThreadPage, world, history, Push, Ask, OnThread, ThreadPage, IInv, TypedWorld
<1>3. TypedWorld' /\ Results' /\ FeedOrder' /\ Past' = Past
  BY <1>2, UserFrame DEF IInv
<1>4. TypedLines'
  BY <1>1, <1>2, <1>3 DEF TypedLines, world, IInv
<1>5. TypedViews'
  <2>1. channel' \in ChannelViews'
    BY <1>3 DEF RequestThreadPage, world, history, Push, Ask, OnThread, ThreadPage, TypedViews, ChannelViews, IInv
  <2>2. search' \in SearchViews'
    BY <1>3 DEF RequestThreadPage, world, history, Push, Ask, OnThread, ThreadPage, TypedViews, SearchViews, IInv
  <2>3. context' \in ContextViews'
    BY <1>2, <1>3 DEF RequestThreadPage, world, history, Push, Ask, OnThread, ThreadPage, TypedViews, SearchViews, ContextViews, ThreadViews, IInv
  <2>4. thread' \in ThreadViews'
    BY <1>2, <1>3, RootsAreNat DEF RequestThreadPage, world, history, Push, Ask, OnThread, ThreadPage, TypedViews, TypedWorld, ThreadViews, IInv
  <2>5. reader' \in Readers'
    BY <1>3 DEF RequestThreadPage, world, history, Push, Ask, OnThread, ThreadPage, TypedViews, ChannelViews, ContextViews, ThreadViews, Readers, IInv
  <2> QED BY <2>1, <2>2, <2>3, <2>4, <2>5 DEF TypedViews
<1>9. Layers' /\ ThreadIsOne'
  BY DEF RequestThreadPage, world, history, Push, Ask, OnThread, ThreadPage, TypedViews, Layers, ThreadIsOne, OfThread, SearchViews, ContextViews, ThreadViews, IInv
<1>6. Numbers'
  BY <1>1, <1>2 DEF RequestThreadPage, world, history, Push, Ask, OnThread, ThreadPage, Numbers, WellFormed, ForContext, ForThread, TypedViews,
     ContextViews, ThreadViews, TypedWorld, IInv
<1>7. Gone'
  BY <1>2, <1>3, PastFacts DEF RequestThreadPage, world, history, Push, Ask, OnThread, ThreadPage, Gone, TypedViews, TypedWorld,
     ChannelViews, SearchViews, ContextViews, ThreadViews, Readers, IInv
<1>8. Waiting'
  <2>1. channel'.loading /\ ~channel'.away => \E d \in UnderWay' : d.on = "channel"
    BY <1>1, <1>2 DEF RequestThreadPage, world, history, Push, Ask, OnThread, ThreadPage, Waiting, Owed, ContextBusy, TypedViews,
       ChannelViews, SearchViews, ContextViews, ThreadViews, IInv
  <2>2. search'.loading /\ "search" \notin missed' => Owed("search", search.request)'
    BY <1>1, <1>2 DEF RequestThreadPage, world, history, Push, Ask, OnThread, ThreadPage, Waiting, Owed, ContextBusy, TypedViews,
       ChannelViews, SearchViews, ContextViews, ThreadViews, IInv
  <2>3. ContextBusy' /\ "context" \notin missed' => Owed("context", context.request)'
    BY <1>1, <1>2 DEF RequestThreadPage, world, history, Push, Ask, OnThread, ThreadPage, Waiting, Owed, ContextBusy, TypedViews,
       ChannelViews, SearchViews, ContextViews, ThreadViews, IInv
  <2>4. thread'.open /\ thread'.loading /\ up' => Owed("thread", thread.request)'
    <3>1. thread'.request = request' /\ c.request = request' /\ c.on = "thread"
      BY DEF RequestThreadPage, ThreadPage, Ask, TypedViews, ThreadViews, IInv
    <3> QED BY <1>1, <3>1 DEF Owed
  <2> QED BY <2>1, <2>2, <2>3, <2>4 DEF Waiting
<1> QED BY <1>3, <1>4, <1>5, <1>6, <1>7, <1>8, <1>9 DEF IInv

LEMMA RequestNewestThreadKeeps ==
  ASSUME IInv, RequestNewestThread
  PROVE IInv'
<1> DEFINE c == Ask("newest", "thread", thread.root, "none", 0, request')
<1>1. /\ queue' \in Seq(ToSet(queue')) /\ answers' \in Seq(ToSet(answers'))
      /\ UnderWay' = UnderWay \cup {c}
  BY Pushed DEF RequestNewestThread, world, history, Push, Ask, OnThread, IInv
<1>2. request' \in Nat /\ request <= request' /\ UNCHANGED world
  BY DEF RequestNewestThread, world, history, Push, Ask, OnThread, IInv, TypedWorld
<1>3. TypedWorld' /\ Results' /\ FeedOrder' /\ Past' = Past
  BY <1>2, UserFrame DEF IInv
<1>4. TypedLines'
  BY <1>1, <1>2, <1>3 DEF TypedLines, world, IInv
<1>5. TypedViews'
  <2>1. channel' \in ChannelViews'
    BY <1>3 DEF RequestNewestThread, world, history, Push, Ask, OnThread, TypedViews, ChannelViews, IInv
  <2>2. search' \in SearchViews'
    BY <1>3 DEF RequestNewestThread, world, history, Push, Ask, OnThread, TypedViews, SearchViews, IInv
  <2>3. context' \in ContextViews'
    BY <1>2, <1>3 DEF RequestNewestThread, world, history, Push, Ask, OnThread, TypedViews, SearchViews, ContextViews, ThreadViews, IInv
  <2>4. thread' \in ThreadViews'
    BY <1>2, <1>3, RootsAreNat DEF RequestNewestThread, world, history, Push, Ask, OnThread, TypedViews, TypedWorld, ThreadViews, IInv
  <2>5. reader' \in Readers'
    BY <1>3 DEF RequestNewestThread, world, history, Push, Ask, OnThread, TypedViews, ChannelViews, ContextViews, ThreadViews, Readers, IInv
  <2> QED BY <2>1, <2>2, <2>3, <2>4, <2>5 DEF TypedViews
<1>9. Layers' /\ ThreadIsOne'
  BY DEF RequestNewestThread, world, history, Push, Ask, OnThread, TypedViews, Layers, ThreadIsOne, OfThread, SearchViews, ContextViews, ThreadViews, IInv
<1>6. Numbers'
  BY <1>1, <1>2 DEF RequestNewestThread, world, history, Push, Ask, OnThread, Numbers, WellFormed, ForContext, ForThread, TypedViews,
     ContextViews, ThreadViews, TypedWorld, IInv
<1>7. Gone'
  BY <1>2, <1>3, PastFacts DEF RequestNewestThread, world, history, Push, Ask, OnThread, Gone, TypedViews, TypedWorld,
     ChannelViews, SearchViews, ContextViews, ThreadViews, Readers, IInv
<1>8. Waiting'
  <2>1. channel'.loading /\ ~channel'.away => \E d \in UnderWay' : d.on = "channel"
    BY <1>1, <1>2 DEF RequestNewestThread, world, history, Push, Ask, OnThread, Waiting, Owed, ContextBusy, TypedViews,
       ChannelViews, SearchViews, ContextViews, ThreadViews, IInv
  <2>2. search'.loading /\ "search" \notin missed' => Owed("search", search.request)'
    BY <1>1, <1>2 DEF RequestNewestThread, world, history, Push, Ask, OnThread, Waiting, Owed, ContextBusy, TypedViews,
       ChannelViews, SearchViews, ContextViews, ThreadViews, IInv
  <2>3. ContextBusy' /\ "context" \notin missed' => Owed("context", context.request)'
    BY <1>1, <1>2 DEF RequestNewestThread, world, history, Push, Ask, OnThread, Waiting, Owed, ContextBusy, TypedViews,
       ChannelViews, SearchViews, ContextViews, ThreadViews, IInv
  <2>4. thread'.open /\ thread'.loading /\ up' => Owed("thread", thread.request)'
    BY <1>1, <1>2 DEF RequestNewestThread, world, history, Push, Ask, OnThread, Waiting, Owed, ContextBusy, TypedViews,
       ChannelViews, SearchViews, ContextViews, ThreadViews, IInv
  <2> QED BY <2>1, <2>2, <2>3, <2>4 DEF Waiting
<1> QED BY <1>3, <1>4, <1>5, <1>6, <1>7, <1>8, <1>9 DEF IInv

LEMMA RetryThreadKeeps ==
  ASSUME IInv, RetryThread
  PROVE IInv'
<1> DEFINE c == Ask("thread", "thread", thread.root, "none", 0, request')
<1>1. /\ queue' \in Seq(ToSet(queue')) /\ answers' \in Seq(ToSet(answers'))
      /\ UnderWay' = UnderWay \cup {c}
  BY Pushed DEF RetryThread, world, history, Push, Ask, OnThread, Reread, IInv
<1>2. request' \in Nat /\ request <= request' /\ UNCHANGED world
  BY DEF RetryThread, world, history, Push, Ask, OnThread, Reread, IInv, TypedWorld
<1>3. TypedWorld' /\ Results' /\ FeedOrder' /\ Past' = Past
  BY <1>2, UserFrame DEF IInv
<1>4. TypedLines'
  BY <1>1, <1>2, <1>3 DEF TypedLines, world, IInv
<1>5. TypedViews'
  <2>1. channel' \in ChannelViews'
    BY <1>3 DEF RetryThread, world, history, Push, Ask, OnThread, Reread, TypedViews, ChannelViews, IInv
  <2>2. search' \in SearchViews'
    BY <1>3 DEF RetryThread, world, history, Push, Ask, OnThread, Reread, TypedViews, SearchViews, IInv
  <2>3. context' \in ContextViews'
    BY <1>2, <1>3 DEF RetryThread, world, history, Push, Ask, OnThread, Reread, TypedViews, SearchViews, ContextViews, ThreadViews, IInv
  <2>4. thread' \in ThreadViews'
    BY <1>2, <1>3, RootsAreNat DEF RetryThread, world, history, Push, Ask, OnThread, Reread, TypedViews, TypedWorld, ThreadViews, IInv
  <2>5. reader' \in Readers'
    BY <1>3 DEF RetryThread, world, history, Push, Ask, OnThread, Reread, TypedViews, ChannelViews, ContextViews, ThreadViews, Readers, IInv
  <2> QED BY <2>1, <2>2, <2>3, <2>4, <2>5 DEF TypedViews
<1>9. Layers' /\ ThreadIsOne'
  BY DEF RetryThread, world, history, Push, Ask, OnThread, Reread, TypedViews, Layers, ThreadIsOne, OfThread, SearchViews, ContextViews, ThreadViews, IInv
<1>6. Numbers'
  BY <1>1, <1>2 DEF RetryThread, world, history, Push, Ask, OnThread, Reread, Numbers, WellFormed, ForContext, ForThread, TypedViews,
     ContextViews, ThreadViews, TypedWorld, IInv
<1>7. Gone'
  BY <1>2, <1>3, PastFacts DEF RetryThread, world, history, Push, Ask, OnThread, Reread, Gone, TypedViews, TypedWorld,
     ChannelViews, SearchViews, ContextViews, ThreadViews, Readers, IInv
<1>8. Waiting'
  <2>1. channel'.loading /\ ~channel'.away => \E d \in UnderWay' : d.on = "channel"
    BY <1>1, <1>2 DEF RetryThread, world, history, Push, Ask, OnThread, Reread, Waiting, Owed, ContextBusy, TypedViews,
       ChannelViews, SearchViews, ContextViews, ThreadViews, IInv
  <2>2. search'.loading /\ "search" \notin missed' => Owed("search", search.request)'
    BY <1>1, <1>2 DEF RetryThread, world, history, Push, Ask, OnThread, Reread, Waiting, Owed, ContextBusy, TypedViews,
       ChannelViews, SearchViews, ContextViews, ThreadViews, IInv
  <2>3. ContextBusy' /\ "context" \notin missed' => Owed("context", context.request)'
    BY <1>1, <1>2 DEF RetryThread, world, history, Push, Ask, OnThread, Reread, Waiting, Owed, ContextBusy, TypedViews,
       ChannelViews, SearchViews, ContextViews, ThreadViews, IInv
  <2>4. thread'.open /\ thread'.loading /\ up' => Owed("thread", thread.request)'
    BY <1>1, <1>2 DEF RetryThread, world, history, Push, Ask, OnThread, Reread, Waiting, Owed, ContextBusy, TypedViews,
       ChannelViews, SearchViews, ContextViews, ThreadViews, IInv
  <2> QED BY <2>1, <2>2, <2>3, <2>4 DEF Waiting
<1> QED BY <1>3, <1>4, <1>5, <1>6, <1>7, <1>8, <1>9 DEF IInv

LEMMA OpenReaderKeeps ==
  ASSUME IInv, NEW m \in Messages, OpenReader(m)
  PROVE IInv'
<1>1. UnderWay' = UnderWay
  BY DEF OpenReader, world, history, OnContext, OnThread, OnChannel, UnderWay
<1>2. request' \in Nat /\ request <= request' /\ UNCHANGED world
  BY DEF OpenReader, world, history, OnContext, OnThread, OnChannel, IInv, TypedWorld
<1>3. TypedWorld' /\ Results' /\ FeedOrder' /\ Past' = Past
  BY <1>2, UserFrame DEF IInv
<1>4. TypedLines'
  BY <1>1, <1>2, <1>3 DEF TypedLines, world, IInv, OpenReader
<1>5. TypedViews'
  <2>1. channel' \in ChannelViews'
    BY <1>3 DEF OpenReader, world, history, OnContext, OnThread, OnChannel, TypedViews, ChannelViews, IInv
  <2>2. search' \in SearchViews'
    BY <1>3 DEF OpenReader, world, history, OnContext, OnThread, OnChannel, TypedViews, SearchViews, IInv
  <2>3. context' \in ContextViews'
    BY <1>2, <1>3 DEF OpenReader, world, history, OnContext, OnThread, OnChannel, TypedViews, SearchViews, ContextViews, ThreadViews, IInv
  <2>4. thread' \in ThreadViews'
    BY <1>2, <1>3, RootsAreNat DEF OpenReader, world, history, OnContext, OnThread, OnChannel, TypedViews, TypedWorld, ThreadViews, IInv
  <2>5. reader' \in Readers'
    BY <1>3 DEF OpenReader, world, history, OnContext, OnThread, OnChannel, TypedViews, ChannelViews, ContextViews, ThreadViews, Readers, IInv
  <2> QED BY <2>1, <2>2, <2>3, <2>4, <2>5 DEF TypedViews
<1>9. Layers' /\ ThreadIsOne'
  BY DEF OpenReader, world, history, OnContext, OnThread, OnChannel, TypedViews, Layers, ThreadIsOne, OfThread, SearchViews, ContextViews, ThreadViews, IInv
<1>6. Numbers'
  BY <1>1, <1>2 DEF OpenReader, world, history, OnContext, OnThread, OnChannel, Numbers, WellFormed, ForContext, ForThread, TypedViews,
     ContextViews, ThreadViews, TypedWorld, IInv
<1>7. Gone'
  BY <1>2, <1>3, PastFacts DEF OpenReader, world, history, OnContext, OnThread, OnChannel, Gone, TypedViews, TypedWorld,
     ChannelViews, SearchViews, ContextViews, ThreadViews, Readers, IInv
<1>8. Waiting'
  BY <1>1, <1>2 DEF OpenReader, world, history, OnContext, OnThread, OnChannel, Waiting, Owed, ContextBusy, TypedViews,
     ChannelViews, SearchViews, ContextViews, ThreadViews, IInv
<1> QED BY <1>3, <1>4, <1>5, <1>6, <1>7, <1>8, <1>9 DEF IInv

LEMMA CloseReaderKeeps ==
  ASSUME IInv, CloseReader
  PROVE IInv'
<1>1. UnderWay' = UnderWay
  BY DEF CloseReader, world, history, Reading, UnderWay
<1>2. request' \in Nat /\ request <= request' /\ UNCHANGED world
  BY DEF CloseReader, world, history, Reading, IInv, TypedWorld
<1>3. TypedWorld' /\ Results' /\ FeedOrder' /\ Past' = Past
  BY <1>2, UserFrame DEF IInv
<1>4. TypedLines'
  BY <1>1, <1>2, <1>3 DEF TypedLines, world, IInv, CloseReader
<1>5. TypedViews'
  <2>1. channel' \in ChannelViews'
    BY <1>3 DEF CloseReader, world, history, Reading, TypedViews, ChannelViews, IInv
  <2>2. search' \in SearchViews'
    BY <1>3 DEF CloseReader, world, history, Reading, TypedViews, SearchViews, IInv
  <2>3. context' \in ContextViews'
    BY <1>2, <1>3 DEF CloseReader, world, history, Reading, TypedViews, SearchViews, ContextViews, ThreadViews, IInv
  <2>4. thread' \in ThreadViews'
    BY <1>2, <1>3, RootsAreNat DEF CloseReader, world, history, Reading, TypedViews, TypedWorld, ThreadViews, IInv
  <2>5. reader' \in Readers'
    BY <1>3 DEF CloseReader, world, history, Reading, TypedViews, ChannelViews, ContextViews, ThreadViews, Readers, IInv
  <2> QED BY <2>1, <2>2, <2>3, <2>4, <2>5 DEF TypedViews
<1>9. Layers' /\ ThreadIsOne'
  BY DEF CloseReader, world, history, Reading, TypedViews, Layers, ThreadIsOne, OfThread, SearchViews, ContextViews, ThreadViews, IInv
<1>6. Numbers'
  BY <1>1, <1>2 DEF CloseReader, world, history, Reading, Numbers, WellFormed, ForContext, ForThread, TypedViews,
     ContextViews, ThreadViews, TypedWorld, IInv
<1>7. Gone'
  BY <1>2, <1>3, PastFacts DEF CloseReader, world, history, Reading, Gone, TypedViews, TypedWorld,
     ChannelViews, SearchViews, ContextViews, ThreadViews, Readers, IInv
<1>8. Waiting'
  BY <1>1, <1>2 DEF CloseReader, world, history, Reading, Waiting, Owed, ContextBusy, TypedViews,
     ChannelViews, SearchViews, ContextViews, ThreadViews, IInv
<1> QED BY <1>3, <1>4, <1>5, <1>6, <1>7, <1>8, <1>9 DEF IInv

-----------------------------------------------------------------------------
(* The command pump.                                                       *)

LEMMA EndsAreParts ==
  ASSUME NEW S, NEW n
  PROVE Newest(S, n) \subseteq S /\ Oldest(S, n) \subseteq S
BY DEF Newest, Oldest

LEMMA PageIsReliable ==
  ASSUME TypedWorld, NEW c
  PROVE /\ Page(c).rows \subseteq Past /\ Page(c).cut \in BOOLEAN
        /\ c.on = "thread" => OfThread(Page(c).rows, c.of)
<1> DEFINE among == IF c.on = "thread" THEN Replies(c.of) ELSE There
           older == {m \in among : m <= c.cursor}
           newer == {m \in among : m >= c.cursor}
<1>1. /\ Newest(older, PageSize) \subseteq among /\ Oldest(newer, PageSize) \subseteq among
  BY EndsAreParts
<1>2. among \subseteq Past /\ (c.on = "thread" => OfThread(among, c.of))
  BY PastFacts DEF Replies, OfThread
<1>3. Page(c).rows \subseteq among /\ Page(c).cut \in BOOLEAN
  <2>1. CASE c.way = "older"
    <3>1. Page(c) = [rows |-> Newest(older, PageSize), cut |-> Cardinality(older) >= PageSize]
      BY <2>1, Zenon DEF Page
    <3> HIDE DEF among, older, newer
    <3> QED BY <1>1, <3>1
  <2>2. CASE c.way # "older"
    <3>1. Page(c) = [rows |-> Oldest(newer, PageSize), cut |-> Cardinality(newer) > PageSize]
      BY <2>2, Zenon DEF Page
    <3> HIDE DEF among, older, newer
    <3> QED BY <1>1, <3>1
  <2> QED BY <2>1, <2>2
<1> QED BY <1>2, <1>3 DEF OfThread

LEMMA WindowIsPart ==
  ASSUME NEW S, NEW n
  PROVE Window(S, n).rows \subseteq S /\ Window(S, n).cut \in BOOLEAN
BY EndsAreParts DEF Window

LEMMA ThreadReadIsReliable ==
  ASSUME TypedWorld, NEW root \in There
  PROVE /\ ThreadRead(root).rows \subseteq Past /\ ThreadRead(root).cut \in BOOLEAN
        /\ OfThread(ThreadRead(root).rows, root)
<1> DEFINE read == Window(Replies(root), ThreadLimit)
<1>1. /\ read.rows \subseteq Replies(root) /\ read.cut \in BOOLEAN
  BY WindowIsPart
<1>2. /\ ThreadRead(root).rows = read.rows \cup {root} /\ ThreadRead(root).cut = read.cut
  BY DEF ThreadRead, Window
<1> QED BY <1>1, <1>2, PastFacts DEF Replies, OfThread

LEMMA AroundIsReliable ==
  ASSUME TypedWorld, NEW target \in There
  PROVE /\ Around(target).rows \subseteq Past
        /\ Around(target).before \in BOOLEAN /\ Around(target).after \in BOOLEAN
<1> DEFINE until == {m \in There : m <= target}
           since == {m \in There : m >= target}
<1>1. Newest(until \ {target}, Radius) \subseteq There /\ Oldest(since, Radius) \subseteq There
  BY EndsAreParts
<1>2. /\ Around(target).rows =
           Newest(until \ {target}, Radius) \cup {target} \cup (Oldest(since, Radius) \ {target})
      /\ Around(target).before \in BOOLEAN /\ Around(target).after \in BOOLEAN
  BY DEF Around
<1> QED BY <1>1, <1>2, PastFacts

\* Whatever is read is of the conversation, and of the thread it was asked of.
LEMMA ReadIsReliable ==
  ASSUME TypedWorld, NEW c, WellFormed(c), ~Refused(c), NEW a,
         a = [ask |-> c, ok |-> TRUE, read |-> Read(c), upto |-> stored]
  PROVE Reliable(a)
<1>1. a.ok = TRUE /\ a.ask = c /\ a.read = Read(c) /\ a.upto \in Nat
  BY PastFacts
<1>2. CASE c.op = "page"
  <2>1. Read(c) = Page(c)
    BY <1>2 DEF Read
  <2> QED BY <1>1, <1>2, <2>1, PageIsReliable DEF Reliable
<1>3. CASE c.op = "context"
  <2>1. Read(c) = Around(c.of) /\ c.of \in There /\ c.on = "context"
    BY <1>3 DEF Read, Refused, WellFormed
  <2> QED BY <1>1, <1>3, <2>1, AroundIsReliable DEF Reliable
<1>4. CASE c.op = "search"
  <2>1. Read(c) = [rows |-> There \cap Found[c.of]] /\ c.on = "search"
    BY <1>4 DEF Read, WellFormed
  <2> QED BY <1>1, <1>4, <2>1, PastFacts DEF Reliable
<1>5. CASE c.op \in {"open", "newest", "thread"} /\ c.on = "thread"
  <2>1. Read(c) = ThreadRead(c.of) /\ c.of \in There
    BY <1>5 DEF Read, Refused, WellFormed
  <2> QED BY <1>1, <1>5, <2>1, ThreadReadIsReliable DEF Reliable
<1>6. CASE c.op \in {"open", "newest", "thread"} /\ c.on # "thread"
  <2>1. Read(c) = Window(There, HistoryLimit)
    BY <1>6 DEF Read
  <2> QED BY <1>1, <1>6, <2>1, WindowIsPart, PastFacts DEF Reliable
<1> QED BY <1>2, <1>3, <1>4, <1>5, <1>6 DEF WellFormed

LEMMA RunCommandKeeps ==
  ASSUME IInv, RunCommand
  PROVE IInv'
<1> DEFINE c == Head(queue)
<1>1. PICK a : /\ a.ask = c /\ answers' = Append(answers, a)
              /\ \/ ~Refused(c) /\ a = [ask |-> c, ok |-> TRUE, read |-> Read(c), upto |-> stored]
                 \/ a = [ask |-> c, ok |-> FALSE]
  BY DEF RunCommand
<1>2. /\ queue' \in Seq(ToSet(queue')) /\ answers' \in Seq(ToSet(answers'))
      /\ ToSet(answers') = ToSet(answers) \cup {a}
      /\ UnderWay' = UnderWay /\ c \in UnderWay
  BY <1>1, Ran DEF RunCommand, IInv
<1>3. /\ UNCHANGED <<stored, erased, feed, up, deleted, channel, search, context, thread, reader>>
      /\ UNCHANGED <<request, missed>>
  BY DEF RunCommand, views, history
<1>4. Past' = Past
  BY <1>3 DEF Past
<1>5. Reliable(a)
  <2>1. WellFormed(c)
    BY <1>2 DEF Numbers, IInv
  <2>2. CASE a = [ask |-> c, ok |-> FALSE]
    BY <2>2 DEF Reliable
  <2> QED BY <1>1, <2>1, <2>2, ReadIsReliable DEF IInv
<1>6. Results'
  BY <1>2, <1>4, <1>5 DEF Results, Reliable, IInv
<1>7. TypedWorld' /\ TypedViews' /\ TypedLines' /\ Layers' /\ ThreadIsOne'
  BY <1>2, <1>3, <1>4 DEF TypedWorld, TypedViews, TypedLines, Layers, ThreadIsOne, IInv,
     ChannelViews, SearchViews, ContextViews, ThreadViews, Readers
<1>8. Numbers' /\ Waiting'
  BY <1>2, <1>3 DEF Numbers, ForContext, ForThread, Waiting, Owed, ContextBusy, IInv
<1>9. FeedOrder' /\ Gone'
  BY <1>3 DEF FeedOrder, Gone, IInv
<1> QED BY <1>6, <1>7, <1>8, <1>9 DEF IInv

-----------------------------------------------------------------------------
(* The answers.                                                            *)

\* What every handler of an answer knows of it.
LEMMA AnswerFacts ==
  ASSUME IInv, NEW on, Answered(on), NEW a, a = Head(answers)
  PROVE /\ a \in ToSet(answers) /\ Reliable(a)
        /\ a.ask \in UnderWay /\ a.ask.on = on
        /\ WellFormed(a.ask) /\ ForContext(a.ask) /\ ForThread(a.ask)
<1>1. a \in ToSet(answers) /\ a.ask \in UnderWay /\ a.ask.on = on
  BY Took DEF IInv
<1> QED BY <1>1 DEF Results, Numbers, IInv

\* What the answers leave alone.
LEMMA AnswerFrame ==
  ASSUME IInv, NEW on, Answered(on), UNCHANGED quiet
  PROVE TypedWorld /\ Past' = Past /\ Results' /\ FeedOrder'
        /\ UNCHANGED <<stored, erased, feed, up, deleted, reader>>
<1>1. UNCHANGED <<stored, erased, feed, up, deleted, reader>>
  BY DEF quiet
<1>2. Past' = Past
  BY <1>1 DEF Past
<1>3. ToSet(answers') \subseteq ToSet(answers)
  BY Took DEF IInv
<1>4. Results'
  BY <1>2, <1>3 DEF Results, Reliable, IInv
<1>5. FeedOrder'
  BY <1>1 DEF FeedOrder, IInv
<1> QED BY <1>1, <1>2, <1>4, <1>5 DEF IInv

LEMMA KeptFacts ==
  ASSUME NEW rows \in SUBSET Past
  PROVE Kept(rows) \in SUBSET Past /\ Kept(rows) \cap deleted = {} /\ Kept(rows) \subseteq rows
BY DEF Kept

LEMMA ChannelAfterKeeps ==
  ASSUME IInv, NEW a, Reliable(a), WellFormed(a.ask), a.ask.on = "channel"
  PROVE /\ ChannelAfter(a) \in ChannelViews /\ ChannelAfter(a).rows \cap deleted = {}
        /\ ChannelAfter(a).away = channel.away
        /\ ChannelAfter(a).loading => channel.away
<1>1. channel \in ChannelViews /\ channel.rows \cap deleted = {} /\ a.ok \in BOOLEAN
  BY DEF TypedViews, Gone, Reliable, IInv
<1>2. a.ask.op \in {"open", "newest", "page"}
  BY DEF WellFormed
<1>3. CASE ~a.ok
  BY <1>1, <1>3 DEF ChannelAfter, ChannelViews
<1>4. CASE a.ok
  <2> DEFINE got == Kept(a.read.rows)
             window == got \cup ((channel.rows \cap channel.live) \ a.read.rows)
  <2>1. a.read.cut \in BOOLEAN /\ got \in SUBSET Past /\ got \cap deleted = {}
    BY <1>2, <1>4, KeptFacts DEF Reliable
  <2>2. window \in SUBSET Past /\ window \cap deleted = {}
    BY <1>1, <2>1 DEF ChannelViews
  <2>3. CASE a.ask.op = "open"
    <3>1. ChannelAfter(a) =
            [channel EXCEPT !.rows = window, !.live = (@ \ a.read.rows) \cap window,
              !.older = FALSE, !.loading = FALSE]
      BY <1>4, <2>3 DEF ChannelAfter
    <3>2. (channel.live \ a.read.rows) \cap window \in SUBSET Past
      BY <2>2
    <3> HIDE DEF got, window
    <3> QED BY <1>1, <2>2, <3>1, <3>2 DEF ChannelViews
  <2>4. CASE a.ask.op = "newest"
    <3>1. ChannelAfter(a) =
            [channel EXCEPT !.rows = window, !.older = ~a.read.cut, !.loading = FALSE]
      BY <1>4, <2>4 DEF ChannelAfter
    <3> HIDE DEF got, window
    <3> QED BY <1>1, <2>1, <2>2, <3>1 DEF ChannelViews
  <2>5. CASE a.ask.op = "page"
    <3>1. ChannelAfter(a) =
            [channel EXCEPT !.rows = @ \cup got, !.older = @ \/ ~a.read.cut,
              !.loading = FALSE]
      BY <1>4, <2>5 DEF ChannelAfter
    <3>2. channel.rows \cup got \in SUBSET Past /\ (channel.rows \cup got) \cap deleted = {}
      BY <1>1, <2>1 DEF ChannelViews
    <3> HIDE DEF got, window
    <3> QED BY <1>1, <2>1, <3>1, <3>2 DEF ChannelViews
  <2> QED BY <1>2, <2>3, <2>4, <2>5
<1> QED BY <1>1, <1>3, <1>4

LEMMA SearchAfterKeeps ==
  ASSUME IInv, NEW a, Reliable(a)
  PROVE /\ SearchAfter(a) \in SearchViews /\ SearchAfter(a).hits \cap deleted = {}
        /\ SearchAfter(a).open = search.open /\ ~SearchAfter(a).loading
<1>1. search \in SearchViews /\ search.hits \cap deleted = {} /\ a.ok \in BOOLEAN
  BY DEF TypedViews, Gone, Reliable, IInv
<1>2. a.ok => Kept(a.read.rows) \in SUBSET Past /\ Kept(a.read.rows) \cap deleted = {}
  BY KeptFacts DEF Reliable
<1> QED BY <1>1, <1>2 DEF SearchAfter, SearchViews

LEMMA ContextAfterKeeps ==
  ASSUME IInv, NEW a, Reliable(a), WellFormed(a.ask), ForContext(a.ask),
         a.ask.on = "context", a.ask.request = context.request
  PROVE /\ ContextAfter(a) \in ContextViews
        /\ ContextAfter(a).open = context.open /\ ContextAfter(a).request = context.request
        /\ ~ContextAfter(a).loading /\ ~ContextAfter(a).older /\ ~ContextAfter(a).newer
        /\ context.rows \cap deleted = {} => ContextAfter(a).rows \cap deleted = {}
<1>1. context \in ContextViews /\ a.ok \in BOOLEAN
  BY DEF TypedViews, Reliable, IInv
<1>2. /\ a.ask.op \in {"context", "newest", "page"}
      /\ a.ask.op = "page" => a.ask.way \in {"older", "newer"}
      /\ context.loading => a.ask.op # "page"
      /\ context.older => a.ask.op = "page" /\ a.ask.way = "older"
      /\ context.newer => a.ask.op = "page" /\ a.ask.way = "newer"
  BY DEF WellFormed, ForContext
<1>3. CASE ~a.ok
  <2>1. CASE a.ask.op = "page" /\ a.ask.way = "older"
    <3>1. ContextAfter(a) = [context EXCEPT !.older = FALSE]
      BY <1>3, <2>1 DEF ContextAfter
    <3> QED BY <1>1, <1>2, <2>1, <3>1 DEF ContextViews
  <2>2. CASE a.ask.op = "page" /\ a.ask.way = "newer"
    <3>1. ContextAfter(a) = [context EXCEPT !.newer = FALSE]
      BY <1>3, <2>2 DEF ContextAfter
    <3> QED BY <1>1, <1>2, <2>2, <3>1 DEF ContextViews
  <2>3. CASE a.ask.op # "page"
    <3>1. ContextAfter(a) = [context EXCEPT !.loading = FALSE]
      BY <1>3, <2>3 DEF ContextAfter
    <3> QED BY <1>1, <1>2, <2>3, <3>1 DEF ContextViews
  <2> QED BY <1>2, <2>1, <2>2, <2>3
<1>4. CASE a.ok
  <2> DEFINE got == Kept(a.read.rows)
             idle == [context EXCEPT !.loading = FALSE, !.older = FALSE, !.newer = FALSE]
  <2>1. got \in SUBSET Past /\ got \cap deleted = {} /\ a.upto \in Nat
    BY <1>4, KeptFacts DEF Reliable
  <2>5. /\ idle \in ContextViews /\ idle.open = context.open /\ idle.request = context.request
        /\ ~idle.loading /\ ~idle.older /\ ~idle.newer /\ idle.rows = context.rows
    BY <1>1 DEF ContextViews
  <2>2. CASE a.ask.op = "context"
    <3>1. a.read.before \in BOOLEAN /\ a.read.after \in BOOLEAN
      BY <1>4, <2>2 DEF Reliable
    <3>2. CASE context.target \in deleted
      <4> DEFINE r == [context EXCEPT !.rows = {}, !.loading = FALSE]
      <4>1. ContextAfter(a) = r
        BY <1>4, <2>2, <3>2 DEF ContextAfter
      <4>2. /\ r.open = context.open /\ r.request = context.request /\ r.rows = {}
            /\ ~r.loading /\ r.older = context.older /\ r.newer = context.newer
        BY <1>1 DEF ContextViews
      <4>3. r \in ContextViews
        BY <1>1 DEF ContextViews
      <4> HIDE DEF r
      <4> QED BY <1>2, <2>2, <4>1, <4>2, <4>3
    <3>3. CASE context.target \notin deleted
      <4> DEFINE r == [idle EXCEPT !.rows = got, !.before = a.read.before,
                        !.after = a.read.after, !.upto = a.upto]
      <4>1. ContextAfter(a) = r
        BY <1>4, <2>2, <3>3 DEF ContextAfter
      <4> HIDE DEF got, idle
      <4>2. /\ r.open = idle.open /\ r.request = idle.request /\ r.rows = got
            /\ r.loading = idle.loading /\ r.older = idle.older /\ r.newer = idle.newer
        BY <2>5 DEF ContextViews
      <4>3. r \in ContextViews
        BY <2>1, <2>5, <3>1 DEF ContextViews
      <4> HIDE DEF r
      <4> QED BY <2>1, <2>5, <4>1, <4>2, <4>3
    <3> QED BY <3>2, <3>3
  <2>3. CASE a.ask.op = "newest"
    <3>1. a.read.cut \in BOOLEAN
      BY <1>4, <2>3 DEF Reliable
    <3>2. ContextAfter(a) =
            [context EXCEPT !.rows = got, !.loading = FALSE,
              !.before = ~a.read.cut, !.after = TRUE, !.upto = a.upto]
      BY <1>4, <2>3 DEF ContextAfter
    <3> HIDE DEF got
    <3> QED BY <1>1, <1>2, <2>1, <2>3, <3>1, <3>2 DEF ContextViews
  <2>4. CASE a.ask.op = "page"
    <3>1. a.read.cut \in BOOLEAN
      BY <1>4, <2>4 DEF Reliable
    <3>2. /\ context.rows \cup got \in SUBSET Past
          /\ context.rows \cap deleted = {} => (context.rows \cup got) \cap deleted = {}
      BY <1>1, <2>1 DEF ContextViews
    <3>3. CASE a.ask.way = "older"
      <4> DEFINE r == [idle EXCEPT !.rows = @ \cup got, !.before = @ \/ ~a.read.cut]
      <4>1. ContextAfter(a) = r
        BY <1>4, <2>4, <3>3 DEF ContextAfter
      <4> HIDE DEF got, idle
      <4>2. /\ r.open = idle.open /\ r.request = idle.request /\ r.rows = idle.rows \cup got
            /\ r.loading = idle.loading /\ r.older = idle.older /\ r.newer = idle.newer
        BY <2>5 DEF ContextViews
      <4>3. r \in ContextViews
        BY <2>5, <3>1, <3>2 DEF ContextViews
      <4> HIDE DEF r
      <4> QED BY <2>5, <3>2, <4>1, <4>2, <4>3
    <3>4. CASE a.ask.way # "older"
      <4> DEFINE r == [idle EXCEPT !.rows = @ \cup got, !.after = @ \/ ~a.read.cut, !.upto = a.upto]
      <4>1. ContextAfter(a) = r
        BY <1>4, <2>4, <3>4 DEF ContextAfter
      <4> HIDE DEF got, idle
      <4>2. /\ r.open = idle.open /\ r.request = idle.request /\ r.rows = idle.rows \cup got
            /\ r.loading = idle.loading /\ r.older = idle.older /\ r.newer = idle.newer
        BY <2>5 DEF ContextViews
      <4>3. r \in ContextViews
        BY <2>1, <2>5, <3>1, <3>2 DEF ContextViews
      <4> HIDE DEF r
      <4> QED BY <2>5, <3>2, <4>1, <4>2, <4>3
    <3> QED BY <3>3, <3>4
  <2> QED BY <1>2, <2>2, <2>3, <2>4
<1> QED BY <1>1, <1>3, <1>4

LEMMA ThreadAfterKeeps ==
  ASSUME IInv, NEW a, Reliable(a), WellFormed(a.ask), ForThread(a.ask),
         a.ask.on = "thread", a.ask.request = thread.request
  PROVE /\ ThreadAfter(a) \in ThreadViews
        /\ ThreadAfter(a).open = thread.open /\ ThreadAfter(a).request = thread.request
        /\ ThreadAfter(a).root = thread.root
        /\ ~ThreadAfter(a).loading /\ OfThread(ThreadAfter(a).rows, thread.root)
        /\ ThreadAfter(a).rows \cap deleted \subseteq {thread.root}
<1>1. /\ thread \in ThreadViews /\ a.ok \in BOOLEAN
      /\ OfThread(thread.rows, thread.root) /\ thread.rows \cap deleted \subseteq {thread.root}
  BY DEF TypedViews, Reliable, ThreadIsOne, Gone, IInv
<1>2. a.ask.op \in {"thread", "newest", "page"} /\ a.ask.of = thread.root
  BY DEF WellFormed, ForThread
<1>3. CASE ~a.ok
  <2>1. ThreadAfter(a) =
          [[thread EXCEPT !.loading = FALSE] EXCEPT !.failed = @ \/ a.ask.op = "thread"]
    BY <1>3 DEF ThreadAfter
  <2> QED BY <1>1, <2>1 DEF ThreadViews
<1>4. CASE a.ok
  <2> DEFINE root == thread.root
             kept == IF thread.rootGone THEN thread.rows ELSE thread.rows \cap thread.live
             more == thread.rows \cup Kept(a.read.rows)
             fresh == (a.read.rows \ (deleted \ {root})) \cup kept
             idle == [thread EXCEPT !.loading = FALSE]
  <2>1. /\ a.read.rows \in SUBSET Past /\ OfThread(a.read.rows, root)
        /\ a.read.cut \in BOOLEAN
    BY <1>2, <1>4 DEF Reliable
  <2>2. /\ Kept(a.read.rows) \in SUBSET Past /\ Kept(a.read.rows) \cap deleted = {}
        /\ Kept(a.read.rows) \subseteq a.read.rows
    BY <2>1, KeptFacts
  <2>3. kept \subseteq thread.rows /\ thread.rows \in SUBSET Past
    BY <1>1 DEF ThreadViews
  <2>4. more \in SUBSET Past /\ OfThread(more, root) /\ more \cap deleted \subseteq {root}
    BY <1>1, <2>1, <2>2, <2>3 DEF OfThread
  <2>5. fresh \in SUBSET Past /\ OfThread(fresh, root) /\ fresh \cap deleted \subseteq {root}
    <3> HIDE DEF kept, root
    <3>1. OfThread(thread.rows, root) /\ thread.rows \cap deleted \subseteq {root}
      BY <1>1 DEF root
    <3> QED BY <2>1, <2>3, <3>1 DEF OfThread
  <2>8. /\ idle \in ThreadViews /\ idle.open = thread.open /\ idle.request = thread.request
        /\ idle.root = thread.root /\ ~idle.loading
        /\ idle.rows = thread.rows /\ idle.live = thread.live
    BY <1>1 DEF ThreadViews
  <2>6. CASE a.ask.op = "page"
    <3>1. ThreadAfter(a) =
            [idle EXCEPT !.rows = more, !.wanted = @ /\ ~(thread.entered \in more),
              !.older = @ \/ ~a.read.cut]
      BY <1>4, <2>6 DEF ThreadAfter
    <3> HIDE DEF more
    <3> QED BY <1>1, <2>1, <2>4, <3>1 DEF ThreadViews
  <2>7. CASE a.ask.op # "page"
    <3>1. ThreadAfter(a) =
            [idle EXCEPT !.rows = fresh, !.live = @ \cap fresh, !.loaded = TRUE,
              !.stale = FALSE, !.failed = FALSE, !.wanted = ~(thread.entered \in fresh),
              !.older = ~a.read.cut, !.rootGone = @ \/ root \in deleted]
      BY <1>4, <2>7 DEF ThreadAfter
    <3>2. idle.live \cap fresh \in SUBSET Past
      BY <2>5
    <3> HIDE DEF fresh, idle
    <3> QED BY <2>1, <2>5, <2>8, <3>1, <3>2 DEF ThreadViews
  <2> QED BY <2>6, <2>7
<1> QED BY <1>1, <1>3, <1>4

LEMMA TakeChannelKeeps ==
  ASSUME IInv, TakeChannel
  PROVE IInv'
<1> DEFINE a == Head(answers)
<1>1. Answered("channel") /\ UNCHANGED quiet
  BY DEF TakeChannel
<1>2. /\ TypedWorld /\ Past' = Past /\ Results' /\ FeedOrder'
      /\ UNCHANGED <<stored, erased, feed, up, deleted, reader>>
  BY <1>1, AnswerFrame
<1>3. Reliable(a) /\ WellFormed(a.ask) /\ a.ask.on = "channel"
  BY <1>1, AnswerFacts
<1>4. /\ channel' \in ChannelViews /\ channel'.rows \cap deleted = {}
      /\ channel'.away = channel.away /\ (channel'.loading => channel.away)
  BY <1>3, ChannelAfterKeeps DEF TakeChannel
<1>5. UNCHANGED <<search, context, thread, request, queue, missed>>
  BY DEF TakeChannel
<1>6. /\ answers' \in Seq(ToSet(answers')) /\ UnderWay' \subseteq UnderWay
      /\ \A c \in UnderWay : c.on # "channel" => c \in UnderWay'
  BY <1>1, <1>3, <1>5, Took DEF IInv
<1>7. TypedWorld' /\ TypedViews' /\ TypedLines' /\ Layers' /\ ThreadIsOne'
  BY <1>2, <1>4, <1>5, <1>6 DEF TypedWorld, TypedViews, TypedLines, Layers, ThreadIsOne, IInv,
     ChannelViews, SearchViews, ContextViews, ThreadViews, Readers
<1>8. Numbers'
  BY <1>5, <1>6 DEF Numbers, ForContext, ForThread, IInv
<1>9. Gone'
  BY <1>2, <1>4, <1>5 DEF Gone, IInv
<1>10. Waiting'
  BY <1>2, <1>4, <1>5, <1>6 DEF Waiting, Owed, ContextBusy, IInv
<1> QED BY <1>2, <1>7, <1>8, <1>9, <1>10 DEF IInv

LEMMA TakeSearchKeeps ==
  ASSUME IInv, TakeSearch
  PROVE IInv'
<1> DEFINE a == Head(answers)
<1>1. Answered("search") /\ UNCHANGED quiet
  BY DEF TakeSearch
<1>2. /\ TypedWorld /\ Past' = Past /\ Results' /\ FeedOrder'
      /\ UNCHANGED <<stored, erased, feed, up, deleted, reader>>
  BY <1>1, AnswerFrame
<1>3. Reliable(a) /\ WellFormed(a.ask) /\ a.ask.on = "search"
  BY <1>1, AnswerFacts
<1>4. UNCHANGED <<channel, context, thread, request, queue>>
  BY DEF TakeSearch
<1>5. /\ search' \in SearchViews /\ search'.hits \cap deleted = {}
      /\ search'.open = search.open
      /\ "context" \notin missed' => "context" \notin missed
      /\ search'.loading /\ "search" \notin missed' =>
           /\ search.loading /\ "search" \notin missed
           /\ search'.request = search.request /\ a.ask.request # search.request
  <2>1. search \in SearchViews /\ search.hits \cap deleted = {}
    BY DEF TypedViews, Gone, IInv
  <2>2. missed' = missed \cup Hidden(a, search)
    BY DEF TakeSearch
  <2>3. CASE Fits(a, search)
    <3>1. search' = SearchAfter(a)
      BY <2>3 DEF TakeSearch
    <3> QED BY <1>3, <2>2, <3>1, SearchAfterKeeps
  <2>4. CASE ~Fits(a, search)
    <3>1. search' = search
      BY <2>4 DEF TakeSearch
    <3> QED BY <1>3, <2>1, <2>2, <2>4, <3>1 DEF Fits, Hidden
  <2> QED BY <2>3, <2>4
<1>6. /\ answers' \in Seq(ToSet(answers')) /\ UnderWay' \subseteq UnderWay
      /\ \A c \in UnderWay :
           c.on # "search" \/ c.request # a.ask.request => c \in UnderWay'
  BY <1>1, <1>3, <1>4, Took DEF IInv
<1>7. TypedWorld' /\ TypedViews' /\ TypedLines' /\ Layers' /\ ThreadIsOne'
  BY <1>2, <1>4, <1>5, <1>6 DEF TypedWorld, TypedViews, TypedLines, Layers, ThreadIsOne, IInv,
     ChannelViews, SearchViews, ContextViews, ThreadViews, Readers
<1>8. Numbers'
  BY <1>4, <1>6 DEF Numbers, ForContext, ForThread, IInv
<1>9. Gone'
  <2>1. missed \subseteq missed'
    BY DEF TakeSearch
  <2> QED BY <1>2, <1>4, <1>5, <2>1 DEF Gone, IInv
<1>10. Waiting'
  BY <1>2, <1>4, <1>5, <1>6 DEF Waiting, Owed, ContextBusy, IInv
<1> QED BY <1>2, <1>7, <1>8, <1>9, <1>10 DEF IInv

LEMMA TakeContextKeeps ==
  ASSUME IInv, TakeContext
  PROVE IInv'
<1> DEFINE a == Head(answers)
<1>1. Answered("context") /\ UNCHANGED quiet
  BY DEF TakeContext
<1>2. /\ TypedWorld /\ Past' = Past /\ Results' /\ FeedOrder'
      /\ UNCHANGED <<stored, erased, feed, up, deleted, reader>>
  BY <1>1, AnswerFrame
<1>3. /\ Reliable(a) /\ WellFormed(a.ask) /\ ForContext(a.ask) /\ a.ask.on = "context"
  BY <1>1, AnswerFacts
<1>4. UNCHANGED <<channel, search, thread, request, queue>>
  BY DEF TakeContext
<1>5. /\ context' \in ContextViews
      /\ context'.open = context.open /\ context'.request = context.request
      /\ \/ context' = context
         \/ ~context'.loading /\ ~context'.older /\ ~context'.newer
      /\ context.rows \cap deleted = {} => context'.rows \cap deleted = {}
      /\ missed \subseteq missed'
      /\ "search" \notin missed' => "search" \notin missed
      /\ ContextBusy' /\ "context" \notin missed' =>
           context' = context /\ a.ask.request # context.request
  <2>1. context \in ContextViews
    BY DEF TypedViews, IInv
  <2>2. missed' = missed \cup Hidden(a, context)
    BY DEF TakeContext
  <2>3. CASE Fits(a, context)
    <3>1. context' = ContextAfter(a)
      BY <2>3 DEF TakeContext
    <3>2. a.ask.request = context.request
      BY <2>3 DEF Fits
    <3>3. /\ ContextAfter(a) \in ContextViews
          /\ ContextAfter(a).open = context.open /\ ContextAfter(a).request = context.request
          /\ ~ContextAfter(a).loading /\ ~ContextAfter(a).older /\ ~ContextAfter(a).newer
          /\ context.rows \cap deleted = {} => ContextAfter(a).rows \cap deleted = {}
      BY <1>3, <3>2, ContextAfterKeeps
    <3> HIDE DEF a
    <3> QED BY <2>2, <3>1, <3>3 DEF ContextBusy
  <2>4. CASE ~Fits(a, context)
    <3>1. context' = context
      BY <2>4 DEF TakeContext
    <3> QED BY <1>3, <2>1, <2>2, <2>4, <3>1 DEF Fits, Hidden, ContextBusy
  <2> QED BY <2>3, <2>4
<1>6. /\ answers' \in Seq(ToSet(answers')) /\ UnderWay' \subseteq UnderWay
      /\ \A c \in UnderWay :
           c.on # "context" \/ c.request # a.ask.request => c \in UnderWay'
  BY <1>1, <1>3, <1>4, Took DEF IInv
<1>7. TypedWorld' /\ TypedViews' /\ TypedLines' /\ Layers' /\ ThreadIsOne'
  BY <1>2, <1>4, <1>5, <1>6 DEF TypedWorld, TypedViews, TypedLines, Layers, ThreadIsOne, IInv,
     ChannelViews, SearchViews, ContextViews, ThreadViews, Readers
<1>8. Numbers'
  BY <1>4, <1>5, <1>6 DEF Numbers, ForContext, ForThread, IInv
<1>9. Gone'
  BY <1>2, <1>4, <1>5 DEF Gone, IInv
<1>10. Waiting'
  <2>1. context' = context => ContextBusy' = ContextBusy
    BY DEF ContextBusy
  <2> QED BY <1>2, <1>4, <1>5, <1>6, <2>1 DEF Waiting, Owed, IInv
<1> QED BY <1>2, <1>7, <1>8, <1>9, <1>10 DEF IInv

LEMMA TakeThreadKeeps ==
  ASSUME IInv, TakeThread
  PROVE IInv'
<1> DEFINE a == Head(answers)
           t == ThreadAfter(a)
<1>1. Answered("thread") /\ UNCHANGED quiet
  BY DEF TakeThread
<1>2. /\ TypedWorld /\ Past' = Past /\ Results' /\ FeedOrder'
      /\ UNCHANGED <<stored, erased, feed, up, deleted, reader>>
  BY <1>1, AnswerFrame
<1>3. Reliable(a) /\ WellFormed(a.ask) /\ ForThread(a.ask) /\ a.ask.on = "thread"
  BY <1>1, AnswerFacts
<1>4. UNCHANGED <<channel, search, context, missed>>
  BY DEF TakeThread
<1>5. Fits(a, thread) =>
        /\ t \in ThreadViews /\ t.open = thread.open /\ t.request = thread.request
        /\ t.root = thread.root /\ ~t.loading /\ OfThread(t.rows, thread.root)
        /\ t.rows \cap deleted \subseteq {thread.root}
  BY <1>3, ThreadAfterKeeps DEF Fits
<1>6. /\ thread \in ThreadViews /\ OfThread(thread.rows, thread.root)
      /\ thread.rows \cap deleted \subseteq {thread.root} /\ request \in Nat
      /\ thread.request <= request /\ context.request <= request /\ context.request \in Nat
      /\ up \in BOOLEAN
  BY DEF TypedViews, TypedWorld, ThreadIsOne, Gone, Numbers, ContextViews, IInv
<1>7. CASE /\ UNCHANGED <<request, queue>> /\ thread' \in ThreadViews
           /\ thread'.root = thread.root /\ thread'.request = thread.request
           /\ OfThread(thread'.rows, thread.root)
           /\ thread'.rows \cap deleted \subseteq {thread.root}
           /\ thread'.open /\ thread'.loading =>
                thread.open /\ thread.loading /\ a.ask.request # thread.request
           /\ thread'.open = thread.open
  <2>1. /\ answers' \in Seq(ToSet(answers')) /\ UnderWay' \subseteq UnderWay
        /\ \A c \in UnderWay :
             c.on # "thread" \/ c.request # a.ask.request => c \in UnderWay'
    BY <1>1, <1>3, <1>7, Took DEF IInv
  <2> HIDE DEF a, t
  <2>2. TypedWorld' /\ TypedViews' /\ TypedLines' /\ Layers' /\ ThreadIsOne'
    BY <1>2, <1>4, <1>7, <2>1 DEF TypedWorld, TypedViews, TypedLines, Layers, ThreadIsOne, IInv,
       ChannelViews, SearchViews, ContextViews, ThreadViews, Readers
  <2>3. Numbers'
    BY <1>4, <1>7, <2>1 DEF Numbers, ForContext, ForThread, IInv
  <2>4. Gone'
    BY <1>2, <1>4, <1>7 DEF Gone, IInv
  <2>5. Waiting'
    BY <1>2, <1>4, <1>7, <2>1 DEF Waiting, Owed, ContextBusy, IInv
  <2> QED BY <1>2, <2>2, <2>3, <2>4, <2>5 DEF IInv
<1>8. CASE Fits(a, thread) /\ ThreadPage(t)
  <2> DEFINE c == Ask("page", "thread", t.root, "older", Min(t.rows \ {Min(t.rows)}), request')
  <2>1. /\ thread' = [t EXCEPT !.loading = TRUE, !.request = request']
        /\ request' = request + 1 /\ Push(c)
    BY <1>8 DEF ThreadPage
  <2>2. /\ answers' \in Seq(ToSet(answers')) /\ c \in UnderWay'
        /\ UnderWay' \subseteq UnderWay \cup {c}
        /\ \A d \in UnderWay : d.on # "thread" => d \in UnderWay'
    BY <1>1, <1>3, <2>1, Took DEF IInv
  <2>3. queue' \in Seq(ToSet(queue'))
    BY <2>1, SetOfAppend DEF Push, TypedLines, IInv
  <2>4. /\ c.op = "page" /\ c.on = "thread" /\ c.of = thread.root /\ c.request = request'
    BY <1>5, <1>8 DEF Ask
  <2>5. /\ thread' \in ThreadViews /\ thread'.root = thread.root
        /\ thread'.request = request' /\ thread'.open = thread.open
        /\ OfThread(thread'.rows, thread.root)
        /\ thread'.rows \cap deleted \subseteq {thread.root}
    <3>1. /\ t \in ThreadViews /\ t.open = thread.open /\ t.root = thread.root
          /\ OfThread(t.rows, thread.root) /\ t.rows \cap deleted \subseteq {thread.root}
      BY <1>5, <1>8
    <3>2. request' \in Nat
      BY <1>6, <2>1
    <3> HIDE DEF t
    <3> QED BY <2>1, <3>1, <3>2 DEF ThreadViews
  <2> HIDE DEF a, t, c
  <2>6. TypedWorld' /\ TypedViews' /\ TypedLines' /\ Layers' /\ ThreadIsOne'
    BY <1>2, <1>4, <2>1, <2>2, <2>3, <2>5 DEF TypedWorld, TypedViews, TypedLines, Layers,
       ThreadIsOne, IInv, ChannelViews, SearchViews, ContextViews, Readers, ThreadViews
  <2>7. Numbers'
    <3>1. \A d \in UnderWay : WellFormed(d) /\ ForContext(d)' /\ ForThread(d)'
      BY <1>4, <1>6, <2>1, <2>5 DEF Numbers, ForContext, ForThread, IInv
    <3>2. ASSUME NEW d, d = c PROVE WellFormed(d) /\ ForContext(d)' /\ ForThread(d)'
      BY <1>6, <2>1, <2>4, <2>5, <3>2 DEF WellFormed, ForContext, ForThread
    <3>3. context'.request <= request' /\ thread'.request <= request'
      BY <1>4, <1>6, <2>1, <2>5
    <3>4. \A d \in UnderWay' : WellFormed(d) /\ ForContext(d)' /\ ForThread(d)'
      BY <2>2, <3>1, <3>2
    <3> QED BY <3>3, <3>4 DEF Numbers, WellFormed
  <2>8. Gone'
    BY <1>2, <1>4, <2>5 DEF Gone, IInv
  <2>9. Waiting'
    BY <1>2, <1>4, <2>2, <2>4, <2>5 DEF Waiting, Owed, ContextBusy, IInv
  <2> QED BY <1>2, <2>6, <2>7, <2>8, <2>9 DEF IInv
<1>9. \/ ~Fits(a, thread) /\ UNCHANGED <<thread, request, queue>>
      \/ Fits(a, thread) /\ ThreadPage(t)
      \/ Fits(a, thread) /\ thread' = t /\ UNCHANGED <<request, queue>>
  BY DEF TakeThread
<1>10. CASE ~Fits(a, thread) /\ UNCHANGED <<thread, request, queue>>
  BY <1>3, <1>6, <1>7, <1>10 DEF Fits
<1>11. CASE Fits(a, thread) /\ thread' = t /\ UNCHANGED <<request, queue>>
  BY <1>5, <1>7, <1>11
<1> QED BY <1>8, <1>9, <1>10, <1>11

-----------------------------------------------------------------------------
(* The live feed and the connection.                                       *)

Frames == [kind : {"post", "delete"}, of : Past]

\* What is owed and what the numbers say depend on the queues and the views.
LEMMA WorldFrame ==
  ASSUME IInv, UNCHANGED <<views, request, queue, answers, missed>>, up' => up
  PROVE UnderWay' = UnderWay /\ Layers' /\ Numbers' /\ ThreadIsOne' /\ Waiting'
<1>1. UnderWay' = UnderWay
  BY DEF UnderWay
<1>2. UNCHANGED <<channel, search, context, thread, reader>>
  BY DEF views
<1> QED BY <1>1, <1>2 DEF Layers, Numbers, ForContext, ForThread, ThreadIsOne, Waiting, Owed,
       ContextBusy, IInv

\* A new frame goes to the end of the feed, or nowhere.
LEMMA Sent ==
  ASSUME IInv, NEW f, Send(f), f \in Frames', Past \subseteq Past'
  PROVE /\ feed' \in Seq(Frames')
        /\ \A i \in DOMAIN feed' :
             \/ i \in DOMAIN feed /\ feed'[i] = feed[i]
             \/ i = Len(feed) + 1 /\ feed'[i] = f
        /\ feed \in Seq(Frames)
<1>1. feed \in Seq(Frames) /\ Frames \subseteq Frames'
  BY DEF Frames, TypedLines, IInv
<1>2. feed \in Seq(Frames')
  BY <1>1, SeqMonotonic
<1>3. feed' = feed \/ feed' = Append(feed, f)
  BY DEF Send
<1>4. CASE feed' = feed
  BY <1>1, <1>2, <1>4
<1>5. CASE feed' = Append(feed, f)
  <2>1. feed' \in Seq(Frames') /\ Len(feed') = Len(feed) + 1
    BY <1>2, <1>5
  <2>2. \A i \in 1 .. Len(feed') : feed'[i] = IF i = Len(feed) + 1 THEN f ELSE feed[i]
    BY <1>2, <1>5
  <2>3. DOMAIN feed' = 1 .. Len(feed) + 1 /\ DOMAIN feed = 1 .. Len(feed) /\ Len(feed) \in Nat
    BY <1>2, <2>1
  <2> QED BY <1>1, <2>1, <2>2, <2>3
<1> QED BY <1>3, <1>4, <1>5

LEMMA PostKeeps ==
  ASSUME IInv, Post
  PROVE IInv'
<1> DEFINE f == Frame("post", stored + 1)
<1>1. /\ stored' = stored + 1 /\ stored < MaxMessage /\ Send(f)
      /\ UNCHANGED <<erased, up, deleted, views, request, queue, answers, missed>>
      /\ UNCHANGED <<channel, search, context, thread, reader>>
  BY DEF Post, views, history
<1>2. /\ stored \in Nat /\ Past \subseteq Past' /\ stored' \in Past' /\ stored' \notin Past
      /\ stored' \in Messages
  BY <1>1, Constants DEF Past, TypedWorld, Messages, IInv
<1>3. UnderWay' = UnderWay /\ Layers' /\ Numbers' /\ ThreadIsOne' /\ Waiting'
  BY <1>1, WorldFrame
<1>4. f \in Frames' /\ f.kind = "post" /\ f.of = stored'
  BY <1>1, <1>2 DEF Frame, Frames
<1> HIDE DEF f
<1>5. /\ feed' \in Seq(Frames')
      /\ \A i \in DOMAIN feed' :
           \/ i \in DOMAIN feed /\ feed'[i] = feed[i]
           \/ i = Len(feed) + 1 /\ feed'[i] = f
      /\ feed \in Seq(Frames)
  BY <1>1, <1>2, <1>4, Sent
<1>6. TypedWorld'
  BY <1>1, <1>2 DEF TypedWorld, IInv
<1>7. TypedViews'
  <2>1. channel \in ChannelViews' /\ search \in SearchViews'
    BY <1>2 DEF TypedViews, ChannelViews, SearchViews, IInv
  <2>2. context \in ContextViews' /\ reader \in Readers'
    BY <1>2 DEF TypedViews, ContextViews, Readers, IInv
  <2>3. thread \in ThreadViews'
    BY <1>2 DEF TypedViews, ThreadViews, IInv
  <2> QED BY <1>1, <2>1, <2>2, <2>3 DEF TypedViews
<1>8. TypedLines'
  BY <1>1, <1>5 DEF TypedLines, Frames, IInv
<1>9. Results'
  BY <1>1, <1>2 DEF Results, Reliable, IInv
<1>10. FeedOrder'
  <2>1. \A i \in DOMAIN feed : feed[i] \in Frames /\ i <= Len(feed) /\ i \in Nat
    BY <1>5
  <2>2. \A i \in DOMAIN feed : feed[i].of # stored' /\ feed[i].kind \in {"post", "delete"}
    BY <1>2, <2>1 DEF Frames
  <2>3. stored' \notin deleted
    BY <1>2 DEF TypedWorld, IInv
  <2>4. \A i \in DOMAIN feed' :
         IF feed'[i].kind = "post" THEN feed'[i].of \notin deleted' ELSE feed'[i].of \in erased'
    BY <1>1, <1>4, <1>5, <2>3 DEF FeedOrder, IInv
  <2>5. ASSUME NEW i \in DOMAIN feed', NEW j \in DOMAIN feed', i < j,
               feed'[i].kind = "delete", feed'[j].kind = "post"
        PROVE feed'[i].of # feed'[j].of
    <3>1. i \in DOMAIN feed /\ feed'[i] = feed[i]
      BY <1>4, <1>5, <2>5
    <3>2. CASE j \in DOMAIN feed /\ feed'[j] = feed[j]
      BY <2>5, <3>1, <3>2 DEF FeedOrder, IInv
    <3>3. CASE feed'[j] = f
      BY <1>4, <2>2, <3>1, <3>3
    <3> QED BY <1>5, <3>2, <3>3
  <2> QED BY <2>4, <2>5 DEF FeedOrder
<1>11. Gone'
  BY <1>1 DEF Gone, IInv
<1> QED BY <1>3, <1>6, <1>7, <1>8, <1>9, <1>10, <1>11 DEF IInv

LEMMA DeleteKeeps ==
  ASSUME IInv, NEW m \in Messages, Delete(m)
  PROVE IInv'
<1> DEFINE f == Frame("delete", m)
<1>1. /\ m \in There /\ erased' = erased \cup {m} /\ Send(f)
      /\ UNCHANGED <<stored, up, deleted, views, request, queue, answers, missed>>
      /\ UNCHANGED <<channel, search, context, thread, reader>>
  BY DEF Delete, views, history
<1>2. Past' = Past /\ m \in Past
  BY <1>1 DEF Past, There
<1>3. UnderWay' = UnderWay /\ Layers' /\ Numbers' /\ ThreadIsOne' /\ Waiting'
  BY <1>1, WorldFrame
<1>4. f \in Frames' /\ f.kind = "delete" /\ f.of = m
  BY <1>2 DEF Frame, Frames
<1> HIDE DEF f
<1>5. /\ feed' \in Seq(Frames')
      /\ \A i \in DOMAIN feed' :
           \/ i \in DOMAIN feed /\ feed'[i] = feed[i]
           \/ i = Len(feed) + 1 /\ feed'[i] = f
      /\ feed \in Seq(Frames)
  BY <1>1, <1>2, <1>4, Sent
<1>6. TypedWorld'
  BY <1>1, <1>2 DEF TypedWorld, IInv
<1>7. TypedViews'
  BY <1>1, <1>2 DEF TypedViews, ChannelViews, SearchViews, ContextViews, ThreadViews, Readers, IInv
<1>8. TypedLines'
  BY <1>1, <1>5 DEF TypedLines, Frames, IInv
<1>9. Results'
  BY <1>1, <1>2 DEF Results, Reliable, IInv
<1>10. FeedOrder'
  <2>1. \A i \in DOMAIN feed : i <= Len(feed) /\ i \in Nat
    BY <1>5
  <2>2. \A i \in DOMAIN feed' :
         IF feed'[i].kind = "post" THEN feed'[i].of \notin deleted' ELSE feed'[i].of \in erased'
    BY <1>1, <1>4, <1>5 DEF FeedOrder, IInv
  <2>3. ASSUME NEW i \in DOMAIN feed', NEW j \in DOMAIN feed', i < j,
               feed'[i].kind = "delete", feed'[j].kind = "post"
        PROVE feed'[i].of # feed'[j].of
    <3>1. j \in DOMAIN feed /\ feed'[j] = feed[j] /\ j \in Nat /\ j <= Len(feed)
      BY <1>4, <1>5, <2>1, <2>3
    <3>2. i \in DOMAIN feed /\ feed'[i] = feed[i]
      BY <1>5, <2>1, <2>3, <3>1
    <3> QED BY <2>3, <3>1, <3>2 DEF FeedOrder, IInv
  <2> QED BY <2>2, <2>3 DEF FeedOrder
<1>11. Gone'
  BY <1>1 DEF Gone, IInv
<1> QED BY <1>3, <1>6, <1>7, <1>8, <1>9, <1>10, <1>11 DEF IInv

\* The frame the interface takes, and what is left of the feed.
LEMMA FrameFacts ==
  ASSUME IInv, feed # <<>>, feed' = Tail(feed)
  PROVE /\ feed' \in Seq(Frames) /\ Head(feed) \in Frames
        /\ Head(feed).kind = "post" => Head(feed).of \notin deleted
        /\ Head(feed).kind = "delete" => Head(feed).of \in erased
        /\ \A i \in DOMAIN feed' :
             /\ i \in Nat /\ i + 1 \in DOMAIN feed /\ feed'[i] = feed[i + 1]
             /\ Head(feed).kind = "delete" /\ feed'[i].kind = "post" =>
                  Head(feed).of # feed'[i].of
<1>1. feed \in Seq(Frames)
  BY DEF Frames, TypedLines, IInv
<1>2. /\ feed' \in Seq(Frames) /\ Len(feed') = Len(feed) - 1 /\ Len(feed) \in Nat \ {0}
      /\ \A i \in 1 .. Len(feed) - 1 : feed'[i] = feed[i + 1]
  BY <1>1
<1>3. /\ DOMAIN feed' = 1 .. Len(feed) - 1 /\ DOMAIN feed = 1 .. Len(feed)
      /\ Head(feed) = feed[1] /\ 1 \in DOMAIN feed
  BY <1>1, <1>2
<1>4. Head(feed) \in Frames
  BY <1>1, <1>2, <1>3
<1>5. /\ Head(feed).kind = "post" => Head(feed).of \notin deleted
      /\ Head(feed).kind = "delete" => Head(feed).of \in erased
  BY <1>3 DEF FeedOrder, IInv
<1>6. ASSUME NEW i \in DOMAIN feed'
      PROVE /\ i \in Nat /\ i + 1 \in DOMAIN feed /\ feed'[i] = feed[i + 1]
            /\ Head(feed).kind = "delete" /\ feed'[i].kind = "post" =>
                 Head(feed).of # feed'[i].of
  <2>1. i \in Nat /\ i + 1 \in DOMAIN feed /\ feed'[i] = feed[i + 1] /\ 1 < i + 1
    BY <1>2, <1>3, <1>6
  <2> QED BY <1>3, <2>1 DEF FeedOrder, IInv
<1> QED BY <1>2, <1>4, <1>5, <1>6

LEMMA TakePostKeeps ==
  ASSUME IInv, TakePost
  PROVE IInv'
<1> DEFINE m == Head(feed).of
<1>1. /\ feed # <<>> /\ feed' = Tail(feed) /\ Head(feed).kind = "post"
      /\ UNCHANGED <<stored, erased, up, deleted, search, context, reader>>
      /\ UNCHANGED <<request, queue, answers, missed>>
  BY DEF TakePost
<1>2. /\ feed' \in Seq(Frames) /\ m \in Past /\ m \notin deleted /\ Past' = Past
      /\ \A i \in DOMAIN feed' : i \in Nat /\ i + 1 \in DOMAIN feed /\ feed'[i] = feed[i + 1]
  BY <1>1, FrameFacts DEF Frames, Past
<1>3. UnderWay' = UnderWay
  BY <1>1 DEF UnderWay
<1>4. \/ channel' = channel
      \/ channel' = [channel EXCEPT !.rows = @ \cup {m}, !.live = @ \cup {m}]
  BY DEF TakePost
<1>5. \/ thread' = thread
      \/ /\ RootOf[m] = thread.root
         /\ thread' = [thread EXCEPT !.rows = @ \cup {m}, !.live = @ \cup {m}]
  BY DEF TakePost
<1> HIDE DEF m
<1>6. /\ channel' \in ChannelViews /\ channel'.rows \subseteq channel.rows \cup {m}
      /\ channel'.loading = channel.loading /\ channel'.away = channel.away
  <2>1. channel \in ChannelViews
    BY DEF TypedViews, IInv
  <2>2. CASE channel' = channel
    BY <1>2, <2>1, <2>2 DEF ChannelViews
  <2>3. CASE channel' = [channel EXCEPT !.rows = @ \cup {m}, !.live = @ \cup {m}]
    BY <1>2, <2>1, <2>3 DEF ChannelViews
  <2> QED BY <1>4, <2>2, <2>3
<1>7. /\ thread' \in ThreadViews /\ thread'.root = thread.root /\ thread'.request = thread.request
      /\ thread'.open = thread.open /\ thread'.loading = thread.loading
      /\ thread'.rows = thread.rows \/ (thread'.rows = thread.rows \cup {m} /\ RootOf[m] = thread.root)
  <2>1. thread \in ThreadViews
    BY DEF TypedViews, IInv
  <2>2. CASE thread' = thread
    BY <1>2, <2>1, <2>2 DEF ThreadViews
  <2>3. CASE /\ RootOf[m] = thread.root
             /\ thread' = [thread EXCEPT !.rows = @ \cup {m}, !.live = @ \cup {m}]
    BY <1>2, <2>1, <2>3 DEF ThreadViews
  <2> QED BY <1>5, <2>2, <2>3
<1>8. TypedWorld' /\ TypedViews' /\ TypedLines'
  BY <1>1, <1>2, <1>6, <1>7 DEF TypedWorld, TypedViews, TypedLines, Frames, IInv, ChannelViews,
     SearchViews, ContextViews, ThreadViews, Readers
<1>9. Layers' /\ ThreadIsOne' /\ Results'
  BY <1>1, <1>2, <1>7 DEF Layers, ThreadIsOne, OfThread, Results, Reliable, IInv
<1>10. Numbers' /\ Waiting'
  BY <1>1, <1>3, <1>6, <1>7 DEF Numbers, ForContext, ForThread, Waiting, Owed, ContextBusy, IInv
<1>11. FeedOrder'
  BY <1>1, <1>2 DEF FeedOrder, IInv
<1>12. Gone'
  BY <1>1, <1>2, <1>6, <1>7 DEF Gone, IInv
<1> QED BY <1>8, <1>9, <1>10, <1>11, <1>12 DEF IInv

LEMMA TakeDeleteKeeps ==
  ASSUME IInv, TakeDelete
  PROVE IInv'
<1> DEFINE m == Head(feed).of
<1>1. /\ feed # <<>> /\ feed' = Tail(feed) /\ Head(feed).kind = "delete"
      /\ deleted' = deleted \cup {m}
      /\ channel' = [channel EXCEPT !.rows = @ \ {m}]
      /\ search' = [search EXCEPT !.hits = @ \ {m}]
      /\ context' = ContextWithout(m)
      /\ thread' = ThreadWithout(m)
      /\ reader' = [reader EXCEPT !.gone = @ \/ reader.of = m]
      /\ missed' = IF context.open THEN missed ELSE missed \cup {"context"}
      /\ UNCHANGED <<stored, erased, up, request, queue, answers>>
  BY DEF TakeDelete
<1>2. /\ feed' \in Seq(Frames) /\ m \in Past /\ m \in erased /\ Past' = Past
      /\ \A i \in DOMAIN feed' :
           /\ i \in Nat /\ i + 1 \in DOMAIN feed /\ feed'[i] = feed[i + 1]
           /\ feed'[i].kind = "post" => m # feed'[i].of
  BY <1>1, FrameFacts DEF Frames, Past
<1>3. UnderWay' = UnderWay
  BY <1>1 DEF UnderWay
<1> HIDE DEF m
<1>4. /\ channel' \in ChannelViews /\ channel'.rows = channel.rows \ {m}
      /\ channel'.loading = channel.loading /\ channel'.away = channel.away
  BY <1>1, <1>2 DEF TypedViews, ChannelViews, IInv
<1>5. /\ search' \in SearchViews /\ search'.hits = search.hits \ {m} /\ search'.open = search.open
      /\ search'.loading = search.loading /\ search'.request = search.request
  BY <1>1, <1>2 DEF TypedViews, SearchViews, IInv
<1>6. /\ context' \in ContextViews /\ context'.open = context.open
      /\ context'.request = context.request
      /\ context'.loading => context.loading
      /\ context'.older = context.older /\ context'.newer = context.newer
      /\ context.open => context'.rows \subseteq context.rows \ {m}
  <2>1. context \in ContextViews
    BY DEF TypedViews, IInv
  <2>2. CASE ~context.open
    BY <1>1, <1>2, <2>1, <2>2 DEF ContextWithout, ContextViews
  <2>3. CASE context.open /\ m = context.target
    <3>1. context' = [context EXCEPT !.rows = {}, !.loading = FALSE]
      BY <1>1, <2>3 DEF ContextWithout
    <3> QED BY <1>2, <2>1, <3>1 DEF ContextViews
  <2>4. CASE context.open /\ m # context.target
    <3>1. context' = [context EXCEPT !.rows = @ \ {m}]
      BY <1>1, <2>4 DEF ContextWithout
    <3> QED BY <1>2, <2>1, <3>1 DEF ContextViews
  <2> QED BY <2>2, <2>3, <2>4
<1>7. /\ thread' \in ThreadViews /\ thread'.root = thread.root /\ thread'.request = thread.request
      /\ thread'.open = thread.open /\ thread'.loading = thread.loading
      /\ \/ thread'.rows = thread.rows \ {m}
         \/ m = thread.root /\ thread'.rows \subseteq thread.rows \cup {m}
  <2> DEFINE ours == thread.open /\ m \in channel.rows \cup thread.rows \cup {thread.root}
             live == IF ours THEN thread.live \ {m} ELSE thread.live
  <2>1. thread \in ThreadViews /\ live \in SUBSET Past /\ ours \in BOOLEAN
    BY DEF TypedViews, ThreadViews, IInv
  <2>2. CASE m = thread.root
    <3> DEFINE rows == IF ours THEN thread.rows \cup {m} ELSE thread.rows
               gone == thread.rootGone \/ ours \/ m \in thread.rows
    <3>1. thread' = [thread EXCEPT !.live = live, !.rootGone = gone, !.rows = rows]
      BY <1>1, <2>2 DEF ThreadWithout
    <3>2. rows \in SUBSET Past /\ rows \subseteq thread.rows \cup {m} /\ gone \in BOOLEAN
      BY <1>2, <2>1 DEF ThreadViews
    <3> HIDE DEF ours, live, rows, gone
    <3> QED BY <1>2, <2>1, <2>2, <3>1, <3>2 DEF ThreadViews
  <2>3. CASE m # thread.root
    <3>1. thread' = [thread EXCEPT !.live = live, !.rows = @ \ {m}]
      BY <1>1, <2>3 DEF ThreadWithout
    <3> HIDE DEF ours, live
    <3> QED BY <1>2, <2>1, <3>1 DEF ThreadViews
  <2> QED BY <2>2, <2>3
<1>8. /\ reader' \in Readers /\ reader'.of = reader.of
      /\ ~reader'.gone => ~reader.gone /\ reader.of # m
  BY <1>1, <1>2 DEF TypedViews, Readers, IInv
<1>9. TypedWorld' /\ TypedViews' /\ TypedLines'
  <2>1. TypedWorld' /\ TypedLines'
    BY <1>1, <1>2 DEF TypedWorld, TypedLines, Frames, IInv
  <2>2. TypedViews'
    BY <1>4, <1>5, <1>6, <1>7, <1>8, <1>2 DEF TypedViews, ChannelViews, SearchViews,
       ContextViews, ThreadViews, Readers
  <2> QED BY <2>1, <2>2
<1>10. Layers' /\ ThreadIsOne' /\ Results'
  BY <1>1, <1>2, <1>5, <1>6, <1>7 DEF Layers, ThreadIsOne, OfThread, Results, Reliable, IInv
<1>11. Numbers'
  BY <1>1, <1>3, <1>6, <1>7 DEF Numbers, ForContext, ForThread, IInv
<1>12. Waiting'
  <2>1. missed \subseteq missed' /\ ("search" \in missed' => "search" \in missed)
    BY <1>1
  <2>2. ContextBusy' => ContextBusy
    BY <1>6 DEF ContextBusy
  <2> QED BY <1>1, <1>3, <1>4, <1>5, <1>6, <1>7, <2>1, <2>2 DEF Waiting, Owed, IInv
<1>13. FeedOrder'
  BY <1>1, <1>2 DEF FeedOrder, IInv
<1>14. Gone'
  <2>1. channel'.rows \cap deleted' = {} /\ search'.hits \cap deleted' = {}
    BY <1>1, <1>4, <1>5 DEF Gone, IInv
  <2>2. thread'.rows \cap deleted' \subseteq {thread'.root}
    BY <1>1, <1>7 DEF Gone, IInv
  <2>3. "context" \notin missed' => context'.rows \cap deleted' = {}
    BY <1>1, <1>6 DEF Gone, IInv
  <2>4. reader'.of \in deleted' /\ ~reader'.gone =>
          reader'.of = thread'.root \/ "context" \in missed'
    BY <1>1, <1>7, <1>8 DEF Gone, IInv
  <2> QED BY <2>1, <2>2, <2>3, <2>4 DEF Gone
<1> QED BY <1>9, <1>10, <1>11, <1>12, <1>13, <1>14 DEF IInv

LEMMA DisconnectKeeps ==
  ASSUME IInv, Disconnect
  PROVE IInv'
<1>1. /\ up' = FALSE /\ feed' = <<>>
      /\ UNCHANGED <<stored, erased, deleted, channel, search, context, reader>>
      /\ UNCHANGED <<queue, answers, missed>>
      /\ \/ ~thread.open /\ UNCHANGED <<thread, request>>
         \/ /\ request' = request + 1
            /\ thread' = [thread EXCEPT !.stale = TRUE, !.request = request']
  BY DEF Disconnect
<1>2. UnderWay' = UnderWay /\ Past' = Past
  BY <1>1 DEF UnderWay, Past
<1>3. /\ request \in Nat /\ request' \in Nat /\ request <= request'
      /\ context.request <= request' /\ context.request \in Nat
  BY <1>1 DEF TypedWorld, Numbers, TypedViews, ContextViews, IInv
<1>4. /\ thread' \in ThreadViews /\ thread'.root = thread.root /\ thread'.open = thread.open
      /\ thread'.rows = thread.rows
      /\ \/ thread'.request = thread.request /\ request' = request
         \/ thread'.request = request' /\ request' = request + 1
  BY <1>1, <1>3 DEF TypedViews, ThreadViews, IInv
<1>5. feed' \in Seq([kind : {"post", "delete"}, of : Past'])
  BY <1>1
<1>6. TypedWorld' /\ TypedLines'
  BY <1>1, <1>2, <1>3, <1>5 DEF TypedWorld, TypedLines, IInv
<1>7. TypedViews'
  BY <1>1, <1>2, <1>4 DEF TypedViews, ChannelViews, SearchViews, ContextViews, ThreadViews,
     Readers, IInv
<1>8. Layers' /\ ThreadIsOne' /\ Results'
  BY <1>1, <1>2, <1>4 DEF Layers, ThreadIsOne, Results, Reliable, IInv
<1>9. Numbers'
  BY <1>1, <1>2, <1>3, <1>4 DEF Numbers, ForContext, ForThread, IInv
<1>10. FeedOrder'
  BY <1>1 DEF FeedOrder
<1>11. Gone'
  BY <1>1, <1>4 DEF Gone, IInv
<1>12. Waiting'
  BY <1>1, <1>2 DEF Waiting, Owed, ContextBusy, IInv
<1> QED BY <1>6, <1>7, <1>8, <1>9, <1>10, <1>11, <1>12 DEF IInv

\* The reads a new connection asks for, behind what is queued already.
LEMMA Rejoined ==
  ASSUME IInv, Reconnect
  PROVE /\ queue' \in Seq(ToSet(queue')) /\ UnderWay \subseteq UnderWay'
        /\ \A c \in UnderWay' :
             \/ c \in UnderWay
             \/ c = Ask("open", "channel", 0, "none", 0, 0)
             \/ thread.open /\ c = Ask("thread", "thread", thread.root, "none", 0, request')
        /\ thread.open =>
             Ask("thread", "thread", thread.root, "none", 0, request') \in UnderWay'
<1> DEFINE open == Ask("open", "channel", 0, "none", 0, 0)
           again == Ask("thread", "thread", thread.root, "none", 0, request')
           first == queue \o (IF channel.away THEN <<>> ELSE <<open>>)
<1>1. queue' = first \o (IF thread.open THEN <<again>> ELSE <<>>) /\ answers' = answers
  BY DEF Reconnect
<1>2. queue \in Seq(ToSet(queue))
  BY DEF TypedLines, IInv
<1> HIDE DEF open, again
<1>3. /\ first \in Seq(ToSet(first)) /\ ToSet(queue) \subseteq ToSet(first)
      /\ ToSet(first) \subseteq ToSet(queue) \cup {open}
  <2>1. CASE channel.away
    <3>1. first = queue
      BY <1>2, <2>1, SetOfConcat
    <3> QED BY <1>2, <3>1
  <2>2. CASE ~channel.away
    <3>1. first = Append(queue, open)
      BY <1>2, <2>2, SetOfConcat
    <3> HIDE DEF first
    <3>2. /\ Append(queue, open) \in Seq(ToSet(Append(queue, open)))
          /\ ToSet(Append(queue, open)) = ToSet(queue) \cup {open}
      BY <1>2, SetOfAppend
    <3> QED BY <3>1, <3>2
  <2> QED BY <2>1, <2>2
<1> HIDE DEF first
<1>4. /\ queue' \in Seq(ToSet(queue')) /\ ToSet(first) \subseteq ToSet(queue')
      /\ IF thread.open THEN ToSet(queue') = ToSet(first) \cup {again}
         ELSE ToSet(queue') = ToSet(first)
  <2>1. CASE ~thread.open
    <3>1. queue' = first
      BY <1>1, <1>3, <2>1, SetOfConcat
    <3> QED BY <1>3, <2>1, <3>1
  <2>2. CASE thread.open
    <3>1. queue' = Append(first, again)
      BY <1>1, <1>3, <2>2, SetOfConcat
    <3> QED BY <1>3, <2>2, <3>1, SetOfAppend
  <2> QED BY <2>1, <2>2
<1>5. /\ UnderWay = ToSet(queue) \cup {a.ask : a \in ToSet(answers)}
      /\ UnderWay' = ToSet(queue') \cup {a.ask : a \in ToSet(answers)}
  BY <1>1, UnderWayIs
<1>6. /\ UnderWay \subseteq UnderWay'
      /\ \A c \in UnderWay' : c \in UnderWay \/ c = open \/ (thread.open /\ c = again)
      /\ thread.open => again \in UnderWay'
  BY <1>3, <1>4, <1>5
<1> QED BY <1>4, <1>6 DEF open, again

LEMMA ReconnectKeeps ==
  ASSUME IInv, Reconnect
  PROVE IInv'
<1> DEFINE open == Ask("open", "channel", 0, "none", 0, 0)
           again == Ask("thread", "thread", thread.root, "none", 0, request')
<1>1. /\ up' = TRUE
      /\ UNCHANGED <<stored, erased, feed, deleted, channel, search, context, reader>>
      /\ UNCHANGED <<answers, missed>>
      /\ \/ ~thread.open /\ UNCHANGED <<thread, request>>
         \/ /\ thread.open /\ request' = request + 1
            /\ thread' = [thread EXCEPT !.request = request', !.loading = TRUE, !.failed = FALSE]
  BY DEF Reconnect, history, Reread
<1>2. /\ queue' \in Seq(ToSet(queue')) /\ UnderWay \subseteq UnderWay'
      /\ \A c \in UnderWay' : c \in UnderWay \/ c = open \/ (thread.open /\ c = again)
      /\ thread.open => again \in UnderWay'
  BY Rejoined
<1>3. /\ open.on = "channel" /\ open.op = "open"
      /\ again.on = "thread" /\ again.op = "thread" /\ again.of = thread.root
      /\ again.request = request'
  BY DEF Ask
<1>4. Past' = Past
  BY <1>1 DEF Past
<1>5. /\ request \in Nat /\ request' \in Nat /\ request <= request'
      /\ context.request <= request' /\ context.request \in Nat
  BY <1>1 DEF TypedWorld, Numbers, TypedViews, ContextViews, IInv
<1>6. /\ thread' \in ThreadViews /\ thread'.root = thread.root /\ thread'.open = thread.open
      /\ thread'.rows = thread.rows
      /\ IF thread.open THEN thread'.request = request' /\ request' = request + 1
         ELSE thread'.request = thread.request /\ request' = request
  BY <1>1, <1>5 DEF TypedViews, ThreadViews, IInv
<1> HIDE DEF open, again
<1>7. TypedWorld' /\ TypedLines'
  BY <1>1, <1>2, <1>4, <1>5 DEF TypedWorld, TypedLines, IInv
<1>8. TypedViews'
  BY <1>1, <1>4, <1>6 DEF TypedViews, ChannelViews, SearchViews, ContextViews, ThreadViews,
     Readers, IInv
<1>9. Layers' /\ ThreadIsOne' /\ Results'
  BY <1>1, <1>4, <1>6 DEF Layers, ThreadIsOne, Results, Reliable, IInv
<1>10. Numbers'
  <2>1. \A c \in UnderWay : WellFormed(c) /\ ForContext(c)' /\ ForThread(c)'
    BY <1>1, <1>5, <1>6 DEF Numbers, ForContext, ForThread, IInv
  <2>2. ASSUME NEW c, c = open PROVE WellFormed(c) /\ ForContext(c)' /\ ForThread(c)'
    BY <1>3, <2>2 DEF WellFormed, ForContext, ForThread
  <2>3. ASSUME NEW c, c = again, thread.open
        PROVE WellFormed(c) /\ ForContext(c)' /\ ForThread(c)'
    BY <1>3, <1>5, <1>6, <2>3 DEF WellFormed, ForContext, ForThread
  <2>4. \A c \in UnderWay' : WellFormed(c) /\ ForContext(c)' /\ ForThread(c)'
    BY <1>2, <2>1, <2>2, <2>3
  <2>5. context'.request <= request' /\ thread'.request <= request'
    BY <1>1, <1>5, <1>6 DEF Numbers, IInv
  <2> QED BY <2>4, <2>5 DEF Numbers, WellFormed
<1>11. FeedOrder'
  BY <1>1 DEF FeedOrder, IInv
<1>12. Gone'
  BY <1>1, <1>6 DEF Gone, IInv
<1>13. Waiting'
  BY <1>1, <1>2, <1>3, <1>6 DEF Waiting, Owed, ContextBusy, IInv
<1> QED BY <1>7, <1>8, <1>9, <1>10, <1>11, <1>12, <1>13 DEF IInv

-----------------------------------------------------------------------------
(* The theorems.                                                           *)

LEMMA InitHolds == ViewsInit => IInv
<1> SUFFICES ASSUME ViewsInit PROVE IInv
  OBVIOUS
<1>1. UnderWay = {}
  BY DEF ViewsInit, UnderWay, ToSet
<1>2. stored \in Messages /\ stored = Stored
  BY Constants DEF ViewsInit
<1>3. channel \in ChannelViews /\ channel.loading = FALSE
  <2>1. Newest(1 .. Stored, HistoryLimit) \in SUBSET Past
    BY <1>2, EndsAreParts DEF Past
  <2> QED BY <2>1 DEF ViewsInit, ChannelViews
<1>4. search \in SearchViews /\ search.loading = FALSE /\ search.open = FALSE /\ search.hits = {}
  BY DEF ViewsInit, NoSearch, SearchViews
<1>5. /\ context \in ContextViews /\ context.request = 0 /\ context.open = FALSE
      /\ context.loading = FALSE /\ context.older = FALSE /\ context.newer = FALSE
  BY DEF ViewsInit, NoContext, ContextViews
<1>6. /\ thread \in ThreadViews /\ thread.request = 0 /\ thread.open = FALSE /\ thread.rows = {}
  BY DEF ViewsInit, NoThread, ThreadViews
<1>7. reader \in Readers
  BY DEF ViewsInit, Readers
<1>8. TypedWorld /\ TypedViews
  BY <1>2, <1>3, <1>4, <1>5, <1>6, <1>7 DEF ViewsInit, TypedWorld, TypedViews
<1>9. TypedLines
  BY DEF ViewsInit, TypedLines
<1>10. Layers /\ ThreadIsOne /\ Results /\ FeedOrder
  BY <1>4, <1>5, <1>6 DEF ViewsInit, Layers, ThreadIsOne, OfThread, Results, ToSet, FeedOrder
<1>11. Numbers
  BY <1>1, <1>5, <1>6 DEF ViewsInit, Numbers
<1>12. Gone
  BY DEF ViewsInit, Gone
<1>13. Waiting
  BY <1>3, <1>4, <1>5, <1>6 DEF Waiting, ContextBusy
<1> QED BY <1>8, <1>9, <1>10, <1>11, <1>12, <1>13 DEF IInv

LEMMA UserStepKeeps ==
  ASSUME IInv, UserStep
  PROVE IInv'
<1>1. CASE RequestChannelPage \/ RequestNewestChannel \/ SwitchAway \/ SwitchBack
  BY <1>1, RequestChannelPageKeeps, RequestNewestChannelKeeps, SwitchAwayKeeps, SwitchBackKeeps
<1>2. CASE OpenSearch \/ LeaveSearch \/ \E q \in Queries : SubmitSearch(q)
  BY <1>2, OpenSearchKeeps, LeaveSearchKeeps, SubmitSearchKeeps
<1>3. CASE \E m \in Messages :
             OpenContext(m) \/ OpenThread(m) \/ OpenContextThread(m) \/ OpenReader(m)
  BY <1>3, OpenContextKeeps, OpenThreadKeeps, OpenContextThreadKeeps, OpenReaderKeeps
<1>4. CASE LeaveContext \/ \E way \in {"older", "newer"} : RequestContextPage(way)
  BY <1>4, LeaveContextKeeps, RequestContextPageKeeps
<1>5. CASE RequestNewestContext \/ RequestThreadPage \/ RequestNewestThread \/ RetryThread
  BY <1>5, RequestNewestContextKeeps, RequestThreadPageKeeps, RequestNewestThreadKeeps,
     RetryThreadKeeps
<1>6. CASE LeaveThread \/ CloseReader
  BY <1>6, LeaveThreadKeeps, CloseReaderKeeps
<1> QED BY <1>1, <1>2, <1>3, <1>4, <1>5, <1>6 DEF UserStep

LEMMA StutterKeeps ==
  ASSUME IInv, UNCHANGED viewsVars
  PROVE IInv'
<1>1. UNCHANGED <<stored, erased, feed, up, deleted, channel, search, context, thread>>
  BY DEF viewsVars
<1>2. UNCHANGED <<reader, request, queue, answers, missed>>
  BY DEF viewsVars
<1>3. UnderWay' = UnderWay /\ Past' = Past
  BY <1>1, <1>2 DEF UnderWay, Past
<1>4. TypedWorld' /\ TypedViews' /\ TypedLines' /\ Layers' /\ ThreadIsOne' /\ Results'
  BY <1>1, <1>2, <1>3 DEF TypedWorld, TypedViews, TypedLines, Layers, ThreadIsOne, Results,
     Reliable, ChannelViews, SearchViews, ContextViews, ThreadViews, Readers, IInv
<1>5. Numbers' /\ FeedOrder' /\ Gone' /\ Waiting'
  BY <1>1, <1>2, <1>3 DEF Numbers, ForContext, ForThread, FeedOrder, Gone, Waiting, Owed,
     ContextBusy, IInv
<1> QED BY <1>4, <1>5 DEF IInv

\* The invariant of the views, of what is under way for them and of the feed:
\* what each number a view remembers stands for, what waits is owed, and what
\* is deleted is in no view.
THEOREM ViewsInvariant == ViewsSpec => []IInv
<1>1. ViewsInit => IInv
  BY InitHolds
<1>2. IInv /\ [ViewsNext]_viewsVars => IInv'
  <2> SUFFICES ASSUME IInv, [ViewsNext]_viewsVars PROVE IInv'
    OBVIOUS
  <2>1. CASE UserStep
    BY <2>1, UserStepKeeps
  <2>2. CASE RunCommand
    BY <2>2, RunCommandKeeps
  <2>3. CASE TakeChannel \/ TakeSearch \/ TakeContext \/ TakeThread
    BY <2>3, TakeChannelKeeps, TakeSearchKeeps, TakeContextKeeps, TakeThreadKeeps
  <2>4. CASE Post \/ \E m \in Messages : Delete(m)
    BY <2>4, PostKeeps, DeleteKeeps
  <2>5. CASE TakePost \/ TakeDelete
    BY <2>5, TakePostKeeps, TakeDeleteKeeps
  <2>6. CASE Disconnect \/ Reconnect
    BY <2>6, DisconnectKeeps, ReconnectKeeps
  <2>7. CASE UNCHANGED viewsVars
    BY <2>7, StutterKeeps
  <2> QED BY <2>1, <2>2, <2>3, <2>4, <2>5, <2>6, <2>7 DEF ViewsNext
<1> QED BY <1>1, <1>2, PTL DEF ViewsSpec

\* A view that says it is loading has its answer under way, unless it was
\* hidden when the answer came or, a thread, the connection is down; and the
\* views are well formed.
THEOREM ViewsNeverHang == ViewsSpec => []NothingWaitsForever
<1>1. IInv => NothingWaitsForever
  <2> SUFFICES ASSUME IInv PROVE NothingWaitsForever
    OBVIOUS
  <2>1. ViewsTypeOK
    <3>1. /\ stored \in Messages /\ erased \subseteq Past /\ deleted \subseteq erased
          /\ up \in BOOLEAN /\ Past \cup {0} \subseteq 0 .. stored
      BY Constants DEF TypedWorld, Messages, Past, IInv
    <3>2. /\ channel.rows \subseteq Past /\ channel.live \subseteq Past /\ search.hits \subseteq Past
          /\ context.rows \subseteq Past /\ context.target \in 0 .. stored
      BY <3>1 DEF TypedViews, ChannelViews, SearchViews, ContextViews, IInv
    <3>3. /\ thread.rows \subseteq Past /\ reader.of \in 0 .. stored
      BY <3>1 DEF TypedViews, ThreadViews, Readers, IInv
    <3>4. thread.rows \subseteq {m \in Past : m = thread.root \/ RootOf[m] = thread.root}
      BY <3>3 DEF ThreadIsOne, OfThread, IInv
    <3>5. \A c \in UnderWay : c.on \in {"channel", "search", "context", "thread"}
      BY DEF Numbers, WellFormed, IInv
    <3> QED BY <3>1, <3>2, <3>3, <3>4, <3>5 DEF ViewsTypeOK, Past, Layers, IInv
  <2> QED BY <2>1 DEF NothingWaitsForever, Waiting, IInv
<1> QED BY <1>1, ViewsInvariant, PTL

\* A message known to be deleted is shown by no view, whatever read was under
\* way when the deletion came; excepted are a context that was hidden then and
\* the root of a thread.
THEOREM DeletionsAreShown == ViewsSpec => []DeletedStaysGoneInView
<1>1. IInv => DeletedStaysGoneInView
  BY DEF DeletedStaysGoneInView, DeletedStaysGone, Shows, Gone, IInv
<1> QED BY <1>1, ViewsInvariant, PTL
=============================================================================
