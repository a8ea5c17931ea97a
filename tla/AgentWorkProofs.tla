--------------------------- MODULE AgentWorkProofs ---------------------------
(* Proofs about AgentWork, for any agents, turns, capacities and inputs.     *)
(*                                                                           *)
(* What is shown of an agent is compared with what was heard of it over this *)
(* connection.  A shown turn was heard (Backed); a turn in the tombstones is *)
(* not shown (Table), and its tombstone is at most as deep as the ends heard *)
(* since are many (Remembered); a turn heard to run that nothing ended is in *)
(* the table, with the time it was heard (Kept), because the table never     *)
(* holds what was not heard and so has room (Backed again).  Agents are      *)
(* forgotten only if more were heard of than fit (KnownWereHeard).           *)
EXTENDS AgentWork, FiniteSetTheorems, WellFoundedInduction, TLAPS

Run == [agent : Agents, key : Keys, at : Nat]
Claim == [agent : Agents, thread : BOOLEAN, since : Nat, expires : Nat]
Ends == {f \in Frames : f.kind = "Ended"}

\* One agent's table: its turns, each with its conversation and the second it was
\* last heard of; its tombstones, of turns that are not shown; within their bounds.
TurnsTyped(turns) ==
  /\ turns = [k \in DOMAIN turns |-> turns[k]]
  /\ DOMAIN turns \subseteq Keys
  /\ \A k \in DOMAIN turns : /\ turns[k] = [channel |-> turns[k].channel, last |-> turns[k].last]
                             /\ turns[k].last \in 0..now

Table(w) ==
  /\ w = [turns |-> w.turns, ended |-> w.ended, signal |-> w.signal]
  /\ TurnsTyped(w.turns) /\ Cardinality(DOMAIN w.turns) <= TurnsPerAgent
  /\ w.ended \in Seq(Keys) /\ Len(w.ended) <= EndedPerAgent
  /\ DOMAIN w.turns \intersect Range(w.ended) = {}
  /\ w.signal \in Nat

Shapes ==
  /\ now \in 2..MaxTime /\ swept \in BOOLEAN /\ conn \in BOOLEAN /\ observed \in BOOLEAN
  /\ feed \in {"Off", "Asked", "Served"} /\ told \subseteq {"Ready", "Closed"}
  /\ work = [a \in Agents |-> work[a]] /\ \A a \in Agents : Table(work[a])
  /\ Cardinality(Known) <= AgentsKept
  /\ roster.agents \subseteq Agents
  /\ cursor = [open |-> cursor.open, level |-> cursor.level, at |-> cursor.at, context |-> cursor.context,
               asked |-> cursor.asked]
  /\ cursor.level \in {"List", "Detail"} /\ cursor.at \in Nat /\ cursor.at = Below(cursor.at, Count(roster))
  /\ typing = [entries |-> typing.entries, listed |-> typing.listed] /\ typing.entries \subseteq Claim
  /\ heard \subseteq Run /\ ends \in Seq(Ends)
  /\ spoken \in [Agents -> Nat]

\* The feed behind what is said, and the claims to type.
Linked ==
  /\ ~conn => feed = "Off" /\ told = {} /\ ~observed /\ typing.entries = {}
  /\ observed \/ "Ready" \in told => feed = "Served" \/ "Closed" \in told
  /\ \A e \in typing.entries : ~e.thread => e.since > spoken[e.agent]

\* A turn that is shown was heard.
Backed ==
  \A a \in Agents : \A k \in Shown(a) :
    /\ \E h \in heard : h.agent = a /\ h.key = k /\ work[a].turns[k].last <= h.at
    /\ swept => now <= work[a].turns[k].last + Fresh

KnownWereHeard == Known \subseteq HeardOf

\* What was heard of a turn last; a turn has one agent.
HeardOnce ==
  /\ \A g, h \in heard : g.agent = h.agent /\ g.key = h.key => g = h
  /\ \A h \in heard : h.key \in Turns => h.agent = TurnAgent[h.key]

NamedEnds(a) == {e.turn : e \in {e \in Range(ends) : e.agent = a}}

\* A tombstone is of a turn whose end was named, unless an end named none.
BuriedByName ==
  Cardinality(HeardOf) <= AgentsKept =>
    \A a \in Agents : None \notin NamedEnds(a) => Range(work[a].ended) \subseteq NamedEnds(a)

\* The ends after the i-th of s, of its agent and not of its turn.
OthersAfter(s, i) == {j \in DOMAIN s : s[j].agent = s[i].agent /\ j > i /\ s[j].turn # s[i].turn}

\* The i-th end of s names its turn, and no end before it may have been that turn's.
FirstNamed(s, i) ==
  /\ s[i].turn # None
  /\ \A j \in DOMAIN s : s[j].agent = s[i].agent /\ j < i => s[j].turn \notin {None, s[i].turn}

\* x is in q, with at most n behind it.
Within(q, x, n) == \E p \in DOMAIN q : q[p] = x /\ Len(q) <= p + n

Remembered ==
  Cardinality(HeardOf) <= AgentsKept =>
    \A i \in DOMAIN ends : FirstNamed(ends, i) /\ Cardinality(OthersAfter(ends, i)) < EndedPerAgent =>
      Within(work[ends[i].agent].ended, ends[i].turn, Cardinality(OthersAfter(ends, i)))

HeardKeys(a) == {g.key : g \in {j \in heard : j.agent = a}}

\* Nothing was heard that may have ended h, and what was heard of its agent fits.
Lives(h) ==
  /\ h.key \in Turns /\ TurnChannel[h.key] # None /\ now <= h.at + Fresh
  /\ NamedEnds(h.agent) \intersect {None, h.key} = {}
  /\ Cardinality(HeardKeys(h.agent) \union NamedEnds(h.agent)) <= TurnsPerAgent

Kept ==
  Cardinality(HeardOf) <= AgentsKept => \A h \in heard : Lives(h) =>
    h.key \in Shown(h.agent) /\ work[h.agent].turns[h.key].last = h.at

Accounts == Backed /\ KnownWereHeard /\ HeardOnce /\ BuriedByName /\ Remembered /\ Kept
Inv == Shapes /\ Linked /\ Accounts

-----------------------------------------------------------------------------
(* The constants, and the first and last of a set.                           *)

LEMMA Constants ==
  /\ NumAgents \in Nat \ {0} /\ TurnAgent \in Seq(Agents) /\ Unnamed \subseteq Turns
  /\ Turns = 1 .. Len(TurnAgent) /\ Len(TurnAgent) \in Nat
  /\ TurnChannel \in [Turns -> {None, Conversation}]
  /\ Fresh \in Nat \ {0} /\ TypingTTL \in Nat \ {0} /\ TurnsPerAgent \in Nat \ {0}
  /\ EndedPerAgent \in Nat \ {0} /\ AgentsKept \in Nat \ {0}
  /\ MaxTime \in Nat /\ MaxInputs \in Nat /\ MaxSeq \in Nat /\ MaxTime >= 2
  BY AgentWorkAssumption DEF Turns

LEMMA AgentsFinite ==
  /\ IsFiniteSet(Agents)
  /\ \A S : S \subseteq Agents => IsFiniteSet(S) /\ Cardinality(S) \in Nat
<1>1. IsFiniteSet(Agents)
  BY Constants, FS_Interval DEF Agents
<1>2. ASSUME NEW S, S \subseteq Agents
      PROVE  IsFiniteSet(S) /\ Cardinality(S) \in Nat
  BY <1>1, <1>2, FS_Subset, FS_CardinalityType
<1> QED
  BY <1>1, <1>2

LEMMA KeysFinite ==
  /\ IsFiniteSet(Keys) /\ Keys \subseteq Nat \ {0} /\ Turns \subseteq Keys
  /\ \A S : S \subseteq Keys => IsFiniteSet(S) /\ Cardinality(S) \in Nat
<1> DEFINE n == Len(TurnAgent) + MaxSeq
<1>1. n \in Nat /\ Keys \subseteq 1 .. n /\ Turns \subseteq Keys
  BY Constants DEF Keys
<1>2. IsFiniteSet(1 .. n)
  BY <1>1, FS_Interval
<1>3. IsFiniteSet(Keys)
  BY <1>1, <1>2, FS_Subset
<1>4. ASSUME NEW S, S \subseteq Keys
      PROVE  IsFiniteSet(S) /\ Cardinality(S) \in Nat
  BY <1>3, <1>4, FS_Subset, FS_CardinalityType
<1>5. 1 .. n \subseteq Nat \ {0}
  BY <1>1
<1> QED
  BY <1>1, <1>3, <1>4, <1>5

LEMMA OneMore ==
  ASSUME NEW S, IsFiniteSet(S), NEW x
  PROVE  /\ IsFiniteSet(S \union {x}) /\ Cardinality(S) \in Nat /\ Cardinality(S \union {x}) \in Nat
         /\ x \in S => Cardinality(S \union {x}) = Cardinality(S)
         /\ x \notin S => Cardinality(S \union {x}) = Cardinality(S) + 1
         /\ Cardinality(S \union {x}) <= Cardinality(S) + 1
<1>1. Cardinality(S \union {x}) = IF x \in S THEN Cardinality(S) ELSE Cardinality(S) + 1
  BY FS_AddElement
<1>2. IsFiniteSet(S \union {x}) /\ Cardinality(S) \in Nat
  BY FS_AddElement, FS_CardinalityType
<1> QED
  BY <1>1, <1>2

LEMMA LeastNumber ==
  ASSUME NEW T, T \subseteq Nat, T # {}
  PROVE  \E x \in T : \A y \in T : x <= y
<1> DEFINE R == OpToRel(<, Nat)
<1>1. IsWellFoundedOn(R, Nat)
  BY NatLessThanWellFounded
<1>2. \A x, y \in Nat : y < x => <<y, x>> \in R
  BY DEF OpToRel
<1> HIDE DEF R
<1>3. PICK x \in T : \A y \in T : ~(<<y, x>> \in R)
  BY <1>1, WFMin
<1>4. ASSUME NEW y \in T
      PROVE  x <= y
  <2>1. x \in Nat /\ y \in Nat /\ ~(y < x)
    BY <1>2, <1>3
  <2> QED
    BY <2>1
<1> QED
  BY <1>4

LEMMA FirstIsThere ==
  ASSUME NEW S, S # {}, NEW f, \A x \in S : f[x] \in Nat
  PROVE  FirstBy(S, f) \in S
<1> DEFINE T == {f[x] : x \in S}
<1>1. T \subseteq Nat /\ T # {}
  OBVIOUS
<1>2. PICK n \in T : \A m \in T : n <= m
  BY <1>1, LeastNumber
<1>3. PICK x \in S : f[x] = n
  OBVIOUS
<1>4. x \in S /\ \A y \in S : f[x] <= f[y]
  BY <1>2, <1>3
<1> QED
  BY <1>4 DEF FirstBy

LEMMA LastIsThere ==
  ASSUME NEW S, S # {}, NEW f, NEW n \in Nat, \A x \in S : f[x] \in 0 .. n
  PROVE  LastBy(S, f) \in S
<1> DEFINE T == {n - f[x] : x \in S}
<1>1. T \subseteq Nat /\ T # {}
  OBVIOUS
<1>2. PICK m \in T : \A k \in T : m <= k
  BY <1>1, LeastNumber
<1>3. PICK x \in S : n - f[x] = m
  OBVIOUS
<1>4. x \in S /\ \A y \in S : f[y] <= f[x]
  <2> SUFFICES ASSUME NEW y \in S
               PROVE  f[y] <= f[x]
    OBVIOUS
  <2>1. n - f[x] <= n - f[y]
    BY <1>2, <1>3
  <2> QED
    BY <2>1
<1> QED
  BY <1>4 DEF LastBy

-----------------------------------------------------------------------------
(* Frames and one agent's table.                                             *)

LEMMA FrameIs ==
  ASSUME NEW f \in Frames
  PROVE  /\ f.kind \in {"Started", "Liveness", "Ended"} /\ f.agent \in Agents
         /\ f.turn \in Turns \union {None} /\ f.channel \in {None, Conversation}
         /\ f.turn # None => f.agent = TurnAgent[f.turn] /\ f.channel = TurnChannel[f.turn] /\ Key(f) = f.turn
         /\ f.kind # "Ended" => Key(f) \in Keys /\ (Key(f) \in Turns => f.turn = Key(f))
<1>1. ASSUME NEW kind \in {"Started", "Liveness", "Ended"}, NEW t \in Turns, NEW seq \in 1 .. MaxSeq,
             f = FrameOf(kind, t, seq)
      PROVE  /\ f.kind = kind /\ f.agent = TurnAgent[t] /\ f.agent \in Agents /\ f.channel = TurnChannel[t]
             /\ t \in Unnamed => f.turn = None /\ f.seq = seq
             /\ t \notin Unnamed => f.turn = t
  BY <1>1, Constants DEF FrameOf
<1>2. ASSUME NEW kind \in {"Started", "Liveness", "Ended"}, NEW t \in Turns, NEW seq \in 1 .. MaxSeq,
             f = FrameOf(kind, t, seq)
      PROVE  /\ f.turn # None => f.turn = t /\ Key(f) = t
             /\ f.turn = None => Key(f) = Len(TurnAgent) + seq
             /\ TurnChannel[t] \in {None, Conversation} /\ t # None /\ t \in Keys
             /\ Len(TurnAgent) + seq \in Keys /\ Len(TurnAgent) + seq \notin Turns
  BY <1>1, <1>2, Constants DEF Key, None, Keys
<1>3. ASSUME NEW a \in Agents, f = Panic(a)
      PROVE  f.kind = "Ended" /\ f.agent = a /\ f.turn = None /\ f.channel = None
  BY <1>3 DEF Panic
<1>4. CASE \E kind \in {"Started", "Liveness", "Ended"}, t \in Turns, seq \in 1 .. MaxSeq :
             f = FrameOf(kind, t, seq)
  BY <1>1, <1>2, <1>4
<1>5. CASE \E a \in Agents : f = Panic(a)
  BY <1>3, <1>5
<1> QED
  BY <1>4, <1>5 DEF Frames

\* The table after turn k was heard of: as before, but for k and for one turn that
\* had to go.
LEMMA InsertKeeps ==
  ASSUME NEW w, Table(w), NEW k \in Keys, k \notin Range(w.ended), NEW c, now \in Nat
  PROVE  /\ Table(Insert(w, k, c))
         /\ k \in DOMAIN Insert(w, k, c).turns /\ Insert(w, k, c).turns[k].last = now
         /\ \A j \in DOMAIN Insert(w, k, c).turns \ {k} : j \in DOMAIN w.turns /\ Insert(w, k, c).turns[j] = w.turns[j]
         /\ k \in DOMAIN w.turns \/ Cardinality(DOMAIN w.turns) < TurnsPerAgent
              => DOMAIN w.turns \subseteq DOMAIN Insert(w, k, c).turns
         /\ Insert(w, k, c).ended = w.ended
<1> DEFINE D == DOMAIN w.turns
           full == Cardinality(D) >= TurnsPerAgent /\ k \notin D
           kept == IF full THEN D \ {FirstBy(D, Activity(w.turns))} ELSE D
           turns == [j \in kept \union {k} |-> IF j = k THEN [channel |-> c, last |-> now] ELSE w.turns[j]]
           v == [turns |-> turns, ended |-> w.ended, signal |-> w.signal]
<1>1. Insert(w, k, c) = v
  BY DEF Insert, Table
<1>2. D \subseteq Keys /\ IsFiniteSet(D) /\ Cardinality(D) \in Nat /\ Cardinality(D) <= TurnsPerAgent
  BY KeysFinite DEF Table, TurnsTyped
<1>3. kept \subseteq D
  OBVIOUS
<1>4. IsFiniteSet(kept) /\ Cardinality(kept \union {k}) <= TurnsPerAgent
  <2>1. full => kept = D \ {FirstBy(D, Activity(w.turns))}
    OBVIOUS
  <2>2. ~full => kept = D
    OBVIOUS
  <2> HIDE DEF kept
  <2>3. CASE full
    <3>1. D # {}
      BY <1>2, <2>3, Constants, FS_EmptySet
    <3>2. \A x \in D : Activity(w.turns)[x] \in Nat
      BY DEF Activity, Table, TurnsTyped
    <3>3. FirstBy(D, Activity(w.turns)) \in D
      BY <3>1, <3>2, FirstIsThere
    <3>4. IsFiniteSet(kept) /\ Cardinality(kept) = Cardinality(D) - 1
      BY <1>2, <2>1, <2>3, <3>3, FS_RemoveElement
    <3>5. Cardinality(kept) \in Nat /\ Cardinality(kept \union {k}) \in Nat
          /\ Cardinality(kept \union {k}) <= Cardinality(kept) + 1
      BY <3>4, OneMore
    <3> QED
      BY <1>2, <3>4, <3>5, Constants
  <2>4. CASE ~full
    <3>1. k \notin D => Cardinality(D) < TurnsPerAgent
      BY <1>2, <2>4, Constants
    <3>2. Cardinality(D \union {k}) <= TurnsPerAgent
      <4>1. /\ k \in D => Cardinality(D \union {k}) = Cardinality(D)
            /\ k \notin D => Cardinality(D \union {k}) = Cardinality(D) + 1
        BY <1>2, OneMore
      <4>2. Cardinality(D) <= TurnsPerAgent /\ Cardinality(D) \in Nat /\ TurnsPerAgent \in Nat
        BY <1>2, Constants
      <4> DEFINE m == Cardinality(D \union {k})
                 n == Cardinality(D)
                 z == (k \in D)
      <4>3. /\ z => m = n
            /\ ~z => m = n + 1 /\ n < TurnsPerAgent
        BY <3>1, <4>1
      <4> HIDE DEF m, n, z
      <4>4. m <= TurnsPerAgent
        BY <4>2, <4>3 DEF n
      <4> QED
        BY <4>4 DEF m
    <3> QED
      BY <1>2, <2>2, <2>4, <3>2
  <2> QED
    BY <2>3, <2>4
<1> HIDE DEF full
<1>5. DOMAIN turns = kept \union {k}
  OBVIOUS
<1>6. turns[k].last = now /\ \A j \in DOMAIN turns \ {k} : j \in D /\ turns[j] = w.turns[j]
  BY <1>3
<1>7. TurnsTyped(turns)
  BY <1>2, <1>3 DEF TurnsTyped, Table
<1>8. v.turns = turns /\ v.ended = w.ended /\ v.signal = w.signal
  OBVIOUS
<1>9. k \in D \/ Cardinality(D) < TurnsPerAgent => kept = D
  BY <1>2, Constants DEF full
<1> HIDE DEF turns, kept
<1>10. DOMAIN turns \intersect Range(w.ended) = {}
  BY <1>3, <1>5 DEF Table
<1>11. Table(v)
  BY <1>4, <1>5, <1>7, <1>8, <1>10 DEF Table
<1> HIDE DEF v
<1> QED
  BY <1>1, <1>5, <1>6, <1>8, <1>9, <1>11

\* The tombstones after k was buried.
Buries(s, t, k) ==
  IF k \in Range(s) THEN t = s ELSE t = Append(IF Len(s) >= EndedPerAgent THEN Tail(s) ELSE s, k)

LEMMA BuriesIs ==
  ASSUME NEW s \in Seq(Keys), Len(s) <= EndedPerAgent, NEW k \in Keys, NEW t, Buries(s, t, k)
  PROVE  /\ t \in Seq(Keys) /\ Len(t) <= EndedPerAgent
         /\ Range(t) \subseteq Range(s) \union {k} /\ k \in Range(t)
         /\ \A x, n : n \in Nat /\ Within(s, x, n) /\ n + 1 < EndedPerAgent => Within(t, x, n + 1)
         /\ k \notin Range(s) => Within(t, k, 0)
<1> DEFINE E == EndedPerAgent
           m == Len(s)
<1>0. E \in Nat \ {0} /\ m \in Nat
  BY Constants
<1>1. CASE k \in Range(s)
  <2>1. t = s
    BY <1>1 DEF Buries
  <2>2. ASSUME NEW x, NEW n \in Nat, Within(s, x, n)
        PROVE  Within(s, x, n + 1)
    <3>1. PICK p \in DOMAIN s : s[p] = x /\ m <= p + n
      BY <2>2 DEF Within
    <3>2. m <= p + (n + 1)
      BY <3>1, <1>0
    <3> QED
      BY <3>1, <3>2 DEF Within
  <2> QED
    BY <1>1, <2>1, <2>2
<1>2. CASE k \notin Range(s) /\ ~(m >= E)
  <2>1. /\ t = Append(s, k) /\ t \in Seq(Keys) /\ Len(t) = m + 1 /\ t[m + 1] = k
        /\ \A p \in 1 .. m : t[p] = s[p]
    BY <1>2 DEF Buries
  <2>2. DOMAIN s = 1 .. m /\ DOMAIN t = 1 .. m + 1
    BY <2>1
  <2> HIDE DEF m
  <2>3. Len(t) <= E /\ 1 .. m + 1 = (1 .. m) \union {m + 1}
    BY <1>0, <1>2, <2>1
  <2>4. Range(t) \subseteq Range(s) \union {k} /\ k \in Range(t)
    BY <2>1, <2>2, <2>3 DEF Range
  <2>5. ASSUME NEW x, NEW n \in Nat, Within(s, x, n)
        PROVE  Within(t, x, n + 1)
    <3>1. PICK p \in 1 .. m : s[p] = x /\ m <= p + n
      BY <2>2, <2>5 DEF Within, m
    <3>2. m + 1 <= p + (n + 1) /\ p \in 1 .. m + 1
      BY <3>1, <1>0
    <3> QED
      BY <2>1, <2>2, <3>1, <3>2 DEF Within
  <2>6. Within(t, k, 0)
    BY <1>0, <2>1, <2>2, <2>3 DEF Within
  <2> QED
    BY <2>1, <2>3, <2>4, <2>5, <2>6
<1>3. CASE k \notin Range(s) /\ m >= E
  <2> DEFINE r == Tail(s)
  <2>0. m = E /\ s # <<>>
    BY <1>0, <1>3
  <2>1. r \in Seq(Keys) /\ Len(r) = m - 1 /\ \A p \in 1 .. m - 1 : r[p] = s[p + 1]
    BY <2>0
  <2>2. t = Append(r, k)
    BY <1>3 DEF Buries
  <2> HIDE DEF r
  <2>3. t \in Seq(Keys) /\ Len(t) = m /\ t[m] = k /\ \A p \in 1 .. m - 1 : t[p] = s[p + 1]
    BY <1>0, <2>1, <2>2
  <2>4. DOMAIN s = 1 .. m /\ DOMAIN t = 1 .. m
    BY <2>3
  <2> HIDE DEF m
  <2>5. 1 .. m = (1 .. m - 1) \union {m} /\ \A p \in 1 .. m - 1 : p + 1 \in 1 .. m
    BY <1>0, <2>0
  <2>6. Range(t) \subseteq Range(s) \union {k} /\ k \in Range(t)
    BY <2>3, <2>4, <2>5 DEF Range
  <2>7. ASSUME NEW x, NEW n \in Nat, Within(s, x, n), n + 1 < E
        PROVE  Within(t, x, n + 1)
    <3>1. PICK p \in 1 .. m : s[p] = x /\ m <= p + n
      BY <2>4, <2>7 DEF Within, m
    <3>2. p - 1 \in 1 .. m - 1 /\ m <= (p - 1) + (n + 1) /\ (p - 1) + 1 = p
      BY <3>1, <1>0, <2>0, <2>7
    <3>3. t[p - 1] = x /\ p - 1 \in 1 .. m
      BY <2>3, <2>5, <3>1, <3>2
    <3> QED
      BY <2>3, <2>4, <3>2, <3>3 DEF Within
  <2>8. Within(t, k, 0)
    BY <1>0, <2>3, <2>4, <2>5 DEF Within
  <2> QED
    BY <2>0, <2>3, <2>6, <2>7, <2>8
<1> QED
  BY <1>1, <1>2, <1>3

\* A turn ends.
LEMMA BuriedIs ==
  ASSUME NEW w, Table(w), NEW k \in Keys
  PROVE  LET v == Tombstone(Without(w, k), k)
         IN  /\ Table(v) /\ DOMAIN v.turns = DOMAIN w.turns \ {k}
             /\ \A j \in DOMAIN w.turns \ {k} : v.turns[j] = w.turns[j]
             /\ Buries(w.ended, v.ended, k)
<1> DEFINE turns == [j \in DOMAIN w.turns \ {k} |-> w.turns[j]]
           t == IF k \in Range(w.ended) THEN w.ended
                ELSE Append(IF Len(w.ended) >= EndedPerAgent THEN Tail(w.ended) ELSE w.ended, k)
           v == [turns |-> turns, ended |-> t, signal |-> w.signal]
           u == [turns |-> turns, ended |-> w.ended, signal |-> w.signal]
<1>1. Without(w, k) = u
  BY DEF Without, Table
<1>2. Tombstone(u, k) = v
  BY DEF Tombstone
<1>3. Buries(w.ended, t, k)
  BY DEF Buries
<1>4. DOMAIN turns = DOMAIN w.turns \ {k} /\ \A j \in DOMAIN w.turns \ {k} : turns[j] = w.turns[j]
  OBVIOUS
<1>5. TurnsTyped(turns)
  BY DEF TurnsTyped, Table
<1>6. v.turns = turns /\ v.ended = t /\ v.signal = w.signal /\ v = [turns |-> v.turns, ended |-> v.ended, signal |-> v.signal]
  OBVIOUS
<1> HIDE DEF turns, t, v, u
<1>7. /\ t \in Seq(Keys) /\ Len(t) <= EndedPerAgent /\ Range(t) \subseteq Range(w.ended) \union {k}
  BY <1>3, BuriesIs DEF Table
<1>8. Cardinality(DOMAIN turns) <= TurnsPerAgent
  <2>1. DOMAIN turns \subseteq DOMAIN w.turns /\ DOMAIN w.turns \subseteq Keys /\ DOMAIN turns \subseteq Keys
    BY <1>4 DEF Table, TurnsTyped
  <2>2. Cardinality(DOMAIN turns) <= Cardinality(DOMAIN w.turns)
    BY <2>1, KeysFinite, FS_Subset
  <2>3. Cardinality(DOMAIN turns) \in Nat /\ Cardinality(DOMAIN w.turns) \in Nat
    BY <2>1, KeysFinite
  <2> QED
    BY <2>2, <2>3, Constants DEF Table
<1>9. DOMAIN turns \intersect Range(t) = {}
  BY <1>4, <1>7 DEF Table
<1>10. Table(v)
  BY <1>5, <1>6, <1>7, <1>8, <1>9 DEF Table
<1> QED
  BY <1>1, <1>2, <1>3, <1>4, <1>6, <1>10

\* A frame that says a turn runs.
LEMMA TookRun ==
  ASSUME NEW w, Table(w), NEW f \in Frames, f.kind # "Ended", now \in Nat
  PROVE  LET v == Took(w, f)
         IN  /\ Table(v) /\ v.ended = w.ended
             /\ \A j \in DOMAIN v.turns \ {Key(f)} : j \in DOMAIN w.turns /\ v.turns[j] = w.turns[j]
             /\ Key(f) \in DOMAIN v.turns => v.turns[Key(f)].last = now
             /\ Key(f) \in DOMAIN w.turns \/ Cardinality(DOMAIN w.turns) < TurnsPerAgent
                  => DOMAIN w.turns \subseteq DOMAIN v.turns
             /\ /\ Key(f) \notin Range(w.ended) /\ f.channel # None
                /\ Key(f) \in DOMAIN w.turns \/ Cardinality(DOMAIN w.turns) < TurnsPerAgent
                => DOMAIN w.turns \union {Key(f)} \subseteq DOMAIN v.turns
<1> DEFINE k == Key(f)
           c == f.channel
           v == Took(w, f)
<1>0. f.kind \in {"Started", "Liveness"} /\ k \in Keys
  BY FrameIs
<1>1. CASE k \in Range(w.ended)
  <2>1. v = w
    BY <1>0, <1>1 DEF Took, Running
  <2> QED
    BY <1>1, <2>1 DEF Table
<1>2. CASE k \notin Range(w.ended) /\ (f.kind = "Started" \/ (k \notin DOMAIN w.turns /\ c # None))
  <2>1. v = Insert(w, k, c)
    BY <1>0, <1>2 DEF Took, Running
  <2> HIDE DEF v, k, c
  <2>2. /\ Table(Insert(w, k, c))
        /\ k \in DOMAIN Insert(w, k, c).turns /\ Insert(w, k, c).turns[k].last = now
        /\ \A j \in DOMAIN Insert(w, k, c).turns \ {k} : j \in DOMAIN w.turns /\ Insert(w, k, c).turns[j] = w.turns[j]
        /\ k \in DOMAIN w.turns \/ Cardinality(DOMAIN w.turns) < TurnsPerAgent
             => DOMAIN w.turns \subseteq DOMAIN Insert(w, k, c).turns
        /\ Insert(w, k, c).ended = w.ended
    BY <1>0, <1>2, InsertKeeps
  <2>3. /\ Table(v) /\ v.ended = w.ended
        /\ \A j \in DOMAIN v.turns \ {k} : j \in DOMAIN w.turns /\ v.turns[j] = w.turns[j]
        /\ k \in DOMAIN v.turns /\ v.turns[k].last = now
        /\ k \in DOMAIN w.turns \/ Cardinality(DOMAIN w.turns) < TurnsPerAgent
             => DOMAIN w.turns \union {k} \subseteq DOMAIN v.turns
    BY <2>1, <2>2
  <2> QED
    BY <2>3 DEF v, k
<1>3. CASE k \notin Range(w.ended) /\ f.kind = "Liveness" /\ k \in DOMAIN w.turns
  <2> DEFINE x == [channel |-> w.turns[k].channel, last |-> now]
             turns == [w.turns EXCEPT ![k] = x]
             u == [turns |-> turns, ended |-> w.ended, signal |-> w.signal]
  <2>0. v = [w EXCEPT !.turns[k].last = now]
    BY <1>3 DEF Took, Running
  <2>1. w.turns[k] = [channel |-> w.turns[k].channel, last |-> w.turns[k].last] /\ w.turns = [j \in DOMAIN w.turns |-> w.turns[j]]
    BY <1>3 DEF Table, TurnsTyped
  <2>2. [w EXCEPT !.turns[k].last = now] = [w EXCEPT !.turns = turns]
    BY <2>1
  <2>3. v = u
    BY <2>0, <2>2 DEF Table
  <2>4. /\ DOMAIN turns = DOMAIN w.turns /\ turns = [j \in DOMAIN turns |-> turns[j]]
        /\ turns[k].last = now /\ turns[k].channel = w.turns[k].channel
        /\ turns[k] = [channel |-> turns[k].channel, last |-> turns[k].last]
        /\ \A j \in DOMAIN turns \ {k} : turns[j] = w.turns[j]
    BY <1>3, <2>1
  <2>5. u.turns = turns /\ u.ended = w.ended /\ u.signal = w.signal
    OBVIOUS
  <2> HIDE DEF turns, x
  <2>6. TurnsTyped(turns)
    <3>1. \A j \in DOMAIN w.turns : /\ w.turns[j] = [channel |-> w.turns[j].channel, last |-> w.turns[j].last]
                                    /\ w.turns[j].last \in 0 .. now
      BY DEF Table, TurnsTyped
    <3>2. DOMAIN w.turns \subseteq Keys
      BY DEF Table, TurnsTyped
    <3> QED
      BY <2>4, <3>1, <3>2 DEF TurnsTyped
  <2>7. Table(u)
    BY <2>4, <2>5, <2>6 DEF Table
  <2> HIDE DEF u, v, k
  <2>8. /\ Table(v) /\ v.ended = w.ended
        /\ \A j \in DOMAIN v.turns \ {k} : j \in DOMAIN w.turns /\ v.turns[j] = w.turns[j]
        /\ v.turns[k].last = now
        /\ DOMAIN w.turns \union {k} \subseteq DOMAIN v.turns
    BY <1>3, <2>3, <2>4, <2>5, <2>7
  <2> QED
    BY <2>8 DEF v, k
<1>4. CASE k \notin Range(w.ended) /\ f.kind = "Liveness" /\ k \notin DOMAIN w.turns /\ c = None
  <2>1. v = w
    BY <1>4 DEF Took, Running
  <2> QED
    BY <1>4, <2>1
<1> QED
  BY <1>0, <1>1, <1>2, <1>3, <1>4

\* A frame that says a turn, or the agent's process, ended.
LEMMA TookEnd ==
  ASSUME NEW w, Table(w), NEW f \in Frames, f.kind = "Ended", now \in Nat
  PROVE  LET v == Took(w, f)
         IN  /\ Table(v)
             /\ \A j \in DOMAIN v.turns : j \in DOMAIN w.turns /\ v.turns[j] = w.turns[j]
             /\ f.turn # None => DOMAIN v.turns = DOMAIN w.turns \ {f.turn} /\ Buries(w.ended, v.ended, f.turn)
             /\ v.ended = w.ended \/ \E k \in Keys : Buries(w.ended, v.ended, k)
<1> DEFINE v == Took(w, f)
           here == {k \in DOMAIN w.turns : w.turns[k].channel = f.channel}
           newest == LastBy(here, Activity(w.turns))
<1>0. DOMAIN w.turns \subseteq Keys /\ (f.turn # None => f.turn \in Keys)
  BY FrameIs, KeysFinite DEF Table, TurnsTyped
<1>1. ASSUME NEW k \in Keys, v = Tombstone(Without(w, k), k)
      PROVE  /\ Table(v) /\ DOMAIN v.turns = DOMAIN w.turns \ {k}
             /\ \A j \in DOMAIN v.turns : j \in DOMAIN w.turns /\ v.turns[j] = w.turns[j]
             /\ Buries(w.ended, v.ended, k)
  <2> HIDE DEF v
  <2> QED
    BY <1>1, BuriedIs
<1>2. CASE f.turn # None
  <2>1. v = Tombstone(Without(w, f.turn), f.turn)
    BY <1>2 DEF Took, End
  <2> HIDE DEF v
  <2> QED
    BY <1>0, <1>1, <1>2, <2>1 DEF v
<1>3. CASE f.turn = None /\ f.channel # None /\ here # {}
  <2>1. v = Tombstone(Without(w, newest), newest)
    BY <1>3 DEF Took, End
  <2>2. \A k \in here : Activity(w.turns)[k] \in 0 .. now
    BY DEF Activity, Table, TurnsTyped
  <2>3. newest \in here
    BY <1>3, <2>2, LastIsThere
  <2>4. newest \in Keys
    BY <1>0, <2>3
  <2> HIDE DEF v, newest
  <2> QED
    BY <1>1, <1>3, <2>1, <2>4 DEF v
<1>4. CASE f.turn = None /\ f.channel # None /\ here = {}
  <2>1. v = w
    BY <1>4 DEF Took, End
  <2> QED
    BY <1>4, <2>1
<1>5. CASE f.turn = None /\ f.channel = None
  <2> DEFINE u == [turns |-> NoTurns, ended |-> w.ended, signal |-> w.signal]
  <2>1. v = u
    BY <1>5 DEF Took, Table
  <2>2. NoTurns = [k \in {} |-> None] /\ DOMAIN NoTurns = {}
    BY DEF NoTurns
  <2>3. TurnsTyped(NoTurns)
    BY <2>2 DEF TurnsTyped
  <2>4. Cardinality(DOMAIN NoTurns) <= TurnsPerAgent
    BY <2>2, FS_EmptySet, Constants
  <2>5. Table(u)
    BY <2>2, <2>3, <2>4 DEF Table
  <2>6. DOMAIN u.turns = {} /\ u.ended = w.ended
    BY <2>2
  <2> HIDE DEF u, v
  <2> QED
    BY <1>5, <2>1, <2>5, <2>6 DEF v
<1> QED
  BY <1>2, <1>3, <1>4, <1>5

LEMMA NoWorkIs ==
  Table(NoWork) /\ DOMAIN NoWork.turns = {} /\ NoWork.signal = None /\ Range(NoWork.ended) = {}
<1>1. NoTurns = [k \in {} |-> None] /\ DOMAIN NoTurns = {}
  BY DEF NoTurns
<1>2. TurnsTyped(NoTurns)
  BY <1>1 DEF TurnsTyped
<1>3. Cardinality(DOMAIN NoTurns) <= TurnsPerAgent
  BY <1>1, FS_EmptySet, Constants
<1>4. <<>> \in Seq(Keys) /\ Len(<<>>) = 0 /\ Range(<<>>) = {}
  BY DEF Range
<1>5. /\ NoWork = [turns |-> NoWork.turns, ended |-> NoWork.ended, signal |-> NoWork.signal]
      /\ NoWork.turns = NoTurns /\ NoWork.ended = <<>> /\ NoWork.signal = None
  BY DEF NoWork
<1> QED
  BY <1>1, <1>2, <1>3, <1>4, <1>5, Constants DEF Table, None

LEMMA RetiredIs ==
  ASSUME NEW w, Table(w), now \in Nat
  PROVE  LET v == Retired(w)
         IN  /\ Table(v) /\ v.ended = w.ended /\ v.signal = w.signal
             /\ DOMAIN v.turns = {j \in DOMAIN w.turns : now <= w.turns[j].last + Fresh}
             /\ \A j \in DOMAIN v.turns : v.turns[j] = w.turns[j]
<1> DEFINE D == {j \in DOMAIN w.turns : now <= w.turns[j].last + Fresh}
           turns == [k \in D |-> w.turns[k]]
           v == [turns |-> turns, ended |-> w.ended, signal |-> w.signal]
<1>1. Retired(w) = v
  BY DEF Retired, Table
<1>2. DOMAIN turns = D /\ D \subseteq DOMAIN w.turns /\ \A j \in D : turns[j] = w.turns[j]
  OBVIOUS
<1>3. TurnsTyped(turns)
  BY DEF TurnsTyped, Table
<1>4. Cardinality(D) <= TurnsPerAgent
  <2>1. DOMAIN w.turns \subseteq Keys /\ D \subseteq Keys
    BY <1>2 DEF Table, TurnsTyped
  <2>2. Cardinality(D) <= Cardinality(DOMAIN w.turns)
    BY <1>2, <2>1, KeysFinite, FS_Subset
  <2>3. Cardinality(D) \in Nat /\ Cardinality(DOMAIN w.turns) \in Nat
    BY <2>1, KeysFinite
  <2> QED
    BY <2>2, <2>3, Constants DEF Table
<1>5. v.turns = turns /\ v.ended = w.ended /\ v.signal = w.signal /\ v = [turns |-> v.turns, ended |-> v.ended, signal |-> v.signal]
  OBVIOUS
<1> HIDE DEF turns, v
<1>6. Table(v)
  BY <1>2, <1>3, <1>4, <1>5 DEF Table
<1> QED
  BY <1>1, <1>2, <1>5, <1>6

-----------------------------------------------------------------------------
(* What a frame that arrives changes.                                        *)

LEMMA KnownIs ==
  ASSUME Shapes
  PROVE  /\ Known \subseteq Agents /\ IsFiniteSet(Known) /\ Cardinality(Known) \in Nat
         /\ HeardOf \subseteq Agents /\ IsFiniteSet(HeardOf) /\ Cardinality(HeardOf) \in Nat
<1>1. Known \subseteq Agents
  BY DEF Known
<1>2. \A e \in Range(ends) : e \in Frames
  BY DEF Shapes, Range, Ends
<1>3. \A e \in Range(ends) : e.agent \in Agents
  BY <1>2, FrameIs
<1>4. HeardOf \subseteq Agents
  BY <1>3 DEF HeardOf, Shapes, Run
<1> QED
  BY <1>1, <1>4, AgentsFinite

LEMMA ForgottenIs ==
  ASSUME Shapes, NEW a \in Agents
  PROVE  LET kept == Forgotten(a)
             K == {b \in Agents : kept[b].signal # None}
         IN  /\ kept = [b \in Agents |-> kept[b]]
             /\ \A b \in Agents : kept[b] = work[b] \/ (kept[b] = NoWork /\ b # a)
             /\ kept[a] = work[a]
             /\ a \in Known \/ Cardinality(Known) < AgentsKept => kept = work
             /\ K \subseteq Known /\ Cardinality(K \union {a}) <= AgentsKept
<1> DEFINE kept == Forgotten(a)
           K == {b \in Agents : kept[b].signal # None}
           full == a \notin Known /\ Cardinality(Known) >= AgentsKept
           b0 == FirstBy(Known, Signals)
<1>1. work = [b \in Agents |-> work[b]] /\ Cardinality(Known) <= AgentsKept
  BY DEF Shapes
<1>2. Known \subseteq Agents /\ IsFiniteSet(Known) /\ Cardinality(Known) \in Nat
  BY KnownIs
<1>3. CASE full
  <2>1. kept = [work EXCEPT ![b0] = NoWork]
    BY <1>3 DEF Forgotten
  <2>2. Known # {}
    BY <1>2, <1>3, FS_EmptySet, Constants
  <2>3. \A b \in Known : Signals[b] \in Nat
    BY <1>2 DEF Signals, Shapes, Table
  <2>4. b0 \in Known
    BY <2>2, <2>3, FirstIsThere
  <2> HIDE DEF kept, b0
  <2>5. /\ kept = [b \in Agents |-> kept[b]] /\ kept[b0] = NoWork
        /\ \A b \in Agents \ {b0} : kept[b] = work[b]
    BY <1>1, <1>2, <2>1, <2>4
  <2>6. b0 # a
    BY <1>3, <2>4
  <2>7. K = Known \ {b0}
    <3>1. ASSUME NEW b \in Agents
          PROVE  kept[b].signal # None <=> b \in Known /\ b # b0
      <4>1. CASE b = b0
        BY <2>5, <4>1, NoWorkIs
      <4>2. CASE b # b0
        BY <2>5, <4>2 DEF Known
      <4> QED
        BY <4>1, <4>2
    <3> QED
      BY <1>2, <3>1
  <2>8. IsFiniteSet(K) /\ Cardinality(K) = Cardinality(Known) - 1
    BY <1>2, <2>4, <2>7, FS_RemoveElement
  <2> HIDE DEF K
  <2>9. Cardinality(K \union {a}) \in Nat /\ Cardinality(K \union {a}) <= Cardinality(K) + 1
    BY <2>8, OneMore
  <2>10. Cardinality(K \union {a}) <= AgentsKept
    BY <1>1, <1>2, <2>8, <2>9, Constants
  <2>11. ~(a \in Known \/ Cardinality(Known) < AgentsKept)
    BY <1>2, <1>3, Constants
  <2> QED
    BY <2>5, <2>6, <2>7, <2>10, <2>11 DEF kept, K
<1>4. CASE ~full
  <2>1. kept = work
    BY <1>4 DEF Forgotten
  <2>2. K = Known
    BY <2>1 DEF Known
  <2>3. Cardinality(Known \union {a}) <= AgentsKept
    <3>1. CASE a \in Known
      <4>1. Known \union {a} = Known
        BY <3>1
      <4> QED
        BY <1>1, <4>1
    <3>2. CASE a \notin Known
      <4>1. Cardinality(Known) < AgentsKept
        BY <1>2, <1>4, <3>2, Constants
      <4>2. Cardinality(Known \union {a}) = Cardinality(Known) + 1
        BY <1>2, <3>2, OneMore
      <4> QED
        BY <1>2, <4>1, <4>2, Constants
    <3> QED
      BY <3>1, <3>2
  <2> HIDE DEF kept
  <2> QED
    BY <1>1, <2>1, <2>2, <2>3 DEF kept
<1> QED
  BY <1>3, <1>4

\* The log after a frame.
LEMMA HearLog ==
  ASSUME Shapes, NEW f \in Frames, Hear(f)
  PROVE  /\ now' = now /\ swept' = swept
         /\ f.kind = "Ended" => /\ heard' = heard /\ ends' = Append(ends, f) /\ f \in Ends
                                /\ Range(ends') = Range(ends) \union {f}
         /\ f.kind # "Ended" =>
              /\ ends' = ends
              /\ \A h \in heard' : \/ h = [agent |-> f.agent, key |-> Key(f), at |-> now]
                                   \/ h \in heard /\ ~(h.agent = f.agent /\ h.key = Key(f))
              /\ \A h \in heard : h \in heard' \/ (h.agent = f.agent /\ h.key = Key(f))
              /\ [agent |-> f.agent, key |-> Key(f), at |-> now] \in heard'
         /\ HeardOf' = HeardOf \union {f.agent}
         /\ ends' \in Seq(Ends) /\ heard' \subseteq Run
<1> DEFINE run == [agent |-> f.agent, key |-> Key(f), at |-> now]
<1>1. now' = now /\ swept' = swept
  BY DEF Hear, clock
<1>2. ends \in Seq(Ends) /\ heard \subseteq Run /\ now \in Nat
  BY DEF Shapes
<1>3. CASE f.kind = "Ended"
  <2>1. heard' = heard /\ ends' = Append(ends, f) /\ f \in Ends
    BY <1>3 DEF Hear, Ends
  <2>2. Range(ends') = Range(ends) \union {f}
    <3> DEFINE n == Len(ends)
               t == Append(ends, f)
    <3>1. DOMAIN ends = 1 .. n /\ DOMAIN t = 1 .. n + 1 /\ n \in Nat /\ t[n + 1] = f /\ \A i \in 1 .. n : t[i] = ends[i]
      BY <1>2, <2>1
    <3>2. 1 .. n + 1 = (1 .. n) \union {n + 1}
      BY <3>1
    <3> HIDE DEF n, t
    <3>3. Range(t) = Range(ends) \union {f}
      BY <3>1, <3>2 DEF Range
    <3> QED
      BY <2>1, <3>3 DEF t
  <2>3. HeardOf' = HeardOf \union {f.agent}
    BY <2>1, <2>2 DEF HeardOf
  <2> QED
    BY <1>1, <1>2, <1>3, <2>1, <2>2, <2>3
<1>4. CASE f.kind # "Ended"
  <2>1. ends' = ends /\ heard' = {h \in heard : <<h.agent, h.key>> # <<f.agent, Key(f)>>} \union {run}
    BY <1>4 DEF Hear
  <2>2. run \in Run /\ run.agent = f.agent /\ run.key = Key(f)
    BY <1>2, <1>4, FrameIs DEF Run
  <2> HIDE DEF run
  <2>3. /\ \A h \in heard' : h = run \/ (h \in heard /\ ~(h.agent = f.agent /\ h.key = Key(f)))
        /\ \A h \in heard : h \in heard' \/ (h.agent = f.agent /\ h.key = Key(f))
        /\ run \in heard'
    BY <2>1
  <2>4. HeardOf' = HeardOf \union {f.agent}
    BY <2>1, <2>2, <2>3 DEF HeardOf
  <2>5. heard' \subseteq Run
    BY <1>2, <2>2, <2>3
  <2> QED
    BY <1>1, <1>2, <1>4, <2>1, <2>3, <2>4, <2>5 DEF run
<1> QED
  BY <1>3, <1>4

\* The table after a frame.
LEMMA HearWork ==
  ASSUME Shapes, KnownWereHeard, NEW f \in Frames, Hear(f)
  PROVE  /\ work' = [b \in Agents |-> work'[b]]
         /\ \A b \in Agents \ {f.agent} : work'[b] = work[b] \/ work'[b] = NoWork
         /\ LET v == Took(work[f.agent], f)
            IN  /\ work'[f.agent].turns = v.turns /\ work'[f.agent].ended = v.ended
                /\ Table(v) => Table(work'[f.agent])
         /\ Known' \subseteq Known \union {f.agent} /\ Cardinality(Known') <= AgentsKept
         /\ Cardinality(HeardOf') <= AgentsKept =>
              /\ Cardinality(HeardOf) <= AgentsKept
              /\ \A b \in Agents \ {f.agent} : work'[b] = work[b]
<1> DEFINE a == f.agent
           kept == Forgotten(a)
           v == Took(work[a], f)
           w == [v EXCEPT !.signal = now]
           K == {b \in Agents : kept[b].signal # None}
<1>0. a \in Agents /\ now \in Nat /\ now # None /\ now' = now
  BY FrameIs DEF Shapes, None, Hear, clock
<1>1. /\ kept = [b \in Agents |-> kept[b]]
      /\ \A b \in Agents : kept[b] = work[b] \/ (kept[b] = NoWork /\ b # a)
      /\ kept[a] = work[a]
      /\ a \in Known \/ Cardinality(Known) < AgentsKept => kept = work
      /\ K \subseteq Known /\ Cardinality(K \union {a}) <= AgentsKept
  BY <1>0, ForgottenIs
<1>2. work' = [kept EXCEPT ![a] = w]
  BY <1>1 DEF Hear
<1>3. Table(work[a])
  BY <1>0 DEF Shapes
<1>4. Table(v)
  BY <1>0, <1>3, TookRun, TookEnd
<1>5. w = [turns |-> v.turns, ended |-> v.ended, signal |-> now]
  BY <1>4 DEF Table
<1> HIDE DEF v, w, kept
<1>6. /\ work' = [b \in Agents |-> work'[b]] /\ work'[a] = w
      /\ \A b \in Agents \ {a} : work'[b] = kept[b]
  BY <1>0, <1>1, <1>2
<1>7. w.turns = v.turns /\ w.ended = v.ended /\ w.signal = now /\ w = [turns |-> w.turns, ended |-> w.ended, signal |-> w.signal]
  BY <1>5
<1>8. Table(w)
  BY <1>0, <1>4, <1>7 DEF Table
<1>9. Known' = K \union {a}
  <2>1. \A b \in Agents : work'[b].signal # None <=> (b = a \/ kept[b].signal # None)
    BY <1>0, <1>6, <1>7
  <2> QED
    BY <1>0, <2>1 DEF Known
<1>10. ASSUME Cardinality(HeardOf') <= AgentsKept
       PROVE  Cardinality(HeardOf) <= AgentsKept /\ kept = work
  <2>1. HeardOf' = HeardOf \union {a}
    BY HearLog
  <2>2. HeardOf \subseteq Agents /\ IsFiniteSet(HeardOf) /\ Cardinality(HeardOf) \in Nat /\ IsFiniteSet(Known) /\ Cardinality(Known) \in Nat
    BY KnownIs
  <2>3. HeardOf' \subseteq Agents /\ IsFiniteSet(HeardOf') /\ Cardinality(HeardOf') \in Nat
    BY <1>0, <2>1, <2>2, AgentsFinite
  <2>4. Cardinality(HeardOf) <= Cardinality(HeardOf')
    BY <2>1, <2>3, FS_Subset
  <2>5. ASSUME a \notin Known
        PROVE  Cardinality(Known) < AgentsKept
    <3>1. Known \union {a} \subseteq HeardOf'
      BY <2>1 DEF KnownWereHeard
    <3>2. Cardinality(Known \union {a}) <= Cardinality(HeardOf')
      BY <2>3, <3>1, FS_Subset
    <3>3. Cardinality(Known \union {a}) = Cardinality(Known) + 1
      BY <2>2, <2>5, OneMore
    <3> QED
      BY <1>10, <2>2, <2>3, <3>2, <3>3, Constants
  <2> QED
    BY <1>1, <1>10, <2>2, <2>3, <2>4, <2>5, Constants
<1>11. \A b \in Agents \ {a} : work'[b] = work[b] \/ work'[b] = NoWork
  BY <1>1, <1>6
<1>12. Cardinality(HeardOf') <= AgentsKept => \A b \in Agents \ {a} : work'[b] = work[b]
  BY <1>6, <1>10
<1> HIDE DEF K
<1> QED
  BY <1>1, <1>6, <1>7, <1>8, <1>9, <1>10, <1>11, <1>12 DEF v, K

\* What is shown after a frame was heard.
LEMMA HearBacked ==
  ASSUME Shapes, Accounts, NEW f \in Frames, Hear(f)
  PROVE  (Backed /\ KnownWereHeard /\ HeardOnce)'
<1> DEFINE a == f.agent
           v == Took(work[a], f)
           run == [agent |-> a, key |-> Key(f), at |-> now]
<1>1. /\ now' = now /\ swept' = swept
      /\ f.kind = "Ended" => heard' = heard
      /\ f.kind # "Ended" =>
           /\ \A h \in heard' : h = run \/ (h \in heard /\ ~(h.agent = a /\ h.key = Key(f)))
           /\ \A h \in heard : h \in heard' \/ (h.agent = a /\ h.key = Key(f))
           /\ run \in heard'
      /\ HeardOf' = HeardOf \union {a}
  BY HearLog
<1>2. /\ \A b \in Agents \ {a} : work'[b] = work[b] \/ work'[b] = NoWork
      /\ work'[a].turns = v.turns
      /\ Known' \subseteq Known \union {a}
  BY HearWork DEF Accounts
<1>3. a \in Agents /\ now \in Nat /\ Table(work[a])
  BY FrameIs DEF Shapes
<1>4. Backed'
  <2> SUFFICES ASSUME NEW b \in Agents, NEW k \in DOMAIN work'[b].turns
               PROVE  /\ \E h \in heard' : h.agent = b /\ h.key = k /\ work'[b].turns[k].last <= h.at
                      /\ swept => now <= work'[b].turns[k].last + Fresh
    BY <1>1 DEF Backed, Shown
  <2>1. ASSUME k \in DOMAIN work[b].turns, work'[b].turns[k] = work[b].turns[k],
               f.kind = "Ended" \/ b # a \/ k # Key(f)
        PROVE  /\ \E h \in heard' : h.agent = b /\ h.key = k /\ work'[b].turns[k].last <= h.at
               /\ swept => now <= work'[b].turns[k].last + Fresh
    <3>1. /\ \E h \in heard : h.agent = b /\ h.key = k /\ work[b].turns[k].last <= h.at
          /\ swept => now <= work[b].turns[k].last + Fresh
      BY <2>1 DEF Accounts, Backed, Shown
    <3> QED
      BY <1>1, <2>1, <3>1
  <2>2. CASE b # a
    <3>1. work'[b] = work[b]
      BY <1>2, <2>2, NoWorkIs
    <3> QED
      BY <2>1, <2>2, <3>1
  <2>3. CASE b = a /\ f.kind = "Ended"
    <3>1. \A j \in DOMAIN v.turns : j \in DOMAIN work[a].turns /\ v.turns[j] = work[a].turns[j]
      BY <1>3, <2>3, TookEnd
    <3> QED
      BY <1>2, <2>1, <2>3, <3>1
  <2>4. CASE b = a /\ f.kind # "Ended"
    <3>1. /\ \A j \in DOMAIN v.turns \ {Key(f)} : j \in DOMAIN work[a].turns /\ v.turns[j] = work[a].turns[j]
          /\ Key(f) \in DOMAIN v.turns => v.turns[Key(f)].last = now
      BY <1>3, <2>4, TookRun
    <3> HIDE DEF v
    <3>2. CASE k = Key(f)
      <4>1. work'[b].turns[k].last = now
        BY <1>2, <2>4, <3>1, <3>2
      <4>2. run \in heard' /\ run.agent = b /\ run.key = k /\ run.at = now
        BY <1>1, <2>4, <3>2
      <4>3. now <= now /\ now <= now + Fresh
        BY <1>3, Constants
      <4> QED
        BY <4>1, <4>2, <4>3
    <3>3. CASE k # Key(f)
      BY <1>2, <2>1, <2>4, <3>1, <3>3
    <3> QED
      BY <3>2, <3>3
  <2> QED
    BY <2>2, <2>3, <2>4
<1>5. KnownWereHeard'
  BY <1>1, <1>2 DEF Accounts, KnownWereHeard
<1>6. HeardOnce'
  <2>1. f.kind # "Ended" => (run.key \in Turns => run.agent = TurnAgent[run.key])
    <3>1. f.kind # "Ended" /\ Key(f) \in Turns => f.turn = Key(f) /\ f.turn # None
      BY FrameIs, Constants DEF None
    <3> QED
      BY <3>1, FrameIs
  <2>2. run.agent = a /\ run.key = Key(f)
    OBVIOUS
  <2> HIDE DEF run
  <2> QED
    BY <1>1, <2>1, <2>2 DEF Accounts, HeardOnce
<1> QED
  BY <1>4, <1>5, <1>6

\* The tombstones after a frame was heard.
LEMMA HearBuried ==
  ASSUME Shapes, Accounts, NEW f \in Frames, Hear(f)
  PROVE  BuriedByName'
<1> DEFINE a == f.agent
           v == Took(work[a], f)
<1> SUFFICES ASSUME Cardinality(HeardOf') <= AgentsKept, NEW b \in Agents, None \notin NamedEnds(b)'
             PROVE  Range(work'[b].ended) \subseteq NamedEnds(b)'
  BY DEF BuriedByName
<1>1. /\ f.kind = "Ended" => Range(ends') = Range(ends) \union {f}
      /\ f.kind # "Ended" => ends' = ends
  BY HearLog
<1>2. /\ \A c \in Agents \ {a} : work'[c] = work[c]
      /\ work'[a].ended = v.ended /\ Cardinality(HeardOf) <= AgentsKept
  BY HearWork DEF Accounts
<1>3. /\ NamedEnds(b) \subseteq NamedEnds(b)'
      /\ f.kind = "Ended" /\ b = a => f.turn \in NamedEnds(b)'
  BY <1>1 DEF NamedEnds
<1>4. Range(work[b].ended) \subseteq NamedEnds(b)
  BY <1>2, <1>3 DEF Accounts, BuriedByName
<1>5. a \in Agents /\ now \in Nat /\ Table(work[a])
  BY FrameIs DEF Shapes
<1>6. CASE b # a
  BY <1>2, <1>3, <1>4, <1>6
<1>7. CASE b = a /\ f.kind # "Ended"
  <2>1. v.ended = work[a].ended
    BY <1>5, <1>7, TookRun
  <2> QED
    BY <1>2, <1>3, <1>4, <1>7, <2>1
<1>8. CASE b = a /\ f.kind = "Ended"
  <2>1. f.turn # None /\ f.turn \in Keys
    BY <1>3, <1>8, FrameIs, KeysFinite
  <2>2. Buries(work[a].ended, v.ended, f.turn)
    BY <1>5, <1>8, <2>1, TookEnd
  <2> HIDE DEF v
  <2>3. Range(v.ended) \subseteq Range(work[a].ended) \union {f.turn}
    BY <1>5, <2>1, <2>2, BuriesIs DEF Table
  <2> QED
    BY <1>2, <1>3, <1>4, <1>8, <2>3
<1> QED
  BY <1>6, <1>7, <1>8

\* Of the ends heard, one more.
LEMMA OneMoreEnd ==
  ASSUME ends \in Seq(Ends), NEW f \in Ends
  PROVE  LET n == Len(ends)
             t == Append(ends, f)
         IN  /\ n \in Nat /\ DOMAIN ends = 1 .. n /\ DOMAIN t = 1 .. n + 1
             /\ t[n + 1] = f /\ \A i \in 1 .. n : t[i] = ends[i]
             /\ \A i \in 1 .. n :
                  /\ FirstNamed(t, i) => FirstNamed(ends, i)
                  /\ IsFiniteSet(OthersAfter(ends, i)) /\ Cardinality(OthersAfter(ends, i)) \in Nat
                  /\ f.agent = ends[i].agent /\ f.turn # ends[i].turn
                       => Cardinality(OthersAfter(t, i)) = Cardinality(OthersAfter(ends, i)) + 1
                  /\ ~(f.agent = ends[i].agent /\ f.turn # ends[i].turn)
                       => OthersAfter(t, i) = OthersAfter(ends, i)
             /\ OthersAfter(t, n + 1) = {}
             /\ FirstNamed(t, n + 1) => f.turn # None /\ NamedEnds(f.agent) \intersect {None, f.turn} = {}
<1> DEFINE n == Len(ends)
           t == Append(ends, f)
<1>1. n \in Nat /\ DOMAIN ends = 1 .. n /\ DOMAIN t = 1 .. n + 1 /\ t[n + 1] = f /\ \A i \in 1 .. n : t[i] = ends[i]
  OBVIOUS
<1>2. 1 .. n + 1 = (1 .. n) \union {n + 1} /\ \A i \in 1 .. n : n + 1 > i /\ n + 1 # i /\ i < n + 1
  BY <1>1
<1>3. IsFiniteSet(1 .. n)
  BY <1>1, FS_Interval
<1> HIDE DEF n, t
<1>4. ASSUME NEW i \in 1 .. n
      PROVE  /\ FirstNamed(t, i) => FirstNamed(ends, i)
             /\ IsFiniteSet(OthersAfter(ends, i)) /\ Cardinality(OthersAfter(ends, i)) \in Nat
             /\ f.agent = ends[i].agent /\ f.turn # ends[i].turn
                  => Cardinality(OthersAfter(t, i)) = Cardinality(OthersAfter(ends, i)) + 1
             /\ ~(f.agent = ends[i].agent /\ f.turn # ends[i].turn)
                  => OthersAfter(t, i) = OthersAfter(ends, i)
  <2>1. FirstNamed(t, i) => FirstNamed(ends, i)
    BY <1>1, <1>2 DEF FirstNamed
  <2>2. OthersAfter(ends, i) \subseteq 1 .. n
    BY <1>1 DEF OthersAfter
  <2>3. IsFiniteSet(OthersAfter(ends, i)) /\ Cardinality(OthersAfter(ends, i)) \in Nat
    BY <1>3, <2>2, FS_Subset, FS_CardinalityType
  <2>4. ASSUME NEW j \in 1 .. n
        PROVE  j \in OthersAfter(t, i) <=> j \in OthersAfter(ends, i)
    BY <1>1, <1>2 DEF OthersAfter
  <2>5. n + 1 \in OthersAfter(t, i) <=> f.agent = ends[i].agent /\ f.turn # ends[i].turn
    BY <1>1, <1>2 DEF OthersAfter
  <2>6. OthersAfter(t, i) \subseteq (1 .. n) \union {n + 1}
    BY <1>1, <1>2 DEF OthersAfter
  <2>7. n + 1 \notin OthersAfter(ends, i)
    BY <1>2, <2>2
  <2>8. CASE f.agent = ends[i].agent /\ f.turn # ends[i].turn
    <3>1. OthersAfter(t, i) = OthersAfter(ends, i) \union {n + 1}
      BY <2>2, <2>4, <2>5, <2>6, <2>8
    <3> QED
      BY <2>1, <2>3, <2>7, <2>8, <3>1, OneMore
  <2>9. CASE ~(f.agent = ends[i].agent /\ f.turn # ends[i].turn)
    <3>1. OthersAfter(t, i) = OthersAfter(ends, i)
      BY <2>2, <2>4, <2>5, <2>6, <2>9
    <3> QED
      BY <2>1, <2>3, <2>9, <3>1
  <2> QED
    BY <2>8, <2>9
<1>5. OthersAfter(t, n + 1) = {}
  BY <1>1, <1>2 DEF OthersAfter
<1>6. ASSUME FirstNamed(t, n + 1)
      PROVE  f.turn # None /\ NamedEnds(f.agent) \intersect {None, f.turn} = {}
  <2>1. f.turn # None /\ \A j \in 1 .. n : ends[j].agent = f.agent => ends[j].turn \notin {None, f.turn}
    BY <1>1, <1>2, <1>6 DEF FirstNamed
  <2> QED
    BY <1>1, <2>1 DEF NamedEnds, Range
<1> QED
  BY <1>1, <1>4, <1>5, <1>6 DEF n, t

LEMMA WithinMore ==
  ASSUME NEW q \in Seq(Keys), NEW x, NEW n \in Nat, Within(q, x, n)
  PROVE  Within(q, x, n + 1) /\ x \in Range(q)
<1>1. PICK p \in DOMAIN q : q[p] = x /\ Len(q) <= p + n
  BY DEF Within
<1>2. p \in Nat /\ Len(q) \in Nat /\ Len(q) <= p + (n + 1)
  BY <1>1
<1> QED
  BY <1>1, <1>2 DEF Within, Range

\* How deep the tombstones are after a frame was heard.
LEMMA HearRemembered ==
  ASSUME Shapes, Accounts, NEW f \in Frames, Hear(f)
  PROVE  Remembered'
<1> DEFINE a == f.agent
           v == Took(work[a], f)
           n == Len(ends)
<1> SUFFICES ASSUME Cardinality(HeardOf') <= AgentsKept, NEW i \in DOMAIN ends', FirstNamed(ends', i),
                    Cardinality(OthersAfter(ends', i)) < EndedPerAgent
             PROVE  Within(work'[ends'[i].agent].ended, ends'[i].turn, Cardinality(OthersAfter(ends', i)))
  BY DEF Remembered
<1>1. /\ f.kind = "Ended" => ends' = Append(ends, f) /\ f \in Ends
      /\ f.kind # "Ended" => ends' = ends
  BY HearLog
<1>2. /\ \A b \in Agents \ {a} : work'[b] = work[b]
      /\ work'[a].ended = v.ended /\ Cardinality(HeardOf) <= AgentsKept
  BY HearWork DEF Accounts
<1>3. a \in Agents /\ now \in Nat /\ Table(work[a]) /\ ends \in Seq(Ends)
  BY FrameIs DEF Shapes
<1>4. \A j \in DOMAIN ends : ends[j].agent \in Agents
  BY <1>3, FrameIs DEF Ends
<1>5. \A j \in DOMAIN ends : FirstNamed(ends, j) /\ Cardinality(OthersAfter(ends, j)) < EndedPerAgent =>
        Within(work[ends[j].agent].ended, ends[j].turn, Cardinality(OthersAfter(ends, j)))
  BY <1>2 DEF Accounts, Remembered
<1>6. CASE f.kind # "Ended"
  <2>1. v.ended = work[a].ended
    BY <1>3, <1>6, TookRun
  <2> HIDE DEF v
  <2>2. \A b \in Agents : work'[b].ended = work[b].ended
    BY <1>2, <2>1
  <2> QED
    BY <1>1, <1>4, <1>5, <1>6, <2>2
<1>7. CASE f.kind = "Ended"
  <2> DEFINE t == Append(ends, f)
  <2>0. ends' = t /\ f \in Ends
    BY <1>1, <1>7
  <2>1. /\ n \in Nat /\ DOMAIN ends = 1 .. n /\ DOMAIN t = 1 .. n + 1
        /\ t[n + 1] = f /\ \A j \in 1 .. n : t[j] = ends[j]
        /\ OthersAfter(t, n + 1) = {}
        /\ FirstNamed(t, n + 1) => f.turn # None /\ NamedEnds(f.agent) \intersect {None, f.turn} = {}
    BY <1>3, <2>0, OneMoreEnd
  <2>2. \A j \in 1 .. n :
          /\ FirstNamed(t, j) => FirstNamed(ends, j)
          /\ IsFiniteSet(OthersAfter(ends, j)) /\ Cardinality(OthersAfter(ends, j)) \in Nat
          /\ f.agent = ends[j].agent /\ f.turn # ends[j].turn
               => Cardinality(OthersAfter(t, j)) = Cardinality(OthersAfter(ends, j)) + 1
          /\ ~(f.agent = ends[j].agent /\ f.turn # ends[j].turn)
               => OthersAfter(t, j) = OthersAfter(ends, j)
    BY <1>3, <2>0, OneMoreEnd
  <2>3. /\ f.turn # None => Buries(work[a].ended, v.ended, f.turn)
        /\ v.ended = work[a].ended \/ \E k \in Keys : Buries(work[a].ended, v.ended, k)
    BY <1>3, <1>7, TookEnd
  <2>4. work[a].ended \in Seq(Keys) /\ Len(work[a].ended) <= EndedPerAgent /\ (f.turn # None => f.turn \in Keys)
    BY <1>3, FrameIs, KeysFinite DEF Table
  <2>5. 1 .. n + 1 = (1 .. n) \union {n + 1}
    BY <2>1
  <2> HIDE DEF t, n, v
  <2>6. CASE i = n + 1
    <3>1. f.turn # None /\ NamedEnds(a) \intersect {None, f.turn} = {}
      BY <2>0, <2>1, <2>6
    <3>2. f.turn \notin Range(work[a].ended)
      BY <1>2, <1>3, <3>1 DEF Accounts, BuriedByName
    <3>3. Within(v.ended, f.turn, 0)
      BY <2>3, <2>4, <3>1, <3>2, BuriesIs
    <3>4. Cardinality(OthersAfter(ends', i)) = 0 /\ ends'[i] = f
      BY <2>0, <2>1, <2>6, FS_EmptySet
    <3> QED
      BY <1>2, <3>3, <3>4
  <2>7. CASE i \in 1 .. n
    <3> DEFINE e == ends[i]
               c == Cardinality(OthersAfter(ends, i))
               d == Cardinality(OthersAfter(ends', i))
    <3>1. ends'[i] = e /\ FirstNamed(ends, i) /\ c \in Nat /\ e.turn # None /\ e.agent \in Agents
      BY <1>4, <2>0, <2>1, <2>2, <2>7 DEF FirstNamed
    <3>2. c < EndedPerAgent => Within(work[e.agent].ended, e.turn, c)
      BY <1>5, <2>1, <2>7, <3>1
    <3>3. CASE e.agent # a
      <4>1. d = c
        BY <2>0, <2>2, <2>7, <3>3
      <4> QED
        BY <1>2, <3>1, <3>2, <3>3, <4>1
    <3>4. CASE e.agent = a /\ f.turn # e.turn
      <4>1. d = c + 1
        BY <2>0, <2>2, <2>7, <3>4
      <4> HIDE DEF c, d
      <4>2. c + 1 < EndedPerAgent /\ c < EndedPerAgent
        BY <3>1, <4>1, Constants DEF d
      <4>3. Within(work[a].ended, e.turn, c)
        BY <3>2, <3>4, <4>2
      <4>4. Within(v.ended, e.turn, c + 1)
        <5>1. CASE v.ended = work[a].ended
          BY <2>4, <3>1, <4>3, <5>1, WithinMore
        <5>2. CASE \E k \in Keys : Buries(work[a].ended, v.ended, k)
          BY <2>4, <3>1, <4>2, <4>3, <5>2, BuriesIs
        <5> QED
          BY <2>3, <5>1, <5>2
      <4> QED
        BY <1>2, <3>1, <3>4, <4>1, <4>4 DEF d
    <3>5. CASE e.agent = a /\ f.turn = e.turn
      <4>1. d = c
        BY <2>0, <2>2, <2>7, <3>5
      <4> HIDE DEF c, d
      <4>2. Within(work[a].ended, e.turn, c)
        BY <3>2, <3>5, <4>1 DEF d
      <4>3. v.ended = work[a].ended
        BY <2>3, <2>4, <3>1, <3>5, <4>2, WithinMore DEF Buries
      <4> QED
        BY <1>2, <3>1, <3>5, <4>1, <4>2, <4>3 DEF d
    <3> QED
      BY <3>3, <3>4, <3>5
  <2> QED
    BY <2>0, <2>1, <2>5, <2>6, <2>7
<1> QED
  BY <1>6, <1>7

LEMMA NamesFinite ==
  ASSUME Shapes, NEW b
  PROVE  /\ HeardKeys(b) \subseteq Keys /\ NamedEnds(b) \subseteq Keys \union {None}
         /\ \A S : S \subseteq Keys \union {None} => IsFiniteSet(S) /\ Cardinality(S) \in Nat
<1>1. HeardKeys(b) \subseteq Keys
  BY DEF HeardKeys, Shapes, Run
<1>2. \A e \in Range(ends) : e \in Frames
  BY DEF Shapes, Range, Ends
<1>3. NamedEnds(b) \subseteq Keys \union {None}
  BY <1>2, FrameIs, KeysFinite DEF NamedEnds
<1>4. IsFiniteSet(Keys \union {None})
  BY KeysFinite, OneMore
<1> QED
  BY <1>1, <1>3, <1>4, FS_Subset, FS_CardinalityType

\* What runs is in the table after a frame was heard.
LEMMA HearKept ==
  ASSUME Shapes, Shapes', Accounts, NEW f \in Frames, Hear(f)
  PROVE  Kept'
<1> DEFINE a == f.agent
           v == Took(work[a], f)
           run == [agent |-> a, key |-> Key(f), at |-> now]
<1> SUFFICES ASSUME Cardinality(HeardOf') <= AgentsKept, NEW h \in heard', Lives(h)'
             PROVE  h.key \in DOMAIN work'[h.agent].turns /\ work'[h.agent].turns[h.key].last = h.at
  BY DEF Kept, Shown
<1>1. /\ now' = now
      /\ f.kind = "Ended" => heard' = heard /\ Range(ends') = Range(ends) \union {f}
      /\ f.kind # "Ended" =>
           /\ ends' = ends
           /\ \A g \in heard' : g = run \/ (g \in heard /\ ~(g.agent = a /\ g.key = Key(f)))
           /\ \A g \in heard : g \in heard' \/ (g.agent = a /\ g.key = Key(f))
           /\ run \in heard'
  BY HearLog
<1>2. /\ \A b \in Agents \ {a} : work'[b] = work[b]
      /\ work'[a].turns = v.turns /\ Cardinality(HeardOf) <= AgentsKept
  BY HearWork DEF Accounts
<1>3. a \in Agents /\ now \in Nat /\ Table(work[a]) /\ run.agent = a /\ run.key = Key(f) /\ run.at = now
  BY FrameIs DEF Shapes
<1>4. h.agent \in Agents
  BY DEF Shapes, Run
<1> DEFINE N == NamedEnds(h.agent)
           H == HeardKeys(h.agent)
           W == N \union H
           NN == N'
           HH == H'
<1>5. /\ N \subseteq NN /\ H \subseteq HH
      /\ f.kind = "Ended" /\ h.agent = a => f.turn \in NN
      /\ f.kind # "Ended" /\ h.agent = a => Key(f) \in HH
  <2>1. N \subseteq NN /\ (f.kind = "Ended" /\ h.agent = a => f.turn \in NN)
    BY <1>1 DEF NamedEnds
  <2> HIDE DEF run
  <2>2. H \subseteq HH /\ (f.kind # "Ended" /\ h.agent = a => Key(f) \in HH)
    BY <1>1, <1>3 DEF HeardKeys
  <2> QED
    BY <2>1, <2>2
<1>6. /\ h.key \in Turns /\ TurnChannel[h.key] # None /\ now <= h.at + Fresh
      /\ NN \intersect {None, h.key} = {} /\ Cardinality(HH \union NN) <= TurnsPerAgent
  BY <1>1 DEF Lives
<1>7. /\ HH \union NN \subseteq Keys \union {None}
      /\ \A S : S \subseteq Keys \union {None} => IsFiniteSet(S) /\ Cardinality(S) \in Nat
  <2>1. N \subseteq Keys \union {None} /\ H \subseteq Keys
    BY NamesFinite
  <2>2. NN \subseteq Keys \union {None}
    <3>1. \A e \in Range(ends') : e \in Frames
      BY DEF Shapes, Range, Ends
    <3> QED
      BY <3>1, FrameIs, KeysFinite DEF NamedEnds
  <2>3. HH \subseteq Keys
    BY DEF HeardKeys, Shapes, Run
  <2> QED
    BY <2>2, <2>3, NamesFinite
<1> HIDE DEF N, H, NN, HH
<1>8. \A S : S \subseteq HH \union NN => IsFiniteSet(S) /\ Cardinality(S) \in Nat /\ Cardinality(S) <= TurnsPerAgent
  <2> SUFFICES ASSUME NEW S, S \subseteq HH \union NN
               PROVE  IsFiniteSet(S) /\ Cardinality(S) \in Nat /\ Cardinality(S) <= TurnsPerAgent
    OBVIOUS
  <2>1. S \subseteq Keys \union {None} /\ IsFiniteSet(S) /\ Cardinality(S) \in Nat
    BY <1>7
  <2>2. IsFiniteSet(HH \union NN) /\ Cardinality(HH \union NN) \in Nat
    BY <1>7
  <2>3. Cardinality(S) <= Cardinality(HH \union NN)
    BY <2>2, FS_Subset
  <2> QED
    BY <1>6, <2>1, <2>2, <2>3, Constants
<1>9. h \in heard => h.key \in DOMAIN work[h.agent].turns /\ work[h.agent].turns[h.key].last = h.at
  <2> SUFFICES ASSUME h \in heard
               PROVE  h.key \in DOMAIN work[h.agent].turns /\ work[h.agent].turns[h.key].last = h.at
    OBVIOUS
  <2>1. N \intersect {None, h.key} = {} /\ Cardinality(H \union N) <= TurnsPerAgent
    BY <1>5, <1>6, <1>8
  <2>2. Lives(h)
    BY <1>6, <2>1 DEF Lives, N, H
  <2> QED
    BY <1>2, <2>2 DEF Accounts, Kept, Shown
<1> HIDE DEF run
<1>10. CASE h.agent # a
  <2>1. h \in heard
    BY <1>1, <1>3, <1>10
  <2> QED
    BY <1>2, <1>4, <1>9, <1>10, <2>1
<1>11. CASE h.agent = a /\ f.kind = "Ended"
  <2>1. h \in heard /\ f.turn # None /\ f.turn # h.key
    BY <1>1, <1>5, <1>6, <1>11
  <2>2. /\ \A j \in DOMAIN v.turns : v.turns[j] = work[a].turns[j]
        /\ DOMAIN v.turns = DOMAIN work[a].turns \ {f.turn}
    BY <1>3, <1>11, <2>1, TookEnd
  <2> HIDE DEF v
  <2> QED
    BY <1>2, <1>9, <1>11, <2>1, <2>2
<1>12. CASE h.agent = a /\ f.kind # "Ended"
  <2> DEFINE D == DOMAIN work[a].turns
             k == Key(f)
  <2>1. D \subseteq H
    BY <1>3, <1>12 DEF Accounts, Backed, Shown, H, HeardKeys
  <2>2. k \in D \/ Cardinality(D) < TurnsPerAgent
    <3> SUFFICES ASSUME k \notin D
                 PROVE  Cardinality(D) < TurnsPerAgent
      OBVIOUS
    <3>1. D \union {k} \subseteq HH \union NN
      BY <1>5, <1>12, <2>1
    <3>2. Cardinality(D \union {k}) <= TurnsPerAgent /\ IsFiniteSet(D) /\ Cardinality(D) \in Nat
      BY <1>8, <3>1
    <3>3. Cardinality(D \union {k}) = Cardinality(D) + 1
      BY <3>2, OneMore
    <3> QED
      BY <3>2, <3>3, Constants
  <2>3. /\ \A j \in DOMAIN v.turns \ {k} : v.turns[j] = work[a].turns[j]
        /\ k \in DOMAIN v.turns => v.turns[k].last = now
        /\ D \subseteq DOMAIN v.turns
        /\ k \notin Range(work[a].ended) /\ f.channel # None => k \in DOMAIN v.turns
    BY <1>3, <1>12, <2>2, TookRun
  <2> HIDE DEF v
  <2>4. CASE h = run
    <3>1. h.key = k /\ h.at = now
      BY <1>3, <2>4
    <3>2. f.turn = k /\ f.turn # None /\ f.channel # None
      BY <1>6, <1>12, <3>1, FrameIs, Constants DEF None
    <3>3. None \notin N /\ k \notin N
      BY <1>5, <1>6, <3>1
    <3>4. Range(work[a].ended) \subseteq N
      BY <1>2, <1>3, <1>12, <3>3 DEF Accounts, BuriedByName, N
    <3>5. k \in DOMAIN v.turns /\ v.turns[k].last = now
      BY <2>3, <3>2, <3>3, <3>4
    <3> QED
      BY <1>2, <1>12, <3>1, <3>5
  <2>5. CASE h # run
    <3>1. h \in heard /\ h.key # k
      BY <1>1, <1>12, <2>5
    <3> QED
      BY <1>2, <1>9, <1>12, <2>3, <3>1
  <2> QED
    BY <2>4, <2>5
<1> QED
  BY <1>10, <1>11, <1>12

-----------------------------------------------------------------------------
(* The parts of Shapes that several steps change or keep.                    *)

Tables ==
  /\ work = [a \in Agents |-> work[a]] /\ \A a \in Agents : Table(work[a])
  /\ Cardinality(Known) <= AgentsKept

Placed(c, load) ==
  /\ c = [open |-> c.open, level |-> c.level, at |-> c.at, context |-> c.context, asked |-> c.asked]
  /\ c.level \in {"List", "Detail"} /\ c.at \in Nat /\ c.at = Below(c.at, Count(load))

LEMMA BelowIs ==
  ASSUME NEW i \in Nat, NEW load, load.agents \subseteq Agents
  PROVE  LET n == Count(load)
         IN  n \in Nat /\ Below(i, n) \in Nat /\ Below(Below(i, n), n) = Below(i, n)
<1> DEFINE n == Count(load)
<1>1. n \in Nat
  BY AgentsFinite DEF Count
<1> HIDE DEF n
<1>2. Below(i, n) \in Nat /\ Below(Below(i, n), n) = Below(i, n)
  BY <1>1 DEF Below
<1> QED
  BY <1>1, <1>2 DEF n

\* A cursor clamped to a list is on one of it while there is one.
LEMMA ClampPlaces ==
  ASSUME NEW c, NEW old, Placed(c, old), NEW load, load.agents \subseteq Agents, NEW w
  PROVE  Placed(Clamp(c, load, w), load)
<1> DEFINE x == Below(c.at, Count(load))
           y == Below(c.context, Contexts(load, w, c.at))
           d == [open |-> c.open, level |-> c.level, at |-> x, context |-> y, asked |-> c.asked]
<1>1. x \in Nat /\ Below(x, Count(load)) = x
  BY BelowIs DEF Placed
<1>2. Clamp(c, load, w) = d
  <2>1. c = [open |-> c.open, level |-> c.level, at |-> c.at, context |-> c.context, asked |-> c.asked]
    BY DEF Placed
  <2>2. Clamp(c, load, w) = [c EXCEPT !.at = x, !.context = y]
    BY <2>1 DEF Clamp
  <2> HIDE DEF x, y
  <2> QED
    BY <2>1, <2>2
<1> HIDE DEF x, y
<1>3. /\ d.open = c.open /\ d.level = c.level /\ d.at = x /\ d.context = y /\ d.asked = c.asked
      /\ d = [open |-> d.open, level |-> d.level, at |-> d.at, context |-> d.context, asked |-> d.asked]
  OBVIOUS
<1>4. c.level \in {"List", "Detail"}
  BY DEF Placed
<1> HIDE DEF d
<1>5. Placed(d, load)
  BY <1>1, <1>3, <1>4 DEF Placed
<1> QED
  BY <1>2, <1>5

\* Where neither the clock nor the table moves.
LEMMA SameTables ==
  ASSUME Shapes, UNCHANGED <<now, work>>
  PROVE  Tables'
<1>1. Known' = Known
  BY DEF Known
<1>2. \A a \in Agents : Table(work[a])'
  BY DEF Shapes, Table, TurnsTyped
<1> QED
  BY <1>1, <1>2 DEF Tables, Shapes

LEMMA SameAccounts ==
  ASSUME Accounts, UNCHANGED <<now, swept, work, heard, ends>>
  PROVE  Accounts'
<1>1. Backed'
  BY DEF Accounts, Backed, Shown
<1>2. HeardOf' = HeardOf /\ Known' = Known /\ \A a : NamedEnds(a)' = NamedEnds(a) /\ HeardKeys(a)' = HeardKeys(a)
  BY DEF HeardOf, Known, NamedEnds, HeardKeys
<1>3. KnownWereHeard' /\ HeardOnce'
  BY <1>2 DEF Accounts, KnownWereHeard, HeardOnce
<1>4. BuriedByName' /\ Remembered'
  BY <1>2 DEF Accounts, BuriedByName, Remembered
<1>5. Kept'
  BY <1>2 DEF Accounts, Kept, Lives, Shown
<1> QED
  BY <1>1, <1>3, <1>4, <1>5 DEF Accounts

\* Where all that was heard is given up.
LEMMA NothingIs ==
  ASSUME work' = Nothing, heard' = {}, ends' = <<>>
  PROVE  Tables' /\ Accounts'
<1>1. work' = [a \in Agents |-> NoWork] /\ \A a \in Agents : work'[a] = NoWork
  BY DEF Nothing
<1>2. \A a \in Agents : Table(work[a])'
  <2> SUFFICES ASSUME NEW a \in Agents
               PROVE  Table(work[a])'
    OBVIOUS
  <2>1. NoTurns = [k \in {} |-> None] /\ DOMAIN NoTurns = {}
    BY DEF NoTurns
  <2>2. Table(NoWork)
    BY NoWorkIs
  <2> QED
    BY <1>1, <2>1, <2>2 DEF Table, TurnsTyped, NoWork
<1>3. Known' = {}
  BY <1>1, NoWorkIs DEF Known
<1>4. Cardinality(Known') <= AgentsKept
  BY <1>3, FS_EmptySet, Constants
<1>5. Range(ends') = {} /\ DOMAIN ends' = {}
  BY DEF Range
<1>6. Backed' /\ BuriedByName'
  BY <1>1, NoWorkIs DEF Backed, BuriedByName, Shown
<1>7. KnownWereHeard' /\ HeardOnce'
  BY <1>3 DEF KnownWereHeard, HeardOnce
<1>8. Remembered' /\ Kept'
  BY <1>5 DEF Remembered, Kept
<1> QED
  BY <1>1, <1>2, <1>4, <1>6, <1>7, <1>8 DEF Tables, Accounts

-----------------------------------------------------------------------------
(* The steps, one by one.                                                    *)

LEMMA HearKeeps ==
  ASSUME Inv, NEW f \in Frames, Hear(f)
  PROVE  Inv'
<1> DEFINE a == f.agent
           v == Took(work[a], f)
<1> USE DEF Inv
<1>1. /\ UNCHANGED <<now, swept, feed, told, conn, roster, typing, spoken>>
      /\ feed = "Served" \/ "Closed" \in told
      /\ observed' = TRUE /\ cursor' = Clamp(cursor, roster, work')
  BY DEF Hear, clock, relay
<1>2. a \in Agents /\ now \in Nat /\ Table(work[a])
  BY FrameIs DEF Shapes
<1>3. Tables'
  <2>1. Table(v)
    BY <1>2, TookRun, TookEnd
  <2>2. /\ work' = [b \in Agents |-> work'[b]] /\ Cardinality(Known') <= AgentsKept
        /\ Table(work'[a])
        /\ \A b \in Agents \ {a} : work'[b] = work[b] \/ work'[b] = NoWork
    BY <2>1, HearWork DEF Accounts
  <2>3. \A b \in Agents : Table(work'[b])
    BY <2>2, NoWorkIs DEF Shapes
  <2>4. \A b \in Agents : Table(work[b])'
    BY <1>1, <2>3 DEF Table, TurnsTyped
  <2> QED
    BY <2>2, <2>4 DEF Tables
<1>4. Placed(cursor', roster')
  <2>1. Placed(cursor, roster) /\ roster.agents \subseteq Agents
    BY DEF Placed, Shapes
  <2> QED
    BY <1>1, <2>1, ClampPlaces
<1>5. heard' \subseteq Run /\ ends' \in Seq(Ends)
  BY HearLog
<1>6. Shapes'
  BY <1>1, <1>3, <1>4, <1>5 DEF Shapes, Tables, Placed
<1>7. Linked'
  BY <1>1 DEF Linked
<1>8. Accounts'
  BY <1>6, HearBacked, HearBuried, HearRemembered, HearKept DEF Accounts
<1> QED
  BY <1>6, <1>7, <1>8

LEMMA ConnectionKeeps ==
  ASSUME Inv, Connect \/ Disconnect \/ Closed
  PROVE  Inv'
<1> USE DEF Inv
<1>1. /\ work' = Nothing /\ heard' = {} /\ ends' = <<>> /\ observed' = FALSE
      /\ UNCHANGED <<now, swept, roster, spoken>>
  BY DEF Connect, Disconnect, Closed, Unobserve, clock
<1>2. Tables' /\ Accounts' /\ heard' \subseteq Run /\ ends' \in Seq(Ends) /\ Shapes
  BY <1>1, NothingIs
<1>3. Placed(cursor, roster) /\ roster.agents \subseteq Agents
  BY DEF Placed, Shapes
<1>4. CASE Connect
  <2>1. /\ conn' = TRUE /\ feed' = "Asked" /\ cursor' = [cursor EXCEPT !.asked = @ \/ cursor.open]
        /\ ~conn /\ told' = told /\ typing' = typing
    BY <1>4 DEF Connect
  <2>2. Placed(cursor', roster')
    BY <1>1, <1>3, <2>1 DEF Placed
  <2>3. Shapes'
    BY <1>1, <1>2, <2>1, <2>2, Constants DEF Shapes, Tables, Placed
  <2>4. Linked'
    BY <1>1, <2>1 DEF Linked
  <2> QED
    BY <1>2, <2>3, <2>4
<1>5. CASE Disconnect
  <2>1. /\ conn' = FALSE /\ feed' = "Off" /\ told' = {} /\ cursor' = cursor
        /\ typing' = [typing EXCEPT !.entries = {}]
    BY <1>5 DEF Disconnect
  <2>2. typing' = [entries |-> {}, listed |-> typing.listed]
    BY <2>1 DEF Shapes
  <2>3. Shapes'
    BY <1>1, <1>2, <2>1, <2>2 DEF Shapes, Tables
  <2>4. Linked'
    BY <1>1, <2>1, <2>2 DEF Linked
  <2> QED
    BY <1>2, <2>3, <2>4
<1>6. CASE Closed
  <2>1. /\ told' = {} /\ cursor' = Clamp(cursor, roster, work') /\ UNCHANGED <<feed, conn, typing>>
    BY <1>6 DEF Closed
  <2>2. Placed(cursor', roster')
    BY <1>1, <1>3, <2>1, ClampPlaces
  <2>3. Shapes'
    BY <1>1, <1>2, <2>1, <2>2, Constants DEF Shapes, Tables, Placed
  <2>4. Linked'
    BY <1>1, <2>1 DEF Linked
  <2> QED
    BY <1>2, <2>3, <2>4
<1> QED
  BY <1>4, <1>5, <1>6

LEMMA TickKeeps ==
  ASSUME Inv, Tick
  PROVE  Inv'
<1> USE DEF Inv
<1>1. /\ now < MaxTime /\ now' = now + 1 /\ swept' = FALSE /\ now \in 2 .. MaxTime /\ MaxTime \in Nat
      /\ UNCHANGED <<feed, told, conn, observed, work, roster, cursor, typing, heard, ends, spoken>>
  BY Constants DEF Tick, relay, log, Shapes
<1>2. now' \in 2 .. MaxTime /\ 0 .. now \subseteq 0 .. now' /\ now \in Nat /\ now' \in Nat
  BY <1>1
<1>3. Known' = Known /\ HeardOf' = HeardOf /\ \A a : NamedEnds(a)' = NamedEnds(a) /\ HeardKeys(a)' = HeardKeys(a)
  BY <1>1 DEF HeardOf, Known, NamedEnds, HeardKeys
<1>4. \A a \in Agents : Table(work[a])'
  <2> SUFFICES ASSUME NEW a \in Agents
               PROVE  Table(work[a])'
    OBVIOUS
  <2>1. Table(work[a])
    BY DEF Shapes
  <2>2. TurnsTyped(work[a].turns)'
    <3>1. TurnsTyped(work[a].turns)
      BY <2>1 DEF Table
    <3> QED
      BY <1>1, <1>2, <3>1 DEF TurnsTyped
  <2> QED
    BY <1>1, <2>1, <2>2 DEF Table
<1>5. Shapes'
  BY <1>1, <1>2, <1>3, <1>4 DEF Shapes
<1>6. Linked'
  BY <1>1 DEF Linked
<1>7. Backed' /\ KnownWereHeard' /\ HeardOnce'
  BY <1>1, <1>3 DEF Accounts, Backed, Shown, KnownWereHeard, HeardOnce
<1>8. BuriedByName' /\ Remembered'
  BY <1>1, <1>3 DEF Accounts, BuriedByName, Remembered
<1>9. Kept'
  <2>1. ASSUME NEW h \in heard, Lives(h)'
        PROVE  Lives(h)
    <3>1. heard \subseteq Run
      BY DEF Shapes
    <3>2. h.at \in Nat /\ Fresh \in Nat
      BY <3>1, Constants DEF Run
    <3>3. now' <= h.at + Fresh
      BY <2>1 DEF Lives
    <3>4. now <= h.at + Fresh
      BY <1>1, <1>2, <3>2, <3>3
    <3> QED
      BY <1>3, <2>1, <3>4 DEF Lives
  <2> QED
    BY <1>1, <1>3, <2>1 DEF Accounts, Kept, Shown
<1> QED
  BY <1>5, <1>6, <1>7, <1>8, <1>9 DEF Accounts

LEMMA ExpireKeeps ==
  ASSUME Inv, Expire
  PROVE  Inv'
<1> USE DEF Inv
<1>1. /\ swept' = TRUE /\ work' = [a \in Agents |-> Retired(work[a])]
      /\ cursor' = IF work' = work THEN cursor ELSE Clamp(cursor, roster, work')
      /\ typing' = [typing EXCEPT !.entries = {e \in @ : e.expires > now}]
      /\ UNCHANGED <<feed, told, now, conn, observed, roster, heard, ends, spoken>>
  BY DEF Expire, relay, log
<1>2. now \in Nat
  BY DEF Shapes
<1>3. \A a \in Agents :
        /\ Table(work'[a]) /\ work'[a].ended = work[a].ended /\ work'[a].signal = work[a].signal
        /\ DOMAIN work'[a].turns = {j \in DOMAIN work[a].turns : now <= work[a].turns[j].last + Fresh}
        /\ \A j \in DOMAIN work'[a].turns : work'[a].turns[j] = work[a].turns[j]
  <2> SUFFICES ASSUME NEW a \in Agents
               PROVE  /\ Table(work'[a]) /\ work'[a].ended = work[a].ended /\ work'[a].signal = work[a].signal
                      /\ DOMAIN work'[a].turns = {j \in DOMAIN work[a].turns : now <= work[a].turns[j].last + Fresh}
                      /\ \A j \in DOMAIN work'[a].turns : work'[a].turns[j] = work[a].turns[j]
    OBVIOUS
  <2>1. Table(work[a]) /\ work'[a] = Retired(work[a])
    BY <1>1 DEF Shapes
  <2> QED
    BY <1>2, <2>1, RetiredIs
<1>4. Known' = Known /\ HeardOf' = HeardOf /\ \A a : NamedEnds(a)' = NamedEnds(a) /\ HeardKeys(a)' = HeardKeys(a)
  BY <1>1, <1>3 DEF HeardOf, Known, NamedEnds, HeardKeys
<1>5. Tables'
  <2>1. now' = now /\ \A a \in Agents : Table(work'[a])
    BY <1>1, <1>3
  <2>2. \A a \in Agents : Table(work[a])'
    BY <2>1 DEF Table, TurnsTyped
  <2>3. work' = [a \in Agents |-> work'[a]]
    BY <1>1
  <2> QED
    BY <1>4, <2>2, <2>3 DEF Tables, Shapes
<1>6. Placed(cursor', roster')
  <2>1. Placed(cursor, roster) /\ roster.agents \subseteq Agents
    BY DEF Placed, Shapes
  <2>2. Placed(Clamp(cursor, roster, work'), roster)
    BY <2>1, ClampPlaces
  <2> QED
    BY <1>1, <2>1, <2>2
<1>7. typing' = [entries |-> {e \in typing.entries : e.expires > now}, listed |-> typing.listed]
  BY <1>1 DEF Shapes
<1>8. Shapes'
  BY <1>1, <1>5, <1>6, <1>7 DEF Shapes, Tables, Placed
<1>9. Linked'
  BY <1>1, <1>7 DEF Linked
<1>10. Backed'
  <2> SUFFICES ASSUME NEW a \in Agents, NEW k \in DOMAIN work'[a].turns
               PROVE  /\ \E h \in heard' : h.agent = a /\ h.key = k /\ work'[a].turns[k].last <= h.at
                      /\ now' <= work'[a].turns[k].last + Fresh
    BY <1>1 DEF Backed, Shown
  <2>1. k \in DOMAIN work[a].turns /\ work'[a].turns[k] = work[a].turns[k] /\ now <= work[a].turns[k].last + Fresh
    BY <1>3
  <2>2. \E h \in heard : h.agent = a /\ h.key = k /\ work[a].turns[k].last <= h.at
    BY <2>1 DEF Accounts, Backed, Shown
  <2> QED
    BY <1>1, <2>1, <2>2
<1>11. KnownWereHeard' /\ HeardOnce'
  BY <1>1, <1>4 DEF Accounts, KnownWereHeard, HeardOnce
<1>12. BuriedByName' /\ Remembered'
  <2>1. BuriedByName'
    BY <1>1, <1>3, <1>4 DEF Accounts, BuriedByName
  <2>2. \A i \in DOMAIN ends : ends[i].agent \in Agents
    BY FrameIs DEF Shapes, Ends
  <2>3. Remembered'
    BY <1>1, <1>3, <1>4, <2>2 DEF Accounts, Remembered
  <2> QED
    BY <2>1, <2>3
<1>13. Kept'
  <2> SUFFICES ASSUME Cardinality(HeardOf) <= AgentsKept, NEW h \in heard, Lives(h)
               PROVE  h.key \in DOMAIN work'[h.agent].turns /\ work'[h.agent].turns[h.key].last = h.at
    BY <1>1, <1>4 DEF Kept, Shown, Lives
  <2>1. h.key \in DOMAIN work[h.agent].turns /\ work[h.agent].turns[h.key].last = h.at
    BY DEF Accounts, Kept, Shown
  <2>2. h.agent \in Agents /\ now <= h.at + Fresh
    BY DEF Shapes, Run, Lives
  <2> QED
    BY <1>3, <2>1, <2>2
<1> QED
  BY <1>8, <1>9, <1>10, <1>11, <1>12, <1>13 DEF Accounts

\* The steps of the relay, the typing feed and the overlay leave the table alone.
LEMMA RelayKeeps ==
  ASSUME Inv, Serve \/ Refuse \/ Ready \/ UNCHANGED vars
  PROVE  Inv'
<1> USE DEF Inv
<1>1. UNCHANGED <<now, swept, conn, work, roster, cursor, typing, heard, ends, spoken>>
  BY DEF Serve, Refuse, Ready, Client, clock, log, vars
<1>2. /\ feed' \in {"Off", "Asked", "Served"} /\ told' \subseteq {"Ready", "Closed"} /\ observed' \in BOOLEAN
      /\ ~conn => feed' = "Off" /\ told' = {} /\ ~observed'
      /\ observed' \/ "Ready" \in told' => feed' = "Served" \/ "Closed" \in told'
  <2>1. /\ feed \in {"Off", "Asked", "Served"} /\ told \subseteq {"Ready", "Closed"} /\ observed \in BOOLEAN
        /\ ~conn => feed = "Off" /\ told = {} /\ ~observed
        /\ observed \/ "Ready" \in told => feed = "Served" \/ "Closed" \in told
    BY DEF Shapes, Linked
  <2>2. CASE Serve
    BY <2>1, <2>2 DEF Serve, Client
  <2>3. CASE Refuse
    BY <2>1, <2>3 DEF Refuse, Client
  <2>4. CASE Ready
    BY <2>1, <2>4 DEF Ready
  <2>5. CASE UNCHANGED vars
    BY <2>1, <2>5 DEF vars
  <2> QED
    BY <2>2, <2>3, <2>4, <2>5
<1>3. Tables' /\ Accounts'
  BY <1>1, SameTables, SameAccounts
<1>4. Shapes'
  BY <1>1, <1>2, <1>3 DEF Shapes, Tables
<1>5. Linked'
  BY <1>1, <1>2 DEF Linked
<1> QED
  BY <1>3, <1>4, <1>5

LEMMA OverlayKeeps ==
  ASSUME Inv, Toggle \/ Move \/ Enter \/ Back \/ LoadAgents
  PROVE  Inv'
<1> USE DEF Inv
<1>1. UNCHANGED <<now, swept, feed, told, conn, observed, work, typing, heard, ends, spoken>>
  BY DEF Toggle, Move, Enter, Back, LoadAgents, Overlay, relay, clock, log
<1>2. Placed(cursor, roster) /\ roster.agents \subseteq Agents
  BY DEF Placed, Shapes
<1>3. Placed(cursor', roster') /\ roster'.agents \subseteq Agents
  <2>1. CASE Toggle
    BY <1>2, <2>1 DEF Toggle, Placed
  <2>2. CASE Move
    <3>1. ASSUME NEW i \in {Below(cursor.at + 1, Count(roster)), Below(IF cursor.at = 0 THEN 0 ELSE cursor.at - 1, Count(roster))}
          PROVE  i \in Nat /\ Below(i, Count(roster)) = i
      <4>1. cursor.at + 1 \in Nat /\ (IF cursor.at = 0 THEN 0 ELSE cursor.at - 1) \in Nat
        BY <1>2 DEF Placed
      <4> QED
        BY <1>2, <3>1, <4>1, BelowIs
    <3>2. \/ \E i \in {Below(cursor.at + 1, Count(roster)), Below(IF cursor.at = 0 THEN 0 ELSE cursor.at - 1, Count(roster))} :
               cursor' = [cursor EXCEPT !.at = i]
          \/ \E i : cursor' = [cursor EXCEPT !.context = i]
      BY <2>2 DEF Move
    <3>3. roster' = roster
      BY <2>2 DEF Move
    <3> QED
      BY <1>2, <3>1, <3>2, <3>3 DEF Placed
  <2>3. CASE Enter
    <3>1. /\ roster' = roster
          /\ cursor' = [cursor EXCEPT !.level = "Detail", !.context = 0] \/ cursor' = [cursor EXCEPT !.open = FALSE]
      BY <2>3 DEF Enter
    <3> QED
      BY <1>2, <3>1 DEF Placed
  <2>4. CASE Back
    BY <1>2, <2>4 DEF Back, Placed
  <2>5. CASE LoadAgents
    <3>1. roster'.agents \subseteq Agents /\ cursor' = [Clamp(cursor, roster', work) EXCEPT !.asked = FALSE]
      BY <2>5 DEF LoadAgents
    <3>2. Placed(Clamp(cursor, roster', work), roster')
      BY <1>2, <3>1, ClampPlaces
    <3> QED
      BY <3>1, <3>2 DEF Placed
  <2> QED
    BY <2>1, <2>2, <2>3, <2>4, <2>5
<1>4. Tables' /\ Accounts'
  BY <1>1, SameTables, SameAccounts
<1>5. Shapes'
  BY <1>1, <1>3, <1>4 DEF Shapes, Tables, Placed
<1>6. Linked'
  BY <1>1 DEF Linked
<1> QED
  BY <1>4, <1>5, <1>6

LEMMA TypingKeeps ==
  ASSUME Inv,
         \/ \E a \in Typers, at \in {now, now - 1} : Message(a, at)
         \/ \E a \in Typers, thread \in BOOLEAN : Type(a, thread)
         \/ TypingClosed
  PROVE  Inv'
<1> USE DEF Inv
<1>1. UNCHANGED <<now, swept, feed, told, conn, observed, work, roster, cursor, heard, ends>>
  BY DEF Message, Type, TypingClosed, Typed, relay, clock, log
<1>2. /\ typing = [entries |-> typing.entries, listed |-> typing.listed] /\ typing.entries \subseteq Claim
      /\ spoken \in [Agents -> Nat] /\ now \in Nat /\ now - 1 \in Nat /\ now > 0 /\ now + TypingTTL \in Nat
      /\ \A e \in typing.entries : ~e.thread => e.since > spoken[e.agent]
      /\ typing.entries # {} => conn
      /\ \A a \in Typers : a \in Agents
  <2>1. now \in Nat /\ now >= 2
    BY Constants DEF Shapes
  <2>2. now - 1 \in Nat /\ now > 0 /\ now + TypingTTL \in Nat
    BY <2>1, Constants
  <2> QED
    BY <2>1, <2>2, AgentWorkAssumption DEF Shapes, Linked
<1>3. /\ typing' = [entries |-> typing'.entries, listed |-> typing'.listed] /\ typing'.entries \subseteq Claim
      /\ spoken' \in [Agents -> Nat]
      /\ \A e \in typing'.entries : ~e.thread => e.since > spoken'[e.agent]
      /\ typing'.entries # {} => conn
  <2>1. CASE \E a \in Typers, at \in {now, now - 1} : Message(a, at)
    <3>1. PICK a \in Agents, at \in Nat : Message(a, at)
      BY <1>2, <2>1
    <3>2. /\ conn /\ typing' = [typing EXCEPT !.entries = {e \in @ : e.agent = a => ~EndedBy(e, at)}]
          /\ spoken' = [spoken EXCEPT ![a] = IF at > @ THEN at ELSE @]
      BY <3>1 DEF Message
    <3>3. typing' = [entries |-> {e \in typing.entries : e.agent = a => ~EndedBy(e, at)}, listed |-> typing.listed]
      BY <1>2, <3>2
    <3>4. spoken' \in [Agents -> Nat] /\ \A b \in Agents : spoken'[b] = IF b = a /\ at > spoken[b] THEN at ELSE spoken[b]
      BY <1>2, <3>2
    <3>5. ASSUME NEW e \in typing'.entries, ~e.thread
          PROVE  e.since > spoken'[e.agent]
      <4>1. e \in typing.entries /\ e.agent \in Agents /\ e.since \in Nat /\ (e.agent = a => ~(at >= e.since))
        BY <1>2, <3>3, <3>5 DEF EndedBy, Claim
      <4>2. e.since > spoken[e.agent] /\ spoken[e.agent] \in Nat
        BY <1>2, <3>5, <4>1
      <4> QED
        BY <3>4, <4>1, <4>2
    <3> QED
      BY <1>2, <3>2, <3>3, <3>4, <3>5
  <2>2. CASE \E a \in Typers, thread \in BOOLEAN : Type(a, thread)
    <3>1. PICK a \in Agents, thread \in BOOLEAN : Type(a, thread)
      BY <1>2, <2>2
    <3> DEFINE new == [agent |-> a, thread |-> thread, since |-> now, expires |-> now + TypingTTL]
               rest == {e \in typing.entries : <<e.agent, e.thread>> # <<a, thread>>}
    <3>2. /\ conn /\ typing' = [typing EXCEPT !.entries = rest \union {new}]
          /\ spoken' = IF thread THEN spoken ELSE [spoken EXCEPT ![a] = 0]
      BY <3>1 DEF Type
    <3>3. typing' = [entries |-> rest \union {new}, listed |-> typing.listed]
      BY <1>2, <3>2
    <3>4. new \in Claim /\ new.agent = a /\ new.thread = thread /\ new.since = now
      BY <1>2 DEF Claim
    <3>5. spoken' \in [Agents -> Nat] /\ \A b \in Agents : spoken'[b] = IF ~thread /\ b = a THEN 0 ELSE spoken[b]
      BY <1>2, <3>2
    <3>6. \A e \in rest : e \in typing.entries /\ ~(e.agent = a /\ e.thread = thread)
      OBVIOUS
    <3> HIDE DEF new, rest
    <3>7. typing'.entries = rest \union {new} /\ typing'.listed = typing.listed
      BY <3>3
    <3>8. ASSUME NEW e \in typing'.entries, ~e.thread
          PROVE  e.since > spoken'[e.agent]
      <4>1. CASE e = new
        BY <1>2, <3>4, <3>5, <3>8, <4>1
      <4>2. CASE e # new
        <5>1. e \in typing.entries /\ ~(e.agent = a /\ e.thread = thread) /\ e.agent \in Agents /\ e.thread \in BOOLEAN
          BY <1>2, <3>6, <3>7, <4>2 DEF Claim
        <5>2. e.since > spoken[e.agent]
          BY <1>2, <3>8, <5>1
        <5>3. ~(~thread /\ e.agent = a)
          BY <3>8, <5>1
        <5> QED
          BY <3>5, <5>1, <5>2, <5>3
      <4> QED
        BY <4>1, <4>2
    <3> QED
      BY <1>2, <3>2, <3>3, <3>4, <3>5, <3>6, <3>7, <3>8
  <2>3. CASE TypingClosed
    <3>1. /\ typing' \in {[typing EXCEPT !.entries = {}], [typing EXCEPT !.entries = {}, !.listed = FALSE]}
          /\ spoken' = spoken
      BY <2>3 DEF TypingClosed
    <3> QED
      BY <1>2, <3>1
  <2> QED
    BY <2>1, <2>2, <2>3
<1>4. Tables' /\ Accounts'
  BY <1>1, SameTables, SameAccounts
<1>5. Shapes'
  BY <1>1, <1>3, <1>4 DEF Shapes, Tables
<1>6. Linked'
  BY <1>1, <1>3 DEF Linked
<1> QED
  BY <1>4, <1>5, <1>6

LEMMA InitKeeps == Init => Inv
<1> SUFFICES ASSUME Init
             PROVE  Inv
  OBVIOUS
<1>1. /\ now = 2 /\ swept = TRUE /\ feed = "Off" /\ told = {} /\ conn = FALSE /\ observed = FALSE /\ work = Nothing
      /\ roster = [state |-> "Unknown", agents |-> {}]
      /\ cursor = [open |-> FALSE, level |-> "List", at |-> 0, context |-> 0, asked |-> FALSE]
      /\ typing = [entries |-> {}, listed |-> TRUE]
      /\ heard = {} /\ ends = <<>> /\ spoken = [a \in Agents |-> 0]
  BY DEF Init
<1>2. work = [a \in Agents |-> NoWork] /\ \A a \in Agents : work[a] = NoWork
  BY <1>1 DEF Nothing
<1>3. Known = {} /\ Cardinality(Known) <= AgentsKept
  <2>1. Known = {}
    BY <1>2, NoWorkIs DEF Known
  <2> QED
    BY <2>1, FS_EmptySet, Constants
<1>4. Range(ends) = {} /\ DOMAIN ends = {} /\ ends \in Seq(Ends)
  BY <1>1 DEF Range
<1>5. Backed /\ BuriedByName
  BY <1>2, NoWorkIs DEF Backed, BuriedByName, Shown
<1>6. KnownWereHeard /\ HeardOnce
  BY <1>1, <1>3 DEF KnownWereHeard, HeardOnce
<1>7. Remembered /\ Kept
  BY <1>1, <1>4 DEF Remembered, Kept
<1>8. Count(roster) = 0 /\ cursor.at = Below(cursor.at, Count(roster)) /\ now \in 2 .. MaxTime
  BY <1>1, Constants DEF Count, Below
<1>9. Shapes
  BY <1>1, <1>2, <1>3, <1>4, <1>8, NoWorkIs DEF Shapes
<1>10. Linked
  BY <1>1 DEF Linked
<1> QED
  BY <1>5, <1>6, <1>7, <1>9, <1>10 DEF Inv, Accounts

LEMMA StepKeeps == Inv /\ [Next]_vars => Inv'
<1> SUFFICES ASSUME Inv, [Next]_vars
             PROVE  Inv'
  OBVIOUS
<1>1. CASE Connect \/ Disconnect \/ Closed
  BY <1>1, ConnectionKeeps
<1>2. CASE \E f \in Frames : Hear(f)
  BY <1>2, HearKeeps
<1>3. CASE Tick
  BY <1>3, TickKeeps
<1>4. CASE Expire
  BY <1>4, ExpireKeeps
<1>5. CASE Serve \/ Refuse \/ Ready \/ UNCHANGED vars
  BY <1>5, RelayKeeps
<1>6. CASE Toggle \/ Move \/ Enter \/ Back \/ LoadAgents
  BY <1>6, OverlayKeeps
<1>7. CASE \/ \E a \in Typers, at \in {now, now - 1} : Message(a, at)
           \/ \E a \in Typers, thread \in BOOLEAN : Type(a, thread)
           \/ TypingClosed
  BY <1>7, TypingKeeps
<1> QED
  BY <1>1, <1>2, <1>3, <1>4, <1>5, <1>6, <1>7 DEF Next

LEMMA InvAlways == Spec => []Inv
<1>1. Init => Inv
  BY InitKeeps
<1>2. Inv /\ [Next]_vars => Inv'
  BY StepKeeps
<1> QED
  BY <1>1, <1>2, PTL DEF Spec

-----------------------------------------------------------------------------
(* What follows for the screen.                                              *)

LEMMA InvSaysOnEvidence == Inv => SaidOnEvidence
<1> SUFFICES ASSUME Inv
             PROVE  SaidOnEvidence
  OBVIOUS
<1> USE DEF Inv
<1>1. TypeOK
  BY DEF TypeOK, Shapes, Table, TurnsTyped, Shown
<1>2. WorkingWasHeard
  <2> SUFFICES ASSUME swept, NEW a \in Agents, NEW k \in Shown(a)
               PROVE  \E h \in heard : h.agent = a /\ h.key = k /\ now <= h.at + Fresh
    BY DEF WorkingWasHeard
  <2>1. PICK h \in heard : h.agent = a /\ h.key = k /\ work[a].turns[k].last <= h.at
    BY DEF Accounts, Backed
  <2>2. now <= work[a].turns[k].last + Fresh
    BY DEF Accounts, Backed
  <2>3. work[a].turns[k].last \in Nat /\ now \in Nat
    <3>1. now \in Nat /\ Table(work[a])
      BY DEF Shapes
    <3>2. TurnsTyped(work[a].turns)
      BY <3>1 DEF Table
    <3> HIDE DEF Inv
    <3>3. k \in DOMAIN work[a].turns
      BY DEF Shown
    <3>4. work[a].turns[k].last \in 0 .. now
      BY <3>2, <3>3, Zenon DEF TurnsTyped
    <3> QED
      BY <3>1, <3>4
  <2>4. heard \subseteq Run
    BY DEF Shapes
  <2> HIDE DEF Inv
  <2>5. h.at \in Nat /\ Fresh \in Nat
    BY <2>4, Constants DEF Run
  <2>6. now <= h.at + Fresh
    BY <2>1, <2>2, <2>3, <2>5
  <2> QED
    BY <2>1, <2>6
<1>3. StatusHasEvidence
  BY DEF StatusHasEvidence, Status, Linked
<1> QED
  BY <1>1, <1>2, <1>3 DEF SaidOnEvidence

LEMMA InvKeepsFinished == Inv => FinishedStaysFinished
<1> SUFFICES ASSUME Inv, Cardinality(HeardOf) <= AgentsKept, NEW i \in DOMAIN ends,
                    FirstNamed(ends, i), Cardinality(OthersAfter(ends, i)) < EndedPerAgent
             PROVE  ends[i].turn \notin Shown(ends[i].agent)
  <2>1. \A i \in DOMAIN ends : OthersAfter(ends, i) =
          {j \in {k \in DOMAIN ends : ends[k].agent = ends[i].agent} : j > i /\ ends[j].turn # ends[i].turn}
    BY DEF OthersAfter
  <2>2. \A i \in DOMAIN ends :
          /\ ends[i].turn # None
          /\ \A j \in {k \in DOMAIN ends : ends[k].agent = ends[i].agent} :
               j < i => ends[j].turn \notin {None, ends[i].turn}
          => FirstNamed(ends, i)
    BY DEF FirstNamed
  <2> QED
    BY <2>1, <2>2 DEF FinishedStaysFinished
<1> DEFINE n == Cardinality(OthersAfter(ends, i))
<1>1. Within(work[ends[i].agent].ended, ends[i].turn, n)
  BY DEF Inv, Accounts, Remembered
<1>2. ends[i].agent \in Agents
  BY FrameIs DEF Inv, Shapes, Ends
<1>3. Table(work[ends[i].agent])
  BY <1>2 DEF Inv, Shapes
<1>4. ends[i].turn \in Range(work[ends[i].agent].ended)
  BY <1>1, <1>3 DEF Within, Range
<1> QED
  BY <1>3, <1>4 DEF Table, Shown

LEMMA InvShowsTheLive == Inv => LiveTurnIsShown
<1> SUFFICES ASSUME Inv, Cardinality(HeardOf) <= AgentsKept, NEW h \in heard, Lives(h)
             PROVE  h.key \in Shown(h.agent)
  <2>1. ASSUME NEW h \in heard
        PROVE  LET own == {e \in Range(ends) : e.agent = h.agent}
               IN  /\ {e.turn : e \in own} = NamedEnds(h.agent)
                   /\ {g.key : g \in {j \in heard : j.agent = h.agent}} = HeardKeys(h.agent)
                   /\ (\A e \in own : e.turn \notin {None, h.key}) => NamedEnds(h.agent) \intersect {None, h.key} = {}
    BY DEF NamedEnds, HeardKeys
  <2> QED
    BY <2>1 DEF LiveTurnIsShown, Lives
<1> QED
  BY DEF Inv, Accounts, Kept

-----------------------------------------------------------------------------
(* The theorems.                                                             *)

\* Nothing is said of an agent without evidence (Work::expire, Work::clear): a
\* turn shown was heard over this connection, within the bound, and rest and
\* typing are only said while the relay's feed is behind them.
THEOREM EvidenceHolds == Spec => []SaidOnEvidence
  BY InvAlways, InvSaysOnEvidence, PTL

\* A turn whose end was heard stays off the screen, whatever late or repeated
\* frame says it runs, for as many further ends as tombstones are kept
\* (AgentWork::tombstone), with any number of agents, turns and tombstones.
THEOREM FinishedStays == Spec => []FinishedStaysFinished
  BY InvAlways, InvKeepsFinished, PTL

\* A turn that runs is on the screen as long as what was heard fits the table:
\* no frame of another turn, and no clearing of room, takes it off (AgentWork::insert,
\* Work::apply).
THEOREM LiveIsShown == Spec => []LiveTurnIsShown
  BY InvAlways, InvShowsTheLive, PTL
=============================================================================
