-------------------------- MODULE CommandLineProofs --------------------------
(* Proofs about Profiles, for any commands, relays, ids and bounds, and, in  *)
(* the second half, about SourceUpdate, for any number of commits, edits and *)
(* runs.  The two share no variable and no definition.                       *)
(*                                                                           *)
(*                                                                           *)
(* A command that waits holds a copy that may be old.  Whatever its age, the *)
(* copy is a file every command accepts, and what the command means to write *)
(* is one again (Settled).  While nobody wrote since it was read, it is the  *)
(* file, wrapped, or the file with what the command names changed (Current). *)
(* No id leaves the file without being named by a removal or counted as lost *)
(* (Remembered).                                                             *)
EXTENDS Profiles, SourceUpdate, FiniteSetTheorems, TLAPS

Table(s) ==
  /\ s = [i \in DOMAIN s |-> s[i]]
  /\ DOMAIN s \subseteq Ids /\ \A i \in DOMAIN s : s[i] \in Profile

Formed(f) ==
  /\ f = [there |-> f.there, key |-> f.key, relay |-> f.relay, tag |-> f.tag, active |-> f.active,
          saved |-> f.saved]
  /\ f.there \in BOOLEAN /\ f.key \in BOOLEAN
  /\ f.relay \in Relays \union {None} /\ f.tag \in Relays \union {None}
  /\ f.active \in Ids \union {None} /\ Table(f.saved)

\* FileIsWhole, of any file.
Whole(f) ==
  /\ f.active \in Known(f) \union {None}
  /\ \A i, k \in Known(f) : f.saved[i].relay = f.saved[k].relay => i = k
  /\ NeedsMigration(f) => Known(f) = {}

Sound(f) == Formed(f) /\ Whole(f) /\ (f.there \/ f = Empty)

Settled(f) == Sound(f) /\ ~NeedsMigration(f)

\* From was to now, job j changed nothing but what it is for.
Names(j, was, now) ==
  LET on(ops) == j.op \in ops
  IN  /\ \A i \in Known(was) \ (IF on({"remove"}) THEN {j.id} ELSE {}) :
           /\ i \in Known(now)
           /\ now.saved[i].relay = was.saved[i].relay
           /\ on({"rename"}) \/ now.saved[i].renamed = was.saved[i].renamed
           /\ on({"logout"}) \/ (on({"login"}) /\ i = now.active)
                \/ now.saved[i].tag = was.saved[i].tag
      /\ on({"login", "logout", "init"}) \/ now.key = was.key
      /\ on({"use", "add", "login", "init"}) \/ (on({"remove"}) /\ was.active = j.id)
           \/ now.active = was.active

\* And nothing else that would log in.
Fits(j, was, now) ==
  /\ Names(j, was, now)
  /\ HasLoginMaterial(now) => HasLoginMaterial(was) \/ j.op \in {"login", "init", "add"}

InitJob == [op |-> "init"]

Phases == {"idle", "wrap", "check", "online", "mark", "running", "save"}

\* The file and the histories.
Shared ==
  /\ Sound(file) /\ (NeedsMigration(file) => file.key)
  /\ out \in BOOLEAN /\ removed \subseteq Ids /\ lost \subseteq Ids
  /\ jobs \in 0..MaxJobs /\ turns \in 0..MaxTurns /\ faults \in 0..MaxFaults
  /\ out => ~HasLoginMaterial(file)

Shaped ==
  /\ pc \in [Procs -> Phases] /\ behind \in [Procs -> BOOLEAN]
  /\ job \in [Procs -> Job \union {NoJob, InitJob}]
  /\ copy = [p \in Procs |-> copy[p]]
  /\ session \in [Procs -> Ids \union {None}] /\ offered \in [Procs -> SUBSET Ids]

\* A session is where its phases say.
Seated(p) ==
  /\ pc[p] \in {"wrap", "check", "online"} => job[p] \in Job
  /\ pc[p] = "idle" => session[p] = None
  /\ pc[p] \in {"mark", "running"} => session[p] # None
  /\ session[p] # None => job[p].op = "session"

\* What was checked of the copy before waiting for the relay.
Online(p) ==
  pc[p] = "online" =>
    \/ job[p].op = "add" /\ WithRelay(copy[p], job[p].relay) = {}
    \/ job[p].op = "verify" /\ job[p].id \in Known(copy[p])

Current(p) ==
  ~behind[p] =>
    /\ pc[p] \in {"wrap", "check", "online"} => copy[p] = Migrated(file)
    /\ pc[p] = "save" => Fits(job[p], Migrated(file), copy[p])

\* The ids that are in the file or were dropped with a reason.
Ever == Known(Migrated(file)) \union removed \union lost

Remembered(p) ==
  /\ session[p] # None => session[p] \in Ever
  /\ offered[p] \subseteq Ever
  /\ pc[p] \in {"wrap", "check"} => Known(copy[p]) \subseteq Ever

\* What a logout is about to write.
LeavesNone(p) == pc[p] = "save" /\ job[p].op = "logout" => ~HasLoginMaterial(copy[p])

Good(p) ==
  Seated(p) /\ Settled(copy[p]) /\ Online(p) /\ Current(p) /\ Remembered(p) /\ LeavesNone(p)

Inv == Shared /\ Shaped /\ \A p \in Procs : Good(p)

-----------------------------------------------------------------------------
(* The operators on files.                                                   *)

LEMMA Constants == /\ Default \in Relays /\ None \notin Relays /\ None \notin Fresh /\ None \notin Ids
                   /\ Fresh \intersect Relays = {} /\ Relays \subseteq Ids /\ Fresh \subseteq Ids
                   /\ MaxJobs \in Nat /\ MaxTurns \in Nat /\ MaxFaults \in Nat
  BY ProfilesAssumption DEF Ids

LEMMA NewProfileTyped ==
  ASSUME NEW r \in Relays, NEW t \in Relays \union {None}
  PROVE  NewProfile(r, t) \in Profile /\ NewProfile(r, t).relay = r /\ NewProfile(r, t).tag = t
  BY DEF NewProfile, Profile

LEMMA EmptySettled == Settled(Empty) /\ Known(Empty) = {} /\ ~HasLoginMaterial(Empty)
  <1>1. NoProfiles = [i \in {} |-> NoProfiles[i]] /\ DOMAIN NoProfiles = {}
    BY DEF NoProfiles
  <1> QED
    BY <1>1 DEF Settled, Sound, Formed, Table, Whole, Empty, Known, NeedsMigration, HasLoginMaterial

\* A table with one more profile, or with another in its place.
LEMMA Added ==
  ASSUME NEW s, Table(s), NEW i \in Ids, NEW x \in Profile
  PROVE  Table(With(s, i, x))
  BY DEF Table, With

LEMMA Changed ==
  ASSUME NEW s, Table(s), NEW i \in DOMAIN s, NEW x \in Profile
  PROVE  /\ Table([s EXCEPT ![i] = x]) /\ DOMAIN [s EXCEPT ![i] = x] = DOMAIN s
         /\ [s EXCEPT ![i] = x][i] = x
         /\ \A k \in DOMAIN s \ {i} : [s EXCEPT ![i] = x][k] = s[k]
  BY DEF Table

LEMMA MigratedDoes ==
  ASSUME NEW f, Sound(f)
  PROVE  /\ Settled(Migrated(f)) /\ Migrated(Migrated(f)) = Migrated(f)
         /\ Known(f) \subseteq Known(Migrated(f)) /\ Migrated(f).key = f.key
         /\ ~NeedsMigration(f) => Migrated(f) = f
         /\ HasLoginMaterial(Migrated(f)) => HasLoginMaterial(f)
         /\ f.there = FALSE => Known(Migrated(f)) = {}
  <1>1. CASE ~NeedsMigration(f)
    <2>1. Migrated(f) = f
      BY <1>1 DEF Migrated
    <2>2. f.there = FALSE => Known(f) = {}
      BY EmptySettled DEF Sound
    <2> QED
      BY <1>1, <2>1, <2>2 DEF Settled
  <1>2. CASE NeedsMigration(f) /\ f.relay = None
    <2>1. Migrated(f) = [f EXCEPT !.relay = None, !.tag = None]
      BY <1>2 DEF Migrated, Sound, Formed
    <2>2. /\ Known(f) = {} /\ f.active = None /\ f.tag # None /\ f # Empty /\ f.there
      BY <1>2 DEF Sound, Whole, NeedsMigration, Empty
    <2>3. Settled(Migrated(f))
      BY <2>1, <2>2, Constants DEF Settled, Sound, Formed, Whole, Known, NeedsMigration
    <2>4. Migrated(Migrated(f)) = Migrated(f)
      BY <2>3 DEF Settled, Migrated
    <2>5. Known(Migrated(f)) = {} /\ Migrated(f).key = f.key /\ Migrated(f).tag = None
      BY <2>1, <2>2 DEF Sound, Formed, Known
    <2> QED
      BY <1>2, <2>2, <2>3, <2>4, <2>5 DEF HasLoginMaterial
  <1>3. CASE f.relay # None
    <2> DEFINE x == NewProfile(f.relay, f.tag)
               s == With(f.saved, f.relay, x)
    <2>1. Migrated(f) = [f EXCEPT !.relay = None, !.tag = None, !.active = f.relay, !.saved = s]
      BY <1>3 DEF Migrated, NeedsMigration
    <2>2. Known(f) = {} /\ f # Empty /\ f.there /\ f.relay \in Ids /\ f.relay \in Relays
      BY <1>3, Constants DEF Sound, Formed, Whole, NeedsMigration, Empty
    <2>3. x \in Profile /\ x.relay = f.relay /\ x.tag = f.tag
      BY <2>2, NewProfileTyped DEF Sound, Formed
    <2> HIDE DEF x
    <2>4. Table(s) /\ DOMAIN s = {f.relay} /\ s[f.relay] = x
      <3>1. Table(f.saved) /\ DOMAIN f.saved = {}
        BY <2>2 DEF Sound, Formed, Known
      <3>2. Table(s)
        BY <2>2, <2>3, <3>1, Added
      <3> QED
        BY <3>1, <3>2 DEF With
    <2> HIDE DEF s
    <2>5. /\ Migrated(f).relay = None /\ Migrated(f).tag = None /\ Migrated(f).active = f.relay
          /\ Migrated(f).saved = s /\ Migrated(f).key = f.key /\ Migrated(f).there
          /\ Known(Migrated(f)) = {f.relay}
      BY <2>1, <2>2, <2>4 DEF Sound, Formed, Known
    <2>6. Settled(Migrated(f))
      <3>1. Formed(Migrated(f))
        BY <2>1, <2>2, <2>4, <2>5 DEF Sound, Formed
      <3>2. Whole(Migrated(f)) /\ ~NeedsMigration(Migrated(f))
        BY <2>5 DEF Whole, NeedsMigration
      <3> QED
        BY <2>5, <3>1, <3>2 DEF Settled, Sound
    <2>7. Migrated(Migrated(f)) = Migrated(f)
      BY <2>6 DEF Settled, Migrated
    <2>8. HasLoginMaterial(Migrated(f)) => HasLoginMaterial(f)
      BY <2>3, <2>4, <2>5 DEF HasLoginMaterial
    <2> QED
      BY <1>3, <2>2, <2>5, <2>6, <2>7, <2>8 DEF NeedsMigration
  <1> QED
    BY <1>1, <1>2, <1>3 DEF NeedsMigration

\* What is to hold of a file written in place of a settled one.
LEMMA StillSettled ==
  ASSUME NEW f, Settled(f), NEW g, Formed(g), g.there, g.relay = None, g.tag = None,
         g.active \in Known(g) \union {None}, Known(g) \subseteq Known(f),
         \A i \in Known(g) : g.saved[i].relay = f.saved[i].relay
  PROVE  Settled(g)
  <1>1. \A i, k \in Known(g) : g.saved[i].relay = g.saved[k].relay => i = k
    <2> SUFFICES ASSUME NEW i \in Known(g), NEW k \in Known(g), g.saved[i].relay = g.saved[k].relay
                 PROVE  i = k
      OBVIOUS
    <2>1. f.saved[i].relay = f.saved[k].relay /\ i \in Known(f) /\ k \in Known(f)
      OBVIOUS
    <2> QED
      BY <2>1 DEF Settled, Sound, Whole
  <1> QED
    BY <1>1 DEF Settled, Sound, Whole, NeedsMigration

LEMMA SettledIs ==
  ASSUME NEW f, Settled(f)
  PROVE  /\ Formed(f) /\ Table(f.saved) /\ f.relay = None /\ f.tag = None
         /\ Known(f) \subseteq Ids /\ \A i \in Known(f) : f.saved[i] \in Profile
         /\ Known(f) # {} => f.there
         /\ f.active \in Known(f) \union {None}
         /\ Migrated(f) = f
  BY EmptySettled DEF Settled, Sound, Formed, Table, Whole, NeedsMigration, Known, Migrated

\* One profile is changed, its relay kept.
Amend(f, i, x) == [f EXCEPT !.saved = [f.saved EXCEPT ![i] = x]]

LEMMA Amended ==
  ASSUME NEW f, Settled(f), NEW i \in Known(f), NEW x \in Profile, x.relay = f.saved[i].relay
  PROVE  LET g == Amend(f, i, x)
         IN  /\ Settled(g) /\ Known(g) = Known(f)
             /\ g.saved[i] = x /\ \A k \in Known(f) \ {i} : g.saved[k] = f.saved[k]
             /\ g.key = f.key /\ g.active = f.active
  <1> DEFINE s == [f.saved EXCEPT ![i] = x]
             g == Amend(f, i, x)
  <1>1. Table(s) /\ DOMAIN s = Known(f) /\ s[i] = x /\ \A k \in Known(f) \ {i} : s[k] = f.saved[k]
    BY SettledIs, Changed DEF Known
  <1> HIDE DEF s
  <1>2. /\ g.there = f.there /\ g.key = f.key /\ g.relay = f.relay /\ g.tag = f.tag
        /\ g.active = f.active /\ g.saved = s /\ Formed(g)
    BY <1>1, SettledIs DEF s, Formed, Amend
  <1>3. Known(g) = Known(f)
    BY <1>1, <1>2 DEF Known
  <1>4. \A k \in Known(g) : g.saved[k].relay = f.saved[k].relay
    BY <1>1, <1>2, <1>3
  <1>5. g.there /\ g.relay = None /\ g.tag = None /\ g.active \in Known(g) \union {None}
    BY <1>2, <1>3, SettledIs
  <1>6. Settled(g)
    BY <1>2, <1>3, <1>4, <1>5, StillSettled
  <1> QED
    BY <1>1, <1>2, <1>3, <1>6

\* What is said of one profile alone names nothing else.
LEMMA AmendedFits ==
  ASSUME NEW f, Settled(f), NEW i \in Known(f), NEW x \in Profile, x.relay = f.saved[i].relay,
         x.tag = f.saved[i].tag, NEW j, x.renamed = f.saved[i].renamed \/ j.op = "rename",
         j.op # "remove"
  PROVE  Settled(Amend(f, i, x)) /\ Fits(j, f, Amend(f, i, x))
  <1> DEFINE g == Amend(f, i, x)
  <1>1. /\ Settled(g) /\ Known(g) = Known(f)
        /\ g.saved[i] = x /\ \A k \in Known(f) \ {i} : g.saved[k] = f.saved[k]
        /\ g.key = f.key /\ g.active = f.active
    BY Amended
  <1> HIDE DEF g
  <1>2. \A k \in Known(f) : /\ g.saved[k].relay = f.saved[k].relay
                            /\ g.saved[k].renamed = f.saved[k].renamed \/ j.op = "rename"
                            /\ g.saved[k].tag = f.saved[k].tag
    BY <1>1
  <1>3. g.tag = f.tag
    BY <1>1, SettledIs
  <1>4. Names(j, f, g)
    BY <1>1, <1>2 DEF Names
  <1>5. HasLoginMaterial(g) => HasLoginMaterial(f)
    BY <1>1, <1>2, <1>3 DEF HasLoginMaterial
  <1> QED
    BY <1>1, <1>4, <1>5 DEF Fits, g

LEMMA RenameDoes ==
  ASSUME NEW f, Settled(f), NEW i \in Known(f), NEW j, j.op = "rename"
  PROVE  Settled(PlanRename(f, i)) /\ Fits(j, f, PlanRename(f, i))
  <1> DEFINE x == [f.saved[i] EXCEPT !.renamed = TRUE]
  <1>1. f.saved[i] \in Profile
    BY SettledIs
  <1>2. x \in Profile /\ x.relay = f.saved[i].relay /\ x.tag = f.saved[i].tag
    BY <1>1 DEF Profile
  <1>3. PlanRename(f, i) = Amend(f, i, x)
    BY DEF PlanRename, Amend
  <1> HIDE DEF x
  <1> QED
    BY <1>2, <1>3, AmendedFits

LEMMA ObservedDoes ==
  ASSUME NEW f, Settled(f), NEW i \in Known(f), NEW s \in {"connected", "failed"}, NEW j,
         j.op = "verify"
  PROVE  Settled(PlanObserved(f, i, s)) /\ Fits(j, f, PlanObserved(f, i, s))
  <1> DEFINE x == [f.saved[i] EXCEPT !.status = s]
  <1>1. f.saved[i] \in Profile
    BY SettledIs
  <1>2. /\ x \in Profile /\ x.relay = f.saved[i].relay /\ x.tag = f.saved[i].tag
        /\ x.renamed = f.saved[i].renamed
    BY <1>1 DEF Profile
  <1>3. PlanObserved(f, i, s) = Amend(f, i, x)
    BY DEF PlanObserved, Amend
  <1> HIDE DEF x
  <1> QED
    BY <1>2, <1>3, AmendedFits

LEMMA MarkDoes ==
  ASSUME NEW f, Settled(f), NEW i \in Known(f), NEW j, j.op = "session"
  PROVE  Settled(PlanMark(f, i)) /\ Fits(j, f, PlanMark(f, i))
  <1> DEFINE x == [f.saved[i] EXCEPT !.marked = TRUE]
  <1>1. f.saved[i] \in Profile
    BY SettledIs
  <1>2. /\ x \in Profile /\ x.relay = f.saved[i].relay /\ x.tag = f.saved[i].tag
        /\ x.renamed = f.saved[i].renamed
    BY <1>1 DEF Profile
  <1>3. PlanMark(f, i) = Amend(f, i, x)
    BY DEF PlanMark, Amend
  <1> HIDE DEF x
  <1> QED
    BY <1>2, <1>3, AmendedFits

LEMMA UseDoes ==
  ASSUME NEW f, Settled(f), NEW i \in Known(f), NEW j, j.op = "use"
  PROVE  Settled(PlanUse(f, i)) /\ Fits(j, f, PlanUse(f, i))
  <1> DEFINE g == PlanUse(f, i)
  <1>1. /\ g.there = f.there /\ g.key = f.key /\ g.relay = f.relay /\ g.tag = f.tag
        /\ g.active = i /\ g.saved = f.saved /\ Formed(g)
    BY SettledIs DEF PlanUse, Formed
  <1>2. Known(g) = Known(f) /\ i \in Known(g)
    BY <1>1 DEF Known
  <1> HIDE DEF g
  <1>3. g.there /\ g.relay = None /\ g.tag = None
    BY <1>1, SettledIs
  <1>4. Settled(g)
    BY <1>1, <1>2, <1>3, StillSettled
  <1>5. Names(j, f, g)
    BY <1>1, <1>2 DEF Names
  <1>6. HasLoginMaterial(g) => HasLoginMaterial(f)
    BY <1>1, <1>2 DEF HasLoginMaterial
  <1> QED
    BY <1>4, <1>5, <1>6 DEF Fits, g

LEMMA RemoveDoes ==
  ASSUME NEW f, Settled(f), NEW i \in Known(f), NEW j, j.op = "remove", j.id = i
  PROVE  /\ Settled(PlanRemove(f, i)) /\ Fits(j, f, PlanRemove(f, i))
         /\ Known(PlanRemove(f, i)) = Known(f) \ {i}
  <1> DEFINE g == PlanRemove(f, i)
             s == [k \in Known(f) \ {i} |-> f.saved[k]]
             a == IF f.active = i THEN None ELSE f.active
  <1>1. Table(s) /\ DOMAIN s = Known(f) \ {i} /\ \A k \in Known(f) \ {i} : s[k] = f.saved[k]
    BY SettledIs DEF Table
  <1> HIDE DEF s
  <1>2. /\ g.there = f.there /\ g.key = f.key /\ g.relay = f.relay /\ g.tag = f.tag
        /\ g.active = a /\ g.saved = s /\ Formed(g)
    <2>1. g = [f EXCEPT !.active = a, !.saved = s]
      BY DEF PlanRemove, s
    <2>2. a \in Ids \union {None}
      BY SettledIs DEF Formed
    <2> HIDE DEF g, a
    <2>3. Formed(f)
      BY SettledIs
    <2> QED
      BY <1>1, <2>1, <2>2, <2>3 DEF Formed
  <1>3. Known(g) = Known(f) \ {i}
    BY <1>1, <1>2 DEF Known
  <1> HIDE DEF g
  <1>4. \A k \in Known(g) : g.saved[k] = f.saved[k]
    BY <1>1, <1>2, <1>3
  <1>5. g.there /\ g.relay = None /\ g.tag = None /\ g.active \in Known(g) \union {None}
    BY <1>2, <1>3, SettledIs
  <1>6. Settled(g)
    BY <1>2, <1>3, <1>4, <1>5, StillSettled
  <1>7. Names(j, f, g)
    BY <1>2, <1>3, <1>4 DEF Names
  <1>8. HasLoginMaterial(g) => HasLoginMaterial(f)
    BY <1>2, <1>3, <1>4 DEF HasLoginMaterial
  <1> QED
    BY <1>3, <1>6, <1>7, <1>8 DEF Fits, g

\* A profile for a relay that had none.
Unserved(f, r) == WithRelay(f, r) = {}

Grown(f, i, x, s) ==
  /\ Table(s) /\ DOMAIN s = Known(f) \union {i}
  /\ s[i] = x /\ \A k \in Known(f) : s[k] = f.saved[k]
  /\ \A k, l \in DOMAIN s : s[k].relay = s[l].relay => k = l

LEMMA Extended ==
  ASSUME NEW f, Settled(f), NEW i \in Ids, i \notin Known(f), NEW x \in Profile,
         Unserved(f, x.relay)
  PROVE  Grown(f, i, x, With(f.saved, i, x))
  <1> DEFINE s == With(f.saved, i, x)
  <1>1. Table(s)
    BY SettledIs, Added
  <1>2. DOMAIN s = Known(f) \union {i} /\ s[i] = x
    BY DEF With, Known
  <1>3. \A k \in Known(f) : s[k] = f.saved[k]
    BY DEF With, Known
  <1>4. \A k \in Known(f) : f.saved[k].relay # x.relay
    BY DEF WithRelay, Unserved
  <1>5. \A k, l \in Known(f) : f.saved[k].relay = f.saved[l].relay => k = l
    BY DEF Settled, Sound, Whole
  <1>6. \A k, l \in DOMAIN s : s[k].relay = s[l].relay => k = l
    <2> SUFFICES ASSUME NEW k \in DOMAIN s, NEW l \in DOMAIN s, s[k].relay = s[l].relay
                 PROVE  k = l
      OBVIOUS
    <2>1. CASE k = i
      BY <1>2, <1>3, <1>4, <2>1
    <2>2. CASE l = i
      BY <1>2, <1>3, <1>4, <2>2
    <2>3. CASE k # i /\ l # i
      BY <1>2, <1>3, <1>5, <2>3
    <2> QED
      BY <2>1, <2>2, <2>3
  <1> QED
    BY <1>1, <1>2, <1>3, <1>6 DEF Grown

LEMMA AddDoes ==
  ASSUME NEW f, Settled(f), NEW i \in FreshIds(f), NEW r \in Relays, NEW t \in Relays \union {None},
         WithRelay(f, r) = {}, NEW j, j.op = "add"
  PROVE  Settled(PlanAdd(f, i, r, t)) /\ Fits(j, f, PlanAdd(f, i, r, t))
  <1> DEFINE x == [NewProfile(r, t) EXCEPT !.status = "connected", !.marked = TRUE]
             s == With(f.saved, i, x)
             g == PlanAdd(f, i, r, t)
  <1>1. x \in Profile /\ x.relay = r
    <2>1. NewProfile(r, t) \in Profile /\ NewProfile(r, t).relay = r
      BY NewProfileTyped
    <2> QED
      BY <2>1 DEF Profile
  <1>2. i \in Ids \ Known(f)
    BY Constants DEF FreshIds
  <1>3. g = [f EXCEPT !.there = TRUE, !.active = i, !.saved = s]
    BY DEF PlanAdd
  <1>0. s = With(f.saved, i, x)
    OBVIOUS
  <1> HIDE DEF x, s, g
  <1>4. /\ Table(s) /\ DOMAIN s = Known(f) \union {i} /\ s[i] = x
        /\ \A k \in Known(f) : s[k] = f.saved[k]
        /\ \A k, l \in DOMAIN s : s[k].relay = s[l].relay => k = l
    <2>1. Unserved(f, x.relay) /\ i \in Ids /\ i \notin Known(f)
      BY <1>1, <1>2 DEF Unserved
    <2>2. Grown(f, i, x, s)
      BY <1>0, <1>1, <2>1, Extended
    <2> QED
      BY <2>2 DEF Grown
  <1>5. Formed(f) /\ f.relay = None /\ f.tag = None
    BY SettledIs
  <1>6. /\ g.there /\ g.key = f.key /\ g.relay = None /\ g.tag = None /\ g.active = i /\ g.saved = s
        /\ Formed(g) /\ Known(g) = Known(f) \union {i}
    BY <1>2, <1>3, <1>4, <1>5 DEF Formed, Known
  <1>7. Settled(g)
    <2>1. Whole(g)
      BY <1>4, <1>6 DEF Whole, NeedsMigration
    <2> QED
      BY <1>6, <2>1 DEF Settled, Sound, NeedsMigration
  <1>8. Names(j, f, g)
    BY <1>4, <1>6 DEF Names
  <1> QED
    BY <1>7, <1>8 DEF Fits, g

LEMMA ReplacedDoes ==
  ASSUME NEW f, Settled(f), NEW r \in Relays, NEW i \in LoginIds(f, r),
         NEW t \in Relays \union {None}, NEW j, j.op = "login"
  PROVE  Settled(Replaced(f, i, r, t)) /\ Fits(j, f, Replaced(f, i, r, t))
  <1> DEFINE n == NewProfile(r, None)
             kept == IF i \in Known(f) THEN f.saved ELSE With(f.saved, i, n)
             x == [kept[i] EXCEPT !.tag = IF t = None THEN @ ELSE t]
             s == [kept EXCEPT ![i] = x]
             g == Replaced(f, i, r, t)
  <1>1. n \in Profile /\ n.relay = r
    BY NewProfileTyped
  <1>2. g = [f EXCEPT !.there = TRUE, !.key = TRUE, !.active = i, !.saved = s]
    BY DEF Replaced
  <1> HIDE DEF n
  <1>3. /\ i \in Ids /\ Table(kept) /\ DOMAIN kept = Known(f) \union {i}
        /\ \A k \in Known(f) : kept[k] = f.saved[k]
        /\ \A k, l \in DOMAIN kept : kept[k].relay = kept[l].relay => k = l
    <2>1. CASE i \in Known(f)
      <3>1. kept = f.saved /\ i \in Ids /\ DOMAIN kept = Known(f)
        BY <2>1, SettledIs DEF Known
      <3>2. \A k, l \in Known(f) : f.saved[k].relay = f.saved[l].relay => k = l
        BY DEF Settled, Sound, Whole
      <3> HIDE DEF kept
      <3> QED
        BY <2>1, <3>1, <3>2, SettledIs
    <2>2. CASE i \notin Known(f)
      <3>1. WithRelay(f, r) = {} /\ i \in Ids
        BY <2>2, Constants DEF LoginIds, FreshIds, WithRelay
      <3>2. kept = With(f.saved, i, n)
        BY <2>2
      <3> HIDE DEF kept
      <3>3. Unserved(f, n.relay)
        BY <1>1, <3>1 DEF Unserved
      <3>4. Grown(f, i, n, kept)
        BY <1>1, <2>2, <3>1, <3>2, <3>3, Extended
      <3> QED
        BY <3>1, <3>4 DEF Grown
    <2> QED
      BY <2>1, <2>2
  <1> HIDE DEF kept
  <1>4. kept[i] \in Profile
    BY <1>3 DEF Table
  <1>5. x \in Profile /\ x.relay = kept[i].relay /\ x.renamed = kept[i].renamed
    BY <1>4 DEF Profile
  <1> HIDE DEF x
  <1>6. /\ Table(s) /\ DOMAIN s = DOMAIN kept /\ s[i] = x
        /\ \A k \in DOMAIN kept \ {i} : s[k] = kept[k]
    BY <1>3, <1>5, Changed
  <1> HIDE DEF s, g
  <1>7. Formed(f) /\ f.relay = None /\ f.tag = None
    BY SettledIs
  <1>8. /\ g.there /\ g.relay = None /\ g.tag = None /\ g.active = i /\ g.saved = s
        /\ Formed(g) /\ Known(g) = Known(f) \union {i}
    BY <1>2, <1>3, <1>6, <1>7 DEF Formed, Known
  <1>9. \A k \in DOMAIN kept : s[k].relay = kept[k].relay /\ s[k].renamed = kept[k].renamed
    BY <1>5, <1>6
  <1>10. Settled(g)
    <2>1. \A k, l \in Known(g) : g.saved[k].relay = g.saved[l].relay => k = l
      BY <1>3, <1>8, <1>9
    <2>2. Whole(g)
      BY <1>8, <2>1 DEF Whole, NeedsMigration
    <2> QED
      BY <1>8, <2>2 DEF Settled, Sound, NeedsMigration
  <1>11. Names(j, f, g)
    BY <1>3, <1>6, <1>8, <1>9 DEF Names
  <1> QED
    BY <1>10, <1>11 DEF Fits, g

LEMMA ClearedDoes ==
  ASSUME NEW f, Settled(f), NEW j, j.op = "logout"
  PROVE  /\ Settled(Cleared(f)) /\ Fits(j, f, Cleared(f)) /\ ~HasLoginMaterial(Cleared(f))
  <1> DEFINE s == [i \in Known(f) |-> [f.saved[i] EXCEPT !.tag = None]]
             g == Cleared(f)
  <1>1. \A i \in Known(f) : i \in Ids /\ f.saved[i] \in Profile
    BY SettledIs
  <1>2. \A i \in Known(f) : /\ s[i] \in Profile /\ s[i].tag = None /\ s[i].relay = f.saved[i].relay
                            /\ s[i].renamed = f.saved[i].renamed
    BY <1>1 DEF Profile
  <1>3. g = [f EXCEPT !.there = TRUE, !.key = FALSE, !.tag = None, !.saved = s]
    BY DEF Cleared
  <1>4. s = [i \in DOMAIN s |-> s[i]] /\ DOMAIN s = Known(f)
    OBVIOUS
  <1> HIDE DEF s, g
  <1>5. Table(s)
    BY <1>1, <1>2, <1>4 DEF Table
  <1>6. Formed(f) /\ f.relay = None /\ f.tag = None /\ f.active \in Known(f) \union {None}
    BY SettledIs
  <1>7. /\ g.there /\ g.key = FALSE /\ g.relay = None /\ g.tag = None /\ g.active = f.active
        /\ g.saved = s /\ Formed(g) /\ Known(g) = Known(f)
    BY <1>3, <1>4, <1>5, <1>6 DEF Formed, Known
  <1>8. Settled(g)
    BY <1>2, <1>6, <1>7, StillSettled
  <1>9. Names(j, f, g)
    BY <1>2, <1>7 DEF Names
  <1>10. ~HasLoginMaterial(g)
    BY <1>2, <1>7 DEF HasLoginMaterial
  <1> QED
    BY <1>8, <1>9, <1>10 DEF Fits, g

LEMMA FirstDoes ==
  ASSUME NEW i \in Fresh, NEW r \in Relays, NEW j, j.op = "init"
  PROVE  Settled(FirstProfile(i, r, None)) /\ Fits(j, Empty, FirstProfile(i, r, None))
  <1> DEFINE n == NewProfile(r, None)
             s == With(Empty.saved, i, n)
             g == FirstProfile(i, r, None)
  <1>1. n \in Profile /\ n.relay = r
    BY NewProfileTyped
  <1>2. g = [Empty EXCEPT !.there = TRUE, !.key = TRUE, !.active = i, !.saved = s]
    BY DEF FirstProfile, Empty
  <1> HIDE DEF n
  <1>3. i \in Ids \ Known(Empty) /\ WithRelay(Empty, r) = {}
    BY Constants, EmptySettled DEF WithRelay
  <1>0. s = With(Empty.saved, i, n)
    OBVIOUS
  <1> HIDE DEF s, g
  <1>4. Table(s) /\ DOMAIN s = {i} /\ s[i] = n
    <2>1. Unserved(Empty, n.relay) /\ i \in Ids /\ i \notin Known(Empty)
      BY <1>1, <1>3 DEF Unserved
    <2>2. Grown(Empty, i, n, s)
      BY <1>0, <1>1, <2>1, EmptySettled, Extended
    <2> QED
      BY <2>2, EmptySettled DEF Grown
  <1>5. Formed(Empty) /\ Empty.relay = None /\ Empty.tag = None
    BY EmptySettled, SettledIs
  <1>6. /\ g.there /\ g.relay = None /\ g.tag = None /\ g.active = i /\ g.saved = s
        /\ Formed(g) /\ Known(g) = {i}
    BY <1>2, <1>3, <1>4, <1>5 DEF Formed, Known
  <1>7. Settled(g)
    BY <1>6 DEF Settled, Sound, Whole, NeedsMigration
  <1>8. Names(j, Empty, g)
    BY EmptySettled DEF Names
  <1> QED
    BY <1>7, <1>8 DEF Fits, g

-----------------------------------------------------------------------------
(* The invariant.                                                            *)

LEMMA InitInv == Init => Inv
  <1> SUFFICES ASSUME Init PROVE Inv
    OBVIOUS
  <1>1. Settled(Empty)
    BY EmptySettled
  <1>2. Shared
    <2>1. Sound(file) /\ (NeedsMigration(file) => file.key)
      <3>1. CASE file = Empty
        BY <1>1, <3>1 DEF Settled
      <3>2. CASE \E r \in {None, Default} : file = OlderFile(r)
        <4>0. PICK r \in {None, Default} : file = OlderFile(r)
          BY <3>2
        <4>1. file = [Empty EXCEPT !.there = TRUE, !.key = TRUE, !.relay = r, !.tag = Default]
          BY <4>0 DEF OlderFile
        <4>2. Formed(Empty) /\ Known(Empty) = {} /\ Empty.active = None
          BY <1>1, EmptySettled, SettledIs DEF Empty
        <4>3. r \in Relays \union {None} /\ Default \in Relays
          BY Constants
        <4>4. /\ file.there /\ file.key /\ file.relay = r /\ file.tag = Default
              /\ file.active = None /\ file.saved = Empty.saved /\ Formed(file)
          BY <4>1, <4>2, <4>3 DEF Formed
        <4>5. Known(file) = {}
          BY <4>2, <4>4 DEF Known
        <4> QED
          BY <4>4, <4>5 DEF Sound, Whole
      <3>3. CASE \E S \in {Relays, Relays \ {Default}}, a \in Relays \ {Default} :
                     file = SavedFile(S, a)
        <4>1. PICK S \in {Relays, Relays \ {Default}}, a \in Relays \ {Default} :
                     file = SavedFile(S, a)
          BY <3>3
        <4> DEFINE s == [r \in S |-> NewProfile(r, r)]
        <4>2. Formed(Empty) /\ Empty.relay = None /\ Empty.tag = None
          BY <1>1, SettledIs
        <4>3. S \subseteq Relays /\ a \in S /\ a \in Ids /\ S \subseteq Ids
          BY Constants
        <4>4. \A r \in S : NewProfile(r, r) \in Profile /\ NewProfile(r, r).relay = r
          BY <4>3, NewProfileTyped
        <4>5. Table(s) /\ DOMAIN s = S /\ \A r \in S : s[r].relay = r
          BY <4>3, <4>4 DEF Table
        <4>6. file = [Empty EXCEPT !.there = TRUE, !.key = TRUE, !.active = a, !.saved = s]
          BY <4>1 DEF SavedFile
        <4> HIDE DEF s
        <4>7. /\ file.there /\ file.key /\ file.relay = None /\ file.tag = None
              /\ file.active = a /\ file.saved = s /\ Formed(file)
          BY <4>2, <4>3, <4>5, <4>6 DEF Formed
        <4> QED
          BY <4>3, <4>5, <4>7 DEF Sound, Whole, Known, NeedsMigration
      <3> QED
        BY <3>1, <3>2, <3>3 DEF Init
    <2>2. removed = {} /\ lost = {} /\ out = FALSE /\ jobs = 0 /\ turns = 0 /\ faults = 0
      BY DEF Init
    <2>3. jobs \in 0..MaxJobs /\ turns \in 0..MaxTurns /\ faults \in 0..MaxFaults
      BY <2>2, Constants
    <2> QED
      BY <2>1, <2>2, <2>3 DEF Shared
  <1>3. Shaped
    BY DEF Init, Shaped, Phases
  <1>4. \A p \in Procs : Good(p)
    BY <1>1 DEF Init, Good, Seated, Online, Current, Remembered, LeavesNone
  <1> QED
    BY <1>2, <1>3, <1>4 DEF Inv

\* What a step of p leaves alone: of another process everything but the age of
\* its copy, and that copy is still new only if the file did not change.
Others(p) ==
  \A q \in Procs \ {p} :
    /\ pc'[q] = pc[q] /\ job'[q] = job[q] /\ copy'[q] = copy[q]
    /\ session'[q] = session[q] /\ offered'[q] = offered[q]
    /\ ~behind'[q] => ~behind[q] /\ (pc[q] = "idle" \/ file' = file)

LEMMA OthersGood ==
  ASSUME NEW p \in Procs, Others(p), Ever \subseteq Ever', NEW q \in Procs \ {p}, Good(q)
  PROVE  Good(q)'
  <1>1. /\ pc'[q] = pc[q] /\ job'[q] = job[q] /\ copy'[q] = copy[q]
        /\ session'[q] = session[q] /\ offered'[q] = offered[q]
        /\ ~behind'[q] => ~behind[q] /\ (pc[q] = "idle" \/ file' = file)
    BY DEF Others
  <1>2. Seated(q)' /\ Online(q)' /\ LeavesNone(q)'
    BY <1>1 DEF Good, Seated, Online, LeavesNone
  <1>3. Settled(copy[q])'
    BY <1>1 DEF Good
  <1>4. Current(q)'
    <2>1. CASE pc[q] = "idle"
      BY <1>1, <2>1 DEF Current
    <2>2. CASE pc[q] # "idle" /\ ~behind'[q]
      <3>1. file' = file /\ ~behind[q] /\ Current(q)
        BY <1>1, <2>2 DEF Good
      <3>2. Migrated(file)' = Migrated(file)
        BY <3>1
      <3> QED
        BY <1>1, <3>1, <3>2 DEF Current
    <2> QED
      BY <2>1, <2>2 DEF Current
  <1>5. Remembered(q)'
    BY <1>1 DEF Good, Remembered
  <1> QED
    BY <1>2, <1>3, <1>4, <1>5 DEF Good

\* A step is as good as what it does to the file and to its own process.
LEMMA StepInv ==
  ASSUME Inv, NEW p \in Procs, Others(p), Ever \subseteq Ever', Shared', Shaped', Good(p)'
  PROVE  Inv'
  <1>1. \A q \in Procs \ {p} : Good(q)'
    BY OthersGood DEF Inv
  <1> QED
    BY <1>1 DEF Inv

-----------------------------------------------------------------------------
(* The ways a command ends or goes on, of which the actions are made.        *)

LEMMA JobFields ==
  ASSUME NEW j \in Job
  PROVE  /\ j.op \in {"use", "rename", "remove", "verify"} => j.id \in Ids
         /\ j.op = "add" => j.relay \in Relays /\ j.tag \in BOOLEAN
         /\ j.op = "login" => /\ j.id \in Ids \union {None} /\ j.relay \in Relays \union {None}
                              /\ j.typed \in Relays \union {None}
         /\ j.op = "session" => j.id \in Ids \union {None}
  BY DEF Job

\* The process is gone.
LEMMA StopInv ==
  ASSUME Inv, NEW p \in Procs, Stop(p), UNCHANGED <<file, copy, behind, removed, lost>>, Shared'
  PROVE  Inv'
  <1>1. Shaped /\ Good(p)
    BY DEF Inv
  <1>2. /\ pc' = [pc EXCEPT ![p] = "idle"] /\ job' = [job EXCEPT ![p] = NoJob]
        /\ session' = [session EXCEPT ![p] = None] /\ offered' = [offered EXCEPT ![p] = {}]
        /\ file' = file /\ copy' = copy /\ behind' = behind /\ removed' = removed /\ lost' = lost
    BY DEF Stop, Goto
  <1>3. Shaped'
    BY <1>1, <1>2 DEF Shaped, Phases
  <1>4. pc'[p] = "idle" /\ session'[p] = None /\ offered'[p] = {} /\ copy'[p] = copy[p]
    BY <1>1, <1>2 DEF Shaped
  <1>5. Good(p)'
    BY <1>1, <1>4 DEF Good, Seated, Online, Current, Remembered, LeavesNone
  <1>6. Others(p)
    BY <1>1, <1>2 DEF Others, Shaped
  <1>7. Ever' = Ever
    BY <1>2 DEF Ever
  <1> QED
    BY <1>3, <1>5, <1>6, <1>7, StepInv

LEMMA RefusedInv ==
  ASSUME Inv, NEW p \in Procs, Refused(p)
  PROVE  Inv'
  <1>1. Stop(p) /\ UNCHANGED <<file, copy, behind, removed, lost, out, jobs, turns, faults>>
    BY DEF Refused
  <1>2. Shared'
    BY <1>1 DEF Inv, Shared
  <1> QED
    BY <1>1, <1>2, StopInv

\* The command knows what to write.
LEMMA MeansInv ==
  ASSUME Inv, NEW p \in Procs, NEW f, Means(p, f), Settled(f),
         ~behind[p] => Fits(job[p], Migrated(file), f),
         job[p].op = "logout" => ~HasLoginMaterial(f)
  PROVE  Inv'
  <1>1. Shaped /\ Good(p) /\ Shared
    BY DEF Inv
  <1>2. /\ copy' = [copy EXCEPT ![p] = f] /\ pc' = [pc EXCEPT ![p] = "save"]
        /\ UNCHANGED <<file, job, behind, session, offered, removed, lost, out, jobs, turns, faults>>
    BY DEF Means, Goto
  <1>3. Shared'
    BY <1>1, <1>2 DEF Shared
  <1>4. Shaped'
    BY <1>1, <1>2 DEF Shaped, Phases
  <1>5. /\ pc'[p] = "save" /\ copy'[p] = f /\ job'[p] = job[p] /\ behind'[p] = behind[p]
        /\ session'[p] = session[p] /\ offered'[p] = offered[p]
    BY <1>1, <1>2 DEF Shaped
  <1>6. Migrated(file)' = Migrated(file) /\ Ever' = Ever
    BY <1>2 DEF Ever
  <1>7. Good(p)'
    <2>1. Seated(p)' /\ Online(p)' /\ LeavesNone(p)'
      BY <1>1, <1>5 DEF Good, Seated, Online, LeavesNone
    <2>2. Current(p)' /\ Remembered(p)'
      BY <1>1, <1>5, <1>6 DEF Good, Current, Remembered
    <2>3. Settled(copy[p])'
      BY <1>5
    <2> QED
      BY <2>1, <2>2, <2>3 DEF Good
  <1>8. Others(p)
    BY <1>1, <1>2 DEF Others, Shaped
  <1> QED
    BY <1>3, <1>4, <1>6, <1>7, <1>8, StepInv

LEMMA CheckedIs ==
  ASSUME Inv, NEW p \in Procs, pc[p] \in {"check", "online"}
  PROVE  /\ job[p] \in Job /\ Settled(copy[p])
         /\ ~behind[p] => copy[p] = Migrated(file)
         /\ Online(p)
  BY DEF Inv, Good, Seated, Current

LEMMA PlannedInv ==
  ASSUME Inv, NEW p \in Procs, pc[p] \in {"check", "online"}, NEW f, Means(p, f), Settled(f),
         Fits(job[p], copy[p], f), job[p].op # "logout"
  PROVE  Inv'
  <1>1. ~behind[p] => Fits(job[p], Migrated(file), f)
    BY CheckedIs
  <1> QED
    BY <1>1, MeansInv

-----------------------------------------------------------------------------
(* The actions, one by one.                                                  *)

LEMMA PlanningInv ==
  ASSUME Inv, NEW p \in Procs,
         \/ UseProfile(p) \/ RenameProfile(p) \/ RemoveProfile(p)
         \/ \E i \in Fresh : AddProfile(p, i)
         \/ \E s \in {"connected", "failed"} : VerifyProfile(p, s)
  PROVE  Inv'
  <1>1. CASE UseProfile(p)
    <2>1. /\ pc[p] = "check" /\ job[p].op = "use" /\ job[p].id \in Known(copy[p])
          /\ Means(p, PlanUse(copy[p], job[p].id))
      BY <1>1 DEF UseProfile
    <2>2. Settled(copy[p])
      BY <2>1, CheckedIs
    <2> QED
      BY <2>1, <2>2, UseDoes, PlannedInv
  <1>2. CASE RenameProfile(p)
    <2>1. /\ pc[p] = "check" /\ job[p].op = "rename" /\ job[p].id \in Known(copy[p])
          /\ Means(p, PlanRename(copy[p], job[p].id))
      BY <1>2 DEF RenameProfile
    <2>2. Settled(copy[p])
      BY <2>1, CheckedIs
    <2> QED
      BY <2>1, <2>2, RenameDoes, PlannedInv
  <1>3. CASE RemoveProfile(p)
    <2>1. /\ pc[p] = "check" /\ job[p].op = "remove" /\ job[p].id \in Known(copy[p])
          /\ Means(p, PlanRemove(copy[p], job[p].id))
      BY <1>3 DEF RemoveProfile
    <2>2. Settled(copy[p])
      BY <2>1, CheckedIs
    <2> QED
      BY <2>1, <2>2, RemoveDoes, PlannedInv
  <1>4. CASE \E i \in Fresh : AddProfile(p, i)
    <2>1. PICK i \in Fresh : AddProfile(p, i)
      BY <1>4
    <2> DEFINE t == IF job[p].tag THEN job[p].relay ELSE None
    <2>2. /\ pc[p] = "online" /\ job[p].op = "add" /\ i \in FreshIds(copy[p])
          /\ Means(p, PlanAdd(copy[p], i, job[p].relay, t))
      BY <2>1 DEF AddProfile
    <2>3. Settled(copy[p]) /\ job[p] \in Job /\ Online(p)
      BY <2>2, CheckedIs
    <2>4. WithRelay(copy[p], job[p].relay) = {}
      BY <2>2, <2>3 DEF Online
    <2>5. job[p].relay \in Relays /\ t \in Relays \union {None}
      BY <2>2, <2>3, JobFields
    <2> HIDE DEF t
    <2>6. /\ Settled(PlanAdd(copy[p], i, job[p].relay, t))
          /\ Fits(job[p], copy[p], PlanAdd(copy[p], i, job[p].relay, t))
      BY <2>2, <2>3, <2>4, <2>5, AddDoes
    <2> QED
      BY <2>2, <2>6, PlannedInv
  <1>5. CASE \E s \in {"connected", "failed"} : VerifyProfile(p, s)
    <2>1. PICK s \in {"connected", "failed"} : VerifyProfile(p, s)
      BY <1>5
    <2>2. /\ pc[p] = "online" /\ job[p].op = "verify"
          /\ Means(p, PlanObserved(copy[p], job[p].id, s))
      BY <2>1 DEF VerifyProfile
    <2>3. Settled(copy[p]) /\ job[p] \in Job /\ Online(p)
      BY <2>2, CheckedIs
    <2>4. job[p].id \in Known(copy[p])
      BY <2>2, <2>3 DEF Online
    <2>5. /\ Settled(PlanObserved(copy[p], job[p].id, s))
          /\ Fits(job[p], copy[p], PlanObserved(copy[p], job[p].id, s))
      BY <2>2, <2>3, <2>4, ObservedDoes
    <2> QED
      BY <2>2, <2>5, PlannedInv
  <1> QED
    BY <1>1, <1>2, <1>3, <1>4, <1>5

LEMMA EndingInv ==
  ASSUME Inv, NEW p \in Procs,
         \/ Refuse(p) \/ RelayRefuses(p) \/ StartUnsaved(p) \/ Quit(p) \/ AlreadyOut(p) \/ Crash(p)
  PROVE  Inv'
  <1>1. CASE Refused(p)
    BY <1>1, RefusedInv
  <1>2. CASE AlreadyOut(p)
    <2>1. /\ pc[p] = "check" /\ ~HasLoginMaterial(copy[p]) /\ out' = (out \/ ~behind[p]) /\ Stop(p)
          /\ UNCHANGED <<file, copy, behind, removed, lost, jobs, turns, faults>>
      BY <1>2 DEF AlreadyOut
    <2>2. Shared /\ behind[p] \in BOOLEAN
      BY DEF Inv, Shaped
    <2>3. ~behind[p] => ~HasLoginMaterial(file)
      <3> SUFFICES ASSUME ~behind[p]
                   PROVE  ~HasLoginMaterial(file)
        OBVIOUS
      <3>1. copy[p] = Migrated(file) /\ Sound(file) /\ (NeedsMigration(file) => file.key)
        BY <2>1, <2>2, CheckedIs DEF Shared
      <3>2. ~copy[p].key
        BY <2>1 DEF HasLoginMaterial
      <3>4. Migrated(file).key = file.key /\ (~NeedsMigration(file) => Migrated(file) = file)
        BY <3>1, MigratedDoes
      <3>3. Migrated(file) = file
        BY <3>1, <3>2, <3>4
      <3> QED
        BY <2>1, <3>1, <3>3
    <2>4. Shared'
      BY <2>1, <2>2, <2>3 DEF Shared
    <2> QED
      BY <2>1, <2>4, StopInv
  <1>3. CASE Crash(p)
    <2>1. /\ faults < MaxFaults /\ faults' = faults + 1 /\ Stop(p)
          /\ UNCHANGED <<file, copy, behind, removed, lost, out, jobs, turns>>
      BY <1>3 DEF Crash
    <2>2. Shared /\ faults \in 0..MaxFaults
      BY DEF Inv, Shared
    <2>3. faults' \in 0..MaxFaults
      BY <2>1, <2>2, Constants
    <2>4. Shared'
      BY <2>1, <2>2, <2>3 DEF Shared
    <2> QED
      BY <2>1, <2>4, StopInv
  <1> QED
    BY <1>1, <1>2, <1>3 DEF Refuse, RelayRefuses, StartUnsaved, Quit

LEMMA StartInv ==
  ASSUME Inv, NEW p \in Procs, NEW j \in Job, Start(p, j)
  PROVE  Inv'
  <1>1. Shaped /\ Good(p) /\ Shared
    BY DEF Inv
  <1> DEFINE l == IF NeedsMigration(file) THEN "wrap" ELSE "check"
  <1>2. /\ pc[p] = "idle" /\ jobs < MaxJobs /\ jobs' = jobs + 1 /\ job' = [job EXCEPT ![p] = j]
        /\ copy' = [copy EXCEPT ![p] = Migrated(file)] /\ behind' = [behind EXCEPT ![p] = FALSE]
        /\ pc' = [pc EXCEPT ![p] = l]
        /\ UNCHANGED <<file, session, offered, removed, lost, out, turns, faults>>
    BY DEF Start, Read, Goto
  <1>3. l \in {"wrap", "check"}
    OBVIOUS
  <1> HIDE DEF l
  <1>4. Shared'
    <2>1. jobs \in 0..MaxJobs
      BY <1>1 DEF Shared
    <2>2. jobs' \in 0..MaxJobs
      BY <1>2, <2>1, Constants
    <2> QED
      BY <1>1, <1>2, <2>2 DEF Shared
  <1>5. Shaped'
    BY <1>1, <1>2, <1>3 DEF Shaped, Phases
  <1>6. /\ pc'[p] = l /\ copy'[p] = Migrated(file) /\ job'[p] = j /\ behind'[p] = FALSE
        /\ session'[p] = session[p] /\ offered'[p] = offered[p]
    BY <1>1, <1>2 DEF Shaped
  <1>7. Migrated(file)' = Migrated(file) /\ Ever' = Ever
    BY <1>2 DEF Ever
  <1>8. session[p] = None
    BY <1>1, <1>2 DEF Good, Seated
  <1>9. Good(p)'
    <2>1. Seated(p)' /\ Online(p)' /\ LeavesNone(p)'
      BY <1>3, <1>6, <1>8 DEF Seated, Online, LeavesNone
    <2>2. Current(p)'
      BY <1>3, <1>6, <1>7 DEF Current
    <2>3. Remembered(p)'
      BY <1>1, <1>6, <1>7, <1>8 DEF Good, Remembered, Ever
    <2>4. Settled(copy[p])'
      BY <1>1, <1>6, MigratedDoes DEF Shared
    <2> QED
      BY <2>1, <2>2, <2>3, <2>4 DEF Good
  <1>10. Others(p)
    BY <1>1, <1>2 DEF Others, Shaped
  <1> QED
    BY <1>4, <1>5, <1>7, <1>9, <1>10, StepInv

\* What is written is made of the file as it is now.
LEMMA AnewInv ==
  ASSUME Inv, NEW p \in Procs, NEW f, Settled(f), NEW j \in Job \union {InitJob},
         job' = [job EXCEPT ![p] = j], copy' = [copy EXCEPT ![p] = f],
         behind' = [behind EXCEPT ![p] = FALSE], pc' = [pc EXCEPT ![p] = "save"],
         UNCHANGED <<file, session, offered, removed, lost>>, Shared',
         Fits(j, Migrated(file), f), j.op = "logout" => ~HasLoginMaterial(f),
         session[p] # None => j.op = "session"
  PROVE  Inv'
  <1>1. Shaped /\ Good(p)
    BY DEF Inv
  <1>2. Shaped'
    BY <1>1 DEF Shaped, Phases
  <1>3. /\ pc'[p] = "save" /\ copy'[p] = f /\ job'[p] = j /\ behind'[p] = FALSE
        /\ session'[p] = session[p] /\ offered'[p] = offered[p]
    BY <1>1 DEF Shaped
  <1>4. Migrated(file)' = Migrated(file) /\ Ever' = Ever
    BY DEF Ever
  <1>5. Good(p)'
    <2>1. Seated(p)' /\ Online(p)' /\ LeavesNone(p)'
      BY <1>3 DEF Seated, Online, LeavesNone
    <2>2. Current(p)' /\ Remembered(p)'
      BY <1>1, <1>3, <1>4 DEF Good, Current, Remembered
    <2>3. Settled(copy[p])'
      BY <1>3
    <2> QED
      BY <2>1, <2>2, <2>3 DEF Good
  <1>6. Others(p)
    BY <1>1 DEF Others, Shaped
  <1> QED
    BY <1>2, <1>4, <1>5, <1>6, StepInv

LEMMA LoginRelayIs ==
  ASSUME NEW f, Settled(f), NEW j \in Job, j.op = "login", LoginAllowed(j, f)
  PROVE  LoginRelay(j, f) \in Relays /\ LoginTag(j, f) \in Relays \union {None}
  <1> DEFINE i == Selected(j, f)
  <1>1. i \in Known(f) \union {None}
    BY DEF LoginAllowed
  <1> HIDE DEF i
  <1>2. i # None => f.saved[i].relay \in Relays /\ f.saved[i].tag \in Relays \union {None}
    <2> SUFFICES ASSUME i # None
                 PROVE  f.saved[i].relay \in Relays /\ f.saved[i].tag \in Relays \union {None}
      OBVIOUS
    <2>1. f.saved[i] \in Profile
      BY <1>1, SettledIs
    <2> QED
      BY <2>1 DEF Profile
  <1>3. /\ j.typed # None => j.typed \in Relays
        /\ j.relay # None => j.relay \in Relays
    BY JobFields
  <1>4. LoginRelay(j, f) \in Relays
    <2>1. CASE j.typed # None
      BY <1>3, <2>1 DEF LoginRelay
    <2>2. CASE j.typed = None /\ j.relay # None
      BY <1>3, <2>2 DEF LoginRelay
    <2>3. CASE j.typed = None /\ j.relay = None /\ i # None
      BY <1>2, <2>3 DEF LoginRelay, i
    <2>4. CASE j.typed = None /\ j.relay = None /\ i = None
      BY <2>4, Constants DEF LoginRelay, i
    <2> QED
      BY <2>1, <2>2, <2>3, <2>4
  <1>5. LoginTag(j, f) \in Relays \union {None}
    BY <1>2 DEF LoginTag, i
  <1> QED
    BY <1>4, <1>5

LEMMA RereadingInv ==
  ASSUME Inv, NEW p \in Procs,
         \/ \E i \in Ids : LoginVerified(p, i)
         \/ LogoutAgreed(p)
         \/ \E i \in Fresh, r \in Relays : InitCommand(p, i, r)
  PROVE  Inv'
  <1> DEFINE now == Migrated(file)
  <1>1. Shaped /\ Good(p) /\ Shared
    BY DEF Inv
  <1>2. Settled(now)
    BY <1>1, MigratedDoes DEF Shared
  <1> HIDE DEF now
  <1>3. CASE \E i \in Ids : LoginVerified(p, i)
    <2>1. PICK i \in Ids : LoginVerified(p, i)
      BY <1>3
    <2> DEFINE r == LoginRelay(job[p], copy[p])
               t == LoginTag(job[p], copy[p])
    <2>2. /\ pc[p] = "check" /\ job[p].op = "login" /\ LoginAllowed(job[p], copy[p])
          /\ i \in LoginIds(now, r)
          /\ copy' = [copy EXCEPT ![p] = Replaced(now, i, r, t)]
          /\ behind' = [behind EXCEPT ![p] = FALSE] /\ pc' = [pc EXCEPT ![p] = "save"]
          /\ UNCHANGED <<file, job, session, offered, removed, lost, out, jobs, turns, faults>>
      BY <2>1 DEF LoginVerified, Goto, now
    <2>3. job[p] \in Job /\ Settled(copy[p])
      BY <2>2, CheckedIs
    <2>4. r \in Relays /\ t \in Relays \union {None}
      BY <2>2, <2>3, LoginRelayIs
    <2> HIDE DEF r, t
    <2>5. /\ Settled(Replaced(now, i, r, t)) /\ Fits(job[p], now, Replaced(now, i, r, t))
      BY <1>2, <2>2, <2>4, ReplacedDoes
    <2>6. session[p] = None \/ job[p].op = "session"
      BY <1>1 DEF Good, Seated
    <2>7. job' = [job EXCEPT ![p] = job[p]]
      BY <1>1, <2>2 DEF Shaped
    <2>8. Shared'
      BY <1>1, <2>2 DEF Shared
    <2> QED
      BY <2>2, <2>3, <2>5, <2>6, <2>7, <2>8, AnewInv DEF now
  <1>4. CASE LogoutAgreed(p)
    <2>2. /\ pc[p] = "check" /\ job[p].op = "logout"
          /\ copy' = [copy EXCEPT ![p] = Cleared(now)]
          /\ behind' = [behind EXCEPT ![p] = FALSE] /\ pc' = [pc EXCEPT ![p] = "save"]
          /\ UNCHANGED <<file, job, session, offered, removed, lost, out, jobs, turns, faults>>
      BY <1>4 DEF LogoutAgreed, Goto, now
    <2>3. job[p] \in Job
      BY <2>2, CheckedIs
    <2>5. /\ Settled(Cleared(now)) /\ Fits(job[p], now, Cleared(now))
          /\ ~HasLoginMaterial(Cleared(now))
      BY <1>2, <2>2, ClearedDoes
    <2>6. session[p] = None \/ job[p].op = "session"
      BY <1>1 DEF Good, Seated
    <2>7. job' = [job EXCEPT ![p] = job[p]]
      BY <1>1, <2>2 DEF Shaped
    <2>8. Shared'
      BY <1>1, <2>2 DEF Shared
    <2> QED
      BY <2>2, <2>3, <2>5, <2>6, <2>7, <2>8, AnewInv DEF now
  <1>5. CASE \E i \in Fresh, r \in Relays : InitCommand(p, i, r)
    <2>1. PICK i \in Fresh, r \in Relays : InitCommand(p, i, r)
      BY <1>5
    <2>2. /\ pc[p] = "idle" /\ jobs < MaxJobs /\ ~file.there /\ jobs' = jobs + 1
          /\ copy' = [copy EXCEPT ![p] = FirstProfile(i, r, None)]
          /\ behind' = [behind EXCEPT ![p] = FALSE] /\ pc' = [pc EXCEPT ![p] = "save"]
          /\ job' = [job EXCEPT ![p] = InitJob]
          /\ UNCHANGED <<file, session, offered, removed, lost, out, turns, faults>>
      BY <2>1 DEF InitCommand, Goto, InitJob
    <2>3. now = Empty
      <3>1. file = Empty
        BY <1>1, <2>2 DEF Shared, Sound
      <3> QED
        BY <3>1, EmptySettled, SettledIs DEF now
    <2>4. InitJob.op = "init"
      BY DEF InitJob
    <2>5. /\ Settled(FirstProfile(i, r, None)) /\ Fits(InitJob, Empty, FirstProfile(i, r, None))
      BY <2>4, FirstDoes
    <2>6. session[p] = None
      BY <1>1, <2>2 DEF Good, Seated
    <2>8. Shared'
      <3>1. jobs \in 0..MaxJobs
        BY <1>1 DEF Shared
      <3>2. jobs' \in 0..MaxJobs
        BY <2>2, <3>1, Constants
      <3> QED
        BY <1>1, <2>2, <3>2 DEF Shared
    <2> QED
      BY <2>2, <2>3, <2>4, <2>5, <2>6, <2>8, AnewInv DEF now
  <1> QED
    BY <1>3, <1>4, <1>5

\* The process goes on, and neither the file nor its copy changes.
LEMMA WalkInv ==
  ASSUME Inv, NEW p \in Procs, NEW l \in {"check", "mark", "running"}, NEW s \in Ids \union {None},
         NEW o \in SUBSET Ids, pc' = [pc EXCEPT ![p] = l], session' = [session EXCEPT ![p] = s],
         offered' = [offered EXCEPT ![p] = o],
         UNCHANGED <<file, job, copy, behind, removed, lost>>, Shared',
         l = "check" => pc[p] = "wrap" /\ s = session[p],
         l # "check" => s # None /\ job[p].op = "session",
         s # None => s \in Ever, o \subseteq Ever
  PROVE  Inv'
  <1>1. Shaped /\ Good(p)
    BY DEF Inv
  <1>2. Shaped'
    BY <1>1 DEF Shaped, Phases
  <1>3. /\ pc'[p] = l /\ session'[p] = s /\ offered'[p] = o
        /\ copy'[p] = copy[p] /\ job'[p] = job[p] /\ behind'[p] = behind[p]
    BY <1>1 DEF Shaped
  <1>4. Migrated(file)' = Migrated(file) /\ Ever' = Ever
    BY DEF Ever
  <1>5. Good(p)'
    <2>1. Seated(p)'
      BY <1>1, <1>3 DEF Good, Seated
    <2>2. Online(p)' /\ LeavesNone(p)' /\ Settled(copy[p])'
      BY <1>1, <1>3 DEF Good, Online, LeavesNone
    <2>3. Current(p)' /\ Remembered(p)'
      BY <1>1, <1>3, <1>4 DEF Good, Current, Remembered
    <2> QED
      BY <2>1, <2>2, <2>3 DEF Good
  <1>6. Others(p)
    BY <1>1 DEF Others, Shaped
  <1> QED
    BY <1>2, <1>4, <1>5, <1>6, StepInv

LEMMA WalkingInv ==
  ASSUME Inv, NEW p \in Procs,
         \/ WrapFails(p) \/ StartSession(p) \/ OpenChannel(p) \/ FillPicker(p)
         \/ \E i \in Ids : SwitchCommunity(p, i)
  PROVE  Inv'
  <1>1. Shaped /\ Good(p) /\ Shared
    BY DEF Inv
  <1>2. /\ pc = [pc EXCEPT ![p] = pc[p]] /\ session = [session EXCEPT ![p] = session[p]]
        /\ offered = [offered EXCEPT ![p] = offered[p]]
        /\ session[p] \in Ids \union {None} /\ offered[p] \in SUBSET Ids
    BY <1>1 DEF Shaped
  <1>3. (session[p] # None => session[p] \in Ever) /\ offered[p] \subseteq Ever
    BY <1>1 DEF Good, Remembered
  <1>4. /\ turns \in 0..MaxTurns /\ faults \in 0..MaxFaults
        /\ turns < MaxTurns => turns + 1 \in 0..MaxTurns
        /\ faults < MaxFaults => faults + 1 \in 0..MaxFaults
    BY <1>1, Constants DEF Shared
  <1>5. CASE WrapFails(p)
    <2>1. /\ pc[p] = "wrap" /\ faults < MaxFaults /\ faults' = faults + 1
          /\ pc' = [pc EXCEPT ![p] = "check"]
          /\ UNCHANGED <<file, job, copy, behind, session, offered, removed, lost, out, jobs, turns>>
      BY <1>5 DEF WrapFails, Goto
    <2>2. Shared'
      BY <1>1, <1>4, <2>1 DEF Shared
    <2> QED
      BY <1>2, <1>3, <2>1, <2>2, WalkInv
  <1>6. CASE StartSession(p)
    <2> DEFINE i == Selected(job[p], copy[p])
    <2>1. /\ pc[p] = "check" /\ job[p].op = "session" /\ i \in Known(copy[p])
          /\ session' = [session EXCEPT ![p] = i] /\ pc' = [pc EXCEPT ![p] = "mark"]
          /\ UNCHANGED <<file, job, copy, behind, offered, removed, lost, out, jobs, turns, faults>>
      BY <1>6 DEF StartSession, Goto
    <2> HIDE DEF i
    <2>2. Known(copy[p]) \subseteq Ever /\ Settled(copy[p])
      BY <1>1, <2>1 DEF Good, Remembered
    <2>3. i \in Ids /\ i # None /\ i \in Ever
      BY <2>1, <2>2, SettledIs, Constants
    <2>4. Shared'
      BY <1>1, <2>1 DEF Shared
    <2> QED
      BY <1>2, <1>3, <2>1, <2>3, <2>4, WalkInv
  <1>7. CASE OpenChannel(p)
    <2>1. /\ pc[p] = "running" /\ turns < MaxTurns /\ turns' = turns + 1
          /\ pc' = [pc EXCEPT ![p] = "mark"]
          /\ UNCHANGED <<file, job, copy, behind, session, offered, removed, lost, out, jobs, faults>>
      BY <1>7 DEF OpenChannel, Goto
    <2>2. Shared'
      BY <1>1, <1>4, <2>1 DEF Shared
    <2>3. session[p] # None /\ job[p].op = "session"
      BY <1>1, <2>1 DEF Good, Seated
    <2> QED
      BY <1>2, <1>3, <2>1, <2>2, <2>3, WalkInv
  <1>8. CASE FillPicker(p)
    <2> DEFINE o == Known(Migrated(file))
    <2>1. /\ pc[p] = "running" /\ offered' = [offered EXCEPT ![p] = o]
          /\ UNCHANGED <<file, pc, job, copy, behind, session, removed, lost, out, jobs, turns, faults>>
      BY <1>8 DEF FillPicker
    <2>2. Shared'
      BY <1>1, <2>1 DEF Shared
    <2>3. session[p] # None /\ job[p].op = "session"
      BY <1>1, <2>1 DEF Good, Seated
    <2>4. o \subseteq Ids /\ o \subseteq Ever
      BY <1>1, MigratedDoes, SettledIs DEF Shared, Ever
    <2> HIDE DEF o
    <2>5. pc' = [pc EXCEPT ![p] = "running"]
      BY <1>2, <2>1
    <2> QED
      BY <1>2, <1>3, <2>1, <2>2, <2>3, <2>4, <2>5, WalkInv
  <1>9. CASE \E i \in Ids : SwitchCommunity(p, i)
    <2>0. PICK i \in Ids : SwitchCommunity(p, i)
      BY <1>9
    <2>1. /\ pc[p] = "running" /\ i \in offered[p] /\ session' = [session EXCEPT ![p] = i]
          /\ UNCHANGED <<file, pc, job, copy, behind, offered, removed, lost, out, jobs, turns, faults>>
      BY <2>0 DEF SwitchCommunity
    <2>2. Shared'
      BY <1>1, <2>1 DEF Shared
    <2>3. session[p] # None /\ job[p].op = "session"
      BY <1>1, <2>1 DEF Good, Seated
    <2>4. i # None /\ i \in Ever
      BY <1>3, <2>1, Constants
    <2>5. pc' = [pc EXCEPT ![p] = "running"]
      BY <1>2, <2>1
    <2> QED
      BY <1>2, <1>3, <2>1, <2>2, <2>3, <2>4, <2>5, WalkInv
  <1> QED
    BY <1>5, <1>6, <1>7, <1>8, <1>9

\* A read that may write the wrap: nothing that matters changes in the file.
LEMMA WrapOnceDoes ==
  ASSUME Shared, NEW p \in Procs, WrapOnce(p)
  PROVE  /\ Sound(file') /\ (NeedsMigration(file') => file'.key)
         /\ Migrated(file') = Migrated(file)
         /\ HasLoginMaterial(file') => HasLoginMaterial(file)
  <1>1. /\ Settled(Migrated(file)) /\ Migrated(Migrated(file)) = Migrated(file)
        /\ HasLoginMaterial(Migrated(file)) => HasLoginMaterial(file)
    BY MigratedDoes DEF Shared
  <1>2. CASE file' = file
    BY <1>2 DEF Shared
  <1>3. CASE file' = Migrated(file)
    BY <1>1, <1>3 DEF Settled
  <1> QED
    BY <1>2, <1>3 DEF WrapOnce

\* Nobody else's copy is new once the file has changed.
LEMMA OlderIs ==
  ASSUME Shaped, NEW p \in Procs, NEW b \in BOOLEAN, behind' = Older(p, b)
  PROVE  /\ behind' \in [Procs -> BOOLEAN] /\ behind'[p] = b
         /\ \A q \in Procs \ {p} : ~behind'[q] => ~behind[q] /\ (pc[q] = "idle" \/ file' = file)
  BY DEF Shaped, Older

LEMMA IdentifyInv ==
  ASSUME Inv, NEW p \in Procs, Identify(p)
  PROVE  Inv'
  <1>1. Shaped /\ Good(p) /\ Shared
    BY DEF Inv
  <1>2. /\ pc[p] = "check" /\ WrapOnce(p) /\ behind' = Older(p, behind[p])
        /\ \/ job[p].op = "add" /\ WithRelay(copy[p], job[p].relay) = {}
           \/ job[p].op = "verify" /\ job[p].id \in Known(copy[p])
        /\ UNCHANGED <<copy, removed, lost, out, jobs, turns, faults>>
    BY DEF Identify
  <1>3. \/ Stop(p)
        \/ pc' = [pc EXCEPT ![p] = "online"] /\ UNCHANGED <<job, session, offered>>
    BY DEF Identify, Goto
  <1>4. /\ behind' \in [Procs -> BOOLEAN] /\ behind'[p] = behind[p]
        /\ \A q \in Procs \ {p} : ~behind'[q] => ~behind[q] /\ (pc[q] = "idle" \/ file' = file)
    <2>1. behind[p] \in BOOLEAN
      BY <1>1 DEF Shaped
    <2> QED
      BY <1>1, <1>2, <2>1, OlderIs
  <1>5. /\ Sound(file') /\ (NeedsMigration(file') => file'.key)
        /\ Migrated(file') = Migrated(file)
        /\ HasLoginMaterial(file') => HasLoginMaterial(file)
    BY <1>1, <1>2, WrapOnceDoes
  <1>6. Shared'
    BY <1>1, <1>2, <1>5 DEF Shared
  <1>7. Ever' = Ever
    BY <1>2, <1>5 DEF Ever
  <1>8. CASE Stop(p)
    <2>1. /\ pc' = [pc EXCEPT ![p] = "idle"] /\ job' = [job EXCEPT ![p] = NoJob]
          /\ session' = [session EXCEPT ![p] = None] /\ offered' = [offered EXCEPT ![p] = {}]
      BY <1>8 DEF Stop, Goto
    <2>2. Shaped'
      BY <1>1, <1>2, <1>4, <2>1 DEF Shaped, Phases
    <2>3. pc'[p] = "idle" /\ session'[p] = None /\ offered'[p] = {} /\ copy'[p] = copy[p]
      BY <1>1, <1>2, <2>1 DEF Shaped
    <2>4. Good(p)'
      BY <1>1, <2>3 DEF Good, Seated, Online, Current, Remembered, LeavesNone
    <2>5. Others(p)
      BY <1>1, <1>2, <1>4, <2>1 DEF Others, Shaped
    <2> QED
      BY <1>6, <1>7, <2>2, <2>4, <2>5, StepInv
  <1>9. CASE pc' = [pc EXCEPT ![p] = "online"] /\ UNCHANGED <<job, session, offered>>
    <2>1. Shaped'
      BY <1>1, <1>2, <1>4, <1>9 DEF Shaped, Phases
    <2>2. /\ pc'[p] = "online" /\ session'[p] = session[p] /\ offered'[p] = offered[p]
          /\ copy'[p] = copy[p] /\ job'[p] = job[p]
      BY <1>1, <1>2, <1>9 DEF Shaped
    <2>3. Seated(p)' /\ Online(p)' /\ LeavesNone(p)' /\ Settled(copy[p])'
      BY <1>1, <1>2, <2>2 DEF Good, Seated, Online, LeavesNone
    <2>4. Current(p)' /\ Remembered(p)'
      BY <1>1, <1>2, <1>4, <1>5, <1>7, <2>2 DEF Good, Current, Remembered
    <2>5. Good(p)'
      BY <2>3, <2>4 DEF Good
    <2>6. Others(p)
      BY <1>1, <1>2, <1>4, <1>9 DEF Others, Shaped
    <2> QED
      BY <1>6, <1>7, <2>1, <2>5, <2>6, StepInv
  <1> QED
    BY <1>3, <1>8, <1>9

LEMMA MarkInv ==
  ASSUME Inv, NEW p \in Procs, Mark(p)
  PROVE  Inv'
  <1> DEFINE now == Migrated(file)
             mark == PlanMark(now, session[p])
  <1>1. Shaped /\ Good(p) /\ Shared
    BY DEF Inv
  <1>2. /\ pc[p] = "mark" /\ WrapOnce(p) /\ behind' = Older(p, FALSE)
        /\ UNCHANGED <<job, session, offered, removed, lost, out, jobs, turns, faults>>
    BY DEF Mark
  <1>3. \/ /\ session[p] \in Known(now) /\ copy' = [copy EXCEPT ![p] = mark]
           /\ pc' = [pc EXCEPT ![p] = "save"]
        \/ pc' = [pc EXCEPT ![p] = "running"] /\ copy' = copy
    BY DEF Mark, Goto
  <1>4. /\ behind' \in [Procs -> BOOLEAN]
        /\ \A q \in Procs \ {p} : ~behind'[q] => ~behind[q] /\ (pc[q] = "idle" \/ file' = file)
    BY <1>1, <1>2, OlderIs
  <1>5. /\ Sound(file') /\ (NeedsMigration(file') => file'.key)
        /\ Migrated(file') = now
        /\ HasLoginMaterial(file') => HasLoginMaterial(file)
    BY <1>1, <1>2, WrapOnceDoes
  <1>6. Settled(now) /\ session[p] # None /\ job[p].op = "session"
    BY <1>1, <1>2, MigratedDoes DEF Shared, Good, Seated
  <1>7. Shared'
    BY <1>1, <1>2, <1>5 DEF Shared
  <1>8. Ever' = Ever
    BY <1>2, <1>5 DEF Ever
  <1> HIDE DEF now, mark
  <1>9. CASE /\ session[p] \in Known(now) /\ copy' = [copy EXCEPT ![p] = mark]
             /\ pc' = [pc EXCEPT ![p] = "save"]
    <2>1. Settled(mark) /\ Fits(job[p], now, mark)
      BY <1>6, <1>9, MarkDoes DEF mark
    <2>2. Shaped'
      BY <1>1, <1>2, <1>4, <1>9 DEF Shaped, Phases
    <2>3. /\ pc'[p] = "save" /\ session'[p] = session[p] /\ offered'[p] = offered[p]
          /\ copy'[p] = mark /\ job'[p] = job[p]
      BY <1>1, <1>2, <1>9 DEF Shaped
    <2>4. Seated(p)' /\ Online(p)' /\ LeavesNone(p)' /\ Settled(copy[p])'
      BY <1>6, <2>1, <2>3 DEF Seated, Online, LeavesNone
    <2>5. Current(p)' /\ Remembered(p)'
      BY <1>1, <1>5, <1>8, <2>1, <2>3 DEF Good, Current, Remembered
    <2>6. Good(p)'
      BY <2>4, <2>5 DEF Good
    <2>7. Others(p)
      BY <1>1, <1>2, <1>4, <1>9 DEF Others, Shaped
    <2> QED
      BY <1>7, <1>8, <2>2, <2>6, <2>7, StepInv
  <1>10. CASE pc' = [pc EXCEPT ![p] = "running"] /\ copy' = copy
    <2>2. Shaped'
      BY <1>1, <1>2, <1>4, <1>10 DEF Shaped, Phases
    <2>3. /\ pc'[p] = "running" /\ session'[p] = session[p] /\ offered'[p] = offered[p]
          /\ copy'[p] = copy[p] /\ job'[p] = job[p]
      BY <1>1, <1>2, <1>10 DEF Shaped
    <2>4. Seated(p)' /\ Online(p)' /\ LeavesNone(p)' /\ Settled(copy[p])'
      BY <1>1, <1>6, <2>3 DEF Good, Seated, Online, LeavesNone
    <2>5. Current(p)' /\ Remembered(p)'
      BY <1>1, <1>8, <2>3 DEF Good, Current, Remembered
    <2>6. Good(p)'
      BY <2>4, <2>5 DEF Good
    <2>7. Others(p)
      BY <1>1, <1>2, <1>4, <1>10 DEF Others, Shaped
    <2> QED
      BY <1>7, <1>8, <2>2, <2>6, <2>7, StepInv
  <1> QED
    BY <1>3, <1>9, <1>10

\* Whatever is written, an id that goes is one the command named, or is lost.
LEMMA WroteKeeps ==
  ASSUME Inv, NEW p \in Procs, pc[p] \in {"wrap", "save"}, Wrote(p, copy[p]),
         removed \subseteq removed',
         pc[p] = "save" /\ job[p].op = "remove" => job[p].id \in removed'
  PROVE  Ever \subseteq Ever' /\ lost' \subseteq Ids /\ Migrated(file') = copy[p]
  <1>1. Shaped /\ Good(p) /\ Shared
    BY DEF Inv
  <1>2. /\ file' = copy[p] /\ Settled(copy[p])
        /\ lost' = IF behind[p] THEN lost \union (Known(Migrated(file)) \ Known(copy[p])) ELSE lost
    BY <1>1 DEF Wrote, Good
  <1>3. Migrated(file') = copy[p]
    BY <1>2, SettledIs
  <1>4. Ever' = Known(copy[p]) \union removed' \union lost'
    BY <1>3 DEF Ever
  <1>5. Known(Migrated(file)) \subseteq Ids /\ lost \subseteq Ids
    BY <1>1, MigratedDoes, SettledIs DEF Shared
  <1>6. lost' \subseteq Ids /\ lost \subseteq lost'
    BY <1>2, <1>5
  <1>7. Known(Migrated(file)) \subseteq Ever'
    <2>1. CASE behind[p]
      BY <1>2, <1>4, <2>1
    <2>2. CASE ~behind[p] /\ pc[p] = "wrap"
      BY <1>1, <1>4, <2>2 DEF Good, Current
    <2>3. CASE ~behind[p] /\ pc[p] = "save"
      <3>1. Names(job[p], Migrated(file), copy[p])
        BY <1>1, <2>3 DEF Good, Current, Fits
      <3>2. \A i \in Known(Migrated(file)) :
               i \in Known(copy[p]) \/ (job[p].op = "remove" /\ i = job[p].id)
        BY <3>1 DEF Names
      <3> QED
        BY <1>4, <2>3, <3>2
    <2> QED
      BY <2>1, <2>2, <2>3
  <1> QED
    BY <1>3, <1>4, <1>6, <1>7 DEF Ever

LEMMA PersistWrapInv ==
  ASSUME Inv, NEW p \in Procs, PersistWrap(p)
  PROVE  Inv'
  <1>1. Shaped /\ Good(p) /\ Shared
    BY DEF Inv
  <1>2. /\ pc[p] = "wrap" /\ Wrote(p, copy[p]) /\ out' = (out /\ ~behind[p])
        /\ pc' = [pc EXCEPT ![p] = "check"]
        /\ UNCHANGED <<job, copy, session, offered, removed, jobs, turns, faults>>
    BY DEF PersistWrap, Goto
  <1>3. Ever \subseteq Ever' /\ lost' \subseteq Ids /\ Migrated(file') = copy[p]
    BY <1>2, WroteKeeps
  <1>4. file' = copy[p] /\ behind' = Older(p, FALSE) /\ Settled(copy[p])
    BY <1>1, <1>2 DEF Wrote, Good
  <1>5. /\ behind' \in [Procs -> BOOLEAN] /\ behind'[p] = FALSE
        /\ \A q \in Procs \ {p} : ~behind'[q] => ~behind[q] /\ (pc[q] = "idle" \/ file' = file)
    BY <1>1, <1>4, OlderIs
  <1>6. Shared'
    <2>1. Sound(file') /\ ~NeedsMigration(file')
      BY <1>4 DEF Settled
    <2>2. out' \in BOOLEAN /\ (out' => ~HasLoginMaterial(file'))
      <3>1. out' => out /\ copy[p] = Migrated(file)
        BY <1>1, <1>2 DEF Good, Current
      <3>2. HasLoginMaterial(Migrated(file)) => HasLoginMaterial(file)
        BY <1>1, MigratedDoes DEF Shared
      <3>3. out => ~HasLoginMaterial(file)
        BY <1>1 DEF Shared
      <3>4. out' \in BOOLEAN
        BY <1>2
      <3> QED
        BY <1>4, <3>1, <3>2, <3>3, <3>4
    <2> QED
      BY <1>1, <1>2, <1>3, <2>1, <2>2 DEF Shared
  <1>7. Shaped'
    BY <1>1, <1>2, <1>5 DEF Shaped, Phases
  <1>8. /\ pc'[p] = "check" /\ session'[p] = session[p] /\ offered'[p] = offered[p]
        /\ copy'[p] = copy[p] /\ job'[p] = job[p]
    BY <1>1, <1>2 DEF Shaped
  <1>9. Good(p)'
    <2>1. Seated(p)' /\ Online(p)' /\ LeavesNone(p)' /\ Settled(copy[p])'
      BY <1>1, <1>2, <1>8 DEF Good, Seated, Online, LeavesNone
    <2>2. Current(p)' /\ Remembered(p)'
      BY <1>1, <1>2, <1>3, <1>8 DEF Good, Current, Remembered
    <2> QED
      BY <2>1, <2>2 DEF Good
  <1>10. Others(p)
    BY <1>1, <1>2, <1>5 DEF Others, Shaped
  <1> QED
    BY <1>3, <1>6, <1>7, <1>9, <1>10, StepInv

\* The command is over, or the session goes on.
LEMMA FinishDoes ==
  ASSUME Shaped, NEW p \in Procs, Good(p), Finish(p), UNCHANGED <<copy, session, offered>>,
         behind' \in [Procs -> BOOLEAN], Ever \subseteq Ever'
  PROVE  /\ Shaped' /\ Good(p)'
         /\ \A q \in Procs \ {p} : pc'[q] = pc[q] /\ job'[q] = job[q]
  <1> DEFINE l == IF Interactive(p) THEN "running" ELSE "idle"
             j == IF Interactive(p) THEN job[p] ELSE NoJob
  <1>1. pc' = [pc EXCEPT ![p] = l] /\ job' = [job EXCEPT ![p] = j]
    BY DEF Finish, Goto, Shaped
  <1>2. /\ l \in {"running", "idle"} /\ j \in Job \union {NoJob, InitJob}
        /\ l = "idle" => session[p] = None
        /\ l = "running" => session[p] # None /\ j = job[p]
    BY DEF Shaped, Interactive
  <1> HIDE DEF l, j
  <1>3. Shaped'
    BY <1>1, <1>2 DEF Shaped, Phases
  <1>4. /\ pc'[p] = l /\ job'[p] = j /\ session'[p] = session[p] /\ offered'[p] = offered[p]
        /\ copy'[p] = copy[p]
    BY <1>1 DEF Shaped
  <1>5. Good(p)'
    BY <1>2, <1>4 DEF Good, Seated, Online, Current, Remembered, LeavesNone
  <1>6. \A q \in Procs \ {p} : pc'[q] = pc[q] /\ job'[q] = job[q]
    BY <1>1 DEF Shaped
  <1> QED
    BY <1>3, <1>5, <1>6

LEMMA SaveInv ==
  ASSUME Inv, NEW p \in Procs, Save(p)
  PROVE  Inv'
  <1>1. Shaped /\ Good(p) /\ Shared
    BY DEF Inv
  <1>2. /\ pc[p] = "save" /\ Wrote(p, copy[p]) /\ Finish(p)
        /\ removed' = (IF job[p].op = "remove" THEN removed \union {job[p].id} ELSE removed)
        /\ out' = (IF job[p].op = "logout" THEN TRUE
                   ELSE out /\ ~behind[p] /\ ~(job[p].op \in {"login", "init", "add"}))
        /\ UNCHANGED <<copy, session, offered, jobs, turns, faults>>
    BY DEF Save
  <1>3. /\ removed \subseteq removed' /\ removed' \subseteq Ids
        /\ job[p].op = "remove" => job[p].id \in removed'
    <2>1. job[p] \in Job \union {NoJob, InitJob} /\ removed \subseteq Ids
      BY <1>1 DEF Shaped, Shared
    <2>2. job[p].op = "remove" => job[p].id \in Ids
      BY <2>1, JobFields DEF NoJob, InitJob
    <2> QED
      BY <1>2, <2>1, <2>2
  <1>4. Ever \subseteq Ever' /\ lost' \subseteq Ids /\ Migrated(file') = copy[p]
    BY <1>2, <1>3, WroteKeeps
  <1>5. file' = copy[p] /\ behind' = Older(p, FALSE) /\ Settled(copy[p])
    BY <1>1, <1>2 DEF Wrote, Good
  <1>6. /\ behind' \in [Procs -> BOOLEAN]
        /\ \A q \in Procs \ {p} : ~behind'[q] => ~behind[q] /\ (pc[q] = "idle" \/ file' = file)
    BY <1>1, <1>5, OlderIs
  <1>7. out' \in BOOLEAN /\ (out' => ~HasLoginMaterial(file'))
    <2>1. CASE job[p].op = "logout"
      BY <1>1, <1>2, <1>5, <2>1 DEF Good, LeavesNone
    <2>2. CASE job[p].op # "logout"
      <3>1. out' = (out /\ ~behind[p] /\ ~(job[p].op \in {"login", "init", "add"}))
        BY <1>2, <2>2
      <3>2. ~behind[p] => Fits(job[p], Migrated(file), copy[p])
        BY <1>1, <1>2 DEF Good, Current
      <3>3. HasLoginMaterial(Migrated(file)) => HasLoginMaterial(file)
        BY <1>1, MigratedDoes DEF Shared
      <3>4. out => ~HasLoginMaterial(file)
        BY <1>1 DEF Shared
      <3>5. out' => ~HasLoginMaterial(copy[p])
        BY <3>1, <3>2, <3>3, <3>4 DEF Fits
      <3>6. out' \in BOOLEAN
        BY <3>1
      <3> QED
        BY <1>5, <3>5, <3>6
    <2> QED
      BY <2>1, <2>2
  <1>8. Shared'
    <2>1. Sound(file') /\ ~NeedsMigration(file')
      BY <1>5 DEF Settled
    <2> QED
      BY <1>1, <1>2, <1>3, <1>4, <1>7, <2>1 DEF Shared
  <1>9. /\ Shaped' /\ Good(p)'
        /\ \A q \in Procs \ {p} : pc'[q] = pc[q] /\ job'[q] = job[q]
    BY <1>1, <1>2, <1>4, <1>6, FinishDoes
  <1>10. Others(p)
    BY <1>2, <1>6, <1>9 DEF Others
  <1> QED
    BY <1>4, <1>8, <1>9, <1>10, StepInv

LEMMA SaveFailsInv ==
  ASSUME Inv, NEW p \in Procs, SaveFails(p)
  PROVE  Inv'
  <1>1. Shaped /\ Good(p) /\ Shared
    BY DEF Inv
  <1>2. /\ faults < MaxFaults /\ faults' = faults + 1 /\ Finish(p)
        /\ UNCHANGED <<file, copy, behind, session, offered, removed, lost, out, jobs, turns>>
    BY DEF SaveFails
  <1>3. Ever' = Ever
    BY <1>2 DEF Ever
  <1>4. Shared'
    <2>1. faults \in 0..MaxFaults
      BY <1>1 DEF Shared
    <2>2. faults' \in 0..MaxFaults
      BY <1>2, <2>1, Constants
    <2> QED
      BY <1>1, <1>2, <2>2 DEF Shared
  <1>5. behind' \in [Procs -> BOOLEAN]
    BY <1>1, <1>2 DEF Shaped
  <1>6. /\ Shaped' /\ Good(p)'
        /\ \A q \in Procs \ {p} : pc'[q] = pc[q] /\ job'[q] = job[q]
    BY <1>1, <1>2, <1>3, <1>5, FinishDoes
  <1>7. Others(p)
    BY <1>2, <1>6 DEF Others
  <1> QED
    BY <1>3, <1>4, <1>6, <1>7, StepInv

LEMMA NextInv == Inv /\ [Next]_vars => Inv'
  <1> SUFFICES ASSUME Inv, [Next]_vars
               PROVE  Inv'
    OBVIOUS
  <1>1. CASE UNCHANGED vars
    <2>1. /\ file' = file /\ pc' = pc /\ job' = job /\ copy' = copy /\ behind' = behind
          /\ session' = session /\ offered' = offered /\ removed' = removed /\ lost' = lost
          /\ out' = out /\ jobs' = jobs /\ turns' = turns /\ faults' = faults
      BY <1>1 DEF vars
    <2>2. Ever' = Ever /\ Shared' /\ Shaped'
      BY <2>1 DEF Inv, Ever, Shared, Shaped
    <2>3. ASSUME NEW p \in Procs
          PROVE  Good(p)'
      BY <2>1, <2>2 DEF Inv, Good, Seated, Online, Current, Remembered, LeavesNone
    <2> QED
      BY <2>2, <2>3 DEF Inv
  <1>2. CASE Next
    <2> PICK p \in Procs :
          \/ \E j \in Job : Start(p, j)
          \/ PersistWrap(p) \/ WrapFails(p) \/ Refuse(p)
          \/ UseProfile(p) \/ RenameProfile(p) \/ RemoveProfile(p)
          \/ Identify(p) \/ RelayRefuses(p)
          \/ \E i \in Fresh : AddProfile(p, i)
          \/ \E s \in {"connected", "failed"} : VerifyProfile(p, s)
          \/ \E i \in Ids : LoginVerified(p, i)
          \/ AlreadyOut(p) \/ LogoutAgreed(p)
          \/ \E i \in Fresh, r \in Relays : InitCommand(p, i, r)
          \/ StartSession(p) \/ StartUnsaved(p) \/ Mark(p) \/ OpenChannel(p) \/ FillPicker(p)
          \/ Quit(p) \/ \E i \in Ids : SwitchCommunity(p, i)
          \/ Save(p) \/ SaveFails(p) \/ Crash(p)
      BY <1>2 DEF Next
    <2>1. CASE \E j \in Job : Start(p, j)
      BY <2>1, StartInv
    <2>2. CASE \/ UseProfile(p) \/ RenameProfile(p) \/ RemoveProfile(p)
               \/ \E i \in Fresh : AddProfile(p, i)
               \/ \E s \in {"connected", "failed"} : VerifyProfile(p, s)
      BY <2>2, PlanningInv
    <2>3. CASE Refuse(p) \/ RelayRefuses(p) \/ StartUnsaved(p) \/ Quit(p) \/ AlreadyOut(p) \/ Crash(p)
      BY <2>3, EndingInv
    <2>4. CASE \/ \E i \in Ids : LoginVerified(p, i)
               \/ LogoutAgreed(p)
               \/ \E i \in Fresh, r \in Relays : InitCommand(p, i, r)
      BY <2>4, RereadingInv
    <2>5. CASE \/ WrapFails(p) \/ StartSession(p) \/ OpenChannel(p) \/ FillPicker(p)
               \/ \E i \in Ids : SwitchCommunity(p, i)
      BY <2>5, WalkingInv
    <2>6. CASE Identify(p) \/ Mark(p) \/ PersistWrap(p) \/ Save(p) \/ SaveFails(p)
      BY <2>6, IdentifyInv, MarkInv, PersistWrapInv, SaveInv, SaveFailsInv
    <2> QED
      BY <2>1, <2>2, <2>3, <2>4, <2>5, <2>6
  <1> QED
    BY <1>1, <1>2

LEMMA SpecInv == Spec => []Inv
  BY InitInv, NextInv, PTL DEF Spec

-----------------------------------------------------------------------------
(* What the commands promise.                                                *)

LEMMA SoundIsFile ==
  ASSUME NEW f, Sound(f)
  PROVE  IsFile(f)
  <1>1. DOMAIN f = {"there", "key", "relay", "tag", "active", "saved"}
    BY DEF Sound, Formed
  <1>2. DOMAIN Empty = {"there", "key", "relay", "tag", "active", "saved"}
    BY DEF Empty
  <1> QED
    BY <1>1, <1>2 DEF Sound, Formed, Table, IsFile, Known

\* Whatever commands overlap, fail or die, the file is one every command
\* accepts, every variable keeps its type, and a session finds the profile of
\* its community unless a command removed it or an older write dropped it.
THEOREM FileStaysUsableHolds == Spec => []FileStaysUsable
  <1>1. Inv => FileStaysUsable
    <2> SUFFICES ASSUME Inv
                 PROVE  FileStaysUsable
      OBVIOUS
    <2>1. Shared /\ Shaped /\ \A p \in Procs : Good(p)
      BY DEF Inv
    <2>2. IsFile(file) /\ FileIsWhole
      BY <2>1, SoundIsFile DEF Shared, Sound, Whole, FileIsWhole
    <2>3. \A p \in Procs : IsFile(copy[p])
      BY <2>1, SoundIsFile DEF Good, Settled
    <2>4. \A p \in Procs : job[p] \in Job \union {NoJob, [op |-> "init"]}
      BY <2>1 DEF Shaped, InitJob
    <2>5. TypeOK
      BY <2>1, <2>2, <2>3, <2>4 DEF TypeOK, Shared, Shaped, Phases
    <2>6. SessionFindsItsProfile
      BY <2>1 DEF SessionFindsItsProfile, Good, Remembered, Ever
    <2> QED
      BY <2>2, <2>5, <2>6 DEF FileStaysUsable
  <1> QED
    BY <1>1, SpecInv, PTL

\* After a logout was reported nothing in the file logs in, until a login, or
\* a command that read the file before, writes it.
THEOREM LoggedOutIsOutHolds == Spec => []LoggedOutIsOut
  <1>1. Inv => LoggedOutIsOut
    BY DEF Inv, Shared, LoggedOutIsOut
  <1> QED
    BY <1>1, SpecInv, PTL

\* A command whose copy is current writes the file with what it names changed
\* and every other profile, the identity and the active community as they were.
THEOREM OnlyWhatItNamesHolds == Spec => OnlyWhatItNames
  <1> DEFINE Step == \A p \in Procs : Save(p) /\ ~behind[p] =>
                       Names(job[p], Migrated(file), file')
  <1>1. Inv => Step
    <2> SUFFICES ASSUME Inv, NEW p \in Procs, Save(p), ~behind[p]
                 PROVE  Names(job[p], Migrated(file), file')
      OBVIOUS
    <2>1. file' = copy[p] /\ pc[p] = "save"
      BY DEF Save, Wrote
    <2>2. Fits(job[p], Migrated(file), copy[p])
      BY <2>1 DEF Inv, Good, Current
    <2> QED
      BY <2>1, <2>2 DEF Fits
  <1>2. Inv /\ [Next]_vars => [Step]_vars
    BY <1>1
  <1>3. Spec => [][Step]_vars
    BY <1>2, SpecInv, PTL DEF Spec
  <1> QED
    BY <1>3 DEF OnlyWhatItNames, Names

-----------------------------------------------------------------------------
(* SourceUpdate.                                                             *)

LEMMA Bounds == MaxRemote \in Nat \ {0} /\ MaxLocal \in Nat /\ MaxEdits \in Nat /\ MaxRuns \in Nat
  BY SourceUpdateAssumption

-----------------------------------------------------------------------------
(* The history of a commit.                                                  *)

\* The commits that were made so far.
Existing == (1..MaxRemote) \union Local

\* Local commits are numbered in the order they are made, and each is made on one
\* that was there before it.
Numbered ==
  /\ \E n \in 0..MaxLocal : Local = MaxRemote + 1..MaxRemote + n
  /\ \A c \in Local : parent[c] \in Existing /\ parent[c] < c

LEMMA ExistingAreCommits ==
  ASSUME Numbered
  PROVE  Existing \subseteq Commits /\ Commits \subseteq Nat \ {0} /\ Local \subseteq Commits
  BY Bounds DEF Numbered, Existing, Commits

LEMMA ParentIsOlder ==
  ASSUME Numbered, NEW c \in Commits
  PROVE  Parent(c) \in Existing \union {0} /\ Parent(c) < c
  BY Bounds DEF Numbered, Existing, Commits, Parent

LEMMA HistoryOfSelf ==
  ASSUME NEW c \in Commits
  PROVE  c \in History(c)
  BY DEF History

LEMMA HistoryIsClosed ==
  ASSUME NEW c \in Commits, Numbered
  PROVE  Closed(History(c))
<1> SUFFICES ASSUME NEW k \in History(c), Parent(k) # 0
             PROVE  Parent(k) \in History(c)
  BY DEF Closed
<1>1. Parent(k) \in Commits
  BY ParentIsOlder, ExistingAreCommits DEF History
<1>2. ASSUME NEW S \in SUBSET Commits, c \in S, Closed(S)
      PROVE  Parent(k) \in S
  BY <1>2 DEF History, Closed
<1> QED
  BY <1>1, <1>2 DEF History

LEMMA HistoryIsLeast ==
  ASSUME NEW c \in Commits, NEW S \in SUBSET Commits, c \in S, Closed(S)
  PROVE  History(c) \subseteq S
  BY DEF History

LEMMA HistoryOfAncestor ==
  ASSUME Numbered, NEW c \in Commits, NEW b \in History(c)
  PROVE  History(b) \subseteq History(c)
  BY HistoryIsClosed, HistoryIsLeast DEF History

\* A commit contains older ones only, and a remote one remote ones only.
LEMMA HistoryIsOlder ==
  ASSUME Numbered, NEW c \in Commits
  PROVE  \A k \in History(c) : k <= c
<1> DEFINE S == {k \in Commits : k <= c}
<1>1. Closed(S)
  <2> SUFFICES ASSUME NEW k \in S PROVE Parent(k) \in S \union {0}
    BY DEF Closed
  <2>1. {k, c} \subseteq Nat /\ Parent(k) \in Commits \union {0} /\ Parent(k) < k
    BY ParentIsOlder, ExistingAreCommits
  <2> QED
    BY <2>1, ExistingAreCommits
<1>2. c \in S
  BY ExistingAreCommits
<1> QED
  BY <1>1, <1>2, HistoryIsLeast

LEMMA HistoryOfRemote ==
  ASSUME Numbered, NEW c \in 1..MaxRemote
  PROVE  History(c) \subseteq 1..MaxRemote
<1>1. Closed(1..MaxRemote)
  BY Bounds DEF Closed, Parent, Numbered
<1>2. c \in Commits /\ 1..MaxRemote \subseteq Commits
  BY DEF Commits
<1> QED
  BY <1>1, <1>2, HistoryIsLeast

\* Two commits that contain each other are the same.
LEMMA HistoryIsOneWay ==
  ASSUME Numbered, NEW a \in Commits, NEW b \in Commits, a \in History(b), b \in History(a)
  PROVE  a = b
  BY HistoryIsOlder, ExistingAreCommits

\* A new commit leaves what the others contain as it was, and contains what its
\* parent does.
LEMMA CommitKeepsHistory ==
  ASSUME Numbered, Numbered', NEW c, Local' = Local \union {c}, c \notin Existing, c \in Commits,
         \A k \in Local : parent'[k] = parent[k]
  PROVE  \A b \in Existing : History(b)' = History(b)
<1> SUFFICES ASSUME NEW b \in Existing, NEW H, H = History(b), NEW a \in Commits
             PROVE  a \in History(b)' <=> a \in H
  BY DEF History
<1>1. b \in Commits /\ b < c
  BY Bounds DEF Numbered, Existing, Commits
<1>2. \A k \in Commits \ {c} : Parent(k)' = Parent(k) /\ Parent(k) \in Existing \union {0}
  BY ParentIsOlder DEF Parent
<1>3. c \notin H
  BY <1>1, HistoryIsOlder, ExistingAreCommits DEF History
<1>4. ASSUME a \in History(b)' PROVE a \in H
  <2>1. \A k \in H : Parent(k) \in H \union {0}
    BY <1>1, HistoryIsClosed DEF Closed
  <2>2. H \in SUBSET Commits /\ b \in H
    BY <1>1, HistoryOfSelf DEF History
  <2>3. Closed(H)'
    BY <1>2, <1>3, <2>1, <2>2 DEF Closed
  <2> QED
    BY <1>4, <2>2, <2>3 DEF History
<1>5. ASSUME a \in H PROVE a \in History(b)'
  <2> SUFFICES ASSUME NEW S \in SUBSET Commits, b \in S, Closed(S)'
               PROVE  a \in S
    BY DEF History
  <2>1. \A k \in S \ {c} : Parent(k) \in S \union {0} /\ Parent(k) # c
    BY <1>2, ExistingAreCommits DEF Closed, Commits
  <2>2. Closed(S \ {c}) /\ b \in S \ {c}
    BY <1>1, <2>1, ExistingAreCommits DEF Closed
  <2> QED
    BY <1>5, <2>2 DEF History
<1> QED
  BY <1>4, <1>5

-----------------------------------------------------------------------------
(* Types.                                                                    *)

\* What a variable names is a commit that exists.
Reached ==
  /\ Numbered
  /\ head \in Existing /\ previous \in Existing \union {0} /\ origin <= remote

Typed == UpdateTypeOK /\ Reached

\* A run past its comparison means to install a descendant of the commit it found.
Past == {"again", "merge"} \union AtWork

Running ==
  /\ runAt # "idle" => report = "none" /\ previous \in Existing
  /\ runAt \in Past => target \in 1..remote /\ target # previous /\ IsAncestor(previous, target)
  /\ runAt = "status" => touched \/ probe.commit = head
  /\ runAt = "compile" => touched \/ probe = Build(head, clean)
  /\ runAt = "verify" => touched \/ built = binary

LEMMA InitTyped == UpdateInit => Typed
<1> SUFFICES ASSUME UpdateInit PROVE Typed
  OBVIOUS
<1>1. Local = {}
  BY DEF UpdateInit, Local
<1>2. 1 \in 1..MaxRemote /\ 0 \in 0..MaxLocal /\ Local = MaxRemote + 1..MaxRemote + 0
  BY <1>1, Bounds
<1>3. 1 \in Commits /\ {binary, built, probe} \subseteq [commit : Commits, clean : BOOLEAN]
  BY <1>2 DEF UpdateInit, Build, Commits
<1>4. /\ remote \in 1..MaxRemote /\ origin = 1 /\ head = 1 /\ clean = TRUE
      /\ runAt = "idle" /\ action = "check" /\ previous = 0 /\ target = 0 /\ report = "none"
      /\ during = {} /\ touched = FALSE /\ edits = 0 /\ runs = 0
  BY DEF UpdateInit
<1>5. origin <= remote /\ 0 \in 0..MaxEdits /\ 0 \in 0..MaxRuns
  BY <1>4, Bounds
<1>6. UpdateTypeOK
  BY <1>1, <1>2, <1>3, <1>4, <1>5 DEF UpdateTypeOK, Reports
<1>7. Numbered
  BY <1>1, <1>2 DEF Numbered
<1> QED
  BY <1>2, <1>4, <1>5, <1>6, <1>7 DEF Typed, Reached, Existing

\* The number of the next commit, which is a new one.
NextNumber == MaxRemote + Cardinality(Local) + 1

LEMMA NextCommit ==
  ASSUME Typed, NEW c, c = NextNumber, Commit
  PROVE  /\ c \in Commits /\ c \notin Existing
         /\ \A b \in Existing : b < c
         /\ Local' = Local \union {c} /\ head' = c
         /\ parent'[c] = head /\ \A k \in Local : parent'[k] = parent[k]
         /\ Numbered'
<1>1. PICK n \in 0..MaxLocal : Local = MaxRemote + 1..MaxRemote + n
  BY DEF Typed, Reached, Numbered
<1>2. Cardinality(Local) = n /\ c = MaxRemote + n + 1
  <2>1. Cardinality(MaxRemote + 1..MaxRemote + n)
          = IF MaxRemote + 1 > MaxRemote + n THEN 0 ELSE (MaxRemote + n) - (MaxRemote + 1) + 1
    BY Bounds, FS_Interval
  <2>2. Cardinality(Local) = n
    BY <1>1, <2>1, Bounds
  <2> QED
    BY <2>2, Bounds DEF NextNumber
<1>3. n < MaxLocal /\ n + 1 \in 0..MaxLocal /\ MaxRemote \in Nat
  BY <1>2, Bounds DEF Commit
<1>4. c \in Commits /\ c \notin Existing /\ \A b \in Existing : b < c
  <2>1. \A b \in Existing : b \in Nat /\ b <= MaxRemote + n
    BY <1>1, <1>3 DEF Existing
  <2>2. c \in MaxRemote + 1..MaxRemote + MaxLocal
    BY <1>2, <1>3, Bounds
  <2> QED
    BY <1>2, <1>3, <2>1, <2>2 DEF Commits
<1>5. parent' = [k \in Local \union {c} |-> IF k = c THEN head ELSE parent[k]] /\ head' = c
  BY DEF Commit, NextNumber
<1>6. Local' = Local \union {c} /\ Local' = MaxRemote + 1..MaxRemote + (n + 1)
  BY <1>1, <1>2, <1>3, <1>5 DEF Local
<1>7. parent'[c] = head /\ \A k \in Local : parent'[k] = parent[k]
  BY <1>4, <1>5 DEF Existing
<1>8. \A k \in Local' : parent'[k] \in Existing' /\ parent'[k] < k
  BY <1>4, <1>6, <1>7 DEF Typed, Reached, Numbered, Existing
<1> QED
  BY <1>3, <1>4, <1>5, <1>6, <1>7, <1>8 DEF Numbered

LEMMA TypedStep ==
  ASSUME Typed, Running, [UpdateNext]_updateVars
  PROVE  Typed'
<1> USE DEF Typed, UpdateTypeOK, Reached
<1>1. CASE UNCHANGED updateVars
  BY <1>1 DEF updateVars, world, made, course, Numbered, Existing, Local, AtWork, Building
<1>2. CASE Commit
  <2> DEFINE c == NextNumber
  <2> HIDE DEF c
  <2>1. /\ c \in Commits /\ Local' = Local \union {c} /\ head' = c /\ Numbered'
        /\ parent'[c] = head /\ \A k \in Local : parent'[k] = parent[k]
        /\ \A b \in Existing : b < c
    BY <1>2, NextCommit DEF c
  <2>2. during' \subseteq Local' /\ touched' \in BOOLEAN
    BY <1>2, <2>1 DEF Commit, NextNumber, c, Touches
  <2>3. Local' \subseteq Commits /\ \A k \in Local' : parent'[k] \in Commits /\ parent'[k] < k
    BY <2>1, ExistingAreCommits
  <2>4. head' \in Existing' /\ Existing \subseteq Existing'
    BY <2>1 DEF Existing
  <2> QED
    BY <1>2, <2>1, <2>2, <2>3, <2>4 DEF Commit, Owner, made, course
<1>3. ASSUME RemoteMoves \/ Edit \/ Pull PROVE Typed'
  <2>1. Numbered' /\ Existing' = Existing /\ Local' = Local
    BY <1>3 DEF RemoteMoves, Edit, Pull, Numbered, Existing, Local
  <2>2. /\ remote' \in 1..MaxRemote /\ origin' \in 1..MaxRemote /\ origin' <= remote'
        /\ edits' \in 0..MaxEdits /\ head' \in Existing /\ head' \in Commits
    BY <1>3, Bounds, ExistingAreCommits DEF RemoteMoves, Edit, Pull, Existing
  <2>3. UNCHANGED <<parent, made, course, during>> /\ {clean', touched'} \subseteq BOOLEAN
    BY <1>3 DEF RemoteMoves, Edit, Pull, Owner, Touches
  <2> QED
    BY <2>1, <2>2, <2>3 DEF made, course
<1>4. ASSUME NEW a \in {"check", "plan", "apply"}, InspectFirst(a) PROVE Typed'
  <2>1. Numbered' /\ Existing' = Existing /\ Local' = Local
    BY <1>4 DEF InspectFirst, world, Numbered, Existing, Local
  <2> QED
    BY <1>4, <2>1, Bounds
       DEF InspectFirst, world, made, RunTo, Answer, Reports
<1>5. ASSUME \/ Fetch \/ Compare \/ InspectAgain \/ Merge \/ Install \/ ProbeStatus
             \/ Compile \/ CargoFails \/ Verify \/ Rollback \/ Killed
      PROVE  Typed'
  <2>1. Numbered' /\ Existing' = Existing /\ Local' = Local
    BY <1>5 DEF Fetch, Compare, InspectAgain, Merge, Install, ProbeStatus, Compile, CargoFails, Cargo,
                Verify, Rollback, Killed, world, Numbered, Existing, Local
  <2>2. 1..MaxRemote \subseteq Existing
    BY DEF Existing
  <2>3. CASE Fetch
    BY <2>1, <2>3, Bounds DEF Fetch, RunTo, Answer, State, Reports, made
  <2>4. CASE Compare
    BY <2>1, <2>4 DEF Compare, world, RunTo, Answer, State, Reports, made
  <2>5. CASE InspectAgain \/ Killed
    BY <2>1, <2>5 DEF InspectAgain, Killed, world, RunTo, Answer, State, Reports, made
  <2>6. CASE Merge
    <3>1. target \in Existing /\ target \in Commits
      BY <2>2, <2>6, ExistingAreCommits DEF Merge, Running, Past
    <3>2. during' \subseteq Local /\ head' \in Existing /\ head' \in Commits
      BY <2>6, <3>1 DEF Merge
    <3> QED
      BY <2>1, <2>6, <3>2 DEF Merge, RunTo, Answer, State, Reports, made, AtWork
  <2>7. CASE Install \/ ProbeStatus \/ Compile \/ CargoFails
    <3>1. {binary, built, probe}' \subseteq [commit : Commits, clean : BOOLEAN]
      <4>1. CASE Install
        BY <4>1, ExistingAreCommits DEF Install, Build
      <4>2. CASE ProbeStatus
        BY <4>2 DEF ProbeStatus
      <4>3. CASE Compile
        BY <4>3, ExistingAreCommits DEF Compile, Build
      <4>4. CASE CargoFails
        BY <4>4 DEF CargoFails, made
      <4> QED
        BY <2>7, <4>1, <4>2, <4>3, <4>4
    <3>0. touched' \in BOOLEAN /\ runAt' \in AtWork
      BY <2>7 DEF Install, ProbeStatus, Compile, CargoFails, RunTo, AtWork, Building
    <3>2. UNCHANGED <<remote, origin, head, parent, clean, during, edits, action, previous, target, report, runs>>
      BY <2>7 DEF Install, ProbeStatus, Compile, CargoFails, Cargo
    <3> QED
      BY <2>1, <3>0, <3>1, <3>2
  <2>8. CASE Verify
    BY <2>1, <2>8 DEF Verify, world, RunTo, Answer, State, Reports, made, AtWork
  <2>9. CASE Rollback
    <3>1. previous \in Existing /\ previous \in Commits
      BY <2>9, ExistingAreCommits DEF Rollback, Running
    <3> QED
      BY <2>1, <2>9, <3>1 DEF Rollback, RunTo, Answer, State, Reports, made
  <2> QED
    BY <1>5, <2>3, <2>4, <2>5, <2>6, <2>7, <2>8, <2>9
<1> QED
  BY <1>1, <1>2, <1>3, <1>4, <1>5 DEF UpdateNext

-----------------------------------------------------------------------------
(* What a run relies on.                                                     *)

\* Whoever else acts, what the commits made so far contain stays as it was.
LEMMA HistoryStays ==
  ASSUME Typed, Running, [UpdateNext]_updateVars
  PROVE  /\ Existing \subseteq Existing'
         /\ \A b \in Existing : History(b)' = History(b)
<1>1. CASE Commit
  <2> DEFINE c == NextNumber
  <2> HIDE DEF c
  <2>1. /\ c \in Commits /\ c \notin Existing /\ Local' = Local \union {c} /\ Numbered'
        /\ \A k \in Local : parent'[k] = parent[k]
    BY <1>1, NextCommit DEF c
  <2>2. \A b \in Existing : History(b)' = History(b)
    BY <2>1, CommitKeepsHistory DEF Typed, Reached
  <2> QED
    BY <2>1, <2>2 DEF Existing
<1>2. CASE parent' = parent
  BY <1>2 DEF Existing, History, Closed, Parent, Local
<1>3. Commit \/ parent' = parent
  BY DEF UpdateNext, updateVars, world, RemoteMoves, Edit, Pull, InspectFirst, Fetch, Compare, InspectAgain,
         Merge, Install, ProbeStatus, Compile, CargoFails, Cargo, Verify, Rollback, Killed
<1> QED
  BY <1>1, <1>2, <1>3

LEMMA RunningStep ==
  ASSUME Typed, Running, [UpdateNext]_updateVars
  PROVE  Running'
<1> USE DEF Running, Past, AtWork, Building, IsAncestor
<1>0. /\ Existing \subseteq Existing' /\ \A b \in Existing : History(b)' = History(b)
      /\ 1..MaxRemote \subseteq Existing
  BY HistoryStays DEF Existing
<1>1. CASE UNCHANGED updateVars
  BY <1>0, <1>1 DEF updateVars, world, made, course, Typed, UpdateTypeOK, Build
<1>2. ASSUME RemoteMoves \/ Edit \/ Commit \/ Pull PROVE Running'
  <2>1. /\ runAt' = runAt /\ report' = report /\ target' = target /\ previous' = previous
        /\ UNCHANGED made /\ 1..remote \subseteq 1..remote' /\ target \in 0..MaxRemote
    BY <1>2, Bounds DEF RemoteMoves, Edit, Commit, Pull, Owner, course, Typed, UpdateTypeOK
  <2>2. \/ UNCHANGED <<head, clean, touched>>
        \/ runAt \in Building /\ touched'
        \/ runAt \notin Building /\ touched' = touched
    BY <1>2 DEF RemoteMoves, Edit, Commit, Pull, Touches, Typed, UpdateTypeOK
  <2>3. /\ runAt = "status" => touched' \/ probe'.commit = head'
        /\ runAt = "compile" => touched' \/ probe' = Build(head, clean)'
        /\ runAt = "verify" => touched' \/ built' = binary'
    BY <2>1, <2>2 DEF made, Building, Build
  <2> QED
    BY <1>0, <2>1, <2>3
<1>3. ASSUME NEW a \in {"check", "plan", "apply"}, InspectFirst(a) PROVE Running'
  BY <1>0, <1>3 DEF InspectFirst, RunTo, Answer, Typed, Reached
<1>4. ASSUME Fetch \/ Killed PROVE Running'
  BY <1>0, <1>4 DEF Fetch, Killed, RunTo, Answer
<1>5. CASE Compare
  BY <1>0, <1>5 DEF Compare, world, RunTo, Answer, Typed, UpdateTypeOK, Reached
<1>6. ASSUME \/ InspectAgain \/ Merge \/ Install \/ ProbeStatus
             \/ Compile \/ CargoFails \/ Verify \/ Rollback
      PROVE  Running'
  <2>1. /\ runAt \in Past /\ UNCHANGED <<target, previous, remote>>
        /\ target \in 1..MaxRemote /\ previous \in Existing
    <3>1. /\ runAt \in Past /\ UNCHANGED <<target, previous, remote>>
      BY <1>6 DEF InspectAgain, Merge, Install, ProbeStatus, Compile, CargoFails, Cargo, Verify, Rollback, world
    <3> QED
      BY <3>1, Bounds DEF Typed, UpdateTypeOK
  <2>2. target' # previous' /\ IsAncestor(previous, target)' /\ target' \in 1..remote'
    <3>1. History(target)' = History(target)
      BY <1>0, <2>1
    <3> QED
      BY <2>1, <3>1
  <2>3. runAt' # "idle" => report' = "none"
    BY <1>6 DEF InspectAgain, Merge, Install, ProbeStatus, Compile, CargoFails, Cargo, Verify, Rollback,
                RunTo, Answer, AtWork, Building
  <2>4. /\ runAt' = "status" => touched' \/ probe'.commit = head'
        /\ runAt' = "compile" => touched' \/ probe' = Build(head, clean)'
        /\ runAt' = "verify" => touched' \/ built' = binary'
    <3>1. ASSUME InspectAgain \/ Merge \/ CargoFails \/ Verify \/ Rollback
          PROVE  runAt' \notin {"status", "compile", "verify"}
      BY <3>1 DEF InspectAgain, Merge, CargoFails, Verify, Rollback, RunTo, Answer
    <3>2. CASE Install
      BY <3>2 DEF Install, Cargo, RunTo, Build
    <3>3. CASE ProbeStatus
      BY <3>3 DEF ProbeStatus, Cargo, RunTo, Build, Typed, UpdateTypeOK
    <3>4. CASE Compile
      BY <3>4 DEF Compile, Cargo, RunTo
    <3> QED
      BY <1>6, <3>1, <3>2, <3>3, <3>4
  <2> QED
    BY <1>0, <2>1, <2>2, <2>3, <2>4
<1> QED
  BY <1>1, <1>2, <1>3, <1>4, <1>5, <1>6 DEF UpdateNext

LEMMA UpdatedStep ==
  ASSUME Typed, Running, UpdatedIsTheTarget, [UpdateNext]_updateVars
  PROVE  UpdatedIsTheTarget'
<1> USE DEF UpdatedIsTheTarget, IsAncestor
<1>0. \A b \in 1..MaxRemote : History(b)' = History(b)
  BY HistoryStays DEF Existing
<1>1. CASE Verify
  BY <1>0, <1>1 DEF Verify, world, State, made, RunTo, Answer, Typed, UpdateTypeOK, Running, Past, AtWork, Building, Build
<1>2. CASE RemoteMoves \/ Edit \/ Commit \/ Pull \/ UNCHANGED updateVars
  <2>1. UNCHANGED <<report, binary, built, target, previous>> /\ 1..remote \subseteq 1..remote'
    BY <1>2 DEF RemoteMoves, Edit, Commit, Pull, Owner, updateVars, world, made, course, Typed, UpdateTypeOK
  <2>2. touched => touched'
    BY <1>2 DEF RemoteMoves, Edit, Commit, Pull, Touches, updateVars, world
  <2> QED
    BY <1>0, <2>1, <2>2 DEF Typed, UpdateTypeOK, Build
<1>3. ASSUME \/ \E a \in {"check", "plan", "apply"} : InspectFirst(a)
             \/ Fetch \/ Compare \/ InspectAgain \/ Merge \/ Install \/ ProbeStatus
             \/ Compile \/ CargoFails \/ Rollback \/ Killed
      PROVE  report' # "updated"
  BY <1>3 DEF InspectFirst, Fetch, Compare, InspectAgain, Merge, Install, ProbeStatus, Compile, CargoFails,
              Cargo, Rollback, Killed, RunTo, Answer, Running, Building
<1> QED
  BY <1>1, <1>2, <1>3 DEF UpdateNext

\* Never is `updated` said of anything but a binary that names the remote's own
\* descendant of what was found, and a clean tree, and that was compiled from these
\* unless the checkout changed under Cargo - for any number of edits, commits, pulls,
\* pushes, runs and kills between any two steps (update/source.rs, run).
THEOREM UpdatedIsTrue == UpdateSpec => []UpdatedIsTheTarget
<1>1. UpdateInit => Typed /\ Running /\ UpdatedIsTheTarget
  BY InitTyped DEF UpdateInit, Running, Past, AtWork, Building, UpdatedIsTheTarget
<1>2. Typed /\ Running /\ UpdatedIsTheTarget /\ [UpdateNext]_updateVars
        => (Typed /\ Running /\ UpdatedIsTheTarget)'
  BY TypedStep, RunningStep, UpdatedStep
<1> QED
  BY <1>1, <1>2, PTL DEF UpdateSpec

-----------------------------------------------------------------------------
(* Work that was committed.                                                  *)

\* The rollback goes to the recorded commit, so that one must hold the work by
\* the time the merge is done.  HEAD moves to the target only from a commit of the
\* remote's, which holds no local work; a HEAD past the target is excepted.
Safe ==
  /\ Local \ during \subseteq History(head)
  /\ runAt \in AtWork => Local \ during \subseteq History(previous)

LEMMA SafeAfterCommit ==
  ASSUME Typed, Running, Safe, Commit
  PROVE  Safe'
<1> SUFFICES ASSUME NEW c, c = NextNumber, NEW h, h = head PROVE Safe'
  OBVIOUS
<1>1. /\ c \in Commits /\ c \notin Existing /\ Local' = Local \union {c} /\ head' = c /\ Numbered'
      /\ parent'[c] = h /\ \A k \in Local : parent'[k] = parent[k]
      /\ \A b \in Existing : b < c
  BY NextCommit
<1>2. /\ h \in Existing /\ h \in Commits /\ h # 0 /\ 1..MaxRemote \subseteq Existing
      /\ \A b \in Existing : History(b)' = History(b)
  BY HistoryStays, ExistingAreCommits DEF UpdateNext, Typed, Reached, Existing
<1>3. Parent(c)' = h
  BY <1>1 DEF Parent
<1>5. c \in History(c)' /\ History(h) \subseteq History(c)'
  <2>1. \A S \in SUBSET Commits : c \in S /\ Closed(S)' => h \in S
    BY <1>2, <1>3 DEF Closed
  <2>2. History(h)' \subseteq History(c)'
    BY <2>1 DEF History
  <2>3. c \in History(c)'
    BY <1>1 DEF History
  <2> QED
    BY <1>2, <2>2, <2>3
<1>6. /\ during' = IF runAt \in AtWork THEN during \union {c} ELSE during
      /\ UNCHANGED <<runAt, previous>>
  BY DEF Commit, Owner, course, NextNumber
<1>7. (Local \ during)' \subseteq History(head)'
  BY <1>1, <1>5, <1>6 DEF Safe
<1>8. ASSUME runAt \in AtWork PROVE (Local \ during)' \subseteq History(previous)'
  BY <1>1, <1>2, <1>6, <1>8 DEF Safe, Running, AtWork, Building
<1> QED
  BY <1>1, <1>6, <1>7, <1>8 DEF Safe

LEMMA SafeStep ==
  ASSUME Typed, Running, Safe, [UpdateNext]_updateVars
  PROVE  Safe'
<1>0. /\ \A b \in Existing : History(b)' = History(b)
      /\ 1..MaxRemote \subseteq Existing /\ Existing \subseteq Commits
      /\ head \in Existing /\ Numbered
  BY HistoryStays, ExistingAreCommits DEF Existing, Typed, Reached
<1>1. CASE Commit
  BY <1>1, SafeAfterCommit
<1>2. ASSUME UNCHANGED <<head, parent, during>> PROVE (Local \ during)' \subseteq History(head)'
  BY <1>0, <1>2 DEF Safe, Local
<1>3. ASSUME runAt' = "idle" \/ runAt' \notin AtWork \/ (runAt \in AtWork /\ UNCHANGED <<during, previous>>),
             parent' = parent
      PROVE  runAt' \in AtWork => (Local \ during)' \subseteq History(previous)'
  <2>1. runAt \in AtWork => previous \in Existing
    BY DEF Running, AtWork, Building
  <2> QED
    BY <1>0, <1>3, <2>1 DEF Safe, Local, AtWork, Building
<1>4. CASE RemoteMoves \/ Edit \/ UNCHANGED updateVars
  <2>1. UNCHANGED <<head, parent, during, runAt, previous>>
    BY <1>4 DEF RemoteMoves, Edit, Owner, course, updateVars, world
  <2> QED
    BY <1>2, <1>3, <2>1 DEF Safe
<1>5. CASE Pull
  <2>1. UNCHANGED <<parent, during, runAt, previous>> /\ head' = remote /\ IsAncestor(head, remote)
    BY <1>5 DEF Pull, Owner, course
  <2>2. remote \in Existing /\ History(head) \subseteq History(remote)
    BY <1>0, <2>1, HistoryOfAncestor DEF IsAncestor, Typed, UpdateTypeOK
  <2>3. (Local \ during)' \subseteq History(head)'
    BY <1>0, <2>1, <2>2 DEF Safe, Local
  <2> QED
    BY <1>3, <2>1, <2>3 DEF Safe
<1>6. ASSUME \/ \E a \in {"check", "plan", "apply"} : InspectFirst(a)
             \/ Fetch \/ Compare \/ InspectAgain \/ Killed
      PROVE  Safe'
  <2>1. UNCHANGED <<head, parent, during>> /\ runAt' \notin AtWork
    BY <1>6 DEF InspectFirst, Fetch, Compare, InspectAgain, Killed, world, RunTo, Answer, AtWork, Building
  <2> QED
    BY <1>2, <2>1 DEF Safe
<1>7. CASE Merge
  <2>1. /\ UNCHANGED <<parent, previous, target>> /\ target \in 1..MaxRemote /\ previous \in Existing
    BY <1>7 DEF Merge, Running, Past, Typed, UpdateTypeOK
  <2>2. CASE UNCHANGED <<head, during>> /\ runAt' = "idle"
    BY <1>2, <2>1, <2>2 DEF Safe, AtWork, Building
  <2>3. CASE IsAncestor(head, target) /\ head' = target /\ during' = during
    <3>1. History(head) \subseteq 1..MaxRemote
      <4>1. head \in 1..MaxRemote
        BY <1>0, <2>1, <2>3, HistoryOfRemote DEF IsAncestor
      <4> QED
        BY <1>0, <4>1, HistoryOfRemote
    <3>2. Local \intersect 1..MaxRemote = {}
      BY <1>0, Bounds DEF Numbered
    <3>3. Local \ during = {}
      BY <3>1, <3>2 DEF Safe
    <3> QED
      BY <2>1, <2>3, <3>3 DEF Safe, Local
  <2>4. CASE head' = head /\ during' = during \union (Local \ History(previous))
    BY <1>0, <2>1, <2>4 DEF Safe, Local
  <2> QED
    BY <1>7, <2>2, <2>3, <2>4 DEF Merge, Answer, RunTo
<1>8. CASE Install \/ ProbeStatus \/ Compile \/ CargoFails \/ Verify
  <2>1. UNCHANGED <<head, parent, during, previous>> /\ runAt \in AtWork
    BY <1>8 DEF Install, ProbeStatus, Compile, CargoFails, Cargo, Verify, world, AtWork, Building
  <2> QED
    BY <1>2, <1>3, <2>1 DEF Safe
<1>9. CASE Rollback
  <2>1. /\ UNCHANGED <<parent, during, previous>> /\ runAt' = "idle" /\ head' \in {head, previous}
        /\ runAt \in AtWork /\ previous \in Existing
    BY <1>9 DEF Rollback, RunTo, Answer, Running, AtWork
  <2> QED
    BY <1>0, <2>1 DEF Safe, Local, AtWork, Building
<1> QED
  BY <1>1, <1>4, <1>5, <1>6, <1>7, <1>8, <1>9 DEF UpdateNext

\* Work committed in the checkout stays in HEAD's history through any number of
\* runs, failed and killed ones too, except what was committed while Cargo was at
\* work already or on a target that was pulled before the merge: update_source's
\* rollback goes to the commit it recorded.
THEOREM CommittedWorkStays == UpdateSpec => []CommittedWorkIsKept
<1>1. UpdateInit => Typed /\ Running /\ Safe
  <2> SUFFICES ASSUME UpdateInit PROVE Typed /\ Running /\ Safe
    OBVIOUS
  <2>1. Local = {}
    BY DEF UpdateInit, Local
  <2> QED
    BY <2>1, InitTyped DEF UpdateInit, Running, Past, AtWork, Building, Safe
<1>2. Typed /\ Running /\ Safe /\ [UpdateNext]_updateVars => (Typed /\ Running /\ Safe)'
  BY TypedStep, RunningStep, SafeStep
<1>3. Typed /\ Safe => CommittedWorkIsKept
  BY DEF Typed, Safe, CommittedWorkIsKept
<1> QED
  BY <1>1, <1>2, <1>3, PTL DEF UpdateSpec
=============================================================================
