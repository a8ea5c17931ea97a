------------------------------ MODULE Profiles ------------------------------
(* The configuration file and the commands that read, change and rewrite it: *)
(* config.rs, with account.rs, login.rs, the community commands of cli.rs    *)
(* and the interactive session of main.rs and session.rs.                    *)
(*                                                                           *)
(* Every command is a process of its own.  It reads the whole file, perhaps  *)
(* waits for an answer at a prompt or from a relay, and writes the whole     *)
(* file back under a rename: nothing locks the file between the two.  A file *)
(* of the older shape is wrapped in memory by every read, and the wrap is    *)
(* written if it can be.                                                     *)
(*                                                                           *)
(* A profile created by the wrap is named by a digest of its relay: here the *)
(* relay itself.  Any other id is a fresh one, unlike those of the file the  *)
(* command read.  A tag is the relay it was issued for.  Names, times, the   *)
(* text of keys and the layout of the file are left out, as are files that   *)
(* do not parse or that another user may read: no command touches those.     *)
EXTENDS Naturals, FiniteSets

CONSTANTS
  Procs,      \* commands that may run at the same time
  Relays,     \* normalized relay URLs
  Default,    \* the local relay used when nothing names one
  Fresh,      \* ids that fresh_profile_id may return
  None,       \* an absent id, relay, tag or job
  MaxJobs,    \* bound: commands started
  MaxTurns,   \* bound: channels opened in interactive sessions
  MaxFaults   \* bound: failed writes and crashes

ASSUME ProfilesAssumption ==
  /\ Default \in Relays
  /\ None \notin Relays \union Fresh
  /\ Fresh \intersect Relays = {}
  /\ {MaxJobs, MaxTurns, MaxFaults} \subseteq Nat

VARIABLES
  file,     \* what the path holds
  pc,       \* what each process does next
  job,      \* the command it runs
  copy,     \* the file as it read it, then as it means to write it
  behind,   \* TRUE when the file was written since it read it
  session,  \* the community its interactive session is on
  offered,  \* the communities its picker lists
  removed,  \* history: ids removed by a command that named them
  lost,     \* history: ids dropped by a write of a process that was behind
  out,      \* history: a logout was reported, nothing written since gives a login
  jobs, turns, faults

vars == <<file, pc, job, copy, behind, session, offered, removed, lost, out, jobs, turns,
          faults>>

Ids == Relays \union Fresh

Profile == [relay: Relays, tag: Relays \union {None}, renamed: BOOLEAN,
            status: {"none", "connected", "failed"}, marked: BOOLEAN]

NewProfile(r, t) == [relay |-> r, tag |-> t, renamed |-> FALSE, status |-> "none", marked |-> FALSE]

NoProfiles == [i \in {} |-> NewProfile(Default, None)]

\* ConfigFile::default(), what a command works on when there is no file.
Empty == [there |-> FALSE, key |-> FALSE, relay |-> None, tag |-> None, active |-> None,
          saved |-> NoProfiles]

Known(f) == DOMAIN f.saved

\* The profiles with x saved under i.
With(saved, i, x) == [k \in DOMAIN saved \union {i} |-> IF k = i THEN x ELSE saved[k]]

NeedsMigration(f) == f.relay # None \/ f.tag # None

MigratedAnew(f) ==
  LET i == CHOOSE k \in Fresh : (jobs = MaxJobs) => k # CHOOSE l \in Fresh : TRUE
  IN  IF ~NeedsMigration(f) THEN f
      ELSE [f EXCEPT !.relay = None, !.tag = None,
                     !.active = IF f.relay = None THEN @ ELSE i,
                     !.saved = IF f.relay = None THEN @
                               ELSE With(@, i, NewProfile(f.relay, f.tag))]

\* The wrap: the relay of the older shape becomes one profile, active, and the
\* tag that stood beside it goes into that profile and nowhere else.
Migrated(f) ==
  IF ~NeedsMigration(f) THEN f
  ELSE [f EXCEPT !.relay = None, !.tag = None,
                 !.active = IF f.relay = None THEN @ ELSE f.relay,
                 !.saved = IF f.relay = None THEN @
                           ELSE With(@, f.relay, NewProfile(f.relay, f.tag))]

WithRelay(f, r) == {i \in Known(f) : f.saved[i].relay = r}

FreshIds(f) == Fresh \ Known(f)

HasLoginMaterial(f) ==
  f.key \/ f.tag # None \/ \E i \in Known(f) : f.saved[i].tag # None

-----------------------------------------------------------------------------
(* What each command writes, as a function of the file it read.              *)

PlanUse(f, i) == [f EXCEPT !.active = i]

PlanRename(f, i) == [f EXCEPT !.saved[i].renamed = TRUE]

PlanRemove(f, i) ==
  [f EXCEPT !.active = IF @ = i THEN None ELSE @,
            !.saved = [k \in Known(f) \ {i} |-> f.saved[k]]]

PlanAdd(f, i, r, t) ==
  [f EXCEPT !.there = TRUE, !.active = i,
            !.saved = With(@, i, [NewProfile(r, t) EXCEPT !.status = "connected",
                                                          !.marked = TRUE])]

PlanObserved(f, i, s) == [f EXCEPT !.saved[i].status = s]

PlanMark(f, i) == [f EXCEPT !.saved[i].marked = TRUE]

FirstProfile(i, r, t) ==
  [Empty EXCEPT !.there = TRUE, !.key = TRUE, !.active = i, !.saved = With(@, i, NewProfile(r, t))]

\* Mutant: a login that writes the file init would write.
ReplacedWhole(f, i, r, t) == FirstProfile(i, r, t)

\* The identity is replaced, the relay's own profile becomes the active one,
\* and an explicit tag goes with it; a relay without a profile gets one.
Replaced(f, i, r, t) ==
  LET kept == IF i \in Known(f) THEN f.saved ELSE With(f.saved, i, NewProfile(r, None))
  IN  [f EXCEPT !.there = TRUE, !.key = TRUE, !.active = i,
                !.saved = [kept EXCEPT ![i].tag = IF t = None THEN @ ELSE t]]

\* The profile a login writes to.
LoginIds(f, r) == IF WithRelay(f, r) # {} THEN WithRelay(f, r) ELSE FreshIds(f)

\* Mutant: only the key goes.
ClearedKeyOnly(f) == [f EXCEPT !.there = TRUE, !.key = FALSE, !.tag = None]

Cleared(f) ==
  [f EXCEPT !.there = TRUE, !.key = FALSE, !.tag = None,
            !.saved = [i \in Known(f) |-> [f.saved[i] EXCEPT !.tag = None]]]

-----------------------------------------------------------------------------
(* Reading and writing.                                                      *)

\* Every read of the strict reader wraps what it read; the wrap it then tries
\* to write is a write like any other.
Read(p) == /\ copy' = [copy EXCEPT ![p] = Migrated(file)]
           /\ behind' = [behind EXCEPT ![p] = FALSE]

\* After this step's write, if it wrote, everybody else's copy is older; b says
\* it of p itself.
Older(p, b) ==
  [q \in Procs |-> IF q = p THEN b ELSE behind[q] \/ (pc[q] # "idle" /\ file' # file)]

\* The path now holds f, written by p.
Wrote(p, f) ==
  /\ file' = f
  /\ behind' = Older(p, FALSE)
  /\ lost' = IF behind[p] THEN lost \union (Known(Migrated(file)) \ Known(f)) ELSE lost

\* A later read of the strict reader by a command under way: the wrap it may
\* persist is in the same step as the read, Start has the window between them.
WrapOnce(p) == file' \in {file, Migrated(file)}

Goto(p, l) == pc' = [pc EXCEPT ![p] = l]

Job == [op: {"use", "rename", "remove", "verify"}, id: Ids]
       \union [op: {"add"}, relay: Relays, tag: BOOLEAN]
       \union [op: {"login"}, id: Ids \union {None}, relay: Relays \union {None},
               typed: Relays \union {None}]
       \union [op: {"logout"}] \union [op: {"session"}, id: Ids \union {None}]

NoJob == [op |-> "none"]

Interactive(p) == session[p] # None

\* A process whose command is over; an interactive one goes on.
Finish(p) == /\ Goto(p, IF Interactive(p) THEN "running" ELSE "idle")
             /\ job' = IF Interactive(p) THEN job ELSE [job EXCEPT ![p] = NoJob]

Stop(p) == /\ Goto(p, "idle")
           /\ job' = [job EXCEPT ![p] = NoJob]
           /\ session' = [session EXCEPT ![p] = None]
           /\ offered' = [offered EXCEPT ![p] = {}]

Refused(p) == /\ Stop(p)
              /\ UNCHANGED <<file, copy, behind, removed, lost, out, jobs, turns, faults>>

\* A file of the older shape, with its one relay or none.
OlderFile(r) == [Empty EXCEPT !.there = TRUE, !.key = TRUE, !.relay = r, !.tag = Default]

\* One profile for each relay of S, a the active one.
SavedFile(S, a) ==
  [Empty EXCEPT !.there = TRUE, !.key = TRUE, !.active = a,
                !.saved = [r \in S |-> NewProfile(r, r)]]

Init ==
  /\ \/ file = Empty
     \/ \E r \in {None, Default} : file = OlderFile(r)
     \/ \E S \in {Relays, Relays \ {Default}}, a \in Relays \ {Default} : file = SavedFile(S, a)
  /\ pc = [p \in Procs |-> "idle"]
  /\ job = [p \in Procs |-> NoJob]
  /\ copy = [p \in Procs |-> Empty]
  /\ behind = [p \in Procs |-> FALSE]
  /\ session = [p \in Procs |-> None]
  /\ offered = [p \in Procs |-> {}]
  /\ removed = {} /\ lost = {} /\ out = FALSE
  /\ jobs = 0 /\ turns = 0 /\ faults = 0

-----------------------------------------------------------------------------
(* Actions.                                                                  *)

Start(p, j) ==
  /\ pc[p] = "idle" /\ jobs < MaxJobs
  /\ jobs' = jobs + 1
  /\ job' = [job EXCEPT ![p] = j]
  /\ Read(p)
  /\ Goto(p, IF NeedsMigration(file) THEN "wrap" ELSE "check")
  /\ UNCHANGED <<file, session, offered, removed, lost, out, turns, faults>>

\* read_config_file persists the wrap it made.  When that fails the command
\* goes on with the wrapped copy and the older file stays.
PersistWrap(p) ==
  /\ pc[p] = "wrap"
  /\ Wrote(p, copy[p])
  /\ out' = (out /\ ~behind[p])
  /\ Goto(p, "check")
  /\ UNCHANGED <<job, copy, session, offered, removed, jobs, turns, faults>>

WrapFails(p) ==
  /\ pc[p] = "wrap" /\ faults < MaxFaults
  /\ faults' = faults + 1
  /\ Goto(p, "check")
  /\ UNCHANGED <<file, job, copy, behind, session, offered, removed, lost, out, jobs, turns>>

Means(p, f) == /\ copy' = [copy EXCEPT ![p] = f]
               /\ Goto(p, "save")
               /\ UNCHANGED <<file, job, behind, session, offered, removed, lost, out, jobs, turns, faults>>

UseProfile(p) ==
  /\ pc[p] = "check" /\ job[p].op = "use" /\ job[p].id \in Known(copy[p])
  /\ Means(p, PlanUse(copy[p], job[p].id))

RenameProfile(p) ==
  /\ pc[p] = "check" /\ job[p].op = "rename" /\ job[p].id \in Known(copy[p])
  /\ Means(p, PlanRename(copy[p], job[p].id))

RemoveProfile(p) ==
  /\ pc[p] = "check" /\ job[p].op = "remove" /\ job[p].id \in Known(copy[p])
  /\ Means(p, PlanRemove(copy[p], job[p].id))

\* An unknown id, a relay that already has a profile, an identity that cannot
\* be resolved, a prompt answered with no: the command ends, nothing written.
Refuse(p) ==
  /\ pc[p] = "check"
  /\ \/ job[p].op \in {"use", "rename", "remove", "verify"} /\ job[p].id \notin Known(copy[p])
     \/ job[p].op = "remove" /\ job[p].id = copy[p].active
     \/ job[p].op = "add" /\ WithRelay(copy[p], job[p].relay) # {}
     \/ job[p].op = "login"
     \/ job[p].op = "logout" /\ HasLoginMaterial(copy[p])
     \/ job[p].op = "session" /\ ~copy[p].key
     \/ job[p].op = "session" /\ job[p].id # None /\ job[p].id \notin Known(copy[p])
     \/ job[p].op = "session" /\ job[p].id = None /\ copy[p].active = None /\ Known(copy[p]) # {}
  /\ Refused(p)

\* resolve_keys: adding and verifying read the file once more for the key, a
\* wrap of the older shape included, and keep the copy they already have.
Identify(p) ==
  /\ pc[p] = "check"
  /\ \/ job[p].op = "add" /\ WithRelay(copy[p], job[p].relay) = {}
     \/ job[p].op = "verify" /\ job[p].id \in Known(copy[p])
  /\ WrapOnce(p)
  /\ behind' = Older(p, behind[p])
  /\ IF file.key THEN Goto(p, "online") /\ UNCHANGED <<job, session, offered>> ELSE Stop(p)
  /\ UNCHANGED <<copy, removed, lost, out, jobs, turns, faults>>

AddProfile(p, i) ==
  /\ pc[p] = "online" /\ job[p].op = "add" /\ i \in FreshIds(copy[p])
  /\ Means(p, PlanAdd(copy[p], i, job[p].relay, IF job[p].tag THEN job[p].relay ELSE None))

VerifyProfile(p, s) ==
  /\ pc[p] = "online" /\ job[p].op = "verify"
  /\ Means(p, PlanObserved(copy[p], job[p].id, s))

\* The relay refuses the identity or cannot be reached: nothing is added.
RelayRefuses(p) ==
  /\ pc[p] = "online" /\ job[p].op = "add"
  /\ Refused(p)

\* The profile a login selects: the one named, or the active one.
Selected(j, f) == IF j.id # None THEN j.id ELSE f.active

LoginRelay(j, f) ==
  CASE j.typed # None -> j.typed
    [] j.typed = None /\ j.relay # None -> j.relay
    [] j.typed = None /\ j.relay = None /\ Selected(j, f) # None -> f.saved[Selected(j, f)].relay
    [] OTHER -> Default

LoginTag(j, f) == IF Selected(j, f) = None THEN None ELSE f.saved[Selected(j, f)].tag

\* A named profile must be saved; a relay named beside saved profiles, or
\* beside a profile's name, is ambiguous.
LoginAllowed(j, f) ==
  /\ Selected(j, f) \in Known(f) \union {None}
  /\ j.relay # None => j.id = None /\ Known(f) = {}

\* Login settles the relay and the tag from the file it read first, waits for
\* the user and for the relay, and then replace_at reads the file again,
\* without writing a wrap, and changes that.  An explicit tag is left out.
LoginVerified(p, i) ==
  LET now == Migrated(file)
      r == LoginRelay(job[p], copy[p])
  IN  /\ pc[p] = "check" /\ job[p].op = "login" /\ LoginAllowed(job[p], copy[p])
      /\ i \in LoginIds(now, r)
      /\ copy' = [copy EXCEPT ![p] = Replaced(now, i, r, LoginTag(job[p], copy[p]))]
      /\ behind' = [behind EXCEPT ![p] = FALSE]
      /\ Goto(p, "save")
      /\ UNCHANGED <<file, job, session, offered, removed, lost, out, jobs, turns, faults>>

\* Nothing to remove: logout says so and is done.
AlreadyOut(p) ==
  /\ pc[p] = "check" /\ job[p].op = "logout" /\ ~HasLoginMaterial(copy[p])
  /\ out' = (out \/ ~behind[p])
  /\ Stop(p)
  /\ UNCHANGED <<file, copy, behind, removed, lost, jobs, turns, faults>>

\* Logout waits for the user, and clear_login_at reads the file again.
LogoutAgreed(p) ==
  /\ pc[p] = "check" /\ job[p].op = "logout" /\ HasLoginMaterial(copy[p])
  /\ copy' = [copy EXCEPT ![p] = Cleared(Migrated(file))]
  /\ behind' = [behind EXCEPT ![p] = FALSE]
  /\ Goto(p, "save")
  /\ UNCHANGED <<file, job, session, offered, removed, lost, out, jobs, turns, faults>>

\* init looks whether there is a file, and writes a whole one if not.
InitCommand(p, i, r) ==
  /\ pc[p] = "idle" /\ jobs < MaxJobs /\ ~file.there
  /\ jobs' = jobs + 1
  /\ copy' = [copy EXCEPT ![p] = FirstProfile(i, r, None)]
  /\ behind' = [behind EXCEPT ![p] = FALSE]
  /\ job' = [job EXCEPT ![p] = [op |-> "init"]]
  /\ Goto(p, "save")
  /\ UNCHANGED <<file, session, offered, removed, lost, out, turns, faults>>

\* An interactive session on a saved community records its use.  One on the
\* default relay has no profile to record and touches the file no more.
StartSession(p) ==
  LET i == Selected(job[p], copy[p])
  IN  /\ pc[p] = "check" /\ job[p].op = "session" /\ copy[p].key /\ i \in Known(copy[p])
      /\ session' = [session EXCEPT ![p] = i]
      /\ Goto(p, "mark")
      /\ UNCHANGED <<file, job, copy, behind, offered, removed, lost, out, jobs, turns, faults>>

StartUnsaved(p) ==
  /\ pc[p] = "check" /\ job[p].op = "session" /\ copy[p].key
  /\ job[p].id = None /\ Known(copy[p]) = {}
  /\ Refused(p)

\* mark_profile_used and mark_profile_channel: read, change one profile, save.
\* The read may itself write a wrap.
Mark(p) ==
  /\ pc[p] = "mark"
  /\ WrapOnce(p)
  /\ behind' = Older(p, FALSE)
  /\ IF session[p] \in Known(Migrated(file))
     THEN /\ copy' = [copy EXCEPT ![p] = PlanMark(Migrated(file), session[p])]
          /\ Goto(p, "save")
     ELSE Goto(p, "running") /\ UNCHANGED copy
  /\ UNCHANGED <<job, session, offered, removed, lost, out, jobs, turns, faults>>

\* The interface opens a channel: the last channel is recorded.
OpenChannel(p) ==
  /\ pc[p] = "running" /\ turns < MaxTurns
  /\ turns' = turns + 1
  /\ Goto(p, "mark")
  /\ UNCHANGED <<file, job, copy, behind, session, offered, removed, lost, out, jobs, faults>>

\* The picker is filled once, from the file as it is when the interface starts.
FillPicker(p) ==
  /\ pc[p] = "running" /\ offered[p] = {}
  /\ offered' = [offered EXCEPT ![p] = Known(Migrated(file))]
  /\ UNCHANGED <<file, pc, job, copy, behind, session, removed, lost, out, jobs, turns, faults>>

\* Choosing another community there changes the session, not the file.
SwitchCommunity(p, i) ==
  /\ pc[p] = "running" /\ i \in offered[p] \ {session[p]}
  /\ session' = [session EXCEPT ![p] = i]
  /\ UNCHANGED <<file, pc, job, copy, behind, offered, removed, lost, out, jobs, turns, faults>>

Quit(p) == pc[p] = "running" /\ Refused(p)

\* write_atomic: the whole file under a rename.
Save(p) ==
  /\ pc[p] = "save"
  /\ Wrote(p, copy[p])
  /\ removed' = IF job[p].op = "remove" THEN removed \union {job[p].id} ELSE removed
  /\ out' = IF job[p].op = "logout" THEN TRUE
            ELSE out /\ ~behind[p] /\ ~(job[p].op \in {"login", "init", "add"})
  /\ Finish(p)
  /\ UNCHANGED <<copy, session, offered, jobs, turns, faults>>

\* Creating, filling or renaming the new file fails: the old one stays, the
\* command reports the failure.
SaveFails(p) ==
  /\ pc[p] = "save" /\ faults < MaxFaults
  /\ faults' = faults + 1
  /\ Finish(p)
  /\ UNCHANGED <<file, copy, behind, session, offered, removed, lost, out, jobs, turns>>

\* The process ends between two of its steps; a file beside the path that was
\* never renamed is not read by anybody.
Crash(p) ==
  /\ pc[p] \notin {"idle", "running"} /\ faults < MaxFaults
  /\ faults' = faults + 1
  /\ Stop(p)
  /\ UNCHANGED <<file, copy, behind, removed, lost, out, jobs, turns>>

Next ==
  \E p \in Procs :
    \/ \E j \in Job : Start(p, j)
    \/ PersistWrap(p) \/ WrapFails(p) \/ Refuse(p)
    \/ UseProfile(p) \/ RenameProfile(p) \/ RemoveProfile(p)
    \/ Identify(p) \/ RelayRefuses(p)
    \/ \E i \in Fresh : AddProfile(p, i)
    \/ \E s \in {"connected", "failed"} : VerifyProfile(p, s)
    \/ \E i \in Ids : LoginVerified(p, i)
    \/ AlreadyOut(p) \/ LogoutAgreed(p)
    \/ \E i \in Fresh, r \in Relays : InitCommand(p, i, r)
    \/ StartSession(p) \/ StartUnsaved(p) \/ Mark(p) \/ OpenChannel(p) \/ FillPicker(p) \/ Quit(p)
    \/ \E i \in Ids : SwitchCommunity(p, i)
    \/ Save(p) \/ SaveFails(p) \/ Crash(p)

Spec == Init /\ [][Next]_vars

-----------------------------------------------------------------------------
(* Properties.                                                               *)

IsFile(f) ==
  /\ DOMAIN f = DOMAIN Empty
  /\ f.there \in BOOLEAN /\ f.key \in BOOLEAN
  /\ f.relay \in Relays \union {None} /\ f.tag \in Relays \union {None}
  /\ f.active \in Ids \union {None}
  /\ Known(f) \subseteq Ids /\ \A i \in Known(f) : f.saved[i] \in Profile

\* Every variable keeps its type.
TypeOK ==
  /\ IsFile(file) /\ \A p \in Procs : IsFile(copy[p])
  /\ pc \in [Procs -> {"idle", "wrap", "check", "online", "mark", "running", "save"}]
  /\ \A p \in Procs : job[p] \in Job \union {NoJob, [op |-> "init"]}
  /\ behind \in [Procs -> BOOLEAN] /\ out \in BOOLEAN
  /\ session \in [Procs -> Ids \union {None}] /\ offered \in [Procs -> SUBSET Ids]
  /\ removed \subseteq Ids /\ lost \subseteq Ids
  /\ jobs \in 0..MaxJobs /\ turns \in 0..MaxTurns /\ faults \in 0..MaxFaults

\* Whatever commands overlap, fail or die, the file on disk is one that every
\* command accepts: its active community is one of its profiles, no two
\* profiles are for one relay, and the two shapes are never mixed.
FileIsWhole ==
  /\ file.active \in Known(file) \union {None}
  /\ \A i, k \in Known(file) : file.saved[i].relay = file.saved[k].relay => i = k
  /\ NeedsMigration(file) => Known(file) = {}

\* An interactive session always finds the profile of its community when it
\* records a use or a channel there, unless a command removed that profile or
\* one that had read an older file wrote it back: however often a wrap had to
\* be repeated because it could not be written.
SessionFindsItsProfile ==
  \A p \in Procs :
    session[p] # None => session[p] \in Known(Migrated(file)) \union removed \union lost

\* Commands and sessions go on finding what they need, in a file of that kind.
FileStaysUsable == TypeOK /\ FileIsWhole /\ SessionFindsItsProfile

\* After a reported logout the file holds no key and no tag, until a command
\* that logs in, or one that read the file before the logout, writes it.
LoggedOutIsOut == out => ~HasLoginMaterial(file)

\* A command whose copy is current changes nothing but what it is for: every
\* other profile, with its relay, name and tag, the identity and the choice of
\* the active community are as they were.
OnlyWhatItNames ==
  [][\A p \in Procs : Save(p) /\ ~behind[p] =>
       LET was == Migrated(file)
           op == job[p].op
           on(ops) == op \in ops
       IN  /\ \A i \in Known(was) \ (IF on({"remove"}) THEN {job[p].id} ELSE {}) :
                /\ i \in Known(file')
                /\ file'.saved[i].relay = was.saved[i].relay
                /\ on({"rename"}) \/ file'.saved[i].renamed = was.saved[i].renamed
                /\ on({"logout"}) \/ (on({"login"}) /\ i = file'.active)
                     \/ file'.saved[i].tag = was.saved[i].tag
           /\ on({"login", "logout", "init"}) \/ file'.key = was.key
           /\ on({"use", "add", "login", "init"}) \/ (on({"remove"}) /\ was.active = job[p].id)
                \/ file'.active = was.active]_vars
=============================================================================
