---------------------------- MODULE SourceUpdate ----------------------------
(* `buzzx update` of a source installation: update/source.rs.                *)
(*                                                                           *)
(* The command inspects a checkout of main, fetches origin/main, inspects    *)
(* again, moves HEAD forward, has Cargo build and install the binary, asks   *)
(* the installed binary what it is, and puts HEAD back if either fails.      *)
(* Every one of those is a process of its own, and whoever owns the checkout *)
(* may edit, commit or pull between any two of them, while the remote main   *)
(* moves.  Cargo is three such processes: the build script asks Git for HEAD *)
(* (build.rs), then whether the tree has changes, and writes both down as    *)
(* the binary's identity; only then does rustc read the sources.             *)
(*                                                                           *)
(* A commit is a number.  Commits 1..MaxRemote are the remote's, each the    *)
(* child of the one before; a commit made locally has its own number and its *)
(* parent in `parent`.  The tree is clean or has changes.  Finding the       *)
(* checkout and the Cargo root, and the words of the report, are left out.   *)
(* The names every specification has are prefixed, so that one module can    *)
(* hold theorems about this one and another.                                 *)
EXTENDS Naturals, FiniteSets

CONSTANTS
  MaxRemote,  \* bound: commits of the remote's main
  MaxLocal,   \* bound: commits made in the checkout
  MaxEdits,   \* bound: times the tree is changed
  MaxRuns     \* bound: times the command is run

ASSUME SourceUpdateAssumption == MaxRemote \in Nat \ {0} /\ {MaxLocal, MaxEdits, MaxRuns} \subseteq Nat

VARIABLES
  remote,   \* origin's main
  origin,   \* refs/remotes/origin/main, as last fetched
  head,     \* HEAD of the checkout
  parent,   \* the parent of each local commit
  clean,    \* the tree has no changes
  binary,   \* what the installed binary reports: a commit, and if the tree was clean
  built,    \* history: what the installed binary was compiled from
  probe,    \* what the build script found
  runAt,       \* the next step of the command
  action,   \* check, plan or apply
  previous, \* the HEAD the command recorded
  target,   \* the commit it means to install
  report,   \* what it answered last
  during,   \* history: local commits that a rollback may take from HEAD
  touched,  \* history: the checkout changed while Cargo was at work on the binary
  edits, runs

world == <<remote, origin, head, parent, clean, during, touched, edits>>
made == <<binary, built, probe>>
course == <<runAt, action, previous, target, report, runs>>
updateVars == <<world, made, course>>

Local == DOMAIN parent
Commits == (1..MaxRemote) \union (MaxRemote + 1..MaxRemote + MaxLocal)

Parent(c) == IF c \in Local THEN parent[c] ELSE IF c \in 1..MaxRemote THEN c - 1 ELSE 0

\* Sets that hold, with a commit, the one before it.
Closed(S) == \A c \in S : Parent(c) \in S \union {0}

\* The commits a commit contains: what every such set that holds it must hold.
History(c) == {a \in Commits : \A S \in SUBSET Commits : c \in S /\ Closed(S) => a \in S}

IsAncestor(a, b) == a \in History(b)

Build(c, t) == [commit |-> c, clean |-> t]
Reports == {"none", "up_to_date", "update_available", "updated", "blocked", "unknown",
            "restored", "not_restored"}

UpdateInit ==
  /\ remote \in 1..MaxRemote /\ origin = 1 /\ head = 1
  /\ parent = [c \in {} |-> 0]
  /\ clean = TRUE
  /\ binary = Build(1, TRUE) /\ built = binary /\ probe = binary
  /\ runAt = "idle" /\ action = "check"
  /\ previous = 0 /\ target = 0
  /\ report = "none"
  /\ during = {} /\ touched = FALSE /\ edits = 0 /\ runs = 0

-----------------------------------------------------------------------------
(* Whoever works in the checkout, and the remote.                            *)

Owner == UNCHANGED <<made, course>>

\* Cargo has asked Git for something and has not compiled yet.
Building == {"status", "compile"}
AtWork == {"install", "verify", "rollback"} \union Building
Touches == touched' = (touched \/ runAt \in Building)

RemoteMoves == /\ remote < MaxRemote /\ remote' = remote + 1
               /\ UNCHANGED <<origin, head, parent, clean, during, touched, edits>> /\ Owner

Edit == /\ clean /\ edits < MaxEdits
        /\ clean' = FALSE /\ edits' = edits + 1 /\ Touches
        /\ UNCHANGED <<remote, origin, head, parent, during>> /\ Owner

Commit == /\ ~clean /\ Cardinality(Local) < MaxLocal
          /\ LET c == MaxRemote + Cardinality(Local) + 1
             IN  /\ parent' = [k \in Local \union {c} |-> IF k = c THEN head ELSE parent[k]]
                 /\ head' = c
                 /\ during' = IF runAt \in AtWork THEN during \union {c} ELSE during
          /\ clean' = TRUE /\ Touches
          /\ UNCHANGED <<remote, origin, edits>> /\ Owner

\* The owner fast-forwards main; changes in the tree stay.
Pull == /\ IsAncestor(head, remote) /\ head # remote
        /\ origin' = remote /\ head' = remote /\ Touches
        /\ UNCHANGED <<remote, parent, clean, during, edits>> /\ Owner

-----------------------------------------------------------------------------
(* The command.                                                              *)

RunTo(l) == runAt' = l
Answer(r) == report' = r /\ RunTo("idle")
State == UNCHANGED <<made, action, runs>>

\* inspect: on main (the only branch here) and no changes in the tree.
InspectFirst(a) ==
  /\ runAt = "idle" /\ runs < MaxRuns
  /\ runs' = runs + 1 /\ action' = a /\ target' = 0
  /\ \/ clean /\ RunTo("fetch") /\ previous' = head /\ report' = "none"
     \/ ~clean /\ Answer("blocked") /\ previous' = 0
  /\ UNCHANGED <<world, made>>

\* The fetch moves the remote-tracking ref, or fails, or is stopped after
\* thirty seconds.
Fetch ==
  /\ runAt = "fetch"
  /\ \/ origin' = remote /\ RunTo("compare") /\ UNCHANGED report
     \/ Answer("unknown") /\ UNCHANGED origin
  /\ UNCHANGED <<remote, head, parent, clean, during, touched, edits, previous, target>> /\ State

\* History must not have diverged; an equal HEAD is up to date, whatever is
\* installed; only apply goes on.
Compare ==
  /\ runAt = "compare"
  /\ target' = origin
  /\ IF ~IsAncestor(previous, origin) THEN Answer("blocked")
     ELSE IF previous = origin THEN Answer("up_to_date")
     ELSE IF action # "apply" THEN Answer("update_available")
     ELSE RunTo("again") /\ UNCHANGED report
  /\ UNCHANGED <<world, previous>> /\ State

InspectAgain ==
  /\ runAt = "again"
  /\ IF clean /\ head = previous THEN RunTo("merge") /\ UNCHANGED report ELSE Answer("blocked")
  /\ UNCHANGED <<world, previous, target>> /\ State

\* Mutant: HEAD goes to the target from wherever it is.
MergeForced ==
  /\ runAt = "merge"
  /\ head' = target /\ RunTo("install")
  /\ UNCHANGED <<remote, origin, parent, clean, during, touched, edits, previous, target, report>>
  /\ State

\* git merge --ff-only: HEAD moves to a descendant, or is past the target
\* already, when its owner pulled since the inspection; changes in the tree stay,
\* or stop it.
Merge ==
  /\ runAt = "merge"
  /\ \/ /\ IsAncestor(head, target) /\ head' = target /\ RunTo("install")
        /\ UNCHANGED <<report, during>>
     \/ /\ IsAncestor(target, head) /\ RunTo("install")
        /\ during' = during \union (Local \ History(previous))
        /\ UNCHANGED <<head, report>>
     \/ Answer("unknown") /\ UNCHANGED <<head, during>>
  /\ UNCHANGED <<remote, origin, parent, clean, touched, edits, previous, target>> /\ State

Cargo == /\ UNCHANGED <<remote, origin, head, parent, clean, during, edits>>
         /\ UNCHANGED <<action, previous, target, report, runs>>

\* Cargo starts, and the build script, which watches the refs that the merge
\* moved, asks for HEAD, wherever that is by then.
Install ==
  /\ runAt = "install" /\ RunTo("status")
  /\ probe' = Build(head, FALSE) /\ touched' = FALSE
  /\ UNCHANGED <<binary, built>> /\ Cargo

\* The build script asks whether the tree has changes.
ProbeStatus ==
  /\ runAt = "status" /\ RunTo("compile")
  /\ probe' = [probe EXCEPT !.clean = clean]
  /\ UNCHANGED <<binary, built, touched>> /\ Cargo

\* rustc reads whatever the checkout holds by then; Cargo replaces the binary
\* after it built.
Compile ==
  /\ runAt = "compile" /\ RunTo("verify")
  /\ binary' = probe /\ built' = Build(head, clean)
  /\ UNCHANGED <<probe, touched>> /\ Cargo

CargoFails ==
  /\ runAt \in {"install"} \union Building /\ RunTo("rollback")
  /\ UNCHANGED <<made, touched>> /\ Cargo

\* Mutant: success is Cargo's word.
VerifyNot ==
  /\ runAt = "verify" /\ Answer("updated")
  /\ UNCHANGED <<world, previous, target>> /\ State

\* build-info of the installed binary must name the target and a clean tree;
\* a binary that does not answer in ten seconds has not verified either.
Verify ==
  /\ runAt = "verify"
  /\ \/ binary = Build(target, TRUE) /\ Answer("updated")
     \/ RunTo("rollback") /\ UNCHANGED report
  /\ UNCHANGED <<world, previous, target>> /\ State

\* git reset --keep: HEAD goes back to the recorded commit, whatever it is
\* now; changes in the tree are kept, or, where a file differs, refuse it.
Rollback ==
  /\ runAt = "rollback"
  /\ \/ head' = previous /\ Answer("restored")
     \/ UNCHANGED head /\ Answer("not_restored")
  /\ UNCHANGED <<remote, origin, parent, clean, during, touched, edits, previous, target>> /\ State

\* The command is killed between two steps.
Killed ==
  /\ runAt # "idle" /\ RunTo("idle") /\ report' = "none"
  /\ UNCHANGED <<world, previous, target>> /\ State

UpdateNext ==
  \/ RemoteMoves \/ Edit \/ Commit \/ Pull
  \/ \E a \in {"check", "plan", "apply"} : InspectFirst(a)
  \/ Fetch \/ Compare \/ InspectAgain \/ Merge
  \/ Install \/ ProbeStatus \/ Compile \/ CargoFails \/ Verify \/ Rollback \/ Killed

UpdateSpec == UpdateInit /\ [][UpdateNext]_updateVars

-----------------------------------------------------------------------------
(* Properties.                                                               *)

\* Every variable keeps its type.
UpdateTypeOK ==
  /\ remote \in 1..MaxRemote /\ origin \in 1..MaxRemote /\ head \in Commits
  /\ Local \subseteq Commits /\ \A c \in Local : parent[c] \in Commits /\ parent[c] < c
  /\ {clean, touched} \subseteq BOOLEAN /\ during \subseteq Local
  /\ {binary, built, probe} \subseteq [commit : Commits, clean : BOOLEAN]
  /\ runAt \in {"idle", "fetch", "compare", "again", "merge"} \union AtWork
  /\ action \in {"check", "plan", "apply"} /\ report \in Reports
  /\ previous \in Commits \union {0} /\ target \in (1..MaxRemote) \union {0}
  /\ edits \in 0..MaxEdits /\ runs \in 0..MaxRuns

\* `updated` is never said of anything but a binary that names the remote's own
\* commit and a clean tree, and never of a step back - whatever was edited,
\* committed, pulled or pushed between any two processes.  And the binary was
\* compiled from what it names, unless the checkout changed after its build script
\* had asked for HEAD and before rustc read it: what changes then is compiled and
\* nothing looks again (GitFacts::probe, verify).
UpdatedIsTheTarget ==
  report = "updated" =>
    /\ binary = Build(target, TRUE)
    /\ built = binary \/ touched
    /\ target \in 1..remote /\ target # previous /\ IsAncestor(previous, target)

\* Work committed in the checkout stays in HEAD's history through any number
\* of runs, failed and killed ones too, unless it was committed while Cargo
\* was already at work, or on a target that the owner had pulled before the merge:
\* the rollback goes to the recorded commit.  The checkout and the installation
\* are well formed.
CommittedWorkIsKept == UpdateTypeOK /\ Local \ during \subseteq History(head)
=============================================================================
