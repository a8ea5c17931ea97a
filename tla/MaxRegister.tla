----------------------------- MODULE MaxRegister -----------------------------
(***************************************************************************)
(* What the shared read marker promises (decision 0006): one frontier per  *)
(* context that only ever moves forward, to a time some terminal presented *)
(* that context up to.                                                     *)
(***************************************************************************)
EXTENDS Integers

CONSTANTS
    Contexts,   \* context keys: conversations and threads
    Horizon     \* the latest timestamp

VARIABLES
    marker,     \* the frontier of each context; 0 is no marker
    presented   \* the latest time each context was presented up to

Frontiers == [Contexts -> 0 .. Horizon]

Init == /\ marker = [k \in Contexts |-> 0]
        /\ presented = [k \in Contexts |-> 0]

\* Some terminal shows a context up to a later time than anyone has.
Present ==
    /\ presented' \in Frontiers
    /\ \A k \in Contexts : presented'[k] >= presented[k]
    /\ UNCHANGED marker

\* A write merges: every context stays or moves forward.
Merge ==
    /\ marker' \in Frontiers
    /\ \A k \in Contexts : marker[k] <= marker'[k] /\ marker'[k] <= presented[k]
    /\ UNCHANGED presented

Next == Present \/ Merge
Spec == Init /\ [][Next]_<<marker, presented>>
=============================================================================
