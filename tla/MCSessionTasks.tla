--------------------------- MODULE MCSessionTasks ---------------------------
(* Small instances of SessionTasks. The targets of a batch are alike.       *)
EXTENDS SessionTasks, TLC

TargetSymmetry == Permutations(Targets)
=============================================================================
