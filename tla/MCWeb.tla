------------------------------- MODULE MCWeb -------------------------------
(* Small instances of Web: the tabs and the conversations are symmetric.     *)
EXTENDS Web, TLC

WebSymmetry == Permutations(Tabs)
=============================================================================
