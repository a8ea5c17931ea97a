------------------------------ MODULE MCViews ------------------------------
(* Small instances of Views: one thread, whose root is message 1.           *)
EXTENDS Views
ThreadOf == [m \in Messages |-> 1]
Matches == [q \in Queries |-> Messages]
=============================================================================
