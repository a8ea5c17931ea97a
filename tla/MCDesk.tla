------------------------------- MODULE MCDesk -------------------------------
(* A small instance of Desk: two conversations.                              *)
EXTENDS Desk
=============================================================================
