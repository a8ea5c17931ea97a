------------------------------ MODULE MCInbox -------------------------------
(* Inbox on small instances: messages that share a second, and that do not. *)
EXTENDS Inbox

TwoSeconds == <<1, 2>>
OneSecond  == <<1, 1>>
=============================================================================
