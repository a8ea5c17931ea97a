---------------------------- MODULE MCReadMarker -----------------------------
(* ReadMarker on a small instance: two terminals with a session each, or one *)
(* that starts twice.                                                        *)
EXTENDS ReadMarker

CONSTANTS t1, t2, k1, k2
=============================================================================
