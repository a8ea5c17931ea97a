----------------------------- MODULE MCTimeline -----------------------------
(* Small instances of Timeline.                                            *)
EXTENDS Timeline
=============================================================================
