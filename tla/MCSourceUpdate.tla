--------------------------- MODULE MCSourceUpdate ---------------------------
(* Small instances of SourceUpdate.                                          *)
EXTENDS SourceUpdate
=============================================================================
