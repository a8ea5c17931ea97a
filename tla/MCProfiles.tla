----------------------------- MODULE MCProfiles -----------------------------
(* Small instances of Profiles.                                              *)
EXTENDS Profiles
=============================================================================
