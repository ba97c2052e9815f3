---------------------------- MODULE MCOsUpgrade ----------------------------
(* Instances of one run for TLC. *)
EXTENDS OsUpgrade
=============================================================================
