---------------------------- MODULE MCHelperLock ----------------------------
(* Instances of HelperLock for TLC. *)
EXTENDS HelperLock

Three == 1..3
Two   == 1..2
=============================================================================
