---------------------------- MODULE MCHiveReplay ----------------------------
(* Instances of HiveReplay for TLC. *)
EXTENDS HiveReplay

=============================================================================
