---------------------------- MODULE MCUnitManager ----------------------------
(* Two names and two directories: one file can shadow another, a directory   *)
(* can be missing, and a file can change after it was read.                  *)
EXTENDS UnitManager

=============================================================================
