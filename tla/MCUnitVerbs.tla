---------------------------- MODULE MCUnitVerbs ----------------------------
(* Small instances of UnitVerbs for TLC.                                   *)
EXTENDS UnitVerbs
=============================================================================
