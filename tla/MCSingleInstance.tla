-------------------------- MODULE MCSingleInstance --------------------------
(* Small instances of SingleInstance for TLC.                              *)
EXTENDS SingleInstance
=============================================================================
