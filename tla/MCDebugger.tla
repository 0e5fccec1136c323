----------------------------- MODULE MCDebugger -----------------------------
(***************************************************************************)
(* Debugger for TLC: "mo" types a single key.                              *)
(***************************************************************************)
EXTENDS Debugger

MCMonitorKeys == <<77>>
=============================================================================
