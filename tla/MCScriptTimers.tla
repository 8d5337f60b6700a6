--------------------------- MODULE MCScriptTimers ---------------------------
(***************************************************************************)
(* ScriptTimers for TLC: three timers, so that a batch may have one before *)
(* and one after the timer that interferes.                                *)
(***************************************************************************)
EXTENDS ScriptTimers
=============================================================================
