----------------------------- MODULE MCPerfLog -----------------------------
(***************************************************************************)
(* Small instances of PerfLog for TLC.                                     *)
(***************************************************************************)
EXTENDS PerfLog
=============================================================================
