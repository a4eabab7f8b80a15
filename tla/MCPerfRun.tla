----------------------------- MODULE MCPerfRun ------------------------------
(* Instance of PerfRun for TLC.                                             *)
EXTENDS PerfRun
=============================================================================
