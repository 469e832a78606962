--------------------------- MODULE MCProcMonitor ---------------------------
(* ProcMonitor for TLC: one zygote and two processes or threads, which      *)
(* monitor.cfg names.                                                       *)
EXTENDS ProcMonitor
=============================================================================
