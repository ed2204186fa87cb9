---------------------------- MODULE MCProcTable ----------------------------
(* The instance of ProcTable that MCProcTable.cfg describes. *)
EXTENDS ProcTable
=============================================================================
