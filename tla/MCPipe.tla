------------------------------- MODULE MCPipe -------------------------------
(* Two processes on a ring of two bytes, counters modulo four. *)
EXTENDS Pipe
=============================================================================
