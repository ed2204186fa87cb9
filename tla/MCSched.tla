------------------------------ MODULE MCSched ------------------------------
(* The instance of Sched that MCSched.cfg describes. *)
EXTENDS Sched
=============================================================================
