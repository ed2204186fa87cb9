----------------------------- MODULE MCDevices ------------------------------
(* Two CPUs, rings of two slots and indices that wrap at four. *)
EXTENDS Devices

MCCPU == 0 .. 1
MCTyped == {"x", "cr", "eof", "U", "H"}
MCArgs == [clock |-> {0, 1}, write |-> {2}, read |-> {2}]
MCCallers == [clock |-> CPU, write |-> CPU, read |-> {1}]
=============================================================================
