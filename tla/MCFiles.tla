------------------------------ MODULE MCFiles -------------------------------
(* Two processes, two files of at most three blocks on a disk of four, a file *)
(* table of three and two descriptors each.                                  *)
EXTENDS Files, TLC

MCProc == 1 .. 2
MCFile == 1 .. 3
MCBlock == 1 .. 4
MCBufs == {<<1>>, <<2, 3, 4>>}
MCMode == {[readable |-> m[1], writable |-> m[2], trunc |-> m[3]] :
             m \in {<<TRUE, FALSE, FALSE>>, <<TRUE, TRUE, FALSE>>, <<FALSE, TRUE, TRUE>>}}
MCScenario == {
  [calls |-> {"open", "write", "unlink", "crash"}, max |-> 4],
  [calls |-> {"open", "write", "close", "unlink"}, max |-> 4],
  [calls |-> {"open", "write", "read", "fork", "crash"}, max |-> 4],
  [calls |-> {"open", "close", "dup", "pipe", "fork", "exit", "unlink"}, max |-> 5]}
Symmetric == Permutations(Ino)
=============================================================================
