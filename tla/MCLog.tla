------------------------------- MODULE MCLog -------------------------------
EXTENDS Log, TLC

Symmetric == Permutations(Proc) \cup Permutations(Block) \cup Permutations(Val)
=============================================================================
