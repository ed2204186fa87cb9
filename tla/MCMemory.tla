------------------------------ MODULE MCMemory ------------------------------
EXTENDS Memory
MCProgram == {<<1>>, <<2, 3>>, <<0>>}
Symmetric == Permutations(Proc)
MCChange == {-5, -1, 1, 3}
=============================================================================
