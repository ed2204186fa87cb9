SPECIFICATION FairSpec
CONSTANT NPROC = 3
INVARIANTS NoLostExit StackQuiet EveryChildHasParent
 
