SPECIFICATION FairSpec
CONSTANTS
  NPROC = 3
  CPU = {c1, c2}
  Idle = Idle
INVARIANT OneStack
PROPERTIES RefinesCondVar Runs
