SPECIFICATION FairSpec
CONSTANTS
  Proc = {p1, p2}
  Block = {b1, b2, b3}
  Val = {v1, v2}
  MAXOPBLOCKS = 2
  LOGSIZE = 4
  NLOG = 3
INVARIANTS SpaceReserved DurableOnReturn
PROPERTIES RefinesAtomicDisk SleeperWoken
