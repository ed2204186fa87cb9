SPECIFICATION FairSpec
CONSTANTS
  Proc = {p1, p2}
  Byte = {a, b}
  PIPESIZE = 2
  WORD = 4
  MaxCount = 2
  Nobody = Nobody
INVARIANT NoUseAfterFree
PROPERTIES RefinesByteQueue ClosedEndsAnswer
CHECK_DEADLOCK FALSE
