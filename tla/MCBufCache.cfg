SPECIFICATION FairSpec
CONSTANTS
  Proc = {p1, p2}
  Block = {b1, b2, b3}
  Val = {v1, v2}
  NBUF = 2
  Nobody = Nobody
PROPERTIES  SleepersWoken
