SPECIFICATION Spec
CONSTANTS
  Proc = {p1, p2}
  a = a
  b = b
  Name = {a, b}
  Root = root
  Ino = {root, i2, i3}
  Path <- MCPath
  Disks <- MCDisks
  MaxCalls = 2
  None = None
CHECK_DEADLOCK FALSE
INVARIANT NoOrphan
