SPECIFICATION Spec
CONSTANTS
  Proc = {p1, p2, p3}
  Block = {b1, b2, b3}
  Val = {v1, v2}
  NUM = 7
  WORD = 7
  None = None
  Intr = Intr
  Panic = Panic
SYMMETRY Symmetric
INVARIANTS DescriptorsAccounted CompletionNoticed NobodyOversleeps
PROPERTY RefinesBlockDevice
