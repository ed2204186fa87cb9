SPECIFICATION Spec
CONSTANTS
  Proc = {p1, p2}
  NPAGE = 18
  FAN = 3
  PGSIZE = 2
  Program <- MCProgram
  Change <- MCChange
INVARIANTS PagesAccounted ImageComplete CopiesExact
PROPERTIES FailureUndone
SYMMETRY Symmetric
