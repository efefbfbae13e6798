SPECIFICATION Spec
CONSTANTS
  a = a  b = b  c = c  d = d
  NoName = NoName
  Names = {a, b}
  MaxFiles = 2
  MaxCrashes = 1
  WriteErrors = FALSE
  RollAtCreate = TRUE
SYMMETRY NameSymmetry
INVARIANT Mountable
CHECK_DEADLOCK FALSE
