SPECIFICATION Spec
CONSTANTS
  a = a  b = b  c = c  d = d
  NoName = NoName
  Names = {a, b}
  MaxFiles = 2
  MaxCrashes = 1
  WriteErrors = TRUE
  RollAtCreate = FALSE
SYMMETRY NameSymmetry
PROPERTY RenameMoves
CHECK_DEADLOCK FALSE
