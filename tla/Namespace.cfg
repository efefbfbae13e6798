SPECIFICATION Spec
CONSTANTS
  a = a  b = b  c = c  d = d
  NoName = NoName
  Names = {a, b, c, d}
  MaxFiles = 5
  MaxCrashes = 2
  WriteErrors = TRUE
  RollAtCreate = FALSE
SYMMETRY NameSymmetry
INVARIANTS TypeOK LinksMatch MountFindsNames
PROPERTY ImplementsDirectory
CHECK_DEADLOCK FALSE
