SPECIFICATION Spec
CONSTANTS
  Names = {n1, n2, n3}
  Default = Default
  NoCf = NoCf
  Wild = Wild
  IOErrors = TRUE
  Crashes = TRUE
SYMMETRY Symmetry
INVARIANT Isolation
INVARIANT FamilyExists
INVARIANT OpenIsComplete
