SPECIFICATION Spec
CONSTANTS
  Keys = {1, 2, 3}
  MaxWrites = 4
INVARIANTS
  RestsBetween
  ScansAgree
PROPERTIES
  MovesAsCalled
  WalksSnapshot
CHECK_DEADLOCK FALSE
