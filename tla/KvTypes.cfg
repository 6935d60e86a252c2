SPECIFICATION Spec
CONSTANTS
  Bits = 3
  LongBits = 4
  MaxNum = 9
  Base = 2
  MaxLen = 4
  MaxKeys = 2
INVARIANTS
  FindsSame
  KeyFindsRecord
  Ordered
