\* An insertion after a rehash.
SPECIFICATION Spec
CONSTANTS
  Keys = {a, b, c, d, e}
  Values = {v1}
  InitCapacity = 2
  MaxCapacity = 4
  MaxHash = 0
  CountMod = 65536
  Calls = {"insert"}
INVARIANTS InsertReturns
CHECK_DEADLOCK FALSE
