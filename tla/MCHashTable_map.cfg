\* All the calls, through one rehash.
SPECIFICATION Spec
CONSTANTS
  Keys = {a, b, c}
  Values = {v1, v2}
  InitCapacity = 2
  MaxCapacity = 4
  MaxHash = 2
  CountMod = 65536
  Calls = {"insert", "get", "remove", "free", "iterate"}
SYMMETRY Symmetry
INVARIANTS TypeOK CountExactBeforeRehash IterationComplete
PROPERTIES ImplementsMap
CHECK_DEADLOCK FALSE
