SPECIFICATION Spec
CONSTANTS
  a1 = a1  a2 = a2  a3 = a3  a4 = a4
  Attempts = {a1, a2}  ChanCap = 2  MaxBatch = 2  Faults = {}
INVARIANTS AttemptsCaptured
