SPECIFICATION Spec
CONSTANTS
  r1 = r1  r2 = r2  r3 = r3  r4 = r4  Absent = Absent
  Reqs = {r1, r2, r3, r4}  Burst <- Bursts  Cost <- Costs
  Slack = 1  Late = 0  Skew = 0  MaxTime = 5  RedisFails = TRUE
SYMMETRY Alike
INVARIANTS TypeOK
PROPERTIES IdealBuckets
