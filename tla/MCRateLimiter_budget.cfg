SPECIFICATION Spec
CONSTANTS
  r1 = r1  r2 = r2  r3 = r3  r4 = r4  Absent = Absent
  Reqs = {r1, r2, r3}  Burst <- SlowToken  Cost <- SlowToken
  Slack = 1  Late = 0  Skew = 1  MaxTime = 6  RedisFails = TRUE
SYMMETRY Alike
INVARIANTS BudgetUnderDisorder
