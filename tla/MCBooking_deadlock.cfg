SPECIFICATION Spec
CONSTANTS
  u1 = u1  u2 = u2  e1 = e1  e2 = e2  s1 = s1  s2 = s2
  k1 = k1  k2 = k2  r1 = r1  r2 = r2  r3 = r3  r4 = r4  w1 = w1  w2 = w2
  None = None
  Users = {u1, u2}  Keys = {k1, k2}
  Events = {e1}  Seats = {s1, s2}  Reqs = {r1, r2}  Workers = {w1}
  EventOf <- OneEvent
  InitEvent <- OpenNow
  Calls <- OverlapCalls
  Patches = {}
  HoldTTL = 1  MaxHeld = 4  SeedSold = {}
  Faults = {}
INVARIANTS NoDeadlock
