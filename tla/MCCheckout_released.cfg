SPECIFICATION CheckoutSpec
CONSTANTS
  u1 = u1  u2 = u2  e1 = e1  e2 = e2  s1 = s1  s2 = s2
  k1 = k1  k2 = k2  k3 = k3  r1 = r1  r2 = r2  r3 = r3  r4 = r4  w1 = w1
  None = None
  Users = {u1, u2}  Keys = {k1, k2, k3}
  Events = {e1, e2}  Seats = {s1}  Reqs = {r1, r2, r3}  Workers = {w1}
  EventOf <- OneEventHasSeats
  InitEvent <- OpenNow
  Calls <- PageCalls
  Patches = {}
  HoldTTL = 1  MaxHeld = 1  SeedSold = {}
  Faults = {}
  Customer = u1  PageReqs = {r1, r2, r3}
  KeyOf <- OrderKeys
  MaxPolls = 1
INVARIANTS ToldReleased
