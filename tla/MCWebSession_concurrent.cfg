SPECIFICATION CalmSpec
CONSTANTS
  u1 = u1  u2 = u2  t1 = t1  t2 = t2  c1 = c1  c2 = c2
  Users = {u1, u2}  NoUser = NoUser  Nobody = Nobody
  Tabs = {t1}  Requests = {c1, c2}
  MaxLogins = 1  MaxTokens = 3
  RedisFails = FALSE  Reloads = FALSE  NetFails = FALSE  Limits = FALSE
SYMMETRY Alike
INVARIANTS TransparentRefresh
