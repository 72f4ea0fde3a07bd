SPECIFICATION CatalogSpec
CONSTANTS
  r1 = r1  r2 = r2  c1 = c1  c2 = c2
  admin = admin  other = other  right = right  wrong = wrong  Nobody = Nobody
  Null = Null
  Emails = {admin, other}  Passwords = {right, wrong}  Subs = {r1, r2}
  Forms <- Filled  AdminEmail = admin  AdminPassword = right
  PowOn = TRUE  MaxChallenges = 2  MaxTries = 2
  Faults = {"redis_error", "reply_lost", "db_error"}
  Calls = {c1, c2}  Asked <- Bodies  MaxUuid = 10
  Names = {"edm", "jazz", "arena", "club"}  Starts = {1, 2, 3}
  SeedShows <- Seeded  SeedSeats <- SeededSeats  MaxSold = 2
SYMMETRY Alike
CONSTRAINT OneAfterTheOther
INVARIANTS CatalogTypeOK WorkPerSubmission AccountsStand SeriesConsistent ProductionsAreWhole
CHECK_DEADLOCK FALSE
