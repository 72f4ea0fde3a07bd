SPECIFICATION FairSpec
CONSTANTS
  a1 = a1  a2 = a2  a3 = a3  a4 = a4
  Attempts = {a1, a2, a3, a4}  ChanCap = 2  MaxBatch = 2
  Faults = {"db_error", "reply_lost", "crash"}
INVARIANTS TypeOK WrittenOnceInOrder NoSilentLoss
PROPERTIES RequestsNeverWait AttemptsAreFlushed
