SPECIFICATION UncachedSpec
CONSTANTS
  None = None
  Users = {u1, u2}
  Seats = {s1}
  Orders = {o1, o2}
  Slots = {r1, r2}
  Workers = {w1}
  Handlers = {"lock", "unlock", "order", "verify", "verify.bad", "webhook", "webhook.failed", "reap", "cancel"}
  Faults = {"gateway", "worker_error"}
  MaxJobs = 1
SYMMETRY Symmetry
INVARIANTS TypeOK VerifiedNeverLooksAbandoned ConfirmedWasPaid
PROPERTIES LockNotStolen RevokeOnly ImplementsLedger
CHECK_DEADLOCK FALSE
