SPECIFICATION FairSpec
CONSTANTS
  None = None
  Users = {u1}
  Seats = {s1}
  Orders = {o1}
  Slots = {r1, r2}
  Workers = {w1}
  Handlers = {"lock", "unlock", "order", "verify", "webhook", "reap", "seatmap"}
  Faults = {"gateway"}
  MaxJobs = 1
INVARIANTS RecordedPaymentHasJob
PROPERTIES PaymentSettles AbandonedIsReaped ExpiredLockHeals
CHECK_DEADLOCK FALSE
