SPECIFICATION Spec
CONSTANTS
  None = None
  Users = {u1, u2}
  Seats = {s1}
  Orders = {o1}
  Slots = {r1, r2}
  Workers = {w1, w2}
  Handlers = {"lock", "unlock", "order", "verify", "seatmap"}
  Faults = {"redis_restart", "abort", "worker_crash", "worker_error"}
  MaxJobs = 2
SYMMETRY Symmetry
INVARIANTS ConfirmedWasPaid SoldSeatMarked
CHECK_DEADLOCK FALSE
