SPECIFICATION Spec
CONSTANTS
  None = None
  Users = {u1, u2}
  Seats = {s1}
  Orders = {o1, o2}
  Slots = {r1, r2}
  Workers = {w1}
  Handlers = {"lock", "order", "verify", "reap"}
  Faults = {}
  MaxJobs = 1
SYMMETRY Symmetry
PROPERTY ReaperSparesPaid
CHECK_DEADLOCK FALSE
