SPECIFICATION Spec
CONSTANTS
  None = None
  Users = {u1, u2}
  Seats = {s1}
  Orders = {o1, o2}
  Slots = {r1, r2}
  Workers = {w1}
  Handlers = {"lock", "order", "verify"}
  Faults = {}
  MaxJobs = 1
SYMMETRY Symmetry
PROPERTY ConfirmedNotOverwritten
CHECK_DEADLOCK FALSE
