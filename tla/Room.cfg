SPECIFICATION Spec
CONSTANTS
  None = None
  Users = {u1, u2, u3, u4}
  Slots = {p1}
  Tasks = {t1}
  MaxAge = 1
  MAX_ACTIVE_USERS = 2
  Handlers = {"poll", "free", "leave"}
  Faults = {"abort", "api_restart", "queue_expiry"}
SYMMETRY Symmetry
INVARIANTS TypeOK OverAdmissionBound
PROPERTIES WaiterKeepsPlace AdmittedInOrder ImplementsLine
CHECK_DEADLOCK FALSE
