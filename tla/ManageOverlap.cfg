SPECIFICATION Spec
CONSTANTS
  Requests = {r1, r2}
  Sessions = {s1}
  Bookings = {b1}
  ZeroCost = {b1}
  Slots = {t1, t2}
  None = None
  Overlap = TRUE
  Revisit = FALSE
  Fails = {}
  Loses = {}
SYMMETRY Symmetry
CHECK_DEADLOCK FALSE
INVARIANTS OneMover
