SPECIFICATION Spec
CONSTANTS
  Requests = {r1}
  Sessions = {s1}
  Bookings = {b1}
  ZeroCost = {}
  Slots = {t1, t2}
  None = None
  Overlap = FALSE
  Revisit = FALSE
  Fails = {"record"}
  Loses = {}
SYMMETRY Symmetry
CHECK_DEADLOCK FALSE
PROPERTIES ShownSlotIsHeld
