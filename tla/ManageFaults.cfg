SPECIFICATION Spec
CONSTANTS
  Requests = {r1}
  Sessions = {s1}
  Bookings = {b1}
  ZeroCost = {}
  Slots = {t1, t2}
  None = None
  Overlap = FALSE
  Revisit = TRUE
  Fails = {"reserve", "mark", "vacate", "occupy", "record", "support", "markCancel", "money", "deleteSlot", "cancelCrm", "recognise", "load", "probe", "window", "crash", "agency", "slotExpiry", "sessionExpiry", "financeLag"}
  Loses = {"vacate", "money", "cancelCrm", "record"}
SYMMETRY Symmetry
CHECK_DEADLOCK FALSE
INVARIANTS TypeOK CancelledIsPaidBack
