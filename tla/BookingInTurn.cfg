SPECIFICATION FairSpec
CONSTANTS
  Requests = {1, 2, 3, 4}
  Sessions = {s1}
  Slots = {t1, t2}
  Fundings = {"card", "compensation"}
  Earlier = {1}
  None = None
  Overlap = FALSE
  Revisit = FALSE
  ExistingCheck = TRUE
  Fails = {"check", "create", "product", "settle", "paymentCode", "confirmSlot", "confirmCrm", "delete", "slotExpiry", "sessionExpiry"}
  Loses = {"reserve", "create", "bind", "confirmCrm", "status"}
CONSTRAINT RequestsInOrder
CHECK_DEADLOCK FALSE
INVARIANTS OneBookingPerTest
PROPERTIES CancelledMeansReleased ImplementsLifecycle AnswerDecides
