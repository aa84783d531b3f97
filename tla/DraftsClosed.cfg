\* A request waits for an answer while a standard test is booked.
CONSTANTS
  Targets = {"ni"}
  People <- OnlyWaiting
  Centres = {c1}
  None = None
  c1 = c1
SPECIFICATION Spec
PROPERTY DraftsAreClosed
