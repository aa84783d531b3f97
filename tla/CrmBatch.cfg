\* Requests of two candidates in one server process.
CONSTANTS
  r1 = r1
  r2 = r2
  r3 = r3
  c1 = c1
  c2 = c2
  Requests = {r1, r2, r3}
  Candidates = {c1, c2}
  Candidate <- TwoCandidates
  Operations = {"book", "change", "cancel", "list"}
  Faults = {"fail", "lost", "mixed"}
  None = None
SPECIFICATION Spec
SYMMETRY RequestSymmetry
INVARIANTS
  TypeOK ProductOfOwnBooking NothingLeftCollecting AnsweredIsDone
CHECK_DEADLOCK FALSE
