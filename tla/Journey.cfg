\* Everybody: support that needs every page, and two types of test to edit.
CONSTANTS
  Targets = {"gb", "ni"}
  People <- Everybody
  Centres = {c1, c2}
  None = None
  c1 = c1
  c2 = c2
SPECIFICATION Spec
SYMMETRY CentreSymmetry
INVARIANTS
  TypeOK AnswersComplete NonStandardStaysSupported WalkIsOwn NoDuplicateRequest
  EvidenceAsTold OfferedTogether BslOrVoiceover
