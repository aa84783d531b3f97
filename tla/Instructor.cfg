\* Tests with and without a choice of language, a voiceover and a fee.
CONSTANTS
  Targets = {"gb", "ni"}
  People <- Trainers
  Centres = {c1, c2}
  None = None
  c1 = c1
  c2 = c2
SPECIFICATION InstructorSpec
SYMMETRY CentreSymmetry
INVARIANTS
  AnswersComplete NonStandardStaysSupported WalkIsOwn NoDuplicateRequest
  OfferedTogether WalkIsServed
