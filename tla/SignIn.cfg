\* Two browsers, room for two records of each kind, every call may fail.
CONSTANTS
  Sessions = {b1, b2}
  Contacts = {c1, c2}
  Licences = {l1, l2}
  Values = {v1, v2}
  Fails = {"find", "updateLicence", "updateContact", "createContact", "createLicence", "crash"}
  Loses = {"updateLicence", "updateContact", "createContact", "createLicence"}
  None = None
  b1 = b1
  b2 = b2
  c1 = c1
  c2 = c2
  l1 = l1
  l2 = l2
  v1 = v1
  v2 = v2
SPECIFICATION Spec
SYMMETRY Symmetry
INVARIANTS TypeOK SessionIsOnePerson
PROPERTIES NoSecondLicence SignedInIsCurrent
