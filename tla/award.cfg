CONSTANTS
  v1 = v1
  v2 = v2
  k1 = k1
  k2 = k2
  None = None
  Vendors = {v1, v2}
  Calls = {k1, k2}
  Selections = {{v1}, {v2}, {v1, v2}}
  RfqMoves <- MCRfqMoves
  OfferMoves = {"REQUEST_REVISION"}
  MaxVersion = 2
  MaxDetours = 1
SYMMETRY MCSymmetry
SPECIFICATION Spec
CHECK_DEADLOCK FALSE
INVARIANTS
  TypeOK
  AwardIsBooked
PROPERTIES
  AwardFinal
  VersionsKept
