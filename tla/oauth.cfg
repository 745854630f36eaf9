SPECIFICATION Spec
CONSTANTS
  Proc = {p1, p2}
  Browser = {b1, b2}
  Attempt = {a1, a2}
  Code = {c1, c2}
  None = None
  TTL = 2
  Leeway = 1
  MaxOffset = 1
  MaxTime = 2
SYMMETRY Interchangeable
INVARIANTS TypeOK SignedInByApproval
PROPERTIES ForgeriesEndAtOpen HonestReturnsOpen
