SPECIFICATION Spec
CONSTANTS
  Proc = {p1, p2}
  User = {u1}
  k1 = k1
  k2 = k2
  Secret = {k1, k2}
  Code <- Codes
  hotp <- Hotp
  Skew = 1
  Kinds = {"sql", "memory"}
  MaxTime = 4
  MaxFaults = 1
  None = None
SYMMETRY Interchangeable
INVARIANTS TypeOK AcceptedOnce BurntByALogin
