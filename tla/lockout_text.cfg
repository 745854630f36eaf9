SPECIFICATION Spec
CONSTANTS
  Proc = {p1, p2}
  Account = {a1}
  MaxFailures = 2
  Window = 2
  Kinds = {"text"}
  MaxTime = 4
  MaxFaults = 0
  None = None
SYMMETRY Interchangeable
INVARIANT LockHolds
