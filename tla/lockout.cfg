SPECIFICATION Spec
CONSTANTS
  Proc = {p1, p2, p3}
  Account = {a1}
  MaxFailures = 2
  Window = 2
  Kinds = {"exact", "plain"}
  MaxTime = 4
  MaxFaults = 1
  None = None
SYMMETRY Interchangeable
INVARIANTS TypeOK LockLastsItsWindow LocksOnceAtThreshold GuessesBounded
