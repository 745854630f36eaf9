SPECIFICATION Spec
CONSTANTS
  Proc = {p1, p2}
  Worker = {w1, w2}
  tools = tools
  read = read
  Word = {tools, read}
  Request <- Requests
  Key = {k1, k2, k3, k4}
  Stores = {TRUE, FALSE}
  MaxTime = 1
  MaxExpiry = 1
  MaxIssues = 2
  MaxFaults = 1
  None = None
SYMMETRY Interchangeable
INVARIANTS TypeOK RotatesToOne NothingReturns NeverAGap AuthorizedAsGranted
PROPERTY LedgerSpec
