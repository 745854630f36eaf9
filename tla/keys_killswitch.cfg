SPECIFICATION Spec
CONSTANTS
  Proc = {p1, p2}
  Worker = {w1}
  tools = tools
  read = read
  Word = {tools, read}
  Request <- Requests
  Key = {k1, k2}
  Stores = {TRUE}
  MaxTime = 0
  MaxExpiry = 1
  MaxIssues = 1
  MaxFaults = 0
  None = None
INVARIANT KillSwitch
