SPECIFICATION Spec
CONSTANTS
  Proc = {p1, p2}
  User = {u1}
  Tenant = {n1}
  Token = {t1, t2}
  None = None
  MaxLogins = 1
  TTL = 1
  MaxTime = 0
  MaxFaults = 0
  Kinds = {"readCommitted"}
INVARIANT LogoutEverywhere
