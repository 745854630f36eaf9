SPECIFICATION MiddlewareSpec
CONSTANTS
  Proc = {p1, p2}
  User = {u1}
  Tenant = {n1}
  Token = {t1, t2}
  None = None
  Kinds = {"serial"}
  TTL = 5
  Second = 2
  MaxTime = 6
  MaxLogins = 2
  MaxFaults = 1
  MaxRequests = 3
SYMMETRY Interchangeable
INVARIANTS MiddlewareTypeOK NoSilentOrphan
PROPERTY NoFalseChallenge
