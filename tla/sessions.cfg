SPECIFICATION Spec
CONSTANTS
  Proc = {p1, p2}
  User = {u1, u2}
  Tenant = {n1, n2}
  Token = {t1, t2, t3}
  None = None
  MaxLogins = 2
  TTL = 1
  MaxTime = 1
  MaxFaults = 1
  Kinds = {"serial", "readCommitted", "plain"}
SYMMETRY Interchangeable
INVARIANTS TypeOK RetiredStaysDead OneSessionPerLogin NeverStranded LogoutEverywhereSerial
PROPERTY LedgerSpec
