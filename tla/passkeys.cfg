SPECIFICATION Spec
CONSTANTS
  Proc = {p1, p2}
  Cred = {c1}
  Registration = {r1}
  Login = {h1, h2, h3}
  Timeout = 0
  MaxTime = 1
  MaxCount = 2
  MaxAnswers = 4
  MaxFaults = 1
  None = None
SYMMETRY Interchangeable
INVARIANTS TypeOK DeletedStaysOut
PROPERTIES CountsAdvance NoFalseAlarm
