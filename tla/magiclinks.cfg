SPECIFICATION Spec
CONSTANTS
  Proc = {p1, p2}
  Token = {k1, k2, k3}
  Address = {a1, a2}
  TTL = 1
  Kinds = {"serial", "readCommitted", "plain"}
  MaxTime = 2
  MaxFaults = 2
  None = None
SYMMETRY Interchangeable
INVARIANTS TypeOK RedeemedOnce OnlyNewestRedeemableSerial NoLinkLost
