SPECIFICATION Spec
CONSTANTS
  Proc = {p1, p2}
  Kid = {"k1"}
  KeySets = {"shared", "others"}
  Document <- TwoSets
  Headers <- ShortAndLong
  FetchTimeout = 1
  MinRefreshInterval = 2
  MinKeySetTTL = 3
  DefaultKeySetTTL = 4
  MaxKeySetTTL = 6
  MaxStale = 4
  MaxTime = 6
  MaxChanges = 1
  None = "none"
  Tokens <- AllTokens
  Algorithms = {"RS256", "PS256", "ES256"}
  Issuer = "us"
  Audiences = {"svc", "svc2"}
  ClockSkew = 1
  RequireSubject = TRUE
  RequireJTI = FALSE
  maxJSONDepth = 4
  maxNumericDate = 20
  Scale = 2
INVARIANTS TypeOK FetchPolicy TokensVerified
PROPERTIES UntrustedInTime NewKeyFound VerifyReturns
