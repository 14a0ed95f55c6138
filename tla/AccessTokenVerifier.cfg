CONSTANTS
  Calls = {c1, c2}
  k1 = k1
  a = a
  Tokens <- OneGoodToken
  Keys = {k1}
  KeysTTL = 2
  RevokedTTL = 1
  HTTPTimeout = 1
  NoCall = NoCall
  NoKeys = NoKeys
SPECIFICATION FairSpec
INVARIANTS RefusalIsFinal StaleKeysOnlyInOutage
PROPERTIES RevocationBounded VerifyReturns
