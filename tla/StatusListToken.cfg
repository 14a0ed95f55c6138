CONSTANTS
  Records = {r1}
  Getters = {g1, g2}
  Revokers = {v1}
  TTL = 2
  MaxSign = 1
  NoHolder = NoHolder
  NoToken = NoToken
SPECIFICATION FairSpec
INVARIANTS CacheInv RevocationVisible
PROPERTIES StalenessBounded GetAnswered RevokeAnswered
