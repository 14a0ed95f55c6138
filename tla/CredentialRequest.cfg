CONSTANTS
  Proofs <- MCProofs
  Messages <- MCMessages
  Claims <- MCClaims
  Endpoints = {"nonce", "credential"}
  Handlers = {h1, h2}
  Nonces = {"n1"}
  Window = 1
  ProofWindow = 1
  MaxSkew = 1
  MaxSize = 2
  EvictCount = 1
SPECIFICATION RequestSpec
INVARIANTS SizeBounded NoReplayWhileRemembered LatestRemembered IssuedToHolder
PROPERTY NonceSpentOnAdmission
