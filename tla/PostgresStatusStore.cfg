CONSTANTS
  Records = {r1, r2}
  Calls = {c1, c2}
  NoCall = NoCall
  DBFaults = TRUE
SPECIFICATION FairSpec
INVARIANTS LockInv HandedIdxIsDurable NoIdxLeaked
PROPERTIES ImplementsStatusListStore EntriesPersist AllocateIdxReturns
