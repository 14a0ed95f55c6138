CONSTANTS
  Records = {r1, r2}
  Calls = {c1, c2}
  NoCall = NoCall
  DBFaults = FALSE
SPECIFICATION Spec
INVARIANT ConcurrentCallsReuse
