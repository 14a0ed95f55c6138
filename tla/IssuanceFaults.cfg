CONSTANTS
  Triggers = {t1}
  EmptyTriggers = {}
  Tokens = {k1}
  Nonces = {n1}
  Requests = {q1, q2}
  NoRec = NoRec
  DBFaults = TRUE
  MaxRestarts = 1
SPECIFICATION FairSpec
PROPERTIES RetrySucceeds
CHECK_DEADLOCK FALSE
