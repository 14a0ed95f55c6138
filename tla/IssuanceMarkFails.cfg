CONSTANTS
  Triggers = {t1}
  EmptyTriggers = {}
  Tokens = {k1}
  Nonces = {}
  Requests = {q1}
  NoRec = NoRec
  DBFaults = TRUE
  MaxRestarts = 0
SPECIFICATION Spec
INVARIANT DeliveredIsRevocable
CHECK_DEADLOCK FALSE
