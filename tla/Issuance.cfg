CONSTANTS
  Triggers = {t1, t2}
  EmptyTriggers = {}
  Tokens = {k1, k2}
  Nonces = {n1}
  Requests = {q1, q2}
  NoRec = NoRec
  DBFaults = FALSE
  MaxRestarts = 1
SPECIFICATION Spec
INVARIANTS TypeOK NonceSingleUse DeliveredIdxIsEntry DeliveredIsRevocable TokenHasRecord
PROPERTY StatusNeverRegresses
SYMMETRY Symmetry
CHECK_DEADLOCK FALSE
