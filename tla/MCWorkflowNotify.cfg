SPECIFICATION Spec
CONSTANTS
  w1 = w1
  w2 = w2
  None = None
  RunIds = {w1, w2}
  MaxInst = 2
  MaxCrash = 1
  MaxRev = 1
  MAX_RENOTIFY_ATTEMPTS = 1
  MAX_FLUSH_FAILED_RUNS = 1
SYMMETRY Symmetry
CHECK_DEADLOCK FALSE
INVARIANTS NotifyInv NothingSwallowed NotStranded
PROPERTIES IsDelivery
