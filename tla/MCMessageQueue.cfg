SPECIFICATION Spec
CONSTANTS
  Runs = {r1, r2}
  Msgs = {m1, m2}
  MaxVer = 2
  None = None
CHECK_DEADLOCK FALSE
INVARIANTS QueueInv NothingLost
PROPERTIES DeliveredInItsEra ForeignRunsHarmless
