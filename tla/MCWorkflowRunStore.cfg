SPECIFICATION Spec
CONSTANTS
  a1 = a1
  None = None
  Calls = {a1}
  MaxInst = 2
  MaxCrash = 1
CHECK_DEADLOCK FALSE
INVARIANTS StoreInv FlushHonest NoResurrection
PROPERTIES SurvivorKeepsSnapshot
