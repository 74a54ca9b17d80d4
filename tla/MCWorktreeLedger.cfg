SPECIFICATION LedgerSpec
CONSTANTS
  c1 = c1
  c2 = c2
  Calls = {c1, c2}
  MaxFails = 1
  MaxCrashes = 1
SYMMETRY CallsSymmetric
CHECK_DEADLOCK FALSE
INVARIANTS LedgerInv NothingHidden
PROPERTIES WorkKept DiscardStands
