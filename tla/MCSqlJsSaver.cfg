SPECIFICATION FairSpec
CONSTANTS
  MaxPuts = 2
  MaxStrict = 1
  MaxFails = 1
  MaxCrashes = 1
  MaxDamage = 1
  MaxStarts = 3
CHECK_DEADLOCK FALSE
INVARIANTS SaverInv NothingForgotten
PROPERTIES IsRegister EventuallySaved
