SPECIFICATION AskFairSpec
CONSTANTS
  w1 = w1
  w2 = w2
  Windows = {w1, w2}
  MaxRequests = 2
  MaxReloads = 1
CHECK_DEADLOCK FALSE
INVARIANTS UserInputInv
PROPERTIES AskedOrSettled AutoSettles
