SPECIFICATION LockFairSpec
CONSTANTS
  mutation = mutation
  replacement = replacement
  NoKey = NoKey
  Keys = {mutation, replacement}
  InnerOf <- MCInnerOf
  MaxCalls = 5
CHECK_DEADLOCK FALSE
INVARIANTS LockInv
PROPERTIES IsFifoMutex
