SPECIFICATION FairSpec
CONSTANTS
  h1 = h1
  None = None
  Hashes = {h1}
  MaxCalls = 4
  MaxSeed = 2
  CallCap = 3
  AgentCap = 2
  Budget = 1
CHECK_DEADLOCK FALSE
INVARIANTS EngineInv ReplayOnce CompletedHonest RecordTrue
PROPERTIES EventuallyFinished
