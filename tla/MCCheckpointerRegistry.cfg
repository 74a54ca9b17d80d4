SPECIFICATION Spec
CONSTANTS
  r1 = r1
  r2 = r2
  Readers = {r1, r2}
  MaxReads = 2
  MaxRuns = 2
  MaxDeletes = 2
  MaxInst = 4
SYMMETRY ReadersSymmetric
CHECK_DEADLOCK FALSE
INVARIANTS RegistryInv InUseStaysOpen NoResurrection NobodyStuck
