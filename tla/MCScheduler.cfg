SPECIFICATION FairSpec
CONSTANTS
  t1 = t1
  t2 = t2
  Tasks = {t1, t2}
  MaxTime = 2
  MaxEdits <- Edits
  MaxFaults = 1
  Interval = 1
  Day = 2
  Expire = 0
CHECK_DEADLOCK FALSE
INVARIANTS SchedulerInv
PROPERTIES StaysArmed DueIsServed
