SPECIFICATION Spec
CONSTANTS
  r1 = r1
  r2 = r2
  c1 = c1
  c2 = c2
  c3 = c3
  c4 = c4
  c5 = c5
  Global = Global
  Runs = {r1, r2}
  Calls = {c1, c2, c3, c4, c5}
  RunOf <- MCRunOf
  Limit <- MCLimit
INVARIANTS LimiterInv
PROPERTIES NoOvertaking EventuallyThrough
