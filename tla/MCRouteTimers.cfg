CONSTANTS
  Joins = {j1}
  Oneshots = {p1}
  Asserts = {a1}
  TIMER_INTERVAL = 2
  Longest = 4
  Early = 1
  MaxPasses = 3
SPECIFICATION Spec
INVARIANTS TypeOK PassInv NoDeadlineMissed NeverATickLate
