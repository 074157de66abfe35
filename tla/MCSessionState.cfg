\* Capacity = 1: a request of the other session evicts the first one.  Horizon
\* = 0 and MaxTime = 1: a gap can be at the horizon and beyond it.
CONSTANTS
  r1 = r1
  r2 = r2
  r3 = r3
  r4 = r4
  s1 = s1
  s2 = s2
  Requests = {r1, r2, r3, r4}
  Sessions = {s1, s2}
  SessionOf <- ThreeOfOne
  Capacity = 1
  Horizon = 0
  Grid = {1, 2}
  MaxTime = 1
SPECIFICATION SessionSpec
INVARIANTS
  StoreOK
PROPERTIES
  GridNeverFiner
  ColdHasCause
  SignalReachesNextRequest
SYMMETRY SymmetricThree
\* Every request ends and the clock stops at MaxTime.
CHECK_DEADLOCK FALSE
