\* Hold = 2 and MaxTime = 3: an entry can be young, at the edge and expired,
\* and a third identical request can come while the second one is young.
CONSTANTS
  r1 = r1
  r2 = r2
  r3 = r3
  r4 = r4
  r5 = r5
  k1 = k1
  k2 = k2
  NoKey = NoKey
  Requests <- MCRequests
  Keys = {k1, k2}
  KeyOf <- MCKeyOf
  Hold = 2
  SweepSize = 1
  SweepMinInterval = 1
  MaxTime = 3
SPECIFICATION HoldSpec
INVARIANTS
  YoungHoldKept
  NoOrphanEntry
  HoldExclusion
SYMMETRY Identical
PROPERTY RefusalJustified
\* Every request ends and the clock stops at MaxTime.
CHECK_DEADLOCK FALSE
