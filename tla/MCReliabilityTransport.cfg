\* The headers guard is on and the idle guard off: what the idle timer adds is
\* checked on its own in UpstreamExchange.cfg.  Hold = 2 and MaxTime = 2: the
\* second request can come within the hold of the first and at its edge.
CONSTANTS
  k1 = k1
  NoKey = NoKey
  Requests = {r1, r2}
  Exchanges = {r1, r2}
  Keys = {k1}
  KeyOf <- MCKeyOf
  Hold = 2
  SweepSize = 1
  SweepMinInterval = 1
  MaxTime = 2
  Upgraded = {}
  HeadersBudget = 1
  IdleBudget = 0
  MaxCallbacks = 1
SPECIFICATION TransportSpec
INVARIANTS
  UpstreamExclusion
  RetryFindsAccounting
SYMMETRY SameRequests
\* Both requests end and the clock stops at MaxTime.
CHECK_DEADLOCK FALSE
