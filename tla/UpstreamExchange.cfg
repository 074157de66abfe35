\* One upgraded request: its body may be closed while it is read, which a
\* plain request's may not, so its behaviours include those of a plain one.
CONSTANTS
  Exchanges = {r1}
  Upgraded = {r1}
  HeadersBudget = 2
  IdleBudget = 1
  MaxCallbacks = 2
SPECIFICATION FairExchangeSpec
INVARIANTS
  ExchangeOK
PROPERTIES
  KeepsPromise
  
  
\* The exchange ends.
CHECK_DEADLOCK FALSE
