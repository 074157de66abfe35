\* Two processes starting against one directory.  The deadline is one tick away
\* and a lock is stale after two, the order of the code's ten and thirty
\* seconds: a caller can time out on an abandoned lock and a later one remove it.
CONSTANTS
    Procs = {p1, p2}
    Hosts = {h}
    OldPair = old
    None = none
    WaitFor = 1
    StaleAfter = 2
    MaxClock = 5
SPECIFICATION FairSpec
INVARIANTS AuthorityOK 
 
\* Every call ends and the clock stops at MaxClock.
CHECK_DEADLOCK FALSE
