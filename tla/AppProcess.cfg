\* Two connections and two requests between them, so that two rows race for the
\* channel behind the first screen; the commands with and without a screen.
CONSTANTS
    Conns = {1, 2}
    MaxRequests = 2
SPECIFICATION FairSpec
INVARIANT NothingLeftBehind
PROPERTIES  LastRowShown SecondSignalForces
\* The process returns.
CHECK_DEADLOCK FALSE
