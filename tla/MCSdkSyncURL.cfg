SPECIFICATION Spec
CONSTANTS
    Callers = {c1, c2}
    Options <- MCOptions
    Values <- MCValues
    CallSites <- MCCallSites
    Statuses = {200, 403}
    Millis = {1}
    MaxMessages = 2
INVARIANT SinceReachesServer
CHECK_DEADLOCK FALSE
