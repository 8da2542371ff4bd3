SPECIFICATION Spec
CONSTANTS
    Callers = {c1, c2}
    Options <- MCOptions
    Values <- MCValues
    CallSites <- MCCallSites
    Statuses = {200, 403}
    Millis = {1}
    MaxMessages = 2
SYMMETRY Symm
INVARIANT TypeOK
INVARIANT InitializedAfterInit
INVARIANT TxnIDsUnique
INVARIANT CallerCanTrustResult
INVARIANT TokenReachesServer
INVARIANT LineNumbersPrinted
PROPERTY ConfiguredOnce
CHECK_DEADLOCK FALSE
