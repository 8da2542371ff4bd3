CONSTANTS
    u1 = u1
    u2 = u2
    h1 = h1
    h2 = h2
    Users <- MCUsers
    Hashes <- MCHashes
    MaxLog = 3
    MaxRestarts = 1
SPECIFICATION Spec
INVARIANT TypeOK
INVARIANT AppliedOnceInOrder
PROPERTY EventuallySettled
PROPERTY ImplementsAccountTable
CHECK_DEADLOCK FALSE
