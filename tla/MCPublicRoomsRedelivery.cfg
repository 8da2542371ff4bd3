CONSTANTS
    r1 = r1
    r2 = r2
    a1 = a1
    a2 = a2
    Rooms <- MCRooms
    AttrValues <- MCAttrValues
    InitJoined <- MCInitJoined
    BatchSize = 3
    MaxLog = 5
    MaxRestarts = 1
SPECIFICATION Spec
SYMMETRY Symmetry

INVARIANT RedeliveryTolerated
CHECK_DEADLOCK FALSE
