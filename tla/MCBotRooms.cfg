CONSTANTS
    MaxBots = 3
    MaxRooms = 2
    Statuses = {200, 403}
SPECIFICATION Spec
INVARIANT CreatedRoomsAreKept
CHECK_DEADLOCK FALSE
