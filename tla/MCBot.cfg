CONSTANTS
    MaxBots = 3
    MaxRooms = 3
    Statuses = {200, 403}
SPECIFICATION Spec
INVARIANT TypeOK
INVARIANT WaitGroupsCountGoroutines
INVARIANT WrittenBeforeRead
INVARIANT ResponsesReadAreThere
PROPERTY EveryBotSends
CHECK_DEADLOCK FALSE
