CONSTANTS
    MaxMessages = 3
SPECIFICATION ConnSpec
PROPERTY ClosedIsFreed
CHECK_DEADLOCK FALSE
