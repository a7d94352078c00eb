SPECIFICATION FairSpec
CONSTANTS
    Users = {a, b, c, d}
    Author = a
    MaxMessages = 1
    PoolSize = 2
    MaxEvents = 1
    None = None
CHECK_DEADLOCK FALSE
PROPERTY DispatchesEnd
