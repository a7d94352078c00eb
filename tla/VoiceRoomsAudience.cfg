SPECIFICATION Spec
CONSTANTS
    u1 = u1
    u2 = u2
    a1 = a1
    a2 = a2
    b1 = b1
    Users = {u1}
    Clients = {a1, a2}
    Channels = {x}
    UserOf <- MCUserOf
    MaxRoomPeers = 1
    MaxRoomsPerUser = 1
    MaxJoins = 2
    MaxRooms = 4
    Deletable = {}
    MayStop = FALSE
    None = None
CHECK_DEADLOCK FALSE
INVARIANT AudienceIsRight
