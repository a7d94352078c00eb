SPECIFICATION VoiceSpec
CONSTANTS
    u1 = u1
    u2 = u2
    a1 = a1
    a2 = a2
    b1 = b1
    Users = {u1, u2}
    Clients = {a1, b1}
    Channels = {x}
    UserOf <- MCUserOf
    MaxRoomPeers = 2
    MaxRoomsPerUser = 1
    MaxJoins = 2
    MaxRooms = 4
    Deletable = {x}
    MayStop = TRUE
    v1 = v1
    v2 = v2
    t1 = t1
    t2 = t2
    x = x
    y = y
    None = None
    Frozen = Frozen
SYMMETRY Symmetry
CHECK_DEADLOCK FALSE
INVARIANTS TypeOK ReservationsMatchSeats RoomsAreTended GoneClientsHoldNoSeat
PROPERTY TabsKeepTheirSeats
