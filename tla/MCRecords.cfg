SPECIFICATION RecordsSpec
CONSTANTS
    MaxConns = 3
    Reqs = {r1, r2}
    Users = {u1, u2}
    Owner = u1
    Managers = {u2}
    Addresses = {i, j}
    ResetLinks = {l, k}
    Channels = {c1, c2, c3}
    Roles = {f}
    Pair = {u1, u2}
    MaxEvents = 6
    None = None
    Frozen = Frozen
SYMMETRY Symmetry
CHECK_DEADLOCK FALSE
INVARIANTS TypeOK OneActivePerLogin DroppedStaysDropped LoginsAreRightful ScansAreExact
PROPERTIES HonestClientsGoOn ChannelsAreConsistent ConversationsReappear
