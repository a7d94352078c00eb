SPECIFICATION Spec
CONSTANTS
    Users = {o, u}
    Owner = o
    Managers = {}
    Addresses = {i, j}
    Links = {l, k}
    Requests = {r1, r2}
    MaxEvents = 6
    None = None
CHECK_DEADLOCK FALSE
PROPERTY ServerPasswordEndsSessions
