SPECIFICATION SettleSpec
CONSTANTS
    a = a
    b = b
    Users = {a, b}
    Messages = {m1, m2}
    Customs = {e1}
    Unicodes = {x}
    MaxPins = 1
    MaxTypes = 1
    MaxEmojis = 1
    MaxEvents = 3
    u1 = u1
    u2 = u2
    a1 = a1
    b1 = b1
    ch = ch
    c1 = c1
    c2 = c2
    None = None
CHECK_DEADLOCK FALSE
INVARIANT MarksAreRight
PROPERTIES RequestsEnd ConnectionsSettle VoiceSettles
