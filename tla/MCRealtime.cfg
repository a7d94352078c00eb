SPECIFICATION RealtimeSpec
CONSTANTS
    u1 = u1
    Users = {u1, u2}
    Clients = {c1, c2}
    Owners <- MCOwners
    Requests = {r1}
    Statuses = {"busy"}
    MaxEvents = 2
    MayStop = TRUE
    Links = {x}
    Contents = {{}, {x}}
    MaxEmbeds = 1
    MaxPosts = 3
    MaxActive = 2
    Gone = Gone
    Messages = {m1, m2}
    Viewers = {v}
    Channel <- MCChannel
    Reads = {ch1}
    Providers = {"fxtwitter", "gifmedia", "gif", "reddit", "oembed", "web"}
    OutboundMaxConc = 1
    MaxVersions = 1
    Members = {a, b}
    Author = a
    MaxMessages = 2
    PoolSize = 3
    MaxNoteEvents = 2
    Peers = {a, b}
    Publishers = {a}
    Ready = {}
    Kinds = {"video"}
    SlotCount = 2
    MaxTracks = 2
    MaxPeerEvents = 6
    Senders = {a, b}
    Buffer = 1
    Modulus = 4
    MaxPackets = 2
    MaxForwarders = 2
    m1 = m1
    ch1 = ch1
    ch2 = ch2
    None = None
    Frozen = Frozen
SYMMETRY Symmetry
CHECK_DEADLOCK FALSE
INVARIANTS TypeOK PresenceIsTold EmbedsAreServed SlotsServeSubscriptions StreamsContinue
PROPERTIES MessagesAgree NotificationsAreRight SpeakersAreChosenFairly
