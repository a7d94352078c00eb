SPECIFICATION WorkersSpec
CONSTANTS
    k1 = k1
    k2 = k2
    m1 = m1
    m2 = m2
    MaxAttachments = 2
    Messages = {m1, m2}
    MessageOf <- MCMessageOf
    Images = {1}
    QueueSize = 1
    Batch = 1
    MaxAttempts = 2
    MaxFaults = 1
    j1 = j1
    t1 = t1
    w1 = w1
    w2 = w2
    u1 = u1
    h1 = h1
    Hashes = {h1}
    Uploads = {r1, r2, r3}
    HashOf <- MCHashOf
    Streamed = {r2}
    MaxStops = 1
    Procs = {p1, p2, p3}
    FCMRelayRestartMax = 2
    MaxBoots = 2
    None = None
CHECK_DEADLOCK FALSE
INVARIANTS TypeOK ProcessesAreBounded
PROPERTIES VerdictsAreFinal EveryAttachmentIsJudged PushJobsLeave OnlyGarbageGoes RelaySettles AudioForgetsLeavers
