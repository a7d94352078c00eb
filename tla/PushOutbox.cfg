SPECIFICATION Spec
CONSTANTS
    Jobs = {j1, j2}
    u1 = u1
    Users = {u1}
    Tokens = {t1, t2}
    Workers = {w1, w2}
    Recipient <- MCRecipient
    BadPayload = {j2}
    PushBatchSize = 2
    PushMaxAttempts = 2
    ClaimOutlivesBatch = TRUE
    MaxFaults = 1
    MaxUnheard = 1
    None = None
SYMMETRY Symmetry
INVARIANTS TypeOK OneHolder DuplicatesNeedFaults AttemptsBounded
PROPERTIES OnlySettledJobsLeave ImplementsDelivery

