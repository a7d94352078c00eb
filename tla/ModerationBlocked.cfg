SPECIFICATION Spec
CONSTANTS
    MaxAttachments = 2
    Messages = {"m1"}
    MessageOf <- OneMessage
    Images = {1, 2}
    QueueSize = 1
    Batch = 2
    MaxAttempts = 2
    MaxFaults = 0
    None = None
CHECK_DEADLOCK FALSE
INVARIANT BlockedMessagesGo
