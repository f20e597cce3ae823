CONSTANTS
    c1 = c1
    Own = c1
    Clones = {c1, c2}
    c2 = c2
    None = None
    ChannelCapacity = 1
    MaxErrors = 1
    MaxTimestamps = 2
    Broadcasts <- OneVideo
SPECIFICATION Spec
INVARIANT AuCountInRange
CHECK_DEADLOCK FALSE
