CONSTANTS
    c1 = c1
    Own = c1
    Clones = {c1, c2}
    c2 = c2
    None = None
    ChannelCapacity = 1
    MaxErrors = 0
    MaxTimestamps = 2
    Broadcasts <- VideoNextToAnother
SPECIFICATION Spec
INVARIANT LengthsMatch
CHECK_DEADLOCK FALSE
