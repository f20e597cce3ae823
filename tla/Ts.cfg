CONSTANTS
    None = None
    Stuffing = Stuffing
    Services = {1, 2}
    LastPeriod = 2
    Pids = {18, 256, 257, 258, 272, 901, 902, 903, 4352, 8191}
    NullPid = 8191
    SectionPids = {18}
    CaSystemId = 5
    Broken = Broken
    Garbage <- SomeGarbage
    TrackIds = {1, 2, 3}
    FirstPayload = 2
    NextPayload = 1
    TableInterval = 2
    TimestampMax = 4
    MaxLost = 5
    Broadcasts <- SomeBroadcasts
SPECIFICATION Spec
INVARIANTS TypeOK SectionsComeThrough GuideIsOnAir SamplesComeThrough SamplesClear VideoInTime VideoComesThrough TablesInTime
PROPERTIES AudioComesThrough
CHECK_DEADLOCK FALSE
