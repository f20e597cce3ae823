CONSTANTS
    s1 = s1
    s2 = s2
    e1 = e1
    Sections = {s1, s2}
    Events = {e1}
    Schedulings <- AllOrOne
    Parts = {"short"}
    PartOf <- OneTable
    Airings <- Disjoint
    Processors = {p1}
    Seed = Seed
    None = None
    QueueCapacity = 1
    MaxVersion = 1
    MayFail = TRUE
    MaxFaults = 2
SPECIFICATION FairSpec
INVARIANTS TypeOK RememberedIsHeld WrittenIsListed RememberedIsKept
PROPERTIES CancelledDisappears ScheduleIsStored
