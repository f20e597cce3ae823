CONSTANTS
    s1 = s1
    s2 = s2
    e1 = e1
    Sections = {s1, s2}
    Events = {e1}
    Schedulings <- All
    Parts = {"short", "extended"}
    PartOf <- TwoTables
    Airings <- AlwaysBoth
    Processors = {p1, p2}
    Seed = Seed
    None = None
    QueueCapacity = 1
    MaxVersion = 0
    MayFail = TRUE
    MaxFaults = 0
SPECIFICATION Spec
INVARIANT RememberedIsHeld
