CONSTANTS
    TunerCount = 1
    Clients = {c1, c2}
    Services = {s1, s2}
    Sessions = {x1, x2}
    Crawls = {k1}
    Users = {x1, x2, k1}
    ch1 = ch1
    ch2 = ch2
    s1 = s1
    s2 = s2
    Channels <- BothChannels
    ChannelOf <- OneChannelEach
    Schedule <- VisitOne
    None = None
SYMMETRY Interchangeable
SPECIFICATION Spec
INVARIANTS LeaseInv LeaseExclusive ReaderHoldsLease ReadsOwnChannel SharingInv OneSessionPerService
PROPERTIES GrantsLikeAPool SharesLikeViewing
