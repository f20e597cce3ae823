CONSTANTS
    TunerCount = 1
    Clients = {c1}
    Services = {s1}
    Sessions = {x1, x2}
    Crawls = {}
    Users = {x1, x2}
    ch1 = ch1
    ch2 = ch2
    s1 = s1
    s2 = s2
    Channels <- BothChannels
    ChannelOf <- OneServiceOnly
    Schedule <- VisitNone
    None = None
SPECIFICATION SilentSpec
PROPERTY DroppingReleasesTuner
