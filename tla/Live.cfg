CONSTANTS
    v = v
    a = a
    Tracks = {v, a}
    Kinds <- Services
    Skew = 1
    MaxUnits = 4
    Viewers = {c1}
    Capacity = 2
    Writer = Writer
    None = None
    Nobody = Nobody
SPECIFICATION Spec
INVARIANTS TypeOK BeginsWithInit AllDescribed NothingLost StartTogether
PROPERTIES HeldBackIsWritten
CHECK_DEADLOCK FALSE
CONSTRAINT Watched
