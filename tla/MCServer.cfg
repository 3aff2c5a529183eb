SPECIFICATION FairSpec
CONSTANTS
    c1 = c1
    x = x
    Hellos <- FirstNamed
    Carriers = {c1, c2}
    IDs = {x, y}
    MaxActiveLegs = 2
    MaxSessions = 1
    MaxConnections = 2
    MaxObjects = 2
    NoCarrier = NoCarrier
INVARIANTS
    TypeOK
    NoOrphanCarrier
    LiveIsListed
    TargetReleased
    ClosedIsEmpty
PROPERTIES
    JoinedSessionGetsHost
    CloseCompletes
