SPECIFICATION SafeSpec
CONSTANTS
    c1 = c1
    x = x
    Hellos <- SameLeg
    Carriers = {c1, c2, c3}
    IDs = {x}
    MaxActiveLegs = 2
    MaxSessions = 1
    MaxConnections = 3
    MaxObjects = 1
    NoCarrier = NoCarrier
SYMMETRY CarrierSymmetry
INVARIANT AcknowledgedCanAttach
