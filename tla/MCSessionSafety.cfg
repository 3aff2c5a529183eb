SPECIFICATION SafeSpec
CONSTANTS
    Legs = {l0, l1}
    Values = {x, y}
    MaxInflightFrames = 2
    MaxReorderFrames = 1
    QueueFrames = 1
    RescueFrames = 1
    CarrierFrames = 1
    l0 = l0
    l1 = l1
    Environments <- FailEnvironment
    MaxRecords = 3
    MaxFailures = 2
SYMMETRY LegAndValueSymmetry
INVARIANTS
    TypeOK
    AckedIsDelivered
    NoReorderOverflow
PROPERTY
    ImplementsReliableStream
CHECK_DEADLOCK FALSE
