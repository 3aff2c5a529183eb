SPECIFICATION FairSpec
CONSTANTS
    Legs = {l0, l1}
    Values = {x}
    MaxInflightFrames = 2
    MaxReorderFrames = 1
    QueueFrames = 1
    RescueFrames = 1
    CarrierFrames = 1
    l0 = l0
    l1 = l1
    Environments <- LiveEnvironments
    MaxRecords = 2
    MaxFailures = 2
PROPERTIES
    DeliversEventually
    EventuallyAcked
CHECK_DEADLOCK FALSE
