\* Two carriers, on two leg identities or on one and then its replacement: one
\* frame is placed, retried and rescued while the carriers fail under it.
SPECIFICATION Spec
CONSTANTS
    Legs = {l0, l1}
    Sizes = {1}
    QueueFrames = 1
    RescueFrames = 1
    MaxRecords = 1
    MaxAttempts = 3
    MaxAttaches = 2
SYMMETRY LegSymmetry
INVARIANTS TypeOK NoPinnedRecord CooldownIsEarned SentMeansWritten NothingFallsThrough
CHECK_DEADLOCK FALSE
