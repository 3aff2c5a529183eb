\* Two legs under each startup policy: carriers fail, leg 1 may be replaced, dials
\* may fail for ever, and the session is closed from either side at any time.
SPECIFICATION FairSpec
CONSTANTS
    LegCount = 2
    MaxFailures <- EveryPolicy
    Replaceable = {1}
    ReplaceJoining = FALSE
INVARIANTS TypeOK DoneMeansClosed StartedWithEveryLeg
PROPERTIES ZeroLegsResolved CloseEndsEverything
CHECK_DEADLOCK FALSE
