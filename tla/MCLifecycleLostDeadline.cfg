\* The host may replace leg 1 while attachLeg is between publishing the leg and
\* moving the recovery epoch.
SPECIFICATION FairSpec
CONSTANTS
    LegCount = 2
    MaxFailures <- FirstReady
    Replaceable = {1}
    ReplaceJoining = TRUE
PROPERTY ZeroLegsResolved
CHECK_DEADLOCK FALSE
