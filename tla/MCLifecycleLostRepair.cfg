\* As the main run, for a session that starts with one leg.
SPECIFICATION RedialSpec
CONSTANTS
    LegCount = 2
    MaxFailures <- FirstReady
    Replaceable = {}
    ReplaceJoining = FALSE
PROPERTY FailedLegIsRedialed
CHECK_DEADLOCK FALSE
