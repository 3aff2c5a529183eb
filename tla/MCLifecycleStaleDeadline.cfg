\* No replacements: two ordinary carrier failures are enough.
SPECIFICATION SafeSpec
CONSTANTS
    LegCount = 2
    MaxFailures <- FirstReady
    Replaceable = {}
    ReplaceJoining = FALSE
PROPERTY FreshRecoveryTimeout
CHECK_DEADLOCK FALSE
