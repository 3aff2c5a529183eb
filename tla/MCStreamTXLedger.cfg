\* Two records on two legs, with two attempts that are sent, cleared late or
\* invalidated with their leg, while ACKs (one from the future) retire records.
SPECIFICATION LedgerSpec
CONSTANTS
    Legs = {l0, l1}
    Sizes = {2}
    MaxRecords = 2
    MaxClock = 2
    MaxFutureACK = 1
SYMMETRY LegSymmetry
INVARIANTS LedgerTypeOK OutstandingIsWindow FrontierStamped FrameAccounting ByteAccounting
PROPERTY RetiredOnlyByACK
CHECK_DEADLOCK FALSE
