\* Two legs, four ordinals, room for two retained frames: duplicates, holes and the
\* reorder overflow all occur; an ACK is published before, while and after a carrier
\* joins, fails and is replaced, with and without another one up.
SPECIFICATION FairSpec
CONSTANTS
    Legs = {l0, l1}
    MaxSeq = 4
    MaxArrivals <- Arrivals
    MaxReorderFrames = 2
    MaxAttaches = 2
INVARIANTS TypeOK InOrderDelivery AckNeverAhead WindowAtRest GapTruthful
PROPERTIES GapKeepsItsAge AckReachesEveryLeg
CHECK_DEADLOCK FALSE
