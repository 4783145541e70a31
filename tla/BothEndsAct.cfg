SPECIFICATION FairSpec
CONSTANTS
    NumChunks = 2
    MaxOps <- OneEach
    MaxDamage = 0
    MaxDrops = 0
    ReadMayFail = FALSE
    MaxRefusals = 1
    MayMix = TRUE
INVARIANT TypeOK
INVARIANT DeliveredWhole
INVARIANT Consent
INVARIANT LeftIsForgotten
INVARIANT AckedIsStored
PROPERTY DeliveryPromise
PROPERTY CancelReachesPeer
\* Transfers end: the system may stop.
CHECK_DEADLOCK FALSE
