SPECIFICATION FairSpec
CONSTANTS
    NumChunks = 2
    MaxOps <- SenderOnce
    MaxDamage = 4
    MaxDrops = 1
    ReadMayFail = TRUE
    MaxRefusals = 1
    MayMix = FALSE
INVARIANT ReceiverInv
INVARIANT CompletedSentAll
INVARIANT RetryCapped
PROPERTY SenderSettles
PROPERTY AcceptedIsSaved
\* Transfers end: the system may stop.
CHECK_DEADLOCK FALSE
