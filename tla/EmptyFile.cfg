SPECIFICATION FairSpec
CONSTANTS
    NumChunks = 0
    MaxOps <- NoOps
    MaxDamage = 0
    MaxDrops = 0
    ReadMayFail = FALSE
    MaxRefusals = 0
    MayMix = TRUE
PROPERTY AcceptedIsSaved
\* Transfers end: the system may stop.
CHECK_DEADLOCK FALSE
