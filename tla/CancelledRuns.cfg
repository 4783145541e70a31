SPECIFICATION Spec
CONSTANTS
    NumChunks = 1
    MaxOps <- SenderOnce
    MaxDamage = 0
    MaxDrops = 0
    ReadMayFail = FALSE
    MaxRefusals = 0
    MayMix = TRUE
PROPERTY CancelIsFinal
\* Transfers end: the system may stop.
CHECK_DEADLOCK FALSE
