SPECIFICATION FairSpec
CONSTANTS
    MaxLinks = 1
    MaxTries = 1
    AddressOnly <- BySomeName
    MaxCalls <- OnlyA
    MaxDisconnects <- None
    MaxSends <- None
    MaxReplies <- None
    MayRefuse = FALSE
    MayCut <- NoLink
    MayFreeze <- JustB
    Checking <- JustA
CHECK_DEADLOCK FALSE
PROPERTIES
    HangNoticed
