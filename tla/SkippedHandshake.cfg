SPECIFICATION Spec
CONSTANTS
    MaxLinks = 2
    MaxTries = 1
    AddressOnly <- BySomeName
    MaxCalls <- TwiceA
    MaxDisconnects <- OnlyA
    MaxSends <- None
    MaxReplies <- None
    MayRefuse = FALSE
    MayCut <- NoLink
    MayFreeze <- Nobody
    Checking <- Nobody
CHECK_DEADLOCK FALSE
INVARIANTS
    LoopIsSecure
