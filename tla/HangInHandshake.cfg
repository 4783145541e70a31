SPECIFICATION FairSpec
CONSTANTS
    MaxLinks = 1
    MaxTries = 2
    AddressOnly <- ByAddress
    MaxCalls <- Both
    MaxDisconnects <- None
    MaxSends <- OnlyA
    MaxReplies <- None
    MayRefuse = TRUE
    MayCut <- NoLink
    MayFreeze <- AllNodes
    Checking <- AllNodes
CHECK_DEADLOCK FALSE
INVARIANTS
    TypeOK
PROPERTIES
    CallEnds
    HandshakeEnds
