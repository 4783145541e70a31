SPECIFICATION FairSpec
CONSTANTS
    MaxLinks = 2
    MaxTries = 1
    AddressOnly <- ByAddress
    MaxCalls <- TwiceAOnceB
    MaxDisconnects <- OnlyA
    MaxSends <- None
    MaxReplies <- OnlyA
    MayRefuse = FALSE
    MayCut <- FirstLink
    MayFreeze <- Nobody
    Checking <- Nobody
CHECK_DEADLOCK FALSE
INVARIANTS
    EntryIsLive
    KeysAgree
    Reachable
PROPERTIES
    BothEndsEnd
    SessionForms
