SPECIFICATION FairSpec
CONSTANTS
    p1 = p1
    t1 = t1
    Peer <- OnePeer
    Typed <- OneTyped
    Nobody = Nobody
    MaxLapses = 2
\* Everybody has left: nothing need happen any more.
CHECK_DEADLOCK FALSE
INVARIANTS
    TypeOK
    ListFollowsTable
    ListedIsStored
PROPERTIES
    PresentIsListed
    LeaverIsUnlisted
