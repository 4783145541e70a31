SPECIFICATION FairSpec
CONSTANTS
    out = out
    in1 = in1
    in2 = in2
    Outgoing <- OneOut
    Incoming <- TwoIn
    Together <- Pairs
    MaxEvents = 2
\* The transfers end, or the loop does.
CHECK_DEADLOCK FALSE
INVARIANTS
    TypeOK
    RowFollowsState
    AskedOnce
PROPERTIES
    IsAnswered
    CancelRemoves
