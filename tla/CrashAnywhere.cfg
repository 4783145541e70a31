SPECIFICATION Spec
CONSTANTS
    NumChunks = 2
    TransferState <- TwoStates
    MaxLists = 2
    MaxCrashes = 1
CHECK_DEADLOCK FALSE
INVARIANTS
    TypeOK
    RowsHaveParent
    RowsFollow
    LoadedIsTrue
    RowsCanResume
