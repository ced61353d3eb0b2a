SPECIFICATION Spec
CONSTANTS
    Retries = 2
    Boards <- MCBoards
    UbootImages <- MCUbootImages
    FipImages <- MCFipImages
INVARIANTS RoundsReachLoader
