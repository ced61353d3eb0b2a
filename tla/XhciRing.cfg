SPECIFICATION Spec
CONSTANTS
    Bulk <- MCBulk
    Trbs = 4
    EventTrbs = 4
    MaxSkips = 2
    MaxTds = 3
    MaxChunks = 2
    MaxStray = 2
    MaxStalls = 1
INVARIANT AnswerIsOwn
PROPERTIES RunsAsQueued Returns
