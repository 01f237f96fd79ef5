SPECIFICATION SpecRewrite
CONSTANTS
    NStreams = 2
    MaxLen = 1
    InitWindow = 1
    MaxWindow = 2
    Deltas <- MCDeltas
    InitWindows <- MCInitWindows
    MaxSettings = 1
    StreamLimits = {1, 2}
    FlushAt = 2
    BufFull = 2
INVARIANTS PopFrontSound
CHECK_DEADLOCK FALSE
