SPECIFICATION Spec
CONSTANTS
    NStreams = 2
    MaxLen = 1
    InitWindow = 1
    MaxWindow = 1
    Deltas <- MCDeltas
    InitWindows <- MCInitWindows
    MaxSettings = 1
    StreamLimits = {2}
    FlushAt = 1
    BufFull = 1
INVARIANTS TypeOK QueuesSound WakeupPending ShutdownCounted
CHECK_DEADLOCK FALSE
