CONSTANTS
    GroupSize = 2
    SeqSpace = 64
    Capacity = 6
    Fade = 2
    Setups <- MCSetups
    MaxFrames = 12
    MaxLost = 2
    MaxStray = 1
    MaxFailed = 1
    Lost = Lost
    NoPacket = NoPacket
SPECIFICATION Spec
\* The sender stops capturing at its bound.
CHECK_DEADLOCK FALSE
INVARIANTS TypeOK HeardWasSent EachFrameOnce TimelineKept ConcealedFromLast GroupRebuilt
