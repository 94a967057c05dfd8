CONSTANTS
    Scenarios <- NoFault
    GroupSize = 0
    SeqSpace = 64
    RingCap = 2
    IndexMod = 8
    Jitter = 3
    Period = 1
    Lost = Lost
    Nothing = Nothing
SPECIFICATION FairSpec
CHECK_DEADLOCK FALSE
PROPERTY PlaybackStarts
