CONSTANTS
    Scenarios <- Faults
    GroupSize = 0
    SeqSpace = 64
    RingCap = 3
    IndexMod = 8
    Jitter = 2
    Period = 1
    Lost = Lost
    Nothing = Nothing
SPECIFICATION FairSpec
CHECK_DEADLOCK FALSE
INVARIANTS TypeOK TimelineAligned TimelineOrdered LossCounted
PROPERTIES StartsPrimed PlaybackStarts
