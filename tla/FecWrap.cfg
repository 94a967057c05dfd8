CONSTANTS
    Scenarios <- LongStream
    GroupSize = 2
    SeqSpace = 32
    MaxEmitted = 0
    Lost = Lost
    NoPacket = NoPacket
SPECIFICATION FairSpec
CHECK_DEADLOCK FALSE
PROPERTY LoopReturns
