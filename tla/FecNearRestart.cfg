CONSTANTS
    Scenarios <- NearRestart
    GroupSize = 2
    SeqSpace = 64
    MaxEmitted = 99
    Lost = Lost
    NoPacket = NoPacket
SPECIFICATION FairSpec
CHECK_DEADLOCK FALSE
INVARIANT EmittedWasSent
