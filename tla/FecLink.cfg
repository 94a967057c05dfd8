CONSTANTS
    Scenarios <- FaultsOrRestart
    GroupSize = 2
    SeqSpace = 64
    MaxEmitted = 99
    Lost = Lost
    NoPacket = NoPacket
SPECIFICATION FairSpec
CHECK_DEADLOCK FALSE
INVARIANTS TypeOK TellsRestarts GroupAligned ParityCoversGroup EmittedWasSent EmittedInOrder OneLossRecovered
PROPERTIES DeliveredIsEmitted
