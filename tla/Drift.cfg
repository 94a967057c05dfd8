CONSTANTS
    Taps = 4
    FifoCap = 19
    Unit = 2
    FifoTarget = 7
    SrcBufFrames = 9
    RingCap = 6
    IndexMod = 8
    Bend = 1
    Setups <- MCSetups
    Packets = {2}
SPECIFICATION FairSpec
INVARIANTS TypeOK NeverPastData FifoBounded NeverStarves
PROPERTIES NoOldFrames ResetCarriedOut
