\* Four slots, requests of 1..5 frames: every split of a block at the end of
\* the buffer, and requests longer than the ring.
CONSTANTS
    Cap = 4
    MaxRequest = 5
    MaxFrames = 8
    IndexMod = 64
    NoFrame = NoFrame
SPECIFICATION FairSpec
INVARIANTS TypeOK IndexOrder NoSharedSlot RingInv
PROPERTIES IsFrameQueue EveryFrameLeaves
CHECK_DEADLOCK FALSE
