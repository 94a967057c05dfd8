\* rb_reset on the network thread while the audio callback is in rb_read.
CONSTANTS
    Cap = 2
    MaxRequest = 2
    MaxFrames = 4
    IndexMod = 64
    NoFrame = NoFrame
SPECIFICATION RacySpec
INVARIANT NoOtherWriter
CHECK_DEADLOCK FALSE
