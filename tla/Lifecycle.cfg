SPECIFICATION FairSpec
INVARIANTS TypeOK CallbackHasState ReleasesAreValid ReleasedAtExit
PROPERTY SignalEnds
\* The process stops at its exit.
CHECK_DEADLOCK FALSE
