SPECIFICATION FairSpec
CONSTANT MaxFrames = 4
INVARIANTS TypeOK OneFrameAfterStop
PROPERTY StopWithNextFrame
CHECK_DEADLOCK FALSE
