SPECIFICATION FairSpec
CONSTANT MaxSamples = 5
INVARIANTS TypeOK DrainedBeforeExit
PROPERTIES EveryBufferIsSent StopWithNextBuffer
CHECK_DEADLOCK FALSE
