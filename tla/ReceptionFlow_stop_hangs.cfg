SPECIFICATION FairSpec
CONSTANTS
    RingSize = 3
    MaxPackets = 2
    MaxBacklog = 1
    EmptyPackets = {}
    Ignored = {}
    Pullers = {}
    TimedPullers = {}
    MaxStarts = 1
    MaxFaults = 0
    u1 = u1
    u2 = u2
PROPERTY StopReturns
CHECK_DEADLOCK FALSE
