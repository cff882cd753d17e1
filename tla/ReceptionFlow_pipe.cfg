SPECIFICATION Spec
CONSTANTS
    RingSize = 4
    MaxPackets = 6
    MaxBacklog = 2
    EmptyPackets = {4}
    Ignored = {3}
    Pullers = {u1, u2}
    TimedPullers = {u2}
    MaxStarts = 2
    MaxFaults = 0
    u1 = u1
    u2 = u2
INVARIANTS TypeOK StoppedIsQuiescent ThreadsOutliveTraffic HandledSlotIsNotWritten
PROPERTY PipeSpec
CHECK_DEADLOCK FALSE
