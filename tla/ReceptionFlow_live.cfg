SPECIFICATION FairSpec
CONSTANTS
    RingSize = 4
    MaxPackets = 5
    MaxBacklog = 3
    EmptyPackets = {}
    Ignored = {2}
    Pullers = {u1}
    TimedPullers = {}
    MaxStarts = 2
    MaxFaults = 1
    u1 = u1
    u2 = u2
PROPERTIES NextNotificationRepairs StopReleasesPullers ReceiverObeysStop
CHECK_DEADLOCK FALSE
