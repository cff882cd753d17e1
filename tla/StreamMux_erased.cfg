SPECIFICATION Spec
CONSTANTS
  s1 = s1
  s2 = s2
  none = none
  Streams <- OneStream
  Ports = {1}
  NoSocket = none
  Serial = TRUE
  Burst = 2
  MaxPackets = 1
  MaxPulls = 1
CHECK_DEADLOCK FALSE
INVARIANT HandlersAreInstalled
