SPECIFICATION Spec
CONSTANTS
  AccessUnits <- FourUnits
  PayloadSize = 8
  SeqSpace = 5
  FirstNumbers = {2, 4}
  RECEIVED_FRAMES = 5
  GcInterval = 1
  MaxDelay = 0
  KeepTrack = 1
  Lag = 1
  Duplicates = 1
  Restarts = 1
  MaxTime = 2
CHECK_DEADLOCK FALSE
INVARIANTS TypeOK WholeFrames FragmentsBelong ClosedFramesStayClosed AtMostOnce EveryNalArrives
PROPERTY StaleFramesAreCollected
