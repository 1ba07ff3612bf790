SPECIFICATION FairSpec
CONSTANTS
  d1 = d1
  d2 = d2
  Detectors <- OneDetector
  Duration = 1
  PollInterval = 1
  MaxMessages = 1
  ServerMayHang = TRUE
  MaxRuns = 1
  MaxFrames = 0
PROPERTY ExitCompletes
CHECK_DEADLOCK FALSE
