SPECIFICATION Spec
CONSTANTS
  d1 = d1
  d2 = d2
  Detectors <- OneDetector
  Duration = 1
  PollInterval = 1
  MaxMessages = 1
  ServerMayHang = FALSE
  MaxRuns = 1
  MaxFrames = 0
INVARIANT StatusTellsOutcome
