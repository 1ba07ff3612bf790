SPECIFICATION Spec
CONSTANTS
  d1 = d1
  d2 = d2
  Detectors <- TwoDetectors
  Duration = 2
  PollInterval = 1
  MaxMessages = 1
  ServerMayHang = TRUE
  MaxRuns = 2
  MaxFrames = 1
INVARIANTS
  TypeOK
  ReaderWithinScope
  CompletedIsGenuine
  CountersMatchFiles
  FailureExplained
  NoTerminate
  ServerLeftObservingExplained
  NoConcurrentReplacement
  CalibrationInputFinal
  PrintedResultIsRecorded
PROPERTIES
  ResultIsFinal
  ImplementsJob
SYMMETRY DetectorSymmetry
CHECK_DEADLOCK FALSE
