SPECIFICATION FairSpec
CONSTANT MaxDepth <- DepthOfCode
INVARIANTS
  TypeOK
  FailFast
  InterruptStopsScript
  ExitCodeTells
PROPERTY InterruptEndsScript
