SPECIFICATION FairSpec
CONSTANTS
  d1 = d1
  d2 = d2
  x1 = x1
  v0 = v0
  v1 = v1
  none = none
  Devices <- OneDevice
  Strangers <- OneStranger
  Values <- TwoValues
  Initial <- v0
  Unread <- none
  MaxAttempts = 1
  QueueSize = 2
  MaxTasks = 3
INVARIANTS
  TypeOK
  SetTakesEffect
  GetShowsRegister
PROPERTY CommandReturns
CHECK_DEADLOCK FALSE
