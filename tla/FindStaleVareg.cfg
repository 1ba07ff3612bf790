SPECIFICATION Spec
CONSTANTS
  s1 = s1
  s2 = s2
  a1 = a1
  a2 = a2
  f1 = f1
  f2 = f2
  Servers <- TwoServers
  Addresses <- OneAddress
  Files <- OneFile
  ServerMayHang = FALSE
INVARIANTS
  CalibrationCorrectsCurrent
CHECK_DEADLOCK FALSE
