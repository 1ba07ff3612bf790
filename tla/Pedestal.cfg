SPECIFICATION FairSpec
CONSTANTS
  Channels <- TwoChannels
  FrameSize = 14
  HkSize = 3
  MaxEvents = 3
  MaxDel = 2
  Registers <- AllRegisters
  WholeFiles <- FilesWritten
  Damaged <- WithOneDamage
INVARIANTS
  TypeOK
  FramesGenuine
  IntactFramesReturned
  EventsGenuine
  DamageContained
  MediansCentral
  RegisterFromWholeOutput
  RegisterAligns
PROPERTIES
  Terminates
CHECK_DEADLOCK FALSE
