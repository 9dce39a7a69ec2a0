SPECIFICATION FairSpec
CONSTANTS
  Copies = 2
  QueueRoom = 3
  Room = 1
  MaxLines = 2
  MaxRuns = 2
CHECK_DEADLOCK FALSE
INVARIANTS
  TypeOK
  NamesOutliveOnlyACrash
PROPERTIES
  NoOrphan
  QuitEndsBoth
  ChannelsDrain
