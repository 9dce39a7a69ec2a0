SPECIFICATION FairSpec
CONSTANTS
  Remote = {enb}
  Configured = {enb}
  Period = 1
  Probes = 2
  ReestDelay = 3
  Refills = {TRUE, FALSE}
  TaskId = {1, 2, 3, 4, 5, 6, 7, 8}
  NoTask = noTask
  MaxHeard = 2
INVARIANTS LostTaskWaitsForProbes
PROPERTIES LostPeersTriedAgain
CHECK_DEADLOCK FALSE
