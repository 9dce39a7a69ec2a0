SPECIFICATION Spec
CONSTANTS
  Remote = {mme, enb}
  Configured = {enb}
  Period = 1
  Probes = 2
  ReestDelay = 4
  Refills = {TRUE}
  TaskId = {1, 2, 3, 4, 5}
  NoTask = noTask
INVARIANTS TypeOK EntriesOwnTheirTasks NeverForgotten SilentPeersDropped LostTaskWaitsForProbes
CHECK_DEADLOCK FALSE
