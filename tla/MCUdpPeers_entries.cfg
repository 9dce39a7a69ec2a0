SPECIFICATION Spec
CONSTANTS
  Remote = {enb}
  Configured = {enb}
  Period = 1
  Probes = 3
  ReestDelay = 5
  Refills = {TRUE}
  TaskId = {1, 2, 3, 4, 5, 6}
  NoTask = noTask
INVARIANTS OneEntryPerEndpoint
CHECK_DEADLOCK FALSE
