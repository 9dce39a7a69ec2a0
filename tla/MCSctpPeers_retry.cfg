SPECIFICATION Spec
CONSTANTS
  Remote = {mme, enb}
  Configured = {mme}
  Assoc = {1, 2}
  Fd = {1, 2}
  Buf = {1, 2}
  MainFd = mainFd
  MainBuf = mainBuf
  Closed = closed
  MaxQueue = 1
PROPERTIES ReestablishmentHarmless
CHECK_DEADLOCK FALSE
