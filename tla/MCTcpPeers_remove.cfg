SPECIFICATION FairSpec
CONSTANTS
  Remote = {mme}
  Configured = {mme}
  Fd = {1, 2}
  MainFd = mainFd
  Nobody = nobody
  Kinds = {"tcp"}
PROPERTIES RoundsEnd
CHECK_DEADLOCK FALSE
