SPECIFICATION FairSpec
CONSTANTS
  Remote = {mme, hss}
  Configured = {mme}
  Fd = {1, 2}
  MainFd = mainFd
  Nobody = nobody
  Kinds = {"tcp", "dccp"}
INVARIANTS TypeOK PeerFoundByHandler TableOwnsDescriptors OneConnectionOfOurs
PROPERTIES OnlyRemoveHangs FailuresNoticed
CHECK_DEADLOCK FALSE
