SPECIFICATION FairSpec
CONSTANTS
  Remote = {mme, enb}
  Configured = {mme}
  Assoc = {1, 2, 3}
  Fd = {1, 2, 3}
  Buf = {1, 2, 3}
  MainFd = mainFd
  MainBuf = mainBuf
  Closed = closed
  MaxQueue = 1
INVARIANTS TypeOK BuffersNotShared PeerFoundByHandler TableOwnsDescriptors ReestablishmentsConserved
PROPERTIES PeersLeaveWhenOver RoundsEnd DeadPeersRemoved
CHECK_DEADLOCK FALSE
