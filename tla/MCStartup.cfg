SPECIFICATION Spec
CONSTANTS
  Word <- AnyWord
  IPv4 = {"127.0.0.1"}
  IPv6 = {"::1"}
  inet_pton <- Ip
  OtherFlag = {"-5"}
  Number <- Numbers
  toLower <- Lower
  Sizes = 1048576
  CommandLines <- AnyCommandLine
  Fd = {3, 4, 5, 6, 7}
  Localhost = "127.0.0.1"
  MaxArgs = 4
INVARIANTS
  TypeOK ArgumentsMeanWhatTheySay LocalsToBind AddressesSurvivePacking
  PredefinedTasksMeet DescriptorsOwned KeysNameDescriptors
CHECK_DEADLOCK FALSE
