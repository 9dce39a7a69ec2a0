SPECIFICATION FairSpec
CONSTANTS
  NetTask = {mme, enb1, enb2}
  Mortal = {enb2}
  Text = {hello}
  Quit = q
  Empty = none
  MaxLines = 2
INVARIANTS TypeOK QuitNeverLost
PROPERTIES QuitEndsProcess ImplementsBroadcast
CHECK_DEADLOCK FALSE
