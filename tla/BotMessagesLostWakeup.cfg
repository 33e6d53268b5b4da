SPECIFICATION FairSpec
CONSTANTS
  Subs = {p}
  Cap = 2
  MaxMsgs = 2
PROPERTY EveryMessageDelivered
CHECK_DEADLOCK FALSE
