SPECIFICATION PromptSpec
CONSTANTS
  Socks = {s1, s2}
  NoSock = NoSock
  Calls = {c1, c2}
  Uins = {u1}
  NoUin = NoUin
INVARIANTS TypeOK ConnectedHasSocket NoOrphanCall LatestKeepsProxy
PROPERTY LostSocketEndsCalls
CHECK_DEADLOCK FALSE
