SPECIFICATION Spec
CONSTANTS
  Socks = {s1, s2}
  NoSock = NoSock
  Calls = {c1}
  Uins = {u1}
  NoUin = NoUin
INVARIANT EventMakesLoggedIn
CHECK_DEADLOCK FALSE
