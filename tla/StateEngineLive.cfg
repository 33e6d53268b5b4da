SPECIFICATION FairSpec
CONSTANTS
  a = a
  b = b
  u = u
  Names = {a}
  Uins = {u}
  NoUin = NoUin
  Deployed <- OneLocal
  MaxLinks = 1
  ListFails = TRUE
  Sources = {"ws", "http", "onebot"}
PROPERTY SilentIsLoggedOut
