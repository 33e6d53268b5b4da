SPECIFICATION TimedSpec
CONSTANTS
  a = a
  b = b
  u = u
  Names = {a}
  Uins = {u}
  NoUin = NoUin
  Deployed <- OneLocal
  MaxLinks = 1
  ListFails = FALSE
  Sources = {"ws"}
PROPERTY QuietPluginIsLoggedOut
