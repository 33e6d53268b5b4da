SPECIFICATION Spec
CONSTANTS
  a = a
  b = b
  u = u
  Names = {a, b}
  Uins = {u}
  NoUin = NoUin
  Deployed <- TwoNodes
  MaxLinks = 2
  ListFails = FALSE
  Sources = {"ws"}
INVARIANTS TypeOK OfflineAlertsJustified OnlineAlertsJustified OnlineOnlyWithLink QrOnlyWhileRunning
PROPERTIES RunningNeverDroppedSilently NoSilentLogout
