SPECIFICATION FairSpec
CONSTANTS
  Names = {a}
  QrStates = {"ok", "waiting"}
  PageSize = 1
  Pages = {0}
  MaxChan = 1
  Patches = FALSE
PROPERTY Converges
