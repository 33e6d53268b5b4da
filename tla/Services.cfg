SPECIFICATION ServicesSpec
CONSTANTS
  Names = {a, b}
  QrStates = {"ok"}
  PageSize = 1
  Pages = {0, 1, 2}
  MaxChan = 1
  Patches = TRUE
  Nobody = Nobody
  Workers = {t, u}
  MaxPort = 2
  MaxLogins = 2
  MaxTroubles = 1
  Explicit = {1}
  Hazards = 1
  Loops = {k, l}
  Pids = {p, q}
INVARIANTS ServicesTypeOK InStep ReachesBot PortsHeld ShepherdKept
CHECK_DEADLOCK FALSE
