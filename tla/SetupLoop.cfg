SPECIFICATION ShellSpec
CONSTANTS MaxLoads = 2 MayFail = FALSE
CHECK_DEADLOCK FALSE

PROPERTY SetupLeadsIn
