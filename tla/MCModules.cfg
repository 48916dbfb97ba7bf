CONSTANTS
  MAX_MODULES = 3
  MAX_REGIONS = 3
  Names <- MCNames
  Regions = {"r1", "r2"}
  BootInfos <- MCBootInfos
SPECIFICATION Spec
\* A panic stops the machine.
CHECK_DEADLOCK FALSE
INVARIANTS
  TypeOK
  BootInfoKept
  CalledOnce
  UtilitiesFirst
  ShellChoice
