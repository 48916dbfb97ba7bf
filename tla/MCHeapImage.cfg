CONSTANTS
  PAGE_SIZE = 4
  MAX_FRAMES = 8
  MAP_MAX = 3
  KernelEnd = 5
  Maps <- MCMaps
  Requests <- MCRequests
  HEAP_PAGES = 2
  WORD = 256
  Increments <- MCIncrements
  Images <- ModuleNext
SPECIFICATION BootSpec
\* A panic stops the machine.
CHECK_DEADLOCK FALSE
INVARIANT
  ImageIntact
