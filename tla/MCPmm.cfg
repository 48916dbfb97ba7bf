CONSTANTS
  PAGE_SIZE = 4
  MAX_FRAMES = 8
  MAP_MAX = 3
  KernelEnd = 5
  Maps <- MCMaps
  Requests <- MCRequests
SPECIFICATION Spec
INVARIANTS
  TypeOK
  FramesConserved
  LentOnce
  NothingStranded
PROPERTIES
  ImplementsAllocator
  CallReturns
