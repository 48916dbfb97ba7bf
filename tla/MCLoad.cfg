CONSTANTS
  BASE = 4
  MAGIC <- MCMagic
  SIZE_BYTES = 2
  KELF_MAX_SIZE = 4
  Address <- Words
  HEAP_BASE = 2
  HEAP = 7
  FIFO = 2
  Sendings <- MCSendings
  MaxSent = 3
  WORD = 16
  PROG_LOAD_MIN = 2
  PROG_LOAD_MAX = 12
  EHDR = 1
  PHDR = 1
  Ehdr <- MCEhdr
  Phdr <- AboveHeap
  ProgramBlocks = {2}
  ProgramBytes = {3}
SPECIFICATION Spec
INVARIANTS
  TypeOK
  FramesReceived
  ProgramAsSent
PROPERTIES
  BuffersKept
  WaitsOnlyForHost
  ImplementsStream
\* The shell waits for ever once the host has stopped.
CHECK_DEADLOCK FALSE
