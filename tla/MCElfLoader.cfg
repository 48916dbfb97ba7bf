CONSTANTS
  WORD = 16
  PROG_LOAD_MIN = 4
  PROG_LOAD_MAX = 12
  EHDR = 2
  PHDR = 2
  Files <- LinkedFiles
SPECIFICATION Spec
\* elf_load returns.
CHECK_DEADLOCK FALSE
INVARIANTS
  TypeOK
  WritesInWindow
  AcceptsExactly
  ProgramInPlace
