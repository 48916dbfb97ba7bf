------------------------------ MODULE ElfFormat ------------------------------
(***************************************************************************)
(* What elf.c reads of an ELF file and the checks it makes on it.  Sizes,  *)
(* offsets and addresses are unsigned words, and every addition and        *)
(* subtraction of the code wraps.                                          *)
(***************************************************************************)
EXTENDS Integers

CONSTANTS
  WORD,            \* number of values of a uint64_t
  PROG_LOAD_MIN,   \* the window programs are loaded in: elf_arch.h
  PROG_LOAD_MAX,
  EHDR,            \* sizes of the file header and of a program header
  PHDR

Words == 0 .. (WORD - 1)

ASSUME ElfAssumption ==
  /\ WORD \in Nat \ {0}
  /\ PROG_LOAD_MIN \in Words
  /\ PROG_LOAD_MAX \in Words
  /\ PROG_LOAD_MIN <= PROG_LOAD_MAX
  /\ EHDR \in Nat \ {0}
  /\ PHDR \in Nat \ {0}

\* `load' is the verdict on p_type.
ProgramHeader == [load : BOOLEAN, offset : Words, vaddr : Words,
                  filesz : Words, memsz : Words]

Plus(a, b) == (a + b) % WORD
Minus(a, b) == (a - b) % WORD

\* n bytes from address s on, as a pointer steps through them.
Bytes(s, n) == {a \in Words : Minus(a, s) < n}

----------------------------------------------------------------------------
(* The checks, as the code makes them, on a file f of which `elf64' is the *)
(* verdict on magic, class, type and machine.                              *)

HeaderAccepted(f) == /\ f.size >= EHDR
                     /\ f.elf64
                     /\ f.phoff # 0
                     /\ f.phentsize >= PHDR

TableOffset(f, k) == Plus(f.phoff, (k - 1) * f.phentsize)

HeaderInFile_OffByOne(f, k) == Plus(TableOffset(f, k), PHDR) < f.size
HeaderInFile(f, k) == Plus(TableOffset(f, k), PHDR) <= f.size

SegmentAccepted_NoMax(f, ph) ==
  /\ ph.vaddr >= PROG_LOAD_MIN
  /\ ph.filesz <= f.size /\ ph.offset <= Minus(f.size, ph.filesz)
SegmentAccepted(f, ph) ==
  /\ ph.vaddr >= PROG_LOAD_MIN
  /\ ph.memsz <= Minus(PROG_LOAD_MAX, ph.vaddr)
  /\ ph.filesz <= f.size /\ ph.offset <= Minus(f.size, ph.filesz)
============================================================================
