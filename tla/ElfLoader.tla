------------------------------ MODULE ElfLoader ------------------------------
(***************************************************************************)
(* The ELF loader (elf.c): checks on the file header, then one pass over   *)
(* the program headers that checks and copies each PT_LOAD segment in      *)
(* turn.                                                                   *)
(*                                                                         *)
(* A byte of the file is identified with its offset, so memory shows, for  *)
(* each address, which byte of the file it was given.                      *)
(***************************************************************************)
EXTENDS Sequences, ElfFormat

CONSTANT Files     \* the files elf_load may be given

File == [size : Words, elf64 : BOOLEAN, entry : Words, phoff : Words,
         phentsize : Words, phdr : Seq(ProgramHeader)]

ASSUME FilesAssumption == Files \subseteq File

VARIABLES
  file,     \* the file elf_load was called with
  pc,       \* "call", "loop", "done"
  i,        \* the loop variable, counted from 1
  loaded,   \* a segment has been loaded
  memory,   \* what each address holds
  result    \* what elf_load returned

vars == <<file, pc, i, loaded, memory, result>>

Zero == -1         \* a byte cleared by km_memset
Untouched == -2    \* a byte elf_load has not written

\* km_memcpy of the file image, km_memset of the rest of the segment.
Placed_TailKept(ph) ==
  [a \in Words |-> IF a \in Bytes(ph.vaddr, ph.filesz)
                     THEN Plus(ph.offset, Minus(a, ph.vaddr))
                     ELSE memory[a]]
Placed(ph) ==
  [a \in Words |->
     IF ph.memsz > ph.filesz
          /\ a \in Bytes(Plus(ph.vaddr, ph.filesz), Minus(ph.memsz, ph.filesz))
       THEN Zero
     ELSE IF a \in Bytes(ph.vaddr, ph.filesz)
       THEN Plus(ph.offset, Minus(a, ph.vaddr))
     ELSE memory[a]]

----------------------------------------------------------------------------
Init == /\ file \in Files
        /\ pc = "call"
        /\ i = 1
        /\ loaded = FALSE
        /\ memory = [a \in Words |-> Untouched]
        /\ result = 0

Return(value) == pc' = "done" /\ result' = value

RejectFile == /\ pc = "call"
              /\ ~HeaderAccepted(file)
              /\ Return(0)
              /\ UNCHANGED <<file, i, loaded, memory>>

AcceptFile == /\ pc = "call"
              /\ HeaderAccepted(file)
              /\ pc' = "loop"
              /\ UNCHANGED <<file, i, loaded, memory, result>>

InTable == pc = "loop" /\ i <= Len(file.phdr)

RejectHeader == /\ InTable
                /\ ~HeaderInFile(file, i)
                /\ Return(0)
                /\ UNCHANGED <<file, i, loaded, memory>>

SkipSegment_Twice == /\ InTable
                     /\ HeaderInFile(file, i)
                     /\ ~file.phdr[i].load
                     /\ i' = i + 2
                     /\ UNCHANGED <<file, pc, loaded, memory, result>>
SkipSegment == /\ InTable
               /\ HeaderInFile(file, i)
               /\ ~file.phdr[i].load
               /\ i' = i + 1
               /\ UNCHANGED <<file, pc, loaded, memory, result>>

RejectSegment == /\ InTable
                 /\ HeaderInFile(file, i)
                 /\ file.phdr[i].load
                 /\ ~SegmentAccepted(file, file.phdr[i])
                 /\ Return(0)
                 /\ UNCHANGED <<file, i, loaded, memory>>

LoadSegment == /\ InTable
               /\ HeaderInFile(file, i)
               /\ file.phdr[i].load
               /\ SegmentAccepted(file, file.phdr[i])
               /\ memory' = Placed(file.phdr[i])
               /\ loaded' = TRUE
               /\ i' = i + 1
               /\ UNCHANGED <<file, pc, result>>

Finish == /\ pc = "loop"
          /\ i > Len(file.phdr)
          /\ Return(IF loaded THEN file.entry ELSE 0)
          /\ UNCHANGED <<file, i, loaded, memory>>

Next == \/ RejectFile \/ AcceptFile
        \/ RejectHeader \/ SkipSegment \/ RejectSegment \/ LoadSegment
        \/ Finish

Spec == Init /\ [][Next]_vars /\ WF_vars(Next)

----------------------------------------------------------------------------
(* Type invariant.                                                         *)
TypeOK ==
  /\ file \in File
  /\ pc \in {"call", "loop", "done"}
  /\ i \in 1 .. Len(file.phdr) + 1
  /\ loaded \in BOOLEAN
  /\ memory \in [Words -> Words \cup {Zero, Untouched}]
  /\ result \in Words

Written == {a \in Words : memory[a] # Untouched}

(***************************************************************************)
(* elf_load writes nothing outside the window programs may be loaded in    *)
(* (elf.c, "Overflow-safe address and size checks"; elf_arch.h,            *)
(* PROG_LOAD_MIN and PROG_LOAD_MAX).                                       *)
(***************************************************************************)
WritesInWindow ==
  \A a \in Written : PROG_LOAD_MIN <= a /\ a < PROG_LOAD_MAX

Segments == {k \in DOMAIN file.phdr : file.phdr[k].load}

(***************************************************************************)
(* What a reader of elf.h expects to be accepted, in plain arithmetic: the *)
(* header is right, the program headers lie in the file, each segment lies *)
(* in the window and its image in the file, and there is one.              *)
(***************************************************************************)
Acceptable ==
  /\ HeaderAccepted(file)
  /\ \A k \in DOMAIN file.phdr :
       file.phoff + (k - 1) * file.phentsize + PHDR <= file.size
  /\ \A k \in Segments :
       LET ph == file.phdr[k]
       IN  /\ PROG_LOAD_MIN <= ph.vaddr
           /\ ph.vaddr + ph.memsz <= PROG_LOAD_MAX
           /\ ph.offset + ph.filesz <= file.size
  /\ Segments # {}

(***************************************************************************)
(* elf_load returns the entry point of exactly the acceptable files, and 0 *)
(* for every other one.  (Whoever calls it takes 0 for a refusal: a file   *)
(* that is acceptable but for an entry point 0 is loaded and not run.)     *)
(***************************************************************************)
AcceptsExactly == pc = "done" => result = IF Acceptable THEN file.entry ELSE 0

Covers(k, a) == /\ file.phdr[k].vaddr <= a
                /\ a < file.phdr[k].vaddr + file.phdr[k].memsz

(***************************************************************************)
(* When elf_load returns an entry point, memory holds the program: at each *)
(* address, what the last segment that covers it puts there, a byte of the *)
(* file or zero; the rest is untouched.                                    *)
(***************************************************************************)
ProgramInPlace ==
  pc = "done" /\ result # 0 =>
    \A a \in Words :
      \/ /\ \A k \in Segments : ~Covers(k, a)
         /\ memory[a] = Untouched
      \/ \E k \in Segments :
           /\ Covers(k, a)
           /\ \A l \in Segments : l > k => ~Covers(l, a)
           /\ LET ph == file.phdr[k]
              IN  memory[a] = IF a < ph.vaddr + ph.filesz
                                THEN ph.offset + (a - ph.vaddr) ELSE Zero
============================================================================
