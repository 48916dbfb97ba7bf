-------------------------------- MODULE Load --------------------------------
(***************************************************************************)
(* The command `load' as a whole (cmd_load): Transfer receives a file into *)
(* a block of the heap, elf_load takes its headers and segments from there *)
(* to where the program is linked, and the program runs.  All of them, and *)
(* every program loaded earlier, use one memory, and nothing but the       *)
(* numbers in the file keeps the parts of it apart.                        *)
(*                                                                         *)
(* elf_load looks at the headers where they lie: each access below reads   *)
(* memory as it is by then.                                                *)
(***************************************************************************)
EXTENDS Transfer, ElfFormat

CONSTANTS
  Ehdr(_),        \* what the bytes of a file header say
  Phdr(_),        \* what the bytes of a program header say
  ProgramBlocks,  \* what a program asks of heap_sbrk
  ProgramBytes    \* what it writes

FileHeader == [elf64 : BOOLEAN, entry : Words, phoff : Words,
               phentsize : Words, phnum : Nat]

ASSUME LoadAssumption ==
  /\ Address = Words
  /\ KELF_MAX_SIZE \in Words
  /\ \A b \in [1 .. EHDR -> Byte] : Ehdr(b) \in FileHeader
  /\ \A b \in [1 .. PHDR -> Byte] : Phdr(b) \in ProgramHeader
  /\ ProgramBlocks \subseteq Nat \ {0}
  /\ ProgramBytes \subseteq Byte

VARIABLES
  i,        \* elf_load: the loop variable, counted from 1
  loaded,   \* elf_load: a segment has been loaded
  entry     \* cmd_load: what elf_load returned

elf == <<i, loaded, entry>>
vars == <<transfer, elf>>

\* Of the variables of Transfer, elf_load and programs change mem, pc and heap_cur.
received == <<port, got, buf, size, room, taken, sent, loads>>

----------------------------------------------------------------------------
(* elf_load, on the block at buf.                                          *)

BytesAt(m, a, n) == [k \in 1 .. n |-> m[Plus(a, k - 1)]]

\* A file of n bytes with header h.
FileOf(h, n) == [elf64 |-> h.elf64, entry |-> h.entry, phoff |-> h.phoff,
                 phentsize |-> h.phentsize, phnum |-> h.phnum, size |-> n]

eh(m) == FileOf(Ehdr(BytesAt(m, buf, EHDR)), size)
ph(m) == Phdr(BytesAt(m, Plus(buf, TableOffset(eh(m), i)), PHDR))

\* km_memcpy steps upwards, so where the blocks overlap it comes to read
\* what it has written d bytes before.
Copied(m, dst, src, n) ==
  LET d == Minus(dst, src)
      From(k) == IF d = 0 THEN k ELSE k % d
  IN  [a \in Address |-> IF Minus(a, dst) < n THEN m[Plus(src, From(Minus(a, dst)))] ELSE m[a]]

Zeroed(m, dst, n) == [a \in Address |-> IF Minus(a, dst) < n THEN 0 ELSE m[a]]

\* The rest of the segment.  Its header lies where it was found before the
\* copy, and is read once more.
PhAfter(m) == Phdr(BytesAt(m, Plus(buf, TableOffset(eh(mem), i)), PHDR))

TailCleared_Never(m) == m
TailCleared(m) ==
  LET p == PhAfter(m)
  IN  IF p.memsz > p.filesz THEN Zeroed(m, Plus(p.vaddr, p.filesz), Minus(p.memsz, p.filesz))
      ELSE m

Return(value) ==
  /\ entry' = value
  /\ pc' = IF value # 0 THEN "call" ELSE "prompt"
  /\ UNCHANGED <<received, heap_cur>>

RejectFile == /\ pc = "elf"
              /\ ~HeaderAccepted(eh(mem))
              /\ Return(0)
              /\ UNCHANGED <<mem, i, loaded>>

AcceptFile == /\ pc = "elf"
              /\ HeaderAccepted(eh(mem))
              /\ pc' = "table" /\ i' = 1 /\ loaded' = FALSE
              /\ UNCHANGED <<received, heap, entry>>

InTable == pc = "table" /\ i <= eh(mem).phnum

RejectHeader == /\ InTable
                /\ ~HeaderInFile(eh(mem), i)
                /\ Return(0)
                /\ UNCHANGED <<mem, i, loaded>>

SkipSegment == /\ InTable
               /\ HeaderInFile(eh(mem), i)
               /\ ~ph(mem).load
               /\ i' = i + 1
               /\ UNCHANGED <<received, heap, pc, loaded, entry>>

RejectSegment == /\ InTable
                 /\ HeaderInFile(eh(mem), i)
                 /\ ph(mem).load
                 /\ ~SegmentAccepted(eh(mem), ph(mem))
                 /\ Return(0)
                 /\ UNCHANGED <<mem, i, loaded>>

LoadSegment ==
  /\ InTable
  /\ HeaderInFile(eh(mem), i)
  /\ ph(mem).load
  /\ SegmentAccepted(eh(mem), ph(mem))
  /\ \E m \in {Copied(mem, ph(mem).vaddr, Plus(buf, ph(mem).offset), ph(mem).filesz)} :
       mem' = TailCleared(m)
  /\ loaded' = TRUE /\ i' = i + 1
  /\ UNCHANGED <<received, heap_cur, pc, entry>>

Finish == /\ pc = "table"
          /\ i > eh(mem).phnum
          /\ Return(IF loaded THEN eh(mem).entry ELSE 0)
          /\ UNCHANGED <<mem, i, loaded>>

Loads == \/ RejectFile \/ AcceptFile
         \/ RejectHeader \/ SkipSegment \/ RejectSegment \/ LoadSegment
         \/ Finish

----------------------------------------------------------------------------
(* The file as the host sent it.                                           *)

Image == Data(taken)
SentHeader == FileOf(Ehdr(SubSeq(Image, 1, EHDR)), Len(Image))
SentSegment(k) ==
  LET off == TableOffset(SentHeader, k) IN Phdr(SubSeq(Image, off + 1, off + PHDR))

SentSegments == {k \in 1 .. SentHeader.phnum : SentSegment(k).load}
Covers(k, a) == /\ SentSegment(k).vaddr <= a
                /\ a < SentSegment(k).vaddr + SentSegment(k).memsz

\* The program is as its linker makes it (prog.ld): no segment larger in the
\* file than in memory, none starting above the window or within kernel and heap.
LinkedAboveHeap ==
  pc \in {"table", "call", "run"} =>
    \A k \in 1 .. SentHeader.phnum :
      LET end == SentHeader.phoff + (k - 1) * SentHeader.phentsize + PHDR
          s == SentSegment(k)
      IN  /\ end < WORD
          /\ end <= Len(Image) /\ s.load =>
               /\ s.filesz <= s.memsz /\ s.vaddr <= PROG_LOAD_MAX
               /\ s.vaddr < PROG_LOAD_MIN \/ HeapLimit <= s.vaddr

----------------------------------------------------------------------------
(* The program: it takes memory and writes there and on its own segments,  *)
(* and ends, by itself or by a fault.                                      *)

CallProgram == /\ pc = "call"
               /\ pc' = "run"
               /\ UNCHANGED <<received, heap, elf>>

Fills(S, b) == mem' = [a \in Address |-> IF a \in S THEN b ELSE mem[a]]

ProgramWrites(b) == /\ pc = "run"
                    /\ Fills({a \in Address : \E k \in SentSegments : Covers(k, a)}, b)
                    /\ UNCHANGED <<received, heap_cur, pc, elf>>

ProgramSbrk(n, b) == /\ pc = "run"
                     /\ Granted(n)
                     /\ Taken(n)
                     /\ Fills(heap_cur .. (heap_cur + n - 1), b)
                     /\ UNCHANGED <<received, pc, elf>>

ProgramEnds == /\ pc = "run"
               /\ pc' = "prompt"
               /\ UNCHANGED <<received, heap, elf>>

Program == \/ \E b \in ProgramBytes : \/ ProgramWrites(b)
                                      \/ \E n \in ProgramBlocks : ProgramSbrk(n, b)
           \/ ProgramEnds

----------------------------------------------------------------------------
Init == TransferInit /\ i = 1 /\ loaded = FALSE /\ entry = 0

Shell == \/ Receives /\ UNCHANGED elf
         \/ Loads
         \/ CallProgram

Next == \/ \E f \in Sendings : HostSends(f) /\ UNCHANGED elf
        \/ Arrive /\ UNCHANGED elf
        \/ LoadCommand /\ UNCHANGED elf
        \/ Shell
        \/ Program

Spec == Init /\ [][Next]_vars /\ WF_vars(Arrive /\ UNCHANGED elf) /\ WF_vars(Shell)

----------------------------------------------------------------------------
(* Type invariant.                                                         *)
TypeOK == /\ TransferTypeOK
          /\ pc \in {"prompt", "magic", "size", "data", "elf", "table", "call", "run"}
          /\ i \in Nat /\ loaded \in BOOLEAN /\ entry \in Words
          /\ pc \in {"call", "run"} => entry # 0

(***************************************************************************)
(* When cmd_load calls a program, memory holds the program the host has    *)
(* sent, whatever has been loaded, run and written before: the segments    *)
(* pass the checks of elf_load, each address has what the last segment     *)
(* that covers it puts there, a byte of the file or zero, and the entry    *)
(* point is the file's (elf.h, "Each PT_LOAD segment is copied to its      *)
(* p_vaddr and its BSS tail is zeroed").                                   *)
(***************************************************************************)
ProgramAsSent ==
  pc = "call" =>
    /\ entry = SentHeader.entry
    /\ \A k \in SentSegments : SegmentAccepted(SentHeader, SentSegment(k))
    /\ \A k \in SentSegments, a \in Address :
         /\ Covers(k, a)
         /\ \A l \in SentSegments : l > k => ~Covers(l, a)
         => LET s == SentSegment(k)
            IN  mem[a] = IF a < s.vaddr + s.filesz
                           THEN Image[s.offset + (a - s.vaddr) + 1] ELSE 0

(***************************************************************************)
(* Nothing in `load' has a timeout: it comes to the program or back to the *)
(* prompt, or it waits for bytes the host has not sent.                    *)
(***************************************************************************)
WaitsOnlyForHost ==
  pc \notin {"prompt", "run"} ~> \/ pc \in {"prompt", "run"}
                                 \/ Receiving /\ fifo = <<>> /\ wire = <<>>

Outcome(l) == IF l.ok THEN Contents(l) ELSE <<>>
Outcomes == [k \in DOMAIN loads |-> Outcome(loads[k])]

\* What is on its way: to the load that is reading, or to the next one.
Pending == (IF Receiving THEN taken ELSE <<>>) \o (fifo \o wire)

FS == INSTANCE FrameStream WITH
        stream   <- Pending,
        waiting  <- Receiving,
        opened   <- com2_initialized,
        outcomes <- Outcomes

\* The size field means to transfer_recv_elf what it means to FrameStream.
SizesAgree == \A b \in [1 .. SIZE_BYTES -> Byte] : FS!SizeOf(b) = Value(b)

(***************************************************************************)
(* Byte by byte, through port, header checks and heap, `load' implements   *)
(* the stream of frames -- with broken frames, with a shell out of step,   *)
(* and with the outcomes read back from memory as it is now.               *)
(***************************************************************************)
ImplementsStream == FS!Spec
============================================================================
