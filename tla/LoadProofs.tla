----------------------------- MODULE LoadProofs -----------------------------
(***************************************************************************)
(* Proofs about Load, for every host, every program, every layout of the   *)
(* headers, and every size of port, heap and memory.  What is said of      *)
(* memory holds as long as the programs are linked above the heap.         *)
(***************************************************************************)
EXTENDS Load, SequenceTheorems, TLAPS

----------------------------------------------------------------------------
(* The constants, and words of memory.                                     *)

(* What is assumed of the constants.                                       *)
LEMMA ConstantFacts ==
  /\ BASE \in Nat \ {0} /\ 0 \in Byte
  /\ WORD \in Nat \ {0} /\ 0 \in Words /\ Words \subseteq Nat /\ Address = Words
  /\ HEAP_BASE \in Nat /\ HEAP \in Nat \ {0}
  /\ HeapLimit \in Nat /\ HeapLimit = HEAP_BASE + HEAP /\ HeapLimit <= WORD
  /\ \A a \in HEAP_BASE .. (HeapLimit - 1) : a \in Address
  /\ KELF_MAX_SIZE \in Nat /\ KELF_MAX_SIZE \in Words
  /\ SIZE_BYTES \in Nat /\ FIFO \in Nat \ {0}
  /\ MAGIC \in Seq(Byte) /\ Len(MAGIC) \in Nat \ {0}
  /\ EHDR \in Nat \ {0} /\ PHDR \in Nat \ {0}
<1>1. BASE \in Nat \ {0} /\ 0 \in Byte
  BY TransferAssumption DEF Byte
<1>2. WORD \in Nat \ {0} /\ 0 \in Words /\ Words \subseteq Nat /\ Address = Words
  BY ElfAssumption, LoadAssumption DEF Words
<1>3. /\ HEAP_BASE \in Nat /\ HEAP \in Nat \ {0}
      /\ HeapLimit \in Nat /\ HeapLimit = HEAP_BASE + HEAP
  BY TransferAssumption DEF HeapLimit
<1>4. \A a \in HEAP_BASE .. (HeapLimit - 1) : a \in Address
  BY TransferAssumption
<1>5. HeapLimit <= WORD
  <2>1. HeapLimit - 1 \in Address
    BY <1>3, <1>4
  <2> QED
    BY <1>2, <1>3, <2>1 DEF Words
<1>6. MAGIC \in Seq(Byte) /\ Len(MAGIC) \in Nat \ {0}
  BY TransferAssumption, EmptySeq
<1> QED
  BY <1>1, <1>2, <1>3, <1>4, <1>5, <1>6, TransferAssumption, LoadAssumption, ElfAssumption

(* The bytes of memory are the words, and words are numbers.               *)
LEMMA WordsAreNumbers == Address = Words /\ \A a \in Words : a \in Nat /\ a \in Int
BY ConstantFacts

(* Addresses wrap and so stay words.                                       *)
LEMMA WordFacts ==
  ASSUME NEW a \in Int, NEW b \in Int
  PROVE  Plus(a, b) \in Words /\ Minus(a, b) \in Words
<1>1. WORD \in Nat \ {0}
  BY ConstantFacts
<1>2. \A x \in Int : x % WORD \in 0 .. (WORD - 1)
  BY <1>1
<1> QED
  BY <1>2 DEF Plus, Minus, Words

(* Subtraction wraps once at most.                                         *)
LEMMA MinusIs ==
  ASSUME NEW a \in Words, NEW b \in Words
  PROVE  Minus(a, b) = IF b <= a THEN a - b ELSE a - b + WORD
<1>1. WORD \in Nat \ {0} /\ a \in Nat /\ b \in Nat /\ a < WORD /\ b < WORD
  BY ConstantFacts DEF Words
<1>2. \A x \in 0 .. (WORD - 1) : x % WORD = x
  BY <1>1
<1>3. \A x \in -WORD .. -1 : x % WORD = x + WORD
  BY <1>1
<1>4. CASE b <= a
  BY <1>1, <1>2, <1>4 DEF Minus
<1>5. CASE a < b
  BY <1>1, <1>3, <1>5 DEF Minus
<1> QED
  BY <1>1, <1>4, <1>5

(* Addition below the top of memory does not wrap.                         *)
LEMMA PlusIs ==
  ASSUME NEW a \in Nat, NEW b \in Nat, a + b < WORD
  PROVE  Plus(a, b) = a + b
<1>1. WORD \in Nat \ {0}
  BY ConstantFacts
<1>2. \A x \in 0 .. (WORD - 1) : x % WORD = x
  BY <1>1
<1> QED
  BY <1>1, <1>2 DEF Plus

(* A run of bytes that does not pass the end of memory.                    *)
LEMMA BytesAre ==
  ASSUME NEW s \in Words, NEW n \in Words, s + n <= WORD, NEW a \in Words
  PROVE  Minus(a, s) < n <=> s <= a /\ a < s + n
<1>1. WORD \in Nat \ {0} /\ a \in Nat /\ s \in Nat /\ n \in Nat /\ a < WORD /\ s < WORD
  BY ConstantFacts DEF Words
<1> QED
  BY <1>1, MinusIs

----------------------------------------------------------------------------
(* Type correctness.                                                       *)

AnyFile == [elf64 : BOOLEAN, entry : Words, phoff : Words, phentsize : Words,
            phnum : Nat, size : Nat]
Memory == [Address -> Byte]

(* Reading wraps at the top of memory, so it finds bytes from anywhere.    *)
LEMMA BytesAtTyped ==
  ASSUME NEW m \in Memory, NEW a \in Nat, NEW n \in Nat
  PROVE  BytesAt(m, a, n) \in [1 .. n -> Byte]
<1>1. \A k \in 1 .. n : Plus(a, k - 1) \in Address
  BY ConstantFacts, WordFacts
<1> QED
  BY <1>1 DEF BytesAt, Memory

(* Whatever its bytes say, a file header is one.                           *)
LEMMA FileTyped ==
  ASSUME NEW b \in [1 .. EHDR -> Byte], NEW n \in Nat
  PROVE  /\ FileOf(Ehdr(b), n) \in AnyFile
         /\ FileOf(Ehdr(b), n).size = n
<1>1. Ehdr(b) \in FileHeader
  BY LoadAssumption
<1> QED
  BY <1>1 DEF FileOf, FileHeader, AnyFile

(* What elf_load reads in memory is a header, whatever is there.           *)
LEMMA HeadersTyped ==
  ASSUME TypeOK, NEW m \in Memory
  PROVE  /\ eh(m) \in AnyFile /\ eh(m).size = size
         /\ ph(m) \in ProgramHeader
<1>1. buf \in Nat /\ size \in Nat /\ i \in Nat
  BY ConstantFacts DEF TypeOK, TransferTypeOK
<1>2. eh(m) \in AnyFile /\ eh(m).size = size
  BY <1>1, BytesAtTyped, FileTyped, ConstantFacts DEF eh
<1>3. TableOffset(eh(m), i) \in Words
  <2> DEFINE p == eh(m).phentsize
  <2>1. eh(m).phoff \in Int /\ p \in Int
    BY <1>2, WordsAreNumbers DEF AnyFile
  <2> HIDE DEF p
  <2>2. (i - 1) * p \in Int
    BY <1>1, <2>1
  <2> QED
    BY <2>1, <2>2, WordFacts DEF TableOffset, p
<1>4. Plus(buf, TableOffset(eh(m), i)) \in Nat
  <2>1. buf \in Int /\ TableOffset(eh(m), i) \in Int
    BY <1>1, <1>3, WordsAreNumbers
  <2>2. Plus(buf, TableOffset(eh(m), i)) \in Words
    BY <2>1, WordFacts
  <2> QED
    BY <2>2, WordsAreNumbers
<1>5. BytesAt(m, Plus(buf, TableOffset(eh(m), i)), PHDR) \in [1 .. PHDR -> Byte]
  BY <1>4, BytesAtTyped, ConstantFacts
<1> QED
  BY <1>2, <1>5, LoadAssumption DEF ph

(* Copying leaves a memory, also between blocks that wrap or overlap.      *)
LEMMA CopiedTyped ==
  ASSUME NEW m \in Memory, NEW dst \in Words, NEW src \in Words, NEW n \in Words
  PROVE  Copied(m, dst, src, n) \in Memory
<1> DEFINE d == Minus(dst, src)
           From(k) == IF d = 0 THEN k ELSE k % d
<1>1. d \in Nat
  BY WordFacts, WordsAreNumbers
<1>2. ASSUME NEW a \in Address PROVE Plus(src, From(Minus(a, dst))) \in Address
  <2>1. Minus(a, dst) \in Nat
    BY WordFacts, WordsAreNumbers
  <2>2. From(Minus(a, dst)) \in Int
    <3> HIDE DEF d
    <3> QED
      BY <1>1, <2>1
  <2> QED
    BY <2>2, WordFacts, WordsAreNumbers
<1>3. Copied(m, dst, src, n)
        = [a \in Address |-> IF Minus(a, dst) < n THEN m[Plus(src, From(Minus(a, dst)))]
                                                    ELSE m[a]]
  BY DEF Copied
<1> HIDE DEF From
<1> QED
  BY <1>2, <1>3 DEF Memory

(* So does clearing.                                                       *)
LEMMA ZeroedTyped ==
  ASSUME NEW m \in Memory, NEW dst, NEW n
  PROVE  Zeroed(m, dst, n) \in Memory
BY ConstantFacts DEF Zeroed, Memory

USE DEF port, heap, load, transfer, received, elf

(* Type correctness holds when the kernel has booted, ...                  *)
LEMMA InitTypeOK == Init => TypeOK
<1> SUFFICES ASSUME Init PROVE TypeOK
  OBVIOUS
<1>1. mem \in [Address -> Byte]
  BY ConstantFacts DEF Init, TransferInit
<1>2. /\ heap_cur \in HEAP_BASE .. HeapLimit /\ room \in 0 .. HEAP
      /\ buf \in HEAP_BASE .. heap_cur /\ size \in 0 .. KELF_MAX_SIZE
      /\ buf + size <= heap_cur /\ Len(fifo) <= FIFO
  BY ConstantFacts, EmptySeq DEF Init, TransferInit
<1>3. /\ wire \in Seq(Byte) /\ fifo \in Seq(Byte) /\ got \in Seq(Byte) /\ taken \in Seq(Byte)
      /\ sent \in Seq(Sendings) /\ loads \in Seq(Reception)
  BY EmptySeq DEF Init, TransferInit
<1>4. TransferTypeOK
  BY <1>1, <1>2, <1>3 DEF Init, TransferInit, TransferTypeOK, Receiving
<1> QED
  BY <1>4, ConstantFacts DEF Init, TransferInit, TypeOK

(* What the host and the port do.                                          *)
LEMMA LineTypeOK ==
  ASSUME TypeOK, Arrive \/ (\E f \in Sendings : HostSends(f)), UNCHANGED elf
  PROVE  TypeOK'
<1> USE DEF TypeOK
<1>1. CASE Arrive
  <2>1. wire \in Seq(Byte) /\ wire # <<>> /\ fifo \in Seq(Byte) /\ Len(fifo) < FIFO
    BY <1>1 DEF Arrive, TransferTypeOK
  <2>2. Head(wire) \in Byte /\ wire' \in Seq(Byte)
    BY <1>1, <2>1, HeadTailProperties DEF Arrive
  <2>3. fifo' \in Seq(Byte) /\ Len(fifo') <= FIFO
    BY <1>1, <2>1, <2>2, AppendProperties, LenProperties, ConstantFacts DEF Arrive
  <2> QED
    BY <1>1, <2>2, <2>3 DEF Arrive, TransferTypeOK, Receiving, Wanted
<1>2. ASSUME NEW f \in Sendings, HostSends(f) PROVE TypeOK'
  <2>1. f \in Seq(Byte) /\ wire \in Seq(Byte) /\ sent \in Seq(Sendings)
    BY TransferAssumption DEF TransferTypeOK
  <2>2. wire' \in Seq(Byte)
    BY <1>2, <2>1, ConcatProperties DEF HostSends
  <2>3. sent' \in Seq(Sendings)
    BY <1>2, <2>1, AppendProperties DEF HostSends
  <2> QED
    BY <1>2, <2>2, <2>3 DEF HostSends, TransferTypeOK, Receiving, Wanted
<1> QED
  BY <1>1, <1>2

(* The reception.                                                          *)
LEMMA LoadCommandTypeOK ==
  ASSUME TypeOK, LoadCommand, UNCHANGED elf
  PROVE  TypeOK'
<1> USE DEF TypeOK
<1>1. fifo' \in Seq(Byte) /\ Len(fifo') <= FIFO
  BY EmptySeq, ConstantFacts DEF LoadCommand, PortInit, TransferTypeOK
<1>2. got' \in Seq(Byte) /\ taken' \in Seq(Byte) /\ Len(got') <= Len(MAGIC)
  BY EmptySeq, ConstantFacts DEF LoadCommand
<1>3. room' \in 0 .. HEAP
  BY ConstantFacts DEF LoadCommand, TransferTypeOK
<1>4. dropped' \in BOOLEAN
  BY DEF LoadCommand, TransferTypeOK
<1> QED
  BY <1>1, <1>2, <1>3, <1>4 DEF LoadCommand, TransferTypeOK, Receiving, Wanted

(* A byte fits the field being read, and its block.                        *)
LEMMA RecvByteTypeOK ==
  ASSUME TypeOK, RecvByte, UNCHANGED elf
  PROVE  TypeOK'
<1> USE DEF TypeOK
<1>1. /\ fifo \in Seq(Byte) /\ fifo # <<>> /\ Len(fifo) <= FIFO
      /\ got \in Seq(Byte) /\ taken \in Seq(Byte) /\ Len(got) \in Nat
      /\ Len(got) < Wanted /\ Receiving
  BY LenProperties DEF RecvByte, TransferTypeOK
<1>2. /\ Head(fifo) \in Byte /\ fifo' \in Seq(Byte) /\ Len(fifo') <= FIFO
  BY <1>1, HeadTailProperties, LenProperties, ConstantFacts DEF RecvByte
<1>3. /\ got' \in Seq(Byte) /\ taken' \in Seq(Byte) /\ Len(got') = Len(got) + 1
  BY <1>1, <1>2, AppendProperties DEF RecvByte
<1>4. mem' \in [Address -> Byte]
  BY <1>2 DEF RecvByte, TransferTypeOK
<1>5. Wanted \in Nat /\ Wanted' = Wanted /\ Receiving'
  BY <1>1, ConstantFacts DEF RecvByte, Wanted, Receiving, TransferTypeOK
<1>6. Len(got') <= Wanted'
  BY <1>1, <1>3, <1>5
<1> QED
  BY <1>2, <1>3, <1>4, <1>5, <1>6 DEF RecvByte, TransferTypeOK

(* A reception that ends, well or not.                                     *)
LEMMA DoneTypeOK ==
  ASSUME TypeOK, NEW ok \in BOOLEAN, NEW next \in {"prompt", "elf"}, Done(ok, next),
         UNCHANGED elf
  PROVE  TypeOK'
<1> USE DEF TypeOK
<1>1. [ok |-> ok, addr |-> buf, size |-> size, room |-> room] \in Reception
  BY ConstantFacts DEF Reception, TransferTypeOK
<1>2. loads' \in Seq(Reception)
  BY <1>1, AppendProperties DEF Done, TransferTypeOK
<1> QED
  BY <1>2 DEF Done, TransferTypeOK, Receiving

(* A magic that was right: the size field starts empty.                    *)
LEMMA AcceptMagicTypeOK ==
  ASSUME TypeOK, AcceptMagic, UNCHANGED elf
  PROVE  TypeOK'
<1> USE DEF TypeOK
<1>1. got' \in Seq(Byte) /\ Len(got') <= SIZE_BYTES
  BY EmptySeq, ConstantFacts DEF AcceptMagic
<1> QED
  BY <1>1 DEF AcceptMagic, TransferTypeOK, Receiving, Wanted

(* A size that was granted: its block lies inside the heap.                *)
LEMMA AcceptSizeTypeOK ==
  ASSUME TypeOK, AcceptSize, UNCHANGED elf
  PROVE  TypeOK'
<1> USE DEF TypeOK
<1>1. /\ size' \in 1 .. KELF_MAX_SIZE
      /\ heap_cur + size' <= HeapLimit
      /\ buf' = heap_cur /\ heap_cur' = heap_cur + size'
  BY DEF AcceptSize, InRange, Granted, Taken
<1>2. /\ size' \in 0 .. KELF_MAX_SIZE /\ heap_cur' \in HEAP_BASE .. HeapLimit
      /\ buf' \in HEAP_BASE .. heap_cur' /\ buf' + size' <= heap_cur'
  <2>1. heap_cur \in HEAP_BASE .. HeapLimit /\ HEAP_BASE \in Nat /\ HeapLimit \in Nat
        /\ KELF_MAX_SIZE \in Nat
    BY ConstantFacts DEF TransferTypeOK
  <2>2. size' \in Nat /\ size' <= KELF_MAX_SIZE /\ size' \in 0 .. KELF_MAX_SIZE
    BY <1>1, <2>1
  <2>3. \A h, n, lo, hi \in Nat : h \in lo .. hi /\ h + n <= hi =>
          h + n \in lo .. hi /\ h \in lo .. (h + n) /\ h + n <= h + n
    OBVIOUS
  <2>4. heap_cur \in Nat
    BY <2>1
  <2>5. heap_cur + size' <= HeapLimit
    BY <1>1
  <2>6. heap_cur + size' \in HEAP_BASE .. HeapLimit /\ heap_cur \in HEAP_BASE .. (heap_cur + size')
    BY <2>1, <2>2, <2>3, <2>4, <2>5
  <2>7. buf' + size' <= heap_cur'
    BY <1>1, <2>6
  <2> QED
    BY <1>1, <2>2, <2>6, <2>7
<1>3. got' \in Seq(Byte) /\ Len(got') <= size'
  BY <1>1, EmptySeq, ConstantFacts DEF AcceptSize
<1> QED
  BY <1>2, <1>3 DEF AcceptSize, TransferTypeOK, Receiving, Wanted

(* Every step of transfer_recv_elf.                                        *)
LEMMA ReceivesTypeOK ==
  ASSUME TypeOK, Receives, UNCHANGED elf
  PROVE  TypeOK'
BY RecvByteTypeOK, AcceptMagicTypeOK, AcceptSizeTypeOK, DoneTypeOK
   DEF Receives, RefuseMagic, RefuseSize, DataRead

(* elf_load.                                                               *)
LEMMA ReturnTypeOK ==
  ASSUME TypeOK, NEW value \in Words, Return(value), UNCHANGED <<mem, i, loaded>>
  PROVE  TypeOK'
<1>1. pc' \in {"call", "prompt"} /\ (pc' \in {"call", "run"} => entry' # 0) /\ entry' \in Words
  BY DEF Return
<1> QED
  BY <1>1 DEF Return, TypeOK, TransferTypeOK, Receiving

(* Copying a segment and clearing its rest, wherever the header puts it.   *)
LEMMA LoadSegmentTypeOK ==
  ASSUME TypeOK, LoadSegment
  PROVE  TypeOK'
<1>1. mem \in Memory /\ i \in Nat /\ buf \in Nat
  BY ConstantFacts DEF TypeOK, TransferTypeOK, Memory
<1>2. ph(mem) \in ProgramHeader
  BY <1>1, HeadersTyped
<1> DEFINE m == Copied(mem, ph(mem).vaddr, Plus(buf, ph(mem).offset), ph(mem).filesz)
<1>3. m \in Memory
  <2>1. ph(mem).vaddr \in Words /\ ph(mem).filesz \in Words /\ ph(mem).offset \in Int
    BY <1>2, WordsAreNumbers DEF ProgramHeader
  <2>2. Plus(buf, ph(mem).offset) \in Words
    BY <1>1, <2>1, WordFacts
  <2> QED
    BY <1>1, <2>1, <2>2, CopiedTyped
<1>4. mem' = TailCleared(m)
  BY DEF LoadSegment
<1> HIDE DEF m
<1>5. mem' \in Memory
  BY <1>3, <1>4, ZeroedTyped DEF TailCleared
<1> QED
  BY <1>1, <1>5 DEF LoadSegment, TypeOK, TransferTypeOK, Receiving, Memory, Wanted

(* Every step of elf_load.                                                 *)
LEMMA LoadsTypeOK ==
  ASSUME TypeOK, Loads
  PROVE  TypeOK'
<1>1. CASE RejectFile \/ RejectHeader \/ RejectSegment
  BY <1>1, ReturnTypeOK, ConstantFacts DEF RejectFile, RejectHeader, RejectSegment
<1>2. CASE AcceptFile
  BY <1>2 DEF AcceptFile, TypeOK, TransferTypeOK, Receiving
<1>5. CASE SkipSegment
  <2>1. i' \in Nat /\ pc = "table" /\ pc' = "table"
    BY <1>5 DEF SkipSegment, InTable, TypeOK
  <2> QED
    BY <1>5, <2>1 DEF SkipSegment, TypeOK, TransferTypeOK, Receiving
<1>3. CASE LoadSegment
  BY <1>3, LoadSegmentTypeOK
<1>4. CASE Finish
  <2>1. eh(mem).entry \in Words
    BY HeadersTyped DEF AnyFile, TypeOK, TransferTypeOK, Memory
  <2> QED
    BY <1>4, <2>1, ReturnTypeOK, ConstantFacts DEF Finish
<1> QED
  BY <1>1, <1>2, <1>3, <1>4, <1>5 DEF Loads

(* The program.                                                            *)
LEMMA FillsTyped ==
  ASSUME TypeOK, NEW S, NEW b \in ProgramBytes, Fills(S, b)
  PROVE  mem' \in [Address -> Byte]
<1>1. b \in Byte /\ mem \in [Address -> Byte]
  BY LoadAssumption DEF TypeOK, TransferTypeOK
<1> QED
  BY <1>1 DEF Fills

(* The memory a program takes stays inside the heap.                       *)
LEMMA ProgramTypeOK ==
  ASSUME TypeOK, Program
  PROVE  TypeOK'
<1>1. ASSUME NEW b \in ProgramBytes, ProgramWrites(b) PROVE TypeOK'
  <2>1. mem' \in [Address -> Byte]
    BY <1>1, FillsTyped DEF ProgramWrites
  <2> QED
    BY <1>1, <2>1 DEF ProgramWrites, TypeOK, TransferTypeOK, Receiving
<1>2. ASSUME NEW b \in ProgramBytes, NEW n \in ProgramBlocks, ProgramSbrk(n, b) PROVE TypeOK'
  <2>1. mem' \in [Address -> Byte]
    BY <1>2, FillsTyped DEF ProgramSbrk
  <2>2. n \in Nat \ {0} /\ heap_cur + n <= HeapLimit /\ heap_cur' = heap_cur + n
    BY <1>2, LoadAssumption DEF ProgramSbrk, Granted, Taken
  <2>3. heap_cur' \in HEAP_BASE .. HeapLimit /\ buf \in HEAP_BASE .. heap_cur'
        /\ buf + size <= heap_cur'
    BY <2>2, ConstantFacts DEF TypeOK, TransferTypeOK
  <2> QED
    BY <1>2, <2>1, <2>3 DEF ProgramSbrk, TypeOK, TransferTypeOK, Receiving
<1>3. CASE ProgramEnds
  BY <1>3 DEF ProgramEnds, TypeOK, TransferTypeOK, Receiving
<1> QED
  BY <1>1, <1>2, <1>3 DEF Program

(* ... and every step keeps it.                                            *)
LEMMA NextTypeOK == TypeOK /\ [Next]_vars => TypeOK'
<1> SUFFICES ASSUME TypeOK, [Next]_vars PROVE TypeOK'
  OBVIOUS
<1>1. CASE UNCHANGED vars
  BY <1>1 DEF vars, TypeOK, TransferTypeOK, Receiving, Wanted
<1>2. CASE CallProgram
  BY <1>2 DEF CallProgram, TypeOK, TransferTypeOK, Receiving
<1> QED
  BY <1>1, <1>2, LineTypeOK, LoadCommandTypeOK, ReceivesTypeOK, LoadsTypeOK, ProgramTypeOK
     DEF Next, Shell

(* Whatever the host sends and the program loaded does: the port holds no  *)
(* more than it can, the block being filled lies inside the heap, no       *)
(* reception runs past its block, and no program is called at 0.           *)
THEOREM LoadTypeCorrect == Spec => []TypeOK
BY InitTypeOK, NextTypeOK, PTL DEF Spec

----------------------------------------------------------------------------
(* What cmd_load has read, and where it lies.                              *)

Complete == {"elf", "table", "call", "run"}

(* Blocks received lie in the part of the heap that is taken, and below    *)
(* the block that is being filled.                                         *)
BlocksInv ==
  \A j \in DOMAIN loads :
    loads[j].ok => /\ HEAP_BASE <= loads[j].addr
                   /\ loads[j].addr + loads[j].size <= heap_cur
                   /\ pc = "data" => loads[j].addr + loads[j].size <= buf

(* What has been read is magic, size and data, the data in the block.      *)
DataAt(m, n) == \A k \in 1 .. n : m[buf + k - 1] = taken[Header + k]

FieldInv ==
  /\ pc = "magic" => taken = got
  /\ pc \in {"magic", "size"} => room = HeapLimit - heap_cur
  /\ pc = "size" => /\ Len(taken) = Len(MAGIC) + Len(got)
                    /\ SubSeq(taken, 1, Len(MAGIC)) = MAGIC
                    /\ \A k \in 1 .. Len(got) : taken[Len(MAGIC) + k] = got[k]
  /\ pc \in {"data"} \cup Complete =>
       /\ SubSeq(taken, 1, Len(MAGIC)) = MAGIC
       /\ size = Value(SizeField(taken))
       /\ size \in 1 .. KELF_MAX_SIZE
  /\ pc = "data" => /\ Len(taken) = Header + Len(got)
                    /\ size <= room
                    /\ DataAt(mem, Len(got))
  /\ pc \in Complete => Len(taken) = Header + size /\ DataAt(mem, size)

(* The program headers before i passed the checks, and memory holds what   *)
(* they say.                                                               *)
InFile(k) == SentHeader.phoff + (k - 1) * SentHeader.phentsize + PHDR <= Len(Image)

Passed(k) == /\ InFile(k)
             /\ SentSegment(k).load => SegmentAccepted(SentHeader, SentSegment(k))

ByteOf(k, a) ==
  LET s == SentSegment(k)
  IN  IF a < s.vaddr + s.filesz THEN Image[s.offset + (a - s.vaddr) + 1] ELSE 0

InPlace(n) ==
  \A k \in SentSegments, a \in Address :
    /\ k < n /\ Covers(k, a)
    /\ \A l \in SentSegments : k < l /\ l < n => ~Covers(l, a)
    => mem[a] = ByteOf(k, a)

Accepted == {"table", "call", "run"}

TableInv ==
  /\ pc \in Accepted => HeaderAccepted(SentHeader)
  /\ pc = "table" => /\ i \in 1 .. SentHeader.phnum + 1
                     /\ \A k \in 1 .. (i - 1) : Passed(k)
                     /\ InPlace(i)
  /\ pc \in {"call", "run"} => \A k \in 1 .. SentHeader.phnum : Passed(k)

MInv == TypeOK /\ BlocksInv /\ FieldInv /\ TableInv /\ ProgramAsSent

----------------------------------------------------------------------------
(* What TypeOK says, variable by variable.                                 *)
LEMMA StateFacts ==
  ASSUME TypeOK
  PROVE  /\ got \in Seq(Byte) /\ taken \in Seq(Byte) /\ fifo \in Seq(Byte) /\ wire \in Seq(Byte)
         /\ Len(got) \in Nat /\ Len(taken) \in Nat
         /\ mem \in Memory /\ i \in Nat
         /\ heap_cur \in Nat /\ HEAP_BASE <= heap_cur /\ heap_cur <= HeapLimit
         /\ buf \in Nat /\ HEAP_BASE <= buf /\ buf <= heap_cur
         /\ size \in Nat /\ size <= KELF_MAX_SIZE /\ buf + size <= heap_cur /\ room \in Nat
         /\ loads \in Seq(Reception) /\ sent \in Seq(Sendings)
         /\ Len(loads) \in Nat /\ DOMAIN loads = 1 .. Len(loads)
         /\ Len(sent) \in Nat /\ DOMAIN sent = 1 .. Len(sent)
<1>1. /\ got \in Seq(Byte) /\ taken \in Seq(Byte) /\ fifo \in Seq(Byte) /\ wire \in Seq(Byte)
      /\ mem \in Memory /\ i \in Nat /\ loads \in Seq(Reception) /\ sent \in Seq(Sendings)
  BY DEF TypeOK, TransferTypeOK, Memory
<1>2. /\ heap_cur \in HEAP_BASE .. HeapLimit /\ buf \in HEAP_BASE .. heap_cur
      /\ size \in 0 .. KELF_MAX_SIZE /\ buf + size <= heap_cur /\ room \in 0 .. HEAP
  BY DEF TypeOK, TransferTypeOK
<1>3. /\ heap_cur \in Nat /\ HEAP_BASE <= heap_cur /\ heap_cur <= HeapLimit
      /\ buf \in Nat /\ HEAP_BASE <= buf /\ buf <= heap_cur
      /\ size \in Nat /\ size <= KELF_MAX_SIZE /\ room \in Nat
  BY <1>2, ConstantFacts
<1>4. Len(got) \in Nat /\ Len(taken) \in Nat
  BY <1>1, LenProperties
<1>5. Len(loads) \in Nat /\ DOMAIN loads = 1 .. Len(loads)
  BY <1>1, LenProperties
<1>6. Len(sent) \in Nat /\ DOMAIN sent = 1 .. Len(sent)
  BY <1>1, LenProperties
<1> QED
  BY <1>1, <1>2, <1>3, <1>4, <1>5, <1>6

(* ... and of a reception.                                                 *)
LEMMA BlockFacts ==
  ASSUME TypeOK, NEW j \in DOMAIN loads
  PROVE  /\ loads[j] \in Reception
         /\ loads[j].addr \in Nat /\ loads[j].size \in Nat /\ loads[j].room \in Nat
         /\ loads[j].ok \in BOOLEAN
<1>1. loads[j] \in Reception
  BY StateFacts, ElementOfSeq
<1> QED
  BY <1>1 DEF Reception

(* The header of a frame is at least its magic.                            *)
LEMMA HeaderFacts == Header \in Nat /\ Header = Len(MAGIC) + SIZE_BYTES /\ Len(MAGIC) <= Header
BY ConstantFacts DEF Header

(* The part of a frame behind its header.                                  *)
LEMMA DataFacts ==
  ASSUME NEW f \in Seq(Byte), Len(f) >= Header
  PROVE  /\ Data(f) \in Seq(Byte)
         /\ Len(Data(f)) = Len(f) - Header
         /\ \A k \in 1 .. Len(Data(f)) : Data(f)[k] = f[Header + k]
<1>1. Len(f) \in Nat /\ Header + 1 \in Int /\ Len(f) \in Int
  BY LenProperties, HeaderFacts
<1>2. \A k \in (Header + 1) .. Len(f) : f[k] \in Byte
  <2> TAKE k \in (Header + 1) .. Len(f)
  <2>1. k \in 1 .. Len(f)
    BY <1>1, HeaderFacts
  <2> QED
    BY <2>1, ElementOfSeq
<1>3. /\ Data(f) \in Seq(Byte)
      /\ Len(Data(f)) = IF Header + 1 <= Len(f) THEN Len(f) - (Header + 1) + 1 ELSE 0
      /\ \A k \in 1 .. Len(f) - (Header + 1) + 1 : Data(f)[k] = f[Header + 1 + k - 1]
  BY <1>1, <1>2, SubSeqProperties DEF Data
<1>4. Len(Data(f)) = Len(f) - Header /\ Len(f) - (Header + 1) + 1 = Len(f) - Header
  BY <1>1, <1>3, HeaderFacts
<1>5. \A k \in 1 .. Len(Data(f)) : Header + 1 + k - 1 = Header + k
  BY <1>1, <1>4, HeaderFacts
<1> QED
  BY <1>3, <1>4, <1>5

(* The image is the data of the frame, and as long as its size field said. *)
LEMMA ImageFacts ==
  ASSUME TypeOK, FieldInv, pc \in Complete
  PROVE  /\ Image \in Seq(Byte) /\ Len(Image) = size
         /\ \A k \in 1 .. size : Image[k] = taken[Header + k] /\ Image[k] \in Byte
<1>1. Len(taken) = Header + size /\ Len(taken) >= Header
  BY StateFacts, HeaderFacts DEF FieldInv
<1>2. /\ Data(taken) \in Seq(Byte)
      /\ Len(Data(taken)) = Len(taken) - Header
      /\ \A k \in 1 .. Len(Data(taken)) : Data(taken)[k] = taken[Header + k]
  BY <1>1, StateFacts, DataFacts
<1>3. Len(Image) = size
  <2>1. Header \in Nat /\ size \in Nat
    BY StateFacts, HeaderFacts
  <2>2. Len(taken) - Header = size
    BY <1>1, <2>1
  <2> QED
    BY <1>2, <2>2 DEF Image
<1>4. \A k \in 1 .. size : Image[k] \in Byte
  BY <1>2, <1>3, ElementOfSeq DEF Image
<1> QED
  BY <1>2, <1>3, <1>4 DEF Image

(* Reading the block is reading the image, in every memory that holds it.  *)
LEMMA BlockRead ==
  ASSUME TypeOK, FieldInv, pc \in Complete,
         NEW m \in Memory, DataAt(m, size),
         NEW a \in Nat, NEW n \in Nat \ {0}, a + n <= size
  PROVE  /\ BytesAt(m, Plus(buf, a), n) = SubSeq(Image, a + 1, a + n)
         /\ BytesAt(m, Plus(buf, a), n) \in [1 .. n -> Byte]
<1>1. buf \in Nat /\ size \in Nat /\ buf + size <= WORD
  <2>1. buf \in Nat /\ size \in Nat /\ buf + size <= heap_cur /\ heap_cur \in Nat
        /\ heap_cur <= HeapLimit
    BY StateFacts
  <2>2. HeapLimit \in Nat /\ HeapLimit <= WORD /\ WORD \in Nat
    BY ConstantFacts
  <2> QED
    BY <2>1, <2>2
<1>0. buf + a \in Nat /\ WORD \in Nat /\ buf + a + n <= WORD
  BY <1>1, ConstantFacts
<1>2. Plus(buf, a) = buf + a
  <2>1. buf + a < WORD
    BY <1>0
  <2> QED
    BY <1>1, <2>1, PlusIs
<1>3. \A k \in 1 .. n : Plus(buf + a, k - 1) = buf + a + (k - 1)
  <2> TAKE k \in 1 .. n
  <2>1. buf + a \in Nat /\ k - 1 \in Nat /\ buf + a + (k - 1) < WORD
    BY <1>0
  <2> QED
    BY <2>1, PlusIs
<1>4. BytesAt(m, Plus(buf, a), n) \in [1 .. n -> Byte]
  BY <1>1, <1>2, BytesAtTyped
<1>5. BytesAt(m, Plus(buf, a), n) \in Seq(Byte) /\ Len(BytesAt(m, Plus(buf, a), n)) = n
  BY <1>4, SeqDef
<1>6. /\ SubSeq(Image, a + 1, a + n) \in Seq(Byte)
      /\ Len(SubSeq(Image, a + 1, a + n)) = n
      /\ \A k \in 1 .. n : SubSeq(Image, a + 1, a + n)[k] = Image[a + k]
  <2>1. \A k \in (a + 1) .. (a + n) : Image[k] \in Byte
    BY <1>1, ImageFacts
  <2>2. /\ SubSeq(Image, a + 1, a + n) \in Seq(Byte)
        /\ Len(SubSeq(Image, a + 1, a + n))
             = IF a + 1 <= a + n THEN (a + n) - (a + 1) + 1 ELSE 0
        /\ \A k \in 1 .. (a + n) - (a + 1) + 1 :
             SubSeq(Image, a + 1, a + n)[k] = Image[a + 1 + k - 1]
    BY <2>1, SubSeqProperties, a + 1 \in Int, a + n \in Int
  <2>3. a + 1 <= a + n /\ (a + n) - (a + 1) + 1 = n /\ \A k \in 1 .. n : a + 1 + k - 1 = a + k
    OBVIOUS
  <2> QED
    BY <2>2, <2>3
<1>7. \A k \in 1 .. n : BytesAt(m, Plus(buf, a), n)[k] = Image[a + k]
  <2> TAKE k \in 1 .. n
  <2>1. BytesAt(m, Plus(buf, a), n)[k] = m[buf + a + (k - 1)]
    BY <1>2, <1>3 DEF BytesAt
  <2>2. a + k \in 1 .. size /\ buf + a + (k - 1) = buf + (a + k) - 1
    BY <1>1
  <2>3. m[buf + (a + k) - 1] = taken[Header + (a + k)] /\ Image[a + k] = taken[Header + (a + k)]
    BY <2>2, ImageFacts DEF DataAt
  <2> QED
    BY <2>1, <2>2, <2>3
<1> QED
  BY <1>4, <1>5, <1>6, <1>7, SeqEqual

(* elf_load finds the file header that was sent, ...                       *)
LEMMA HeaderRead ==
  ASSUME TypeOK, FieldInv, pc \in Complete,
         NEW m \in Memory, DataAt(m, size), EHDR <= size
  PROVE  eh(m) = SentHeader /\ SentHeader \in AnyFile /\ SentHeader.size = size
<1>1. 0 + EHDR <= size /\ buf \in Nat /\ size \in Nat
  BY StateFacts, ConstantFacts
<1>2. BytesAt(m, Plus(buf, 0), EHDR) = SubSeq(Image, 0 + 1, 0 + EHDR)
  BY <1>1, BlockRead, ConstantFacts
<1>3. Plus(buf, 0) = buf
  <2>1. buf + 0 < WORD
    BY <1>1, StateFacts, ConstantFacts
  <2> QED
    BY <1>1, <2>1, PlusIs
<1>4. BytesAt(m, buf, EHDR) = SubSeq(Image, 1, EHDR)
  BY <1>2, <1>3, ConstantFacts
<1> QED
  BY <1>4, ImageFacts, HeadersTyped DEF eh, SentHeader

(* The file header elf_load has accepted is the one that was sent.         *)
LEMMA SentFacts ==
  ASSUME TypeOK, FieldInv, TableInv, pc \in Accepted
  PROVE  /\ pc \in Complete /\ DataAt(mem, size) /\ mem \in Memory
         /\ SentHeader \in AnyFile /\ SentHeader.size = size
         /\ EHDR <= size /\ SentHeader.phnum \in Nat
         /\ Len(Image) = size /\ size \in Words
<1>1. pc \in Complete
  BY DEF Complete, Accepted
<1>2. HeaderAccepted(SentHeader) /\ SentHeader.size = Len(Image)
  BY DEF TableInv, SentHeader, FileOf
<1>3. Len(Image) = size /\ DataAt(mem, size) /\ mem \in Memory
  BY <1>1, ImageFacts, StateFacts DEF FieldInv
<1>4. EHDR <= size
  BY <1>2, <1>3, StateFacts, ConstantFacts DEF HeaderAccepted
<1>5. SentHeader \in AnyFile /\ SentHeader.size = size
  BY <1>1, <1>3, <1>4, HeaderRead
<1>6. SentHeader.phnum \in Nat
  BY <1>5 DEF AnyFile
<1>7. size \in Words
  BY StateFacts, ConstantFacts DEF Words
<1> QED
  BY <1>1, <1>3, <1>4, <1>5, <1>6, <1>7

(* The arithmetic of the program header table, where it does not wrap.     *)
LEMMA TableEnd ==
  ASSUME TypeOK, FieldInv, TableInv, LinkedAboveHeap, pc \in Accepted,
         NEW k \in 1 .. SentHeader.phnum
  PROVE  /\ TableOffset(SentHeader, k) \in Nat
         /\ HeaderInFile(SentHeader, k) <=> InFile(k)
         /\ InFile(k) => TableOffset(SentHeader, k) + PHDR <= size
<1> DEFINE p == SentHeader.phentsize
           t == (k - 1) * p
<1>1. SentHeader.phoff + t + PHDR < WORD
  BY DEF LinkedAboveHeap, Accepted
<1>2. /\ SentHeader.phoff \in Nat /\ p \in Nat /\ k - 1 \in Nat /\ PHDR \in Nat /\ WORD \in Nat
      /\ SentHeader.size = size /\ Len(Image) = size
  <2>1. SentHeader.phoff \in Nat /\ p \in Nat
    BY SentFacts, WordsAreNumbers DEF AnyFile
  <2>2. k - 1 \in Nat
    BY SentFacts
  <2> QED
    BY <2>1, <2>2, SentFacts, ConstantFacts
<1>3. t \in Nat
  <2> HIDE DEF p
  <2> QED
    BY <1>2
<1>4. InFile(k) <=> SentHeader.phoff + t + PHDR <= size
  BY <1>2 DEF InFile
<1>5. TableOffset(SentHeader, k) = Plus(SentHeader.phoff, t)
  BY DEF TableOffset
<1> HIDE DEF t
<1>6. Plus(SentHeader.phoff, t) = SentHeader.phoff + t
  <2>1. SentHeader.phoff + t < WORD
    BY <1>1, <1>2, <1>3
  <2> QED
    BY <1>2, <1>3, <2>1, PlusIs
<1>7. Plus(SentHeader.phoff + t, PHDR) = SentHeader.phoff + t + PHDR
  BY <1>1, <1>2, <1>3, PlusIs
<1>8. SentHeader.phoff + t \in Nat
  BY <1>2, <1>3
<1> QED
  BY <1>2, <1>4, <1>5, <1>6, <1>7, <1>8 DEF HeaderInFile

(* ... and the program headers that were sent.                             *)
LEMMA SegmentRead ==
  ASSUME TypeOK, FieldInv, TableInv, LinkedAboveHeap, pc \in Accepted,
         NEW k \in 1 .. SentHeader.phnum, InFile(k),
         NEW m \in Memory, DataAt(m, size)
  PROVE  /\ Phdr(BytesAt(m, Plus(buf, TableOffset(SentHeader, k)), PHDR)) = SentSegment(k)
         /\ SentSegment(k) \in ProgramHeader
<1> DEFINE t == TableOffset(SentHeader, k)
<1>1. t \in Nat /\ t + PHDR <= size /\ PHDR \in Nat \ {0}
  BY TableEnd, ConstantFacts
<1>2. pc \in Complete
  BY SentFacts
<1> HIDE DEF t
<1>3. /\ BytesAt(m, Plus(buf, t), PHDR) = SubSeq(Image, t + 1, t + PHDR)
      /\ BytesAt(m, Plus(buf, t), PHDR) \in [1 .. PHDR -> Byte]
  BY <1>1, <1>2, BlockRead
<1> QED
  BY <1>3, LoadAssumption DEF SentSegment, t

----------------------------------------------------------------------------
(* Memory.                                                                 *)

(* Copied upwards from a block that ends below it, a block is what the     *)
(* other one was.                                                          *)
LEMMA CopiedIs ==
  ASSUME NEW m \in Memory, NEW dst \in Words, NEW src \in Nat, NEW n \in Words,
         src + n <= dst, dst + n <= WORD, NEW a \in Address
  PROVE  Copied(m, dst, src, n)[a] = IF dst <= a /\ a < dst + n THEN m[src + (a - dst)] ELSE m[a]
<1> DEFINE d == Minus(dst, src)
           k == Minus(a, dst)
           From == IF d = 0 THEN k ELSE k % d
<1>1. /\ dst \in Nat /\ n \in Nat /\ a \in Nat /\ a \in Words /\ dst < WORD /\ WORD \in Nat
      /\ src \in Words
  BY ConstantFacts, WordsAreNumbers DEF Words
<1>2. Copied(m, dst, src, n)[a] = IF Minus(a, dst) < n THEN m[Plus(src, From)] ELSE m[a]
  BY DEF Copied
<1>3. Minus(a, dst) < n <=> dst <= a /\ a < dst + n
  BY <1>1, BytesAre
<1>4. ASSUME dst <= a, a < dst + n PROVE Plus(src, From) = src + (a - dst)
  <2>1. d = dst - src /\ d \in Nat /\ n <= d
    BY <1>1, MinusIs
  <2>2. k = a - dst /\ k \in Nat /\ k < n
    BY <1>1, <1>4, MinusIs
  <2>3. d # 0 /\ k < d
    BY <1>1, <2>1, <2>2
  <2>4. \A x, y \in Nat : x < y => x % y = x
    OBVIOUS
  <2> HIDE DEF d, k
  <2>5. From = a - dst
    BY <2>1, <2>2, <2>3, <2>4
  <2>6. a - dst \in Nat /\ src + (a - dst) < WORD
    BY <1>1, <1>4
  <2> HIDE DEF From
  <2> QED
    BY <2>5, <2>6, PlusIs
<1> HIDE DEF From
<1> QED
  BY <1>2, <1>3, <1>4

(* In the table, elf_load reads what was sent, also after it has copied.   *)
LEMMA InTableRead ==
  ASSUME TypeOK, FieldInv, TableInv, LinkedAboveHeap, InTable, HeaderInFile(eh(mem), i),
         NEW m \in Memory, DataAt(m, size)
  PROVE  /\ ph(m) = SentSegment(i) /\ SentSegment(i) \in ProgramHeader
         /\ i \in 1 .. SentHeader.phnum /\ InFile(i)
         /\ eh(mem) = SentHeader /\ eh(m) = SentHeader
<1>1. pc = "table" /\ pc \in Accepted
  BY DEF InTable, Accepted
<1>2. eh(mem) = SentHeader /\ eh(m) = SentHeader
  BY <1>1, SentFacts, HeaderRead
<1>3. i \in 1 .. SentHeader.phnum
  <2>1. i \in 1 .. SentHeader.phnum + 1 /\ SentHeader.phnum \in Nat
    BY <1>1, SentFacts DEF TableInv
  <2>2. i <= SentHeader.phnum
    BY <1>2 DEF InTable
  <2> QED
    BY <2>1, <2>2
<1>4. InFile(i)
  BY <1>1, <1>2, <1>3, TableEnd
<1>5. ph(m) = SentSegment(i) /\ SentSegment(i) \in ProgramHeader
  BY <1>1, <1>2, <1>3, <1>4, SegmentRead DEF ph
<1> QED
  BY <1>2, <1>3, <1>4, <1>5

(* A segment that passed the checks lies above the heap.                   *)
LEMMA SegmentAbove ==
  ASSUME TypeOK, FieldInv, TableInv, LinkedAboveHeap, pc \in Accepted,
         NEW k \in 1 .. SentHeader.phnum, Passed(k), SentSegment(k).load
  PROVE  LET s == SentSegment(k)
         IN  /\ HeapLimit <= s.vaddr /\ s.filesz <= s.memsz /\ s.vaddr + s.memsz < WORD
             /\ s.offset + s.filesz <= Len(Image)
             /\ s.offset \in Nat /\ s.vaddr \in Words /\ s.filesz \in Words /\ s.memsz \in Words
<1> DEFINE s == SentSegment(k)
<1>1. /\ s.offset \in Words /\ s.vaddr \in Words /\ s.filesz \in Words /\ s.memsz \in Words
      /\ PROG_LOAD_MAX \in Words /\ PROG_LOAD_MIN \in Words /\ Len(Image) \in Words
  <2>1. s \in ProgramHeader
    BY SentFacts, SegmentRead DEF Passed
  <2> QED
    BY <2>1, ElfAssumption, SentFacts DEF ProgramHeader
<1>2. SegmentAccepted(SentHeader, s) /\ SentHeader.size = Len(Image)
  BY DEF Passed, SentHeader, FileOf
<1>3. InFile(k)
  BY DEF Passed
<1>4. /\ s.filesz <= s.memsz /\ s.vaddr <= PROG_LOAD_MAX
      /\ s.vaddr < PROG_LOAD_MIN \/ HeapLimit <= s.vaddr
  BY <1>3 DEF LinkedAboveHeap, InFile, Accepted
<1> HIDE DEF s
<1>5. /\ s.vaddr >= PROG_LOAD_MIN /\ s.memsz <= Minus(PROG_LOAD_MAX, s.vaddr)
      /\ s.filesz <= Len(Image) /\ s.offset <= Minus(Len(Image), s.filesz)
  BY <1>2 DEF SegmentAccepted
<1>6. Minus(PROG_LOAD_MAX, s.vaddr) = PROG_LOAD_MAX - s.vaddr
  BY <1>1, <1>4, MinusIs
<1>7. Minus(Len(Image), s.filesz) = Len(Image) - s.filesz
  BY <1>1, <1>5, MinusIs
<1>8. HeapLimit <= s.vaddr
  BY <1>1, <1>4, <1>5, WordsAreNumbers
<1>9. s.vaddr + s.memsz < WORD /\ s.offset + s.filesz <= Len(Image)
  <2>1. /\ s.offset \in Int /\ s.vaddr \in Int /\ s.filesz \in Int /\ s.memsz \in Int
        /\ PROG_LOAD_MAX \in Int /\ PROG_LOAD_MAX < WORD /\ WORD \in Int /\ Len(Image) \in Int
    BY <1>1, ConstantFacts DEF Words
  <2>2. s.memsz <= PROG_LOAD_MAX - s.vaddr /\ s.offset <= Len(Image) - s.filesz
    BY <1>5, <1>6, <1>7
  <2> QED
    BY <2>1, <2>2
<1> QED
  BY <1>1, <1>4, <1>8, <1>9, WordsAreNumbers DEF s

(* Loading a segment changes its bytes, all of them above the heap, and    *)
(* no other.                                                               *)
LEMMA SegmentPlaced ==
  ASSUME TypeOK, FieldInv, TableInv, LinkedAboveHeap, LoadSegment
  PROVE  /\ i \in 1 .. SentHeader.phnum /\ i \in SentSegments /\ Passed(i)
         /\ \A a \in Address :
              /\ Covers(i, a) => HeapLimit <= a
              /\ mem'[a] = IF Covers(i, a) THEN ByteOf(i, a) ELSE mem[a]
<1> DEFINE s == SentSegment(i)
<1>1. /\ InTable /\ HeaderInFile(eh(mem), i) /\ ph(mem).load
      /\ SegmentAccepted(eh(mem), ph(mem)) /\ pc \in Accepted /\ pc \in Complete
  BY DEF LoadSegment, InTable, Complete, Accepted
<1>2. mem \in Memory /\ DataAt(mem, size) /\ buf \in Nat /\ size \in Nat
      /\ buf + size <= HeapLimit /\ size \in Words
  <2>1. /\ mem \in Memory /\ buf \in Nat /\ size \in Nat /\ buf + size <= heap_cur
        /\ heap_cur \in Nat /\ heap_cur <= HeapLimit
    BY StateFacts
  <2>2. DataAt(mem, size) /\ size \in Words
    BY <1>1, SentFacts DEF FieldInv
  <2>3. HeapLimit \in Nat
    BY ConstantFacts
  <2> QED
    BY <2>1, <2>2, <2>3
<1>3. /\ ph(mem) = s /\ s \in ProgramHeader /\ i \in 1 .. SentHeader.phnum /\ InFile(i)
      /\ eh(mem) = SentHeader
  BY <1>1, <1>2, InTableRead
<1>4. i \in SentSegments /\ Passed(i) /\ s.load
  BY <1>1, <1>3 DEF SentSegments, Passed
<1>5. Len(Image) = size /\ \A k \in 1 .. size : Image[k] = taken[Header + k]
  BY <1>1, ImageFacts
<1>6. /\ HeapLimit <= s.vaddr /\ s.filesz <= s.memsz /\ s.vaddr + s.memsz < WORD
      /\ s.offset + s.filesz <= size
      /\ s.offset \in Nat /\ s.vaddr \in Words /\ s.filesz \in Words /\ s.memsz \in Words
  BY <1>1, <1>3, <1>4, <1>5, SegmentAbove
<1> DEFINE m == Copied(mem, s.vaddr, Plus(buf, s.offset), s.filesz)
<1>7. mem' = TailCleared(m)
  BY <1>3 DEF LoadSegment
<1> HIDE DEF s
<1>8. /\ s.vaddr \in Nat /\ s.filesz \in Nat /\ s.memsz \in Nat /\ WORD \in Nat /\ HeapLimit \in Nat
      /\ s.vaddr < WORD
  BY <1>6, ConstantFacts DEF Words
<1>9. Plus(buf, s.offset) = buf + s.offset /\ buf + s.offset \in Nat
      /\ buf + s.offset + s.filesz <= s.vaddr
  <2>1. buf + s.offset + s.filesz <= HeapLimit
    BY <1>2, <1>6, <1>8
  <2>2. buf + s.offset < WORD /\ buf + s.offset + s.filesz <= s.vaddr
    BY <1>2, <1>6, <1>8, <2>1
  <2> QED
    BY <1>2, <1>6, <2>2, PlusIs
<1>10. ASSUME NEW a \in Address
       PROVE  m[a] = IF s.vaddr <= a /\ a < s.vaddr + s.filesz
                       THEN mem[buf + s.offset + (a - s.vaddr)] ELSE mem[a]
  <2>1. s.vaddr + s.filesz <= WORD
    BY <1>6, <1>8
  <2>2. m = Copied(mem, s.vaddr, buf + s.offset, s.filesz)
    BY <1>9
  <2> DEFINE src == buf + s.offset
  <2>3. src \in Nat /\ src + s.filesz <= s.vaddr
    BY <1>9
  <2> HIDE DEF m, src
  <2>4. Copied(mem, s.vaddr, src, s.filesz)[a] = IF s.vaddr <= a /\ a < s.vaddr + s.filesz
                                                   THEN mem[src + (a - s.vaddr)] ELSE mem[a]
    <3>1. /\ mem \in Memory /\ s.vaddr \in Words /\ src \in Nat /\ s.filesz \in Words
          /\ src + s.filesz <= s.vaddr /\ s.vaddr + s.filesz <= WORD
      BY <1>2, <1>6, <2>1, <2>3
    <3> QED
      BY <3>1, CopiedIs, Zenon
  <2> QED
    BY <2>2, <2>4 DEF src
<1>11. m \in Memory
  <2>1. Plus(buf, s.offset) \in Words
    BY <1>2, <1>6, WordFacts
  <2> QED
    BY <1>2, <1>6, <2>1, CopiedTyped
<1> HIDE DEF m
<1>12. DataAt(m, size)
  <2> SUFFICES ASSUME NEW k \in 1 .. size PROVE m[buf + k - 1] = taken[Header + k]
    BY DEF DataAt
  <2>1. buf + k - 1 \in HEAP_BASE .. (HeapLimit - 1)
    BY <1>2, StateFacts, ConstantFacts
  <2>2. buf + k - 1 \in Address /\ buf + k - 1 < s.vaddr
    BY <1>6, <1>8, <2>1, ConstantFacts
  <2>3. m[buf + k - 1] = mem[buf + k - 1]
    BY <1>8, <1>10, <2>1, <2>2
  <2> QED
    BY <1>2, <2>3 DEF DataAt
<1>13. PhAfter(m) = s
  <2>1. ph(m) = s /\ eh(m) = eh(mem)
    BY <1>1, <1>3, <1>11, <1>12, InTableRead DEF s
  <2> QED
    BY <2>1 DEF PhAfter, ph
<1>14. ASSUME NEW a \in Address
       PROVE  mem'[a] = IF s.vaddr + s.filesz <= a /\ a < s.vaddr + s.memsz THEN 0 ELSE m[a]
  <2>1. a \in Words /\ a \in Nat
    BY WordsAreNumbers
  <2>2. CASE s.memsz > s.filesz
    <3>1. Plus(s.vaddr, s.filesz) = s.vaddr + s.filesz /\ s.vaddr + s.filesz \in Words
      <4>1. s.vaddr + s.filesz < WORD
        BY <1>6, <1>8
      <4> QED
        BY <1>8, <4>1, PlusIs DEF Words
    <3>2. Minus(s.memsz, s.filesz) = s.memsz - s.filesz /\ s.memsz - s.filesz \in Words
      <4>1. s.memsz - s.filesz \in Nat /\ s.memsz - s.filesz < WORD
        BY <1>6, <1>8
      <4>2. Minus(s.memsz, s.filesz) = s.memsz - s.filesz
        BY <1>6, MinusIs
      <4> QED
        BY <4>1, <4>2, <1>8 DEF Words
    <3>3. s.vaddr + s.filesz + (s.memsz - s.filesz) = s.vaddr + s.memsz
      BY <1>8
    <3>4. s.vaddr + s.filesz + (s.memsz - s.filesz) <= WORD
      BY <1>6, <1>8, <3>3
    <3>5. Minus(a, s.vaddr + s.filesz) < s.memsz - s.filesz
            <=> s.vaddr + s.filesz <= a /\ a < s.vaddr + s.filesz + (s.memsz - s.filesz)
      BY <2>1, <3>1, <3>2, <3>4, BytesAre
    <3>6. mem' = Zeroed(m, s.vaddr + s.filesz, s.memsz - s.filesz)
      BY <1>7, <1>13, <2>2, <3>1, <3>2 DEF TailCleared
    <3>7. mem'[a] = IF Minus(a, s.vaddr + s.filesz) < s.memsz - s.filesz THEN 0 ELSE m[a]
      BY <3>6 DEF Zeroed
    <3> QED
      BY <3>3, <3>5, <3>7
  <2>3. CASE ~(s.memsz > s.filesz)
    <3>1. mem' = m
      BY <1>7, <1>13, <2>3 DEF TailCleared
    <3>2. s.memsz = s.filesz
      BY <1>6, <1>8, <2>3
    <3>3. ~(s.vaddr + s.filesz <= a /\ a < s.vaddr + s.filesz)
      BY <1>8, <2>1
    <3> QED
      BY <3>1, <3>2, <3>3
  <2> QED
    BY <2>2, <2>3
<1>15. ASSUME NEW a \in Address
       PROVE  /\ Covers(i, a) => HeapLimit <= a
              /\ mem'[a] = IF Covers(i, a) THEN ByteOf(i, a) ELSE mem[a]
  <2>0. a \in Nat
    BY WordsAreNumbers
  <2>1. Covers(i, a) <=> s.vaddr <= a /\ a < s.vaddr + s.memsz
    BY DEF Covers, s
  <2>2. ByteOf(i, a) = IF a < s.vaddr + s.filesz THEN Image[s.offset + (a - s.vaddr) + 1] ELSE 0
    BY DEF ByteOf, s
  <2>3. Covers(i, a) => HeapLimit <= a
    BY <1>6, <1>8, <2>0, <2>1
  <2>4. CASE s.vaddr <= a /\ a < s.vaddr + s.filesz
    <3>1. Covers(i, a) /\ ~(s.vaddr + s.filesz <= a)
      BY <1>6, <1>8, <2>0, <2>1, <2>4
    <3>2. mem'[a] = mem[buf + s.offset + (a - s.vaddr)]
      BY <1>10, <1>14, <2>4, <3>1
    <3> DEFINE k == s.offset + (a - s.vaddr) + 1
    <3>3. k \in 1 .. size /\ buf + s.offset + (a - s.vaddr) = buf + k - 1
      BY <1>2, <1>6, <1>8, <2>0, <2>4
    <3>4. mem[buf + k - 1] = Image[k]
      <4> HIDE DEF k
      <4> QED
        BY <1>2, <1>5, <3>3 DEF DataAt
    <3> QED
      BY <2>2, <2>3, <2>4, <3>1, <3>2, <3>3, <3>4
  <2>5. CASE s.vaddr + s.filesz <= a /\ a < s.vaddr + s.memsz
    <3>1. Covers(i, a) /\ ~(a < s.vaddr + s.filesz)
      BY <1>8, <2>0, <2>1, <2>5
    <3> QED
      BY <1>14, <2>2, <2>3, <2>5, <3>1
  <2>6. CASE a < s.vaddr \/ s.vaddr + s.memsz <= a
    <3>1. /\ ~Covers(i, a)
          /\ ~(s.vaddr + s.filesz <= a /\ a < s.vaddr + s.memsz)
          /\ ~(s.vaddr <= a /\ a < s.vaddr + s.filesz)
      BY <1>6, <1>8, <2>0, <2>1, <2>6
    <3> QED
      BY <1>10, <1>14, <2>3, <3>1
  <2> QED
    BY <1>6, <1>8, <2>0, <2>4, <2>5, <2>6
<1> QED
  BY <1>3, <1>4, <1>15

(* A program, and so elf_load, writes nothing below the top of the heap;   *)
(* what the reception writes there is one byte of its block.               *)
LEMMA MemoryKept ==
  ASSUME TypeOK, FieldInv, TableInv, LinkedAboveHeap, [Next]_vars,
         NEW a \in Address, a < heap_cur
  PROVE  \/ mem'[a] = mem[a]
         \/ RecvByte /\ pc = "data" /\ a = buf + Len(got)
<1>0. a \in Nat /\ heap_cur \in Nat /\ heap_cur <= HeapLimit /\ HeapLimit \in Nat
  BY WordsAreNumbers, StateFacts, ConstantFacts
<1>1. CASE mem' = mem
  BY <1>1
<1>2. CASE RecvByte
  <2>1. mem' = IF pc = "data" THEN [mem EXCEPT ![buf + Len(got)] = Head(fifo)] ELSE mem
    BY <1>2 DEF RecvByte
  <2>2. mem \in Memory
    BY StateFacts
  <2> QED
    BY <1>2, <2>1, <2>2 DEF Memory
<1>3. CASE LoadSegment
  <2>1. ~Covers(i, a)
    BY <1>0, <1>3, SegmentPlaced
  <2> QED
    BY <1>3, <2>1, SegmentPlaced
<1>4. ASSUME NEW b \in ProgramBytes, ProgramWrites(b) PROVE mem'[a] = mem[a]
  <2>1. pc = "run" /\ pc \in Accepted
        /\ mem' = [x \in Address |-> IF x \in {y \in Address : \E k \in SentSegments : Covers(k, y)}
                                       THEN b ELSE mem[x]]
    BY <1>4 DEF ProgramWrites, Fills, Accepted
  <2>2. ASSUME NEW k \in SentSegments PROVE ~Covers(k, a)
    <3>1. k \in 1 .. SentHeader.phnum /\ SentSegment(k).load /\ Passed(k)
      BY <2>1 DEF SentSegments, TableInv
    <3>2. HeapLimit <= SentSegment(k).vaddr /\ SentSegment(k).vaddr \in Nat
      BY <2>1, <3>1, SegmentAbove, WordsAreNumbers
    <3> QED
      BY <1>0, <3>2 DEF Covers
  <2> QED
    BY <2>1, <2>2
<1>5. ASSUME NEW b \in ProgramBytes, NEW n \in ProgramBlocks, ProgramSbrk(n, b)
      PROVE  mem'[a] = mem[a]
  <2>1. mem' = [x \in Address |-> IF x \in heap_cur .. (heap_cur + n - 1) THEN b ELSE mem[x]]
    BY <1>5 DEF ProgramSbrk, Fills
  <2>2. a \notin heap_cur .. (heap_cur + n - 1)
    BY <1>0
  <2> QED
    BY <2>1, <2>2
<1>6. CASE UNCHANGED vars \/ Arrive \/ LoadCommand \/ CallProgram \/ ProgramEnds
  BY <1>1, <1>6 DEF vars, transfer, Arrive, LoadCommand, CallProgram, ProgramEnds
<1>7. ASSUME NEW f \in Sendings, HostSends(f) PROVE mem' = mem
  BY <1>7 DEF HostSends
<1>8. CASE Receives
  BY <1>1, <1>2, <1>8 DEF Receives, AcceptMagic, RefuseMagic, AcceptSize, RefuseSize, DataRead, Done
<1>9. CASE Loads
  BY <1>1, <1>3, <1>9 DEF Loads, RejectFile, AcceptFile, RejectHeader, SkipSegment,
                          RejectSegment, Finish
<1> QED
  BY <1>1, <1>4, <1>5, <1>6, <1>7, <1>8, <1>9 DEF Next, Shell, Program

----------------------------------------------------------------------------
(* The invariant.                                                          *)

(* Blocks received stay in the part of the heap that is taken, which only  *)
(* grows, and a new one is taken above them.                               *)
LEMMA BlocksKept ==
  ASSUME TypeOK, BlocksInv, [Next]_vars
  PROVE  BlocksInv'
<1>1. ASSUME loads' = loads, heap_cur' \in Nat, heap_cur <= heap_cur', pc' # "data"
      PROVE  BlocksInv'
  <2> SUFFICES ASSUME NEW j \in DOMAIN loads, loads[j].ok
               PROVE  /\ HEAP_BASE <= loads[j].addr
                      /\ loads[j].addr + loads[j].size <= heap_cur'
    BY <1>1 DEF BlocksInv
  <2>1. HEAP_BASE <= loads[j].addr /\ loads[j].addr + loads[j].size <= heap_cur
    BY DEF BlocksInv
  <2>2. loads[j].addr \in Nat /\ loads[j].size \in Nat /\ heap_cur \in Nat
    BY BlockFacts, StateFacts
  <2> QED
    BY <1>1, <2>1, <2>2
<1>2. ASSUME loads' = loads, heap_cur' = heap_cur, pc' = pc, buf' = buf
      PROVE  BlocksInv'
  BY <1>2 DEF BlocksInv
<1>3. heap_cur \in Nat /\ heap_cur <= heap_cur
  BY StateFacts
<1>4. CASE UNCHANGED vars \/ Arrive \/ (\E f \in Sendings : HostSends(f)) \/ RecvByte
  <2>1. loads' = loads /\ heap_cur' = heap_cur /\ pc' = pc /\ buf' = buf
    BY <1>4 DEF vars, Arrive, HostSends, RecvByte
  <2> QED
    BY <1>2, <2>1
<1>5. CASE LoadCommand \/ AcceptMagic \/ CallProgram \/ Loads \/ ProgramEnds
  <2>1. loads' = loads /\ heap_cur' = heap_cur
    BY <1>5 DEF LoadCommand, AcceptMagic, CallProgram, Loads, RejectFile, AcceptFile, RejectHeader,
                SkipSegment, RejectSegment, LoadSegment, Finish, Return, ProgramEnds
  <2>2. pc' # "data"
    BY <1>5 DEF LoadCommand, AcceptMagic, CallProgram, Loads, RejectFile, AcceptFile, RejectHeader,
                SkipSegment, RejectSegment, LoadSegment, Finish, Return, ProgramEnds, InTable
  <2> QED
    BY <1>1, <1>3, <2>1, <2>2
<1>6. ASSUME NEW b \in ProgramBytes, ProgramWrites(b) PROVE BlocksInv'
  <2>1. loads' = loads /\ heap_cur' = heap_cur /\ pc' # "data"
    BY <1>6 DEF ProgramWrites
  <2> QED
    BY <1>1, <1>3, <2>1
<1>7. ASSUME NEW b \in ProgramBytes, NEW n \in ProgramBlocks, ProgramSbrk(n, b) PROVE BlocksInv'
  <2>1. loads' = loads /\ heap_cur' = heap_cur + n /\ pc' # "data" /\ n \in Nat
    BY <1>7, LoadAssumption DEF ProgramSbrk, Taken
  <2> QED
    BY <1>1, <1>3, <2>1
<1>8. CASE AcceptSize
  <2>1. loads' = loads /\ buf' = heap_cur /\ heap_cur' = heap_cur + size' /\ size' \in Nat
    BY <1>8, ConstantFacts DEF AcceptSize, InRange, Taken
  <2> SUFFICES ASSUME NEW j \in DOMAIN loads, loads[j].ok
               PROVE  /\ HEAP_BASE <= loads[j].addr
                      /\ loads[j].addr + loads[j].size <= heap_cur'
                      /\ loads[j].addr + loads[j].size <= buf'
    BY <2>1 DEF BlocksInv
  <2>2. HEAP_BASE <= loads[j].addr /\ loads[j].addr + loads[j].size <= heap_cur
    BY DEF BlocksInv
  <2> QED
    BY <1>3, <2>1, <2>2, BlockFacts
<1>9. ASSUME NEW ok \in BOOLEAN, NEW next \in {"prompt", "elf"}, Done(ok, next) PROVE BlocksInv'
  <2> DEFINE new == [ok |-> ok, addr |-> buf, size |-> size, room |-> room]
  <2>1. loads' = Append(loads, new) /\ heap_cur' = heap_cur /\ pc' # "data"
    BY <1>9 DEF Done
  <2> SUFFICES ASSUME NEW j \in DOMAIN loads', loads'[j].ok
               PROVE  /\ HEAP_BASE <= loads'[j].addr
                      /\ loads'[j].addr + loads'[j].size <= heap_cur'
    BY <2>1 DEF BlocksInv
  <2>2. new \in Reception
    BY StateFacts, <1>9 DEF Reception
  <2>3. /\ j \in 1 .. Len(loads) + 1 /\ loads'[Len(loads) + 1] = new
        /\ \A x \in 1 .. Len(loads) : loads'[x] = loads[x]
    <3> HIDE DEF new
    <3>1. Len(loads') = Len(loads) + 1 /\ loads' \in Seq(Reception)
      BY <2>1, <2>2, StateFacts, AppendProperties
    <3>2. j \in 1 .. Len(loads) + 1
      BY <3>1, LenProperties
    <3> QED
      BY <2>1, <2>2, <3>2, StateFacts, AppendProperties
  <2>4. CASE j = Len(loads) + 1
    BY <2>1, <2>3, <2>4, StateFacts
  <2>5. CASE j \in 1 .. Len(loads)
    <3>1. j \in DOMAIN loads /\ loads'[j] = loads[j]
      BY <2>3, <2>5, StateFacts
    <3> QED
      BY <2>1, <3>1 DEF BlocksInv
  <2> QED
    BY <2>3, <2>4, <2>5, StateFacts
<1>10. CASE Receives
  BY <1>4, <1>5, <1>8, <1>9, <1>10 DEF Receives, RefuseMagic, RefuseSize, DataRead
<1> QED
  BY <1>4, <1>5, <1>6, <1>7, <1>8, <1>10 DEF Next, Shell, Program

(* Parts of two sequences that agree there.                                *)
LEMMA PartEqual ==
  ASSUME NEW s \in Seq(Byte), NEW t \in Seq(Byte), NEW m \in Nat \ {0}, NEW n \in Nat,
         n <= Len(s), n <= Len(t), \A k \in m .. n : s[k] = t[k]
  PROVE  SubSeq(s, m, n) = SubSeq(t, m, n)
<1>1. \A k \in m .. n : s[k] \in Byte /\ t[k] \in Byte
  <2> TAKE k \in m .. n
  <2>1. k \in 1 .. Len(s) /\ k \in 1 .. Len(t)
    BY LenProperties
  <2> QED
    BY <2>1, ElementOfSeq
<1>2. m \in Int /\ n \in Int
  OBVIOUS
<1>3. /\ SubSeq(s, m, n) \in Seq(Byte)
      /\ Len(SubSeq(s, m, n)) = IF m <= n THEN n - m + 1 ELSE 0
      /\ \A k \in 1 .. n - m + 1 : SubSeq(s, m, n)[k] = s[m + k - 1]
  BY <1>1, <1>2, SubSeqProperties
<1>4. /\ SubSeq(t, m, n) \in Seq(Byte)
      /\ Len(SubSeq(t, m, n)) = IF m <= n THEN n - m + 1 ELSE 0
      /\ \A k \in 1 .. n - m + 1 : SubSeq(t, m, n)[k] = t[m + k - 1]
  BY <1>1, <1>2, SubSeqProperties
<1>5. \A k \in 1 .. Len(SubSeq(s, m, n)) : SubSeq(s, m, n)[k] = SubSeq(t, m, n)[k]
  <2> TAKE k \in 1 .. Len(SubSeq(s, m, n))
  <2>1. k \in 1 .. n - m + 1 /\ m + k - 1 \in m .. n
    BY <1>3
  <2> QED
    BY <1>3, <1>4, <2>1
<1> QED
  BY <1>3, <1>4, <1>5, SeqEqual

(* A byte received is appended to both histories, and leaves what was read *)
(* before it as it was.                                                    *)
LEMMA ByteReceived ==
  ASSUME TypeOK, RecvByte
  PROVE  /\ Head(fifo) \in Byte
         /\ got' \in Seq(Byte) /\ Len(got') = Len(got) + 1 /\ got'[Len(got) + 1] = Head(fifo)
         /\ \A k \in 1 .. Len(got) : got'[k] = got[k]
         /\ taken' \in Seq(Byte) /\ Len(taken') = Len(taken) + 1
         /\ taken'[Len(taken) + 1] = Head(fifo)
         /\ \A k \in 1 .. Len(taken) : taken'[k] = taken[k]
         /\ \A m \in Nat \ {0}, n \in Nat :
              n <= Len(taken) => SubSeq(taken', m, n) = SubSeq(taken, m, n)
<1>1. Head(fifo) \in Byte
  BY StateFacts, HeadTailProperties DEF RecvByte
<1>2. /\ got' \in Seq(Byte) /\ Len(got') = Len(got) + 1 /\ got'[Len(got) + 1] = Head(fifo)
      /\ \A k \in 1 .. Len(got) : got'[k] = got[k]
  BY <1>1, StateFacts, AppendProperties DEF RecvByte
<1>3. /\ taken' \in Seq(Byte) /\ Len(taken') = Len(taken) + 1
      /\ taken'[Len(taken) + 1] = Head(fifo)
      /\ \A k \in 1 .. Len(taken) : taken'[k] = taken[k]
  BY <1>1, StateFacts, AppendProperties DEF RecvByte
<1>4. ASSUME NEW m \in Nat \ {0}, NEW n \in Nat, n <= Len(taken)
      PROVE  SubSeq(taken', m, n) = SubSeq(taken, m, n)
  <2>1. n <= Len(taken')
    BY <1>3, <1>4, StateFacts
  <2>2. ASSUME NEW k \in m .. n PROVE taken'[k] = taken[k]
    <3>1. k \in 1 .. Len(taken)
      BY <1>4, StateFacts
    <3> QED
      BY <1>3, <3>1
  <2> QED
    BY <1>3, <1>4, <2>1, <2>2, StateFacts, PartEqual
<1> QED
  BY <1>1, <1>2, <1>3, <1>4

(* A byte read continues the field being read, and the data in the block.  *)
LEMMA RecvByteField ==
  ASSUME TypeOK, FieldInv, RecvByte
  PROVE  FieldInv'
<1>1. /\ pc' = pc /\ heap_cur' = heap_cur /\ buf' = buf /\ size' = size /\ room' = room
      /\ pc \in {"magic", "size", "data"}
  BY DEF RecvByte, Receiving
<1>2. CASE pc = "magic"
  <2>1. taken' = got'
    BY <1>2 DEF FieldInv, RecvByte
  <2> QED
    BY <1>1, <1>2, <2>1 DEF FieldInv, Complete
<1>3. CASE pc = "size"
  <2>1. /\ Len(taken) = Len(MAGIC) + Len(got) /\ SubSeq(taken, 1, Len(MAGIC)) = MAGIC
        /\ \A k \in 1 .. Len(got) : taken[Len(MAGIC) + k] = got[k]
    BY <1>3 DEF FieldInv
  <2>2. Len(MAGIC) \in Nat /\ Len(got) \in Nat /\ Len(MAGIC) <= Len(taken)
    BY <2>1, ConstantFacts, StateFacts
  <2>3. Len(taken') = Len(MAGIC) + Len(got')
    BY <2>1, <2>2, ByteReceived
  <2>4. SubSeq(taken', 1, Len(MAGIC)) = MAGIC
    BY <2>1, <2>2, ByteReceived
  <2>5. \A k \in 1 .. Len(got') : taken'[Len(MAGIC) + k] = got'[k]
    <3> SUFFICES ASSUME NEW k \in 1 .. Len(got) + 1 PROVE taken'[Len(MAGIC) + k] = got'[k]
      BY ByteReceived
    <3>1. CASE k \in 1 .. Len(got)
      <4>1. Len(MAGIC) + k \in 1 .. Len(taken)
        BY <2>1, <2>2, <3>1
      <4> QED
        BY <2>1, <3>1, <4>1, ByteReceived
    <3>2. CASE k = Len(got) + 1
      <4>1. Len(MAGIC) + k = Len(taken) + 1
        BY <2>1, <2>2, <3>2
      <4> QED
        BY <3>2, <4>1, ByteReceived
    <3> QED
      BY <2>2, <3>1, <3>2
  <2> QED
    BY <1>1, <1>3, <2>3, <2>4, <2>5 DEF FieldInv, Complete
<1>4. CASE pc = "data"
  <2>1. /\ Len(taken) = Header + Len(got) /\ SubSeq(taken, 1, Len(MAGIC)) = MAGIC
        /\ size = Value(SizeField(taken)) /\ size \in 1 .. KELF_MAX_SIZE /\ size <= room
        /\ DataAt(mem, Len(got))
    BY <1>4 DEF FieldInv
  <2>2. /\ Header \in Nat /\ Len(MAGIC) \in Nat /\ Len(got) \in Nat /\ Len(MAGIC) <= Header
        /\ Header <= Len(taken) /\ Len(MAGIC) <= Len(taken) /\ Len(MAGIC) + 1 \in Nat \ {0}
    <3>1. Header \in Nat /\ Len(MAGIC) \in Nat /\ Len(MAGIC) <= Header
      BY HeaderFacts, ConstantFacts
    <3>2. Len(got) \in Nat
      BY StateFacts
    <3> QED
      BY <2>1, <3>1, <3>2
  <2>3. Len(taken') = Header + Len(got')
    <3>1. Len(taken') = Len(taken) + 1 /\ Len(got') = Len(got) + 1
      BY ByteReceived
    <3> QED
      BY <2>1, <2>2, <3>1
  <2>4. SubSeq(taken', 1, Len(MAGIC)) = MAGIC /\ SizeField(taken') = SizeField(taken)
    BY <2>1, <2>2, ByteReceived DEF SizeField
  <2>5. \A k \in 1 .. Len(got') : mem'[buf' + k - 1] = taken'[Header + k]
    <3>1. Len(got) < size /\ mem' = [mem EXCEPT ![buf + Len(got)] = Head(fifo)]
      BY <1>4 DEF RecvByte, Wanted
    <3>2. /\ buf \in Nat /\ size \in Nat /\ HEAP_BASE \in Nat /\ HeapLimit \in Nat
          /\ HEAP_BASE <= buf /\ heap_cur \in Nat /\ buf + size <= heap_cur
          /\ heap_cur <= HeapLimit
      BY StateFacts, ConstantFacts
    <3>6. buf + Len(got) \in Address
      <4>1. buf + Len(got) \in HEAP_BASE .. (HeapLimit - 1)
        BY <2>2, <3>1, <3>2
      <4> QED
        BY <4>1, ConstantFacts
    <3>0. Len(got') = Len(got) + 1
      BY ByteReceived
    <3> SUFFICES ASSUME NEW k \in 1 .. Len(got) + 1
                 PROVE  mem'[buf + k - 1] = taken'[Header + k]
      BY <1>1, <3>0
    <3>3. buf + k - 1 \in Address
      <4>1. buf + k - 1 \in HEAP_BASE .. (HeapLimit - 1)
        <5>1. k \in Nat /\ k >= 1 /\ k <= size
          BY <2>2, <3>1, <3>2
        <5> QED
          BY <3>2, <5>1
      <4> QED
        BY <4>1, ConstantFacts
    <3>4. CASE k \in 1 .. Len(got)
      <4>1. Header + k \in 1 .. Len(taken) /\ buf + k - 1 # buf + Len(got)
        BY <2>1, <2>2, <3>2, <3>4
      <4>2. mem'[buf + k - 1] = mem[buf + k - 1]
        BY <3>1, <3>3, <4>1, StateFacts DEF Memory
      <4> QED
        BY <2>1, <3>4, <4>1, <4>2, ByteReceived DEF DataAt
    <3>5. CASE k = Len(got) + 1
      <4>1. Header + k = Len(taken) + 1 /\ buf + k - 1 = buf + Len(got)
        BY <2>1, <2>2, <3>2, <3>5
      <4>2. mem'[buf + Len(got)] = Head(fifo)
        BY <3>1, <3>6, StateFacts DEF Memory
      <4> QED
        BY <4>1, <4>2, ByteReceived
    <3> QED
      BY <2>2, <3>4, <3>5
  <2>6. /\ pc' = "data" /\ SubSeq(taken', 1, Len(MAGIC)) = MAGIC
        /\ size' = Value(SizeField(taken')) /\ size' \in 1 .. KELF_MAX_SIZE /\ size' <= room'
    BY <1>1, <1>4, <2>1, <2>4
  <2> QED
    BY <2>3, <2>5, <2>6 DEF FieldInv, DataAt, Complete
<1> QED
  BY <1>1, <1>2, <1>3, <1>4

(* The fields one after the other.                                         *)
LEMMA LoadCommandField ==
  ASSUME TypeOK, LoadCommand
  PROVE  FieldInv'
<1>1. /\ pc' = "magic" /\ got' = <<>> /\ taken' = <<>> /\ room' = HeapLimit - heap_cur
      /\ heap_cur' = heap_cur
  BY DEF LoadCommand
<1> QED
  BY <1>1 DEF FieldInv, Complete

(* What has been read when the magic is accepted is the magic.             *)
LEMMA AcceptMagicField ==
  ASSUME TypeOK, FieldInv, AcceptMagic
  PROVE  FieldInv'
<1>1. /\ pc' = "size" /\ taken' = MAGIC /\ got' = <<>> /\ room' = room
      /\ heap_cur' = heap_cur /\ room = HeapLimit - heap_cur
  BY DEF FieldInv, AcceptMagic, MagicRead
<1>2. Len(taken') = Len(MAGIC) + Len(got') /\ Len(got') = 0
  BY <1>1, EmptySeq, ConstantFacts
<1>3. SubSeq(taken', 1, Len(MAGIC)) = MAGIC
  BY <1>1, SubSeqFull, ConstantFacts
<1> QED
  BY <1>1, <1>2, <1>3 DEF FieldInv, Complete

(* The size field, once it is read.                                        *)
LEMMA SizeFieldRead ==
  ASSUME TypeOK, FieldInv, SizeRead
  PROVE  SizeField(taken) = got /\ Len(taken) = Header
<1> DEFINE a == Len(MAGIC) + 1
<1>0. /\ Len(got) = SIZE_BYTES /\ Len(taken) = Len(MAGIC) + Len(got)
      /\ \A k \in 1 .. Len(got) : taken[Len(MAGIC) + k] = got[k]
  BY DEF SizeRead, Wanted, FieldInv
<1>1. a \in Int /\ Header \in Int /\ Len(taken) = Header /\ Header - a + 1 = SIZE_BYTES
      /\ SIZE_BYTES \in Nat
      /\ (a <= Header => Header - a + 1 = SIZE_BYTES) /\ (~(a <= Header) => SIZE_BYTES = 0)
  BY <1>0, HeaderFacts, ConstantFacts
<1>2. \A k \in a .. Header : taken[k] \in Byte
  <2> TAKE k \in a .. Header
  <2>1. k \in 1 .. Len(taken)
    BY <1>1, ConstantFacts
  <2> QED
    BY <2>1, StateFacts, ElementOfSeq
<1> HIDE DEF a
<1>3. /\ SubSeq(taken, a, Header) \in Seq(Byte)
      /\ Len(SubSeq(taken, a, Header)) = IF a <= Header THEN Header - a + 1 ELSE 0
      /\ \A k \in 1 .. Header - a + 1 : SubSeq(taken, a, Header)[k] = taken[a + k - 1]
  BY <1>1, <1>2, SubSeqProperties
<1>4. Len(SubSeq(taken, a, Header)) = Len(got)
  BY <1>0, <1>1, <1>3
<1>5. \A k \in 1 .. Len(got) : SubSeq(taken, a, Header)[k] = got[k]
  <2> TAKE k \in 1 .. Len(got)
  <2>1. a + k - 1 = Len(MAGIC) + k /\ k \in 1 .. Header - a + 1
    BY <1>0, <1>1, ConstantFacts DEF a
  <2> QED
    BY <1>0, <1>3, <2>1
<1>6. SubSeq(taken, a, Header) = got
  BY <1>3, <1>4, <1>5, StateFacts, SeqEqual
<1> QED
  BY <1>1, <1>6 DEF SizeField, a

(* The block is as large as the size field says, and fits what was free.   *)
LEMMA AcceptSizeField ==
  ASSUME TypeOK, FieldInv, AcceptSize
  PROVE  FieldInv'
<1>1. /\ pc = "size" /\ Len(got) = SIZE_BYTES /\ size' = Value(got) /\ size' \in 1 .. KELF_MAX_SIZE
      /\ heap_cur + size' <= HeapLimit /\ pc' = "data" /\ got' = <<>>
      /\ taken' = taken /\ room' = room
  BY DEF AcceptSize, SizeRead, Wanted, InRange, Granted
<1>2. /\ Len(taken) = Len(MAGIC) + Len(got) /\ SubSeq(taken, 1, Len(MAGIC)) = MAGIC
      /\ \A k \in 1 .. Len(got) : taken[Len(MAGIC) + k] = got[k]
      /\ room = HeapLimit - heap_cur
  BY <1>1 DEF FieldInv
<1>3. SizeField(taken) = got
  BY SizeFieldRead DEF AcceptSize
<1>4. size' <= room'
  <2>1. heap_cur \in Nat /\ HeapLimit \in Nat /\ size' \in Nat
    BY <1>1, StateFacts, ConstantFacts
  <2> QED
    BY <1>1, <1>2, <2>1
<1>5. Len(taken') = Header + Len(got') /\ Len(got') = 0
  BY <1>1, <1>2, EmptySeq, HeaderFacts
<1>6. size' = Value(SizeField(taken')) /\ SubSeq(taken', 1, Len(MAGIC)) = MAGIC
  BY <1>1, <1>2, <1>3
<1> QED
  BY <1>1, <1>4, <1>5, <1>6 DEF FieldInv, DataAt, Complete

(* When the last byte is read, the block holds all of the data.            *)
LEMMA DataReadField ==
  ASSUME TypeOK, FieldInv, DataRead
  PROVE  FieldInv'
<1>1. /\ pc = "data" /\ pc' = "elf" /\ Len(got) = size
      /\ UNCHANGED <<mem, buf, size, taken>>
  BY DEF DataRead, Done, Wanted
<1>2. DataAt(mem, size) /\ Len(taken) = Header + size
  BY <1>1 DEF FieldInv
<1> QED
  BY <1>1, <1>2 DEF FieldInv, DataAt, Complete

(* Once it is complete, neither elf_load nor a program changes the image.  *)
LEMMA CompleteField ==
  ASSUME TypeOK, FieldInv, pc \in Complete, pc' \in Complete \cup {"prompt"},
         UNCHANGED <<buf, size, taken>>,
         \A a \in Address : a < heap_cur => mem'[a] = mem[a]
  PROVE  FieldInv'
<1>1. DataAt(mem, size) /\ Len(taken) = Header + size
  BY DEF FieldInv
<1>2. ASSUME NEW k \in 1 .. size PROVE mem'[buf + k - 1] = taken[Header + k]
  <2>1. /\ buf \in Nat /\ size \in Nat /\ HEAP_BASE \in Nat /\ HeapLimit \in Nat
        /\ HEAP_BASE <= buf /\ heap_cur \in Nat /\ buf + size <= heap_cur
        /\ heap_cur <= HeapLimit
    BY StateFacts, ConstantFacts
  <2>2. buf + k - 1 \in HEAP_BASE .. (HeapLimit - 1) /\ buf + k - 1 < heap_cur
    BY <2>1
  <2>3. mem'[buf + k - 1] = mem[buf + k - 1]
    BY <2>2, ConstantFacts
  <2> QED
    BY <1>1, <2>3 DEF DataAt
<1>3. \A k \in 1 .. size' : mem'[buf' + k - 1] = taken'[Header + k]
  BY <1>2
<1> QED
  BY <1>1, <1>3 DEF FieldInv, DataAt, Complete

(* Every step keeps what was read, and the block that holds it.            *)
LEMMA FieldsKept ==
  ASSUME TypeOK, FieldInv, TableInv, LinkedAboveHeap, [Next]_vars
  PROVE  FieldInv'
<1>1. ASSUME UNCHANGED <<pc, got, buf, size, room, taken, heap_cur, mem>> PROVE FieldInv'
  BY <1>1 DEF FieldInv, DataAt, Complete
<1>2. CASE UNCHANGED vars \/ Arrive \/ (\E f \in Sendings : HostSends(f))
  BY <1>1, <1>2 DEF vars, Arrive, HostSends
<1>3. ASSUME Done(FALSE, "prompt") PROVE FieldInv'
  BY <1>3 DEF Done, FieldInv, Complete
<1>4. CASE Receives
  BY <1>3, <1>4, RecvByteField, AcceptMagicField, AcceptSizeField, DataReadField
     DEF Receives, RefuseMagic, RefuseSize
<1>5. CASE Loads \/ CallProgram \/ Program
  <2>1. pc \in Complete /\ pc' \in Complete \cup {"prompt"} /\ UNCHANGED <<buf, size, taken>>
    BY <1>5 DEF Loads, CallProgram, Program, RejectFile, AcceptFile, RejectHeader,
                SkipSegment, RejectSegment, LoadSegment, Finish, Return, InTable, Complete,
                ProgramWrites, ProgramSbrk, ProgramEnds
  <2>2. \A a \in Address : a < heap_cur => mem'[a] = mem[a]
    <3>1. pc # "data"
      BY <2>1 DEF Complete
    <3> QED
      BY <3>1, MemoryKept
  <2> QED
    BY <2>1, <2>2, CompleteField
<1> QED
  BY <1>2, <1>4, <1>5, LoadCommandField DEF Next, Shell

(* What was sent is a matter of what was read.                             *)
LEMMA SentKept ==
  ASSUME taken' = taken
  PROVE  /\ SentHeader' = SentHeader /\ SentSegments' = SentSegments
         /\ \A k : SentSegment(k)' = SentSegment(k) /\ Passed(k)' = Passed(k)
         /\ \A k, a : Covers(k, a)' = Covers(k, a) /\ ByteOf(k, a)' = ByteOf(k, a)
<1>1. Image' = Image
  BY DEF Image
<1>2. SentHeader' = SentHeader
  BY <1>1 DEF SentHeader
<1>3. \A k : SentSegment(k)' = SentSegment(k)
  BY <1>1, <1>2 DEF SentSegment
<1>4. SentSegments' = SentSegments
  BY <1>2, <1>3 DEF SentSegments
<1>5. \A k : Passed(k)' = Passed(k)
  BY <1>1, <1>2, <1>3 DEF Passed, InFile
<1>6. \A k, a : Covers(k, a)' = Covers(k, a) /\ ByteOf(k, a)' = ByteOf(k, a)
  BY <1>1, <1>3 DEF Covers, ByteOf
<1> QED
  BY <1>2, <1>3, <1>4, <1>5, <1>6

(* elf_load accepts the file header that was sent.                         *)
LEMMA AcceptFileTable ==
  ASSUME TypeOK, FieldInv, AcceptFile
  PROVE  TableInv'
<1>1. /\ pc = "elf" /\ HeaderAccepted(eh(mem)) /\ pc' = "table" /\ i' = 1
      /\ taken' = taken /\ pc \in Complete
  BY DEF AcceptFile, Complete
<1>2. EHDR <= size /\ mem \in Memory /\ DataAt(mem, size)
  BY <1>1, StateFacts, HeadersTyped, ConstantFacts DEF HeaderAccepted, FieldInv
<1>3. eh(mem) = SentHeader /\ SentHeader.phnum \in Nat
  BY <1>1, <1>2, HeaderRead DEF AnyFile
<1>4. HeaderAccepted(SentHeader') /\ SentHeader'.phnum \in Nat
  BY <1>1, <1>3, SentKept
<1>5. 1 \in 1 .. SentHeader'.phnum + 1
  BY <1>4
<1>6. InPlace(1)'
  <2>1. \A k \in SentSegments' : ~(k < 1)
    BY <1>4 DEF SentSegments
  <2> QED
    BY <2>1 DEF InPlace
<1> QED
  BY <1>1, <1>4, <1>5, <1>6 DEF TableInv, Accepted

(* A header that is not PT_LOAD passes, and places nothing.                *)
LEMMA SkipSegmentTable ==
  ASSUME TypeOK, FieldInv, TableInv, LinkedAboveHeap, SkipSegment
  PROVE  TableInv'
<1>1. /\ InTable /\ HeaderInFile(eh(mem), i) /\ ~ph(mem).load /\ pc = "table" /\ pc' = "table"
      /\ i' = i + 1 /\ taken' = taken /\ mem' = mem /\ pc \in Accepted
  BY DEF SkipSegment, InTable, Accepted
<1>2. mem \in Memory /\ DataAt(mem, size) /\ SentHeader.phnum \in Nat
  BY <1>1, SentFacts
<1>3. ~SentSegment(i).load /\ i \in 1 .. SentHeader.phnum /\ InFile(i)
  BY <1>1, <1>2, InTableRead
<1>4. Passed(i) /\ i \notin SentSegments
  BY <1>3 DEF Passed, SentSegments
<1>5. \A k \in 1 .. (i' - 1) : Passed(k)'
  <2>1. \A k \in 1 .. (i' - 1) : k = i \/ k \in 1 .. (i - 1)
    BY <1>1, <1>3
  <2> QED
    BY <1>1, <1>4, <2>1, SentKept DEF TableInv
<1>6. InPlace(i)'
  <2>1. \A k \in SentSegments : k \in Nat /\ (k < i + 1 => k < i) /\ (k < i => k < i + 1)
    BY <1>2, <1>3, <1>4 DEF SentSegments
  <2>2. \A k \in SentSegments, a \in Address :
          /\ k < i + 1 /\ Covers(k, a)
          /\ \A l \in SentSegments : k < l /\ l < i + 1 => ~Covers(l, a)
          => mem[a] = ByteOf(k, a)
    BY <1>1, <2>1 DEF TableInv, InPlace
  <2> QED
    BY <1>1, <2>2, SentKept DEF InPlace
<1>7. i' \in 1 .. SentHeader'.phnum + 1 /\ HeaderAccepted(SentHeader')
  BY <1>1, <1>2, <1>3, SentKept DEF TableInv
<1> QED
  BY <1>1, <1>5, <1>6, <1>7 DEF TableInv, Accepted

(* A segment is placed over those before it, and leaves the rest of them.  *)
LEMMA LoadSegmentTable ==
  ASSUME TypeOK, FieldInv, TableInv, LinkedAboveHeap, LoadSegment
  PROVE  TableInv'
<1>1. /\ pc = "table" /\ pc' = "table" /\ i' = i + 1 /\ taken' = taken /\ pc \in Accepted
  BY DEF LoadSegment, InTable, Accepted
<1>2. /\ i \in 1 .. SentHeader.phnum /\ i \in SentSegments /\ Passed(i)
      /\ \A a \in Address : mem'[a] = IF Covers(i, a) THEN ByteOf(i, a) ELSE mem[a]
  BY SegmentPlaced
<1>3. SentHeader.phnum \in Nat
  BY <1>1, SentFacts
<1>4. \A k \in 1 .. (i' - 1) : Passed(k)'
  <2>1. \A k \in 1 .. (i' - 1) : k = i \/ k \in 1 .. (i - 1)
    BY <1>1, <1>2
  <2> QED
    BY <1>1, <1>2, <2>1, SentKept DEF TableInv
<1>5. InPlace(i)'
  <2>1. ASSUME NEW k \in SentSegments, NEW a \in Address, k < i + 1, Covers(k, a),
               \A l \in SentSegments : k < l /\ l < i + 1 => ~Covers(l, a)
        PROVE  mem'[a] = ByteOf(k, a)
    <3>1. k \in Nat /\ i \in Nat
      BY <1>2, <1>3 DEF SentSegments
    <3>2. CASE k = i
      BY <1>2, <2>1, <3>2
    <3>3. CASE k < i
      <4>1. ~Covers(i, a)
        BY <1>2, <2>1, <3>1, <3>3
      <4>2. \A l \in SentSegments : k < l /\ l < i => ~Covers(l, a)
        <5>1. \A l \in SentSegments : l \in Nat
          BY <1>3 DEF SentSegments
        <5> QED
          BY <2>1, <3>1, <5>1
      <4>3. mem[a] = ByteOf(k, a)
        BY <1>1, <2>1, <3>3, <4>2 DEF TableInv, InPlace
      <4> QED
        BY <1>2, <4>1, <4>3
    <3> QED
      BY <2>1, <3>1, <3>2, <3>3
  <2> QED
    BY <1>1, <2>1, SentKept DEF InPlace
<1>6. i' \in 1 .. SentHeader'.phnum + 1 /\ HeaderAccepted(SentHeader')
  BY <1>1, <1>2, <1>3, SentKept DEF TableInv
<1> QED
  BY <1>1, <1>4, <1>5, <1>6 DEF TableInv, Accepted

(* When the table ends, the program is in place.                           *)
LEMMA FinishTable ==
  ASSUME TypeOK, FieldInv, TableInv, LinkedAboveHeap, Finish
  PROVE  TableInv' /\ ProgramAsSent'
<1>1. /\ pc = "table" /\ pc' # "table" /\ pc \in Accepted /\ taken' = taken /\ mem' = mem
      /\ i > eh(mem).phnum
      /\ (pc' = "call" => entry' = eh(mem).entry)
      /\ pc' \in {"call", "prompt"}
  BY DEF Finish, Return, Accepted
<1>2. /\ eh(mem) = SentHeader /\ SentHeader.phnum \in Nat /\ HeaderAccepted(SentHeader)
  BY <1>1, SentFacts, HeaderRead DEF TableInv
<1>3. \A k \in 1 .. SentHeader.phnum : k < i /\ Passed(k)
  <2>1. \A k \in 1 .. SentHeader.phnum : k \in 1 .. (i - 1) /\ k < i
    BY <1>1, <1>2, StateFacts
  <2> QED
    BY <1>1, <2>1 DEF TableInv
<1>4. TableInv'
  <2>1. \A k \in 1 .. SentHeader'.phnum : Passed(k)'
    BY <1>1, <1>3, SentKept
  <2>2. HeaderAccepted(SentHeader')
    BY <1>1, <1>2, SentKept
  <2> QED
    BY <1>1, <2>1, <2>2 DEF TableInv, Accepted
<1>5. ASSUME pc' = "call" PROVE ProgramAsSent'
  <2>1. entry' = SentHeader.entry
    BY <1>1, <1>2, <1>5
  <2>2. \A k \in SentSegments : SegmentAccepted(SentHeader, SentSegment(k)) /\ k < i
    BY <1>3 DEF SentSegments, Passed
  <2>3. \A k \in SentSegments, a \in Address :
          /\ Covers(k, a)
          /\ \A l \in SentSegments : l > k => ~Covers(l, a)
          => mem[a] = ByteOf(k, a)
    BY <1>1, <2>2 DEF TableInv, InPlace
  <2>4. \A k \in SentSegments', a \in Address :
          /\ Covers(k, a)'
          /\ \A l \in SentSegments' : l > k => ~Covers(l, a)'
          => mem'[a] = ByteOf(k, a)'
    BY <1>1, <2>3, SentKept
  <2>5. /\ entry' = SentHeader'.entry
        /\ \A k \in SentSegments' : SegmentAccepted(SentHeader', SentSegment(k)')
    BY <1>1, <2>1, <2>2, SentKept
  <2> QED
    BY <2>4, <2>5 DEF ProgramAsSent, ByteOf
<1>6. ASSUME pc' # "call" PROVE ProgramAsSent'
  BY <1>6 DEF ProgramAsSent
<1> QED
  BY <1>4, <1>5, <1>6

(* Every step keeps what the table says of memory.                         *)
LEMMA TableKept ==
  ASSUME TypeOK, FieldInv, TableInv, ProgramAsSent, LinkedAboveHeap, [Next]_vars
  PROVE  TableInv' /\ ProgramAsSent'
<1>1. ASSUME pc' \notin Accepted PROVE TableInv' /\ ProgramAsSent'
  BY <1>1 DEF TableInv, ProgramAsSent, Accepted
<1>2. ASSUME UNCHANGED <<pc, i, entry, taken, mem>> PROVE TableInv' /\ ProgramAsSent'
  <2>2. InPlace(i)' <=> InPlace(i)
    BY <1>2, SentKept DEF InPlace
  <2>3. TableInv'
    BY <1>2, <2>2, SentKept DEF TableInv
  <2>4. ProgramAsSent'
    <3> SUFFICES ASSUME pc = "call" PROVE ProgramAsSent'
      BY <1>2 DEF ProgramAsSent
    <3>1. /\ entry = SentHeader.entry
          /\ \A k \in SentSegments : SegmentAccepted(SentHeader, SentSegment(k))
          /\ \A k \in SentSegments, a \in Address :
               /\ Covers(k, a)
               /\ \A l \in SentSegments : l > k => ~Covers(l, a)
               => mem[a] = ByteOf(k, a)
      BY DEF ProgramAsSent, ByteOf
    <3>2. /\ entry' = SentHeader'.entry
          /\ \A k \in SentSegments' : SegmentAccepted(SentHeader', SentSegment(k)')
          /\ \A k \in SentSegments', a \in Address :
               /\ Covers(k, a)'
               /\ \A l \in SentSegments' : l > k => ~Covers(l, a)'
               => mem'[a] = ByteOf(k, a)'
      BY <1>2, <3>1, SentKept
    <3> QED
      BY <3>2 DEF ProgramAsSent, ByteOf
  <2> QED
    BY <2>3, <2>4
<1>3. CASE UNCHANGED vars \/ (Arrive /\ UNCHANGED elf)
           \/ (\E f \in Sendings : HostSends(f) /\ UNCHANGED elf)
  <2>1. UNCHANGED <<pc, i, entry, taken, mem>>
    BY <1>3 DEF vars, Arrive, HostSends
  <2> QED
    BY <1>2, <2>1
<1>4. CASE LoadCommand \/ Receives \/ RejectFile \/ RejectHeader \/ RejectSegment \/ ProgramEnds
  <2>1. pc' \notin Accepted
    BY <1>4 DEF LoadCommand, Receives, RecvByte, AcceptMagic, RefuseMagic, AcceptSize, RefuseSize,
                DataRead, Done, Receiving, RejectFile, RejectHeader, RejectSegment, Return,
                ProgramEnds, Accepted
  <2> QED
    BY <1>1, <2>1
<1>5. CASE AcceptFile \/ SkipSegment \/ LoadSegment
  <2>1. TableInv' /\ pc' # "call"
    BY <1>5, AcceptFileTable, SkipSegmentTable, LoadSegmentTable
       DEF AcceptFile, SkipSegment, LoadSegment, InTable
  <2> QED
    BY <2>1 DEF ProgramAsSent
<1>6. ASSUME pc \in {"call", "run"}, pc' = "run", taken' = taken PROVE TableInv' /\ ProgramAsSent'
  <2>1. HeaderAccepted(SentHeader) /\ \A k \in 1 .. SentHeader.phnum : Passed(k)
    BY <1>6 DEF TableInv, Accepted
  <2>2. HeaderAccepted(SentHeader') /\ \A k \in 1 .. SentHeader'.phnum : Passed(k)'
    BY <1>6, <2>1, SentKept
  <2> QED
    BY <1>6, <2>2 DEF TableInv, ProgramAsSent
<1>7. CASE CallProgram
  BY <1>6, <1>7 DEF CallProgram
<1>8. ASSUME NEW b \in ProgramBytes, NEW n \in ProgramBlocks, ProgramSbrk(n, b)
      PROVE  TableInv' /\ ProgramAsSent'
  BY <1>6, <1>8 DEF ProgramSbrk
<1>9. ASSUME NEW b \in ProgramBytes, ProgramWrites(b) PROVE TableInv' /\ ProgramAsSent'
  BY <1>6, <1>9 DEF ProgramWrites
<1> QED
  BY <1>3, <1>4, <1>5, <1>7, <1>8, <1>9, FinishTable DEF Next, Shell, Loads, Program

(* All of it holds when the kernel has booted, ...                         *)
LEMMA InitMInv == Init => MInv
<1> SUFFICES ASSUME Init PROVE MInv
  OBVIOUS
<1>1. pc = "prompt" /\ loads = <<>>
  BY DEF Init, TransferInit
<1>2. DOMAIN loads = {}
  BY <1>1
<1>3. BlocksInv
  BY <1>2 DEF BlocksInv
<1> QED
  BY <1>1, <1>3, InitTypeOK DEF MInv, FieldInv, TableInv, ProgramAsSent, Complete, Accepted

(* ... and every step keeps it while programs are linked above the heap.   *)
LEMMA NextMInv == MInv /\ LinkedAboveHeap /\ [Next]_vars => MInv'
BY NextTypeOK, BlocksKept, FieldsKept, TableKept DEF MInv

(* Under LinkedAboveHeap, what the fields, the blocks, the table and       *)
(* memory say of each other holds for as long as the shell runs.           *)
LEMMA LoadInvariant == Spec /\ []LinkedAboveHeap => []MInv
BY InitMInv, NextMInv, PTL DEF Spec

(* Programs linked above the heap: when cmd_load calls one, memory holds   *)
(* it as the host has sent it, whatever the program headers say and        *)
(* whatever was loaded, run and written before.                            *)
THEOREM LoadProgramAsSent == Spec /\ []LinkedAboveHeap => []ProgramAsSent
<1>1. MInv => ProgramAsSent
  BY DEF MInv
<1> QED
  BY <1>1, LoadInvariant, PTL

(* What a load appends leaves the loads before it.                         *)
LEMMA LoadsExtended ==
  ASSUME TypeOK, [Next]_vars
  PROVE  /\ \A j \in DOMAIN loads : j \in DOMAIN loads' /\ loads'[j] = loads[j]
         /\ loads' # loads => DataRead \/ RefuseMagic \/ RefuseSize
<1>1. ASSUME NEW ok \in BOOLEAN, NEW next \in {"prompt", "elf"}, Done(ok, next),
             NEW j \in DOMAIN loads
      PROVE  j \in DOMAIN loads' /\ loads'[j] = loads[j]
  <2> DEFINE new == [ok |-> ok, addr |-> buf, size |-> size, room |-> room]
  <2>1. loads' = Append(loads, new) /\ new \in Reception
    BY <1>1, StateFacts DEF Done, Reception
  <2> HIDE DEF new
  <2>2. /\ loads' \in Seq(Reception) /\ Len(loads') = Len(loads) + 1
        /\ \A x \in 1 .. Len(loads) : loads'[x] = loads[x]
    BY <2>1, StateFacts, AppendProperties
  <2>3. DOMAIN loads' = 1 .. Len(loads')
    BY <2>2, LenProperties
  <2> QED
    BY <2>2, <2>3, StateFacts
<1>2. CASE loads' = loads
  BY <1>2
<1>3. CASE DataRead \/ RefuseMagic \/ RefuseSize
  BY <1>1, <1>3 DEF DataRead, RefuseMagic, RefuseSize
<1>4. CASE Receives
  BY <1>2, <1>3, <1>4 DEF Receives, RecvByte, AcceptMagic, AcceptSize
<1>5. CASE Loads \/ CallProgram \/ Program \/ UNCHANGED vars
  <2>1. loads' = loads
    BY <1>5 DEF Loads, CallProgram, Program, RejectFile, AcceptFile, RejectHeader,
                SkipSegment, RejectSegment, LoadSegment, Finish, Return,
                ProgramWrites, ProgramSbrk, ProgramEnds, vars
  <2> QED
    BY <1>2, <2>1
<1>6. CASE Arrive \/ LoadCommand \/ \E f \in Sendings : HostSends(f)
  BY <1>2, <1>6 DEF Arrive, LoadCommand, HostSends
<1> QED
  BY <1>4, <1>5, <1>6 DEF Next, Shell

(* No step writes into a block that was received.                          *)
LEMMA ContentsKept ==
  ASSUME MInv, LinkedAboveHeap, [Next]_vars, NEW j \in DOMAIN loads, loads[j].ok
  PROVE  loads'[j] = loads[j] /\ Contents(loads[j])' = Contents(loads[j])
<1>1. TypeOK /\ BlocksInv /\ FieldInv /\ TableInv
  BY DEF MInv
<1> DEFINE l == loads[j]
<1>2. loads'[j] = l
  BY <1>1, LoadsExtended
<1>3. /\ l.addr \in Nat /\ l.size \in Nat /\ HEAP_BASE <= l.addr /\ l.addr + l.size <= heap_cur
      /\ (pc = "data" => l.addr + l.size <= buf)
      /\ heap_cur \in Nat /\ heap_cur <= HeapLimit /\ HEAP_BASE \in Nat /\ HeapLimit \in Nat
      /\ buf \in Nat /\ Len(got) \in Nat
  BY <1>1, BlockFacts, StateFacts, ConstantFacts DEF BlocksInv
<1> HIDE DEF l
<1>4. ASSUME NEW n \in 1 .. l.size PROVE mem'[l.addr + n - 1] = mem[l.addr + n - 1]
  <2>1. l.addr + n - 1 \in HEAP_BASE .. (HeapLimit - 1) /\ l.addr + n - 1 < heap_cur
    BY <1>3
  <2>2. l.addr + n - 1 \in Address
    BY <2>1, ConstantFacts
  <2>3. pc = "data" => l.addr + n - 1 # buf + Len(got)
    BY <1>3
  <2> QED
    BY <1>1, <2>1, <2>2, <2>3, MemoryKept
<1>5. [n \in 1 .. l.size |-> mem'[l.addr + n - 1]] = [n \in 1 .. l.size |-> mem[l.addr + n - 1]]
  BY <1>4
<1> QED
  BY <1>2, <1>5 DEF Contents, l

(* Programs linked above the heap: neither a later load nor a program      *)
(* writes into what an earlier load received.                              *)
THEOREM LoadBuffersKept == Spec /\ []LinkedAboveHeap => BuffersKept
<1> HIDE DEF port, heap, load, transfer, received, elf
<1>1. MInv /\ LinkedAboveHeap /\ [Next]_vars
        => [BlocksSame]_transfer
  <2> SUFFICES ASSUME MInv, LinkedAboveHeap, [Next]_vars, NEW j \in DOMAIN loads, loads[j].ok
               PROVE  Contents(loads[j]) = Contents(loads[j])'
    BY DEF BlocksSame
  <2> QED
    BY ContentsKept
<1> QED
  BY <1>1, LoadInvariant, PTL DEF Spec, BuffersKept

----------------------------------------------------------------------------
(* Frames and loads.                                                       *)

\* The first p - 1 loads have succeeded, on the frames of a host that keeps
\* to the protocol, and com2_init has thrown nothing away.
InStep(p) == /\ ~dropped
             /\ \A j \in 1 .. (p - 1) : /\ loads[j].ok
                                        /\ j \in DOMAIN sent => WellFormed(sent[j])

\* rest[j] is all that has been sent from frame j on.
RestOf(rest) == /\ rest[Len(sent) + 1] = <<>>
                /\ \A j \in 1 .. Len(sent) : rest[j] = sent[j] \o rest[j + 1]

\* A load in step has a frame that belongs to it, and after n of them what is
\* on its way is what has been sent from frame n + 1 on.
StreamInv ==
  /\ \A p \in DOMAIN loads : InStep(p) => p \in DOMAIN sent
  /\ InStep(Len(loads) + 1) =>
       /\ Len(loads) <= Len(sent)
       /\ \E rest \in [1 .. Len(sent) + 1 -> Seq(Byte)] :
            RestOf(rest) /\ rest[Len(loads) + 1] = Pending

SInv == MInv /\ StreamInv /\ FramesReceived

(* Two ways to cut one sequence in two.                                    *)
LEMMA CutTwice ==
  ASSUME NEW s \in Seq(Byte), NEW t \in Seq(Byte), NEW u \in Seq(Byte), NEW v \in Seq(Byte),
         s \o t = u \o v
  PROVE  /\ \A k \in 1 .. Len(s) : k <= Len(u) => s[k] = u[k]
         /\ Len(s) = Len(u) => s = u /\ t = v
<1>1. /\ Len(s) \in Nat /\ Len(t) \in Nat /\ Len(u) \in Nat /\ Len(v) \in Nat
  BY LenProperties
<1>2. ASSUME NEW k \in 1 .. Len(s), k <= Len(u) PROVE s[k] = u[k]
  <2>1. k \in 1 .. Len(s) + Len(t) /\ k \in 1 .. Len(u) + Len(v) /\ k <= Len(s)
    BY <1>1, <1>2
  <2>2. (s \o t)[k] = s[k]
    BY <2>1, ConcatProperties
  <2>3. (u \o v)[k] = u[k]
    BY <1>2, <2>1, ConcatProperties
  <2> QED
    BY <2>2, <2>3
<1>3. ASSUME Len(s) = Len(u) PROVE s = u /\ t = v
  <2>1. \A k \in 1 .. Len(s) : s[k] = u[k]
    BY <1>1, <1>2, <1>3
  <2>2. s = u
    BY <1>3, <2>1, SeqEqual
  <2> QED
    BY <2>2, ConcatSimplifications
<1> QED
  BY <1>2, <1>3

(* A byte taken off the front of one and put behind the other.             *)
LEMMA ByteMoved ==
  ASSUME NEW s \in Seq(Byte), NEW t \in Seq(Byte), t # <<>>
  PROVE  Append(s, Head(t)) \o Tail(t) = s \o t
<1>1. Head(t) \in Byte /\ Tail(t) \in Seq(Byte)
  BY HeadTailProperties
<1>2. <<Head(t)>> \in Seq(Byte) /\ Append(s, Head(t)) = s \o <<Head(t)>>
  BY <1>1, AppendIsConcat
<1>3. <<Head(t)>> \o Tail(t) = t
  <2>0. Len(t) \in Nat \ {0} /\ Len(Tail(t)) = Len(t) - 1
    BY EmptySeq, HeadTailProperties
  <2>1. Len(<<Head(t)>>) = 1 /\ <<Head(t)>>[1] = Head(t) /\ Head(t) = t[1]
    OBVIOUS
  <2>2. /\ <<Head(t)>> \o Tail(t) \in Seq(Byte)
        /\ Len(<<Head(t)>> \o Tail(t)) = 1 + Len(Tail(t))
        /\ \A k \in 1 .. 1 + Len(Tail(t)) : (<<Head(t)>> \o Tail(t))[k] =
             IF k <= 1 THEN <<Head(t)>>[k] ELSE Tail(t)[k - 1]
    BY <1>1, <1>2, <2>1, ConcatProperties
  <2>3. ASSUME NEW k \in 1 .. Len(t) PROVE (<<Head(t)>> \o Tail(t))[k] = t[k]
    <3>1. CASE k = 1
      BY <2>0, <2>1, <2>2, <3>1
    <3>2. CASE k # 1
      <4>1. k - 1 \in 1 .. Len(Tail(t)) /\ k \in 1 .. 1 + Len(Tail(t)) /\ ~(k <= 1) /\ k - 1 + 1 = k
        BY <2>0, <3>2
      <4> QED
        BY <2>2, <4>1, HeadTailProperties
    <3> QED
      BY <3>1, <3>2
  <2>4. Len(<<Head(t)>> \o Tail(t)) = Len(t)
    BY <2>0, <2>2
  <2> QED
    BY <2>2, <2>3, <2>4, SeqEqual
<1> QED
  BY <1>1, <1>2, <1>3, ConcatAssociative

(* What is on its way is bytes.                                            *)
LEMMA PendingTyped == ASSUME TypeOK PROVE Pending \in Seq(Byte) /\ fifo \o wire \in Seq(Byte)
<1>1. fifo \o wire \in Seq(Byte)
  BY StateFacts, ConcatProperties
<1>2. (IF Receiving THEN taken ELSE <<>>) \in Seq(Byte)
  BY StateFacts, EmptySeq
<1> QED
  BY <1>1, <1>2, ConcatProperties DEF Pending

(* A byte on its way stays on its way.                                     *)
LEMMA RecvBytePending ==
  ASSUME TypeOK, RecvByte
  PROVE  Pending' = Pending
<1>1. /\ Receiving /\ Receiving' /\ fifo # <<>> /\ fifo' = Tail(fifo)
      /\ taken' = Append(taken, Head(fifo)) /\ wire' = wire
  BY DEF RecvByte, Receiving
<1>2. /\ Head(fifo) \in Byte /\ Tail(fifo) \in Seq(Byte) /\ taken' \in Seq(Byte)
  BY <1>1, StateFacts, HeadTailProperties, ByteReceived
<1>3. taken' \o fifo' = taken \o fifo
  BY <1>1, StateFacts, ByteMoved
<1>4. wire \in Seq(Byte) /\ fifo \in Seq(Byte) /\ taken \in Seq(Byte) /\ fifo' \in Seq(Byte)
  BY <1>1, <1>2, StateFacts
<1>5. (taken' \o fifo') \o wire = taken' \o (fifo' \o wire)
  BY <1>2, <1>4, ConcatAssociative
<1>6. (taken \o fifo) \o wire = taken \o (fifo \o wire)
  BY <1>4, ConcatAssociative
<1> QED
  BY <1>1, <1>3, <1>5, <1>6 DEF Pending

(* So does one that comes from the wire into the port.                     *)
LEMMA ArrivePending ==
  ASSUME TypeOK, Arrive
  PROVE  Pending' = Pending
<1>1. fifo' \o wire' = fifo \o wire
  BY StateFacts, ByteMoved DEF Arrive
<1> QED
  BY <1>1 DEF Pending, Receiving, Arrive

(* The frame a load is reading: all that has been read of it is its own.   *)
LEMMA CurrentFrame ==
  ASSUME TypeOK, StreamInv, Receiving, taken # <<>>, InStep(Len(loads) + 1)
  PROVE  /\ Len(loads) + 1 \in DOMAIN sent
         /\ LET f == sent[Len(loads) + 1]
            IN  /\ f \in Seq(Byte)
                /\ \A k \in 1 .. Len(taken) : k <= Len(f) => taken[k] = f[k]
         /\ Len(taken) = Len(sent[Len(loads) + 1]) =>
              /\ taken = sent[Len(loads) + 1]
              /\ \E rest \in [1 .. Len(sent) + 1 -> Seq(Byte)] :
                   RestOf(rest) /\ rest[Len(loads) + 2] = fifo \o wire
<1> DEFINE n == Len(loads) + 1
<1>1. n \in Nat \ {0} /\ Len(sent) \in Nat /\ n <= Len(sent) + 1 /\ Len(loads) + 2 = n + 1
  BY StateFacts DEF StreamInv
<1>2. PICK rest \in [1 .. Len(sent) + 1 -> Seq(Byte)] : RestOf(rest) /\ rest[n] = Pending
  BY DEF StreamInv
<1> HIDE DEF n
<1>3. Pending = taken \o (fifo \o wire) /\ taken \in Seq(Byte) /\ fifo \o wire \in Seq(Byte)
  BY StateFacts, PendingTyped DEF Pending
<1>4. Pending # <<>>
  <2>1. Len(taken) \in Nat \ {0} /\ Len(fifo \o wire) \in Nat
    BY <1>3, EmptySeq, LenProperties
  <2>2. Len(Pending) = Len(taken) + Len(fifo \o wire)
    BY <1>3, ConcatProperties
  <2> QED
    BY <2>1, <2>2, EmptySeq
<1>5. n \in 1 .. Len(sent)
  <2>1. n # Len(sent) + 1
    BY <1>2, <1>4 DEF RestOf
  <2> QED
    BY <1>1, <2>1
<1>6. sent[n] \in Seq(Byte) /\ rest[n + 1] \in Seq(Byte)
  <2>1. sent[n] \in Sendings
    BY <1>5, StateFacts, ElementOfSeq
  <2>2. n + 1 \in 1 .. Len(sent) + 1
    BY <1>1, <1>5
  <2> QED
    BY <1>2, <2>1, <2>2, TransferAssumption
<1>7. taken \o (fifo \o wire) = sent[n] \o rest[n + 1]
  BY <1>2, <1>3, <1>5 DEF RestOf
<1>8. /\ \A k \in 1 .. Len(taken) : k <= Len(sent[n]) => taken[k] = sent[n][k]
      /\ Len(taken) = Len(sent[n]) => taken = sent[n] /\ fifo \o wire = rest[n + 1]
  <2>1. /\ taken \in Seq(Byte) /\ fifo \o wire \in Seq(Byte)
        /\ sent[n] \in Seq(Byte) /\ rest[n + 1] \in Seq(Byte)
        /\ taken \o (fifo \o wire) = sent[n] \o rest[n + 1]
    BY <1>3, <1>6, <1>7
  <2> DEFINE tail == fifo \o wire
             f == sent[n]
             r == rest[n + 1]
  <2>2. /\ taken \in Seq(Byte) /\ tail \in Seq(Byte) /\ f \in Seq(Byte) /\ r \in Seq(Byte)
        /\ taken \o tail = f \o r
    BY <2>1
  <2> HIDE DEF tail, f, r
  <2>3. \A k \in 1 .. Len(taken) : k <= Len(f) => taken[k] = f[k]
    BY <2>2, CutTwice
  <2>4. Len(taken) = Len(f) => taken = f /\ tail = r
    BY <2>2, CutTwice
  <2> QED
    BY <2>3, <2>4 DEF tail, f, r
<1> QED
  BY <1>1, <1>2, <1>5, <1>6, <1>8, StateFacts DEF n

(* What a well-formed frame has agrees with what was read of it.           *)
LEMMA FrameFields ==
  ASSUME NEW s \in Seq(Byte), NEW f \in Seq(Byte), WellFormed(f),
         \A k \in 1 .. Len(s) : k <= Len(f) => s[k] = f[k]
  PROVE  /\ Len(s) >= Len(MAGIC) => SubSeq(s, 1, Len(MAGIC)) = MAGIC
         /\ Len(s) >= Header => SizeField(s) = SizeField(f)
         /\ Value(SizeField(f)) \in 1 .. KELF_MAX_SIZE
         /\ Len(f) = Header + Value(SizeField(f))
<1>1. /\ Len(f) > Header /\ SubSeq(f, 1, Len(MAGIC)) = MAGIC
      /\ Value(SizeField(f)) = Len(Data(f)) /\ Len(Data(f)) <= KELF_MAX_SIZE
  BY DEF WellFormed
<1>2. /\ Len(f) \in Nat /\ Len(s) \in Nat /\ Header \in Nat /\ Len(MAGIC) \in Nat \ {0}
      /\ Len(MAGIC) <= Header /\ KELF_MAX_SIZE \in Nat
  BY LenProperties, HeaderFacts, ConstantFacts
<1>3. Len(Data(f)) = Len(f) - Header
  BY <1>1, <1>2, DataFacts
<1>4. ASSUME Len(s) >= Len(MAGIC) PROVE SubSeq(s, 1, Len(MAGIC)) = MAGIC
  <2>1. Len(MAGIC) <= Len(s) /\ Len(MAGIC) <= Len(f)
    BY <1>1, <1>2, <1>4
  <2>2. \A k \in 1 .. Len(MAGIC) : s[k] = f[k]
    BY <1>2, <2>1
  <2>3. SubSeq(s, 1, Len(MAGIC)) = SubSeq(f, 1, Len(MAGIC))
    BY <1>2, <2>1, <2>2, PartEqual
  <2> QED
    BY <1>1, <2>3
<1>5. ASSUME Len(s) >= Header PROVE SizeField(s) = SizeField(f)
  <2> DEFINE a == Len(MAGIC) + 1
  <2>1. Header <= Len(s) /\ Header <= Len(f) /\ a \in Nat \ {0}
    BY <1>1, <1>2, <1>5
  <2>2. \A k \in a .. Header : s[k] = f[k]
    BY <1>2, <2>1
  <2> HIDE DEF a
  <2>3. SubSeq(s, a, Header) = SubSeq(f, a, Header)
    BY <1>2, <2>1, <2>2, PartEqual
  <2> QED
    BY <2>3 DEF SizeField, a
<1>6. Value(SizeField(f)) \in 1 .. KELF_MAX_SIZE /\ Len(f) = Header + Value(SizeField(f))
  BY <1>1, <1>2, <1>3
<1> QED
  BY <1>4, <1>5, <1>6

(* Loads that end, and frames that follow.                                 *)
LEMMA TakenSome ==
  ASSUME TypeOK, FieldInv, Receiving, Len(got) = Wanted
  PROVE  taken # <<>>
<1>1. Len(MAGIC) \in Nat \ {0} /\ Len(got) \in Nat /\ Header \in Nat /\ Header >= Len(MAGIC)
  BY ConstantFacts, StateFacts, HeaderFacts
<1>2. Len(taken) >= Len(MAGIC)
  <2>1. CASE pc = "magic"
    BY <1>1, <2>1 DEF FieldInv, Wanted
  <2>2. CASE pc = "size"
    BY <1>1, <2>2 DEF FieldInv
  <2>3. CASE pc = "data"
    BY <1>1, <2>3 DEF FieldInv
  <2> QED
    BY <2>1, <2>2, <2>3 DEF Receiving
<1>3. Len(<<>>) = 0
  BY EmptySeq
<1> QED
  BY <1>1, <1>2, <1>3

(* Nothing but a load that ends and a host that sends concerns the order   *)
(* of frames and loads.                                                    *)
LEMMA StreamSame ==
  ASSUME StreamInv, loads' = loads, sent' = sent, dropped => dropped',
         ~dropped' => Pending' = Pending
  PROVE  StreamInv'
<1>1. ASSUME NEW p, InStep(p)' PROVE InStep(p)
  BY <1>1 DEF InStep
<1>2. ASSUME NEW p \in DOMAIN loads', InStep(p)' PROVE p \in DOMAIN sent'
  BY <1>1, <1>2 DEF StreamInv
<1>3. ASSUME InStep(Len(loads) + 1)'
      PROVE  /\ Len(loads') <= Len(sent')
             /\ \E rest \in [1 .. Len(sent') + 1 -> Seq(Byte)] :
                  RestOf(rest)' /\ rest[Len(loads') + 1] = Pending'
  <2>1. ~dropped' /\ InStep(Len(loads) + 1)
    BY <1>3 DEF InStep
  <2>2. PICK rest \in [1 .. Len(sent) + 1 -> Seq(Byte)] :
          RestOf(rest) /\ rest[Len(loads) + 1] = Pending
    BY <2>1 DEF StreamInv
  <2>3. RestOf(rest)' /\ rest[Len(loads') + 1] = Pending'
    BY <2>1, <2>2 DEF RestOf
  <2> QED
    BY <2>1, <2>3 DEF StreamInv
<1> QED
  BY <1>2, <1>3 DEF StreamInv

(* A frame that is sent comes after all that is on its way.                *)
LEMMA HostSendsStream ==
  ASSUME TypeOK, StreamInv, NEW f \in Sendings, HostSends(f)
  PROVE  StreamInv'
<1>1. /\ sent' = Append(sent, f) /\ f \in Seq(Byte) /\ wire' = wire \o f
      /\ UNCHANGED <<fifo, dropped, taken, pc, loads>>
  BY TransferAssumption DEF HostSends
<1>2. /\ Len(sent) \in Nat /\ Len(loads) \in Nat
      /\ DOMAIN sent = 1 .. Len(sent) /\ DOMAIN loads = 1 .. Len(loads)
  BY StateFacts
<1>3. /\ sent' \in Seq(Sendings) /\ Len(sent') = Len(sent) + 1
      /\ \A j \in 1 .. Len(sent) : sent'[j] = sent[j]
      /\ sent'[Len(sent) + 1] = f
  BY <1>1, StateFacts, AppendProperties
<1>4. DOMAIN sent' = 1 .. Len(sent) + 1
  BY <1>3, LenProperties
<1>5. ASSUME NEW p, InStep(p)' PROVE InStep(p)
  <2>1. ~dropped
    BY <1>1, <1>5 DEF InStep
  <2>2. ASSUME NEW j \in 1 .. (p - 1)
        PROVE  loads[j].ok /\ (j \in DOMAIN sent => WellFormed(sent[j]))
    <3>1. loads'[j].ok /\ (j \in DOMAIN sent' => WellFormed(sent'[j]))
      BY <1>5 DEF InStep
    <3>2. j \in DOMAIN sent => j \in DOMAIN sent' /\ sent'[j] = sent[j]
      BY <1>2, <1>3, <1>4
    <3> QED
      BY <1>1, <3>1, <3>2
  <2> QED
    BY <2>1, <2>2 DEF InStep
<1>6. ASSUME NEW p \in DOMAIN loads', InStep(p)' PROVE p \in DOMAIN sent'
  <2>1. p \in DOMAIN sent
    BY <1>1, <1>5, <1>6 DEF StreamInv
  <2> QED
    BY <1>2, <1>4, <2>1
<1>7. ASSUME InStep(Len(loads) + 1)'
      PROVE  /\ Len(loads') <= Len(sent')
             /\ \E rest \in [1 .. Len(sent') + 1 -> Seq(Byte)] :
                  RestOf(rest)' /\ rest[Len(loads') + 1] = Pending'
  <2>1. InStep(Len(loads) + 1)
    BY <1>1, <1>5, <1>7
  <2>2. Len(loads) <= Len(sent)
    BY <2>1 DEF StreamInv
  <2>3. PICK rest \in [1 .. Len(sent) + 1 -> Seq(Byte)] :
          RestOf(rest) /\ rest[Len(loads) + 1] = Pending
    BY <2>1 DEF StreamInv
  <2>4. \A j \in 1 .. Len(sent) + 1 : rest[j] \in Seq(Byte) /\ rest[j] \o f \in Seq(Byte)
    BY <1>1, <2>3, ConcatProperties
  <2>6. PICK more \in [1 .. Len(sent') + 1 -> Seq(Byte)] :
          /\ more[Len(sent') + 1] = <<>>
          /\ \A j \in 1 .. Len(sent) + 1 : more[j] = rest[j] \o f
    <3> DEFINE ext == [j \in 1 .. Len(sent') + 1 |->
                         IF j = Len(sent') + 1 THEN <<>> ELSE rest[j] \o f]
    <3>1. ext \in [1 .. Len(sent') + 1 -> Seq(Byte)]
      BY <1>2, <1>3, <2>4, EmptySeq
    <3>2. /\ ext[Len(sent') + 1] = <<>>
          /\ \A j \in 1 .. Len(sent) + 1 : ext[j] = rest[j] \o f
      BY <1>2, <1>3
    <3> HIDE DEF ext
    <3> QED
      BY <3>1, <3>2
  <2>7. ASSUME NEW j \in 1 .. Len(sent') PROVE more[j] = sent'[j] \o more[j + 1]
    <3>1. CASE j \in 1 .. Len(sent)
      <4>1. /\ rest[j] = sent[j] \o rest[j + 1] /\ sent'[j] = sent[j]
            /\ j + 1 \in 1 .. Len(sent) + 1 /\ j \in 1 .. Len(sent) + 1
        <5>1. j \in 1 .. Len(sent) /\ j + 1 \in 1 .. Len(sent) + 1 /\ j \in 1 .. Len(sent) + 1
          BY <1>2, <3>1
        <5> QED
          BY <1>3, <2>3, <5>1 DEF RestOf
      <4>2. sent[j] \in Seq(Byte) /\ rest[j + 1] \in Seq(Byte)
        BY <2>4, <3>1, <4>1, StateFacts, ElementOfSeq, TransferAssumption
      <4>3. (sent[j] \o rest[j + 1]) \o f = sent[j] \o (rest[j + 1] \o f)
        <5> DEFINE s == sent[j]
                   t == rest[j + 1]
        <5>1. s \in Seq(Byte) /\ t \in Seq(Byte) /\ f \in Seq(Byte)
          BY <1>1, <4>2
        <5> HIDE DEF s, t
        <5>2. (s \o t) \o f = s \o (t \o f)
          BY <5>1, ConcatAssociative
        <5> QED
          BY <5>2 DEF s, t
      <4> QED
        BY <2>6, <4>1, <4>3
    <3>2. CASE j = Len(sent) + 1
      <4>1. rest[j] = <<>> /\ more[j] = <<>> \o f /\ more[j + 1] = <<>>
        BY <1>2, <1>3, <2>3, <2>6, <3>2 DEF RestOf
      <4> QED
        BY <1>1, <1>3, <3>2, <4>1, ConcatEmptySeq
    <3> QED
      BY <1>2, <1>3, <3>1, <3>2
  <2>8. /\ more[Len(sent') + 1] = <<>>
        /\ \A j \in 1 .. Len(sent') : more[j] = sent'[j] \o more[j + 1]
    BY <2>6, <2>7
  <2>9. more[Len(loads') + 1] = Pending'
    <3>1. more[Len(loads) + 1] = Pending \o f
      <4>1. Len(loads) + 1 \in 1 .. Len(sent) + 1
        BY <1>2, <2>2
      <4> QED
        BY <2>3, <2>6, <4>1
    <3> DEFINE first == IF Receiving THEN taken ELSE <<>>
    <3>2. first \in Seq(Byte) /\ fifo \o wire \in Seq(Byte)
      BY StateFacts, EmptySeq, PendingTyped
    <3>3. Pending = first \o (fifo \o wire) /\ Pending' = first \o (fifo \o (wire \o f))
      BY <1>1 DEF Pending, Receiving
    <3> HIDE DEF first
    <3>4. (first \o (fifo \o wire)) \o f = first \o ((fifo \o wire) \o f)
      <4> DEFINE tail == fifo \o wire
      <4>1. first \in Seq(Byte) /\ tail \in Seq(Byte) /\ f \in Seq(Byte)
        BY <1>1, <3>2
      <4> HIDE DEF tail
      <4>2. (first \o tail) \o f = first \o (tail \o f)
        BY <4>1, ConcatAssociative
      <4> QED
        BY <4>2 DEF tail
    <3>5. (fifo \o wire) \o f = fifo \o (wire \o f)
      <4>1. fifo \in Seq(Byte) /\ wire \in Seq(Byte) /\ f \in Seq(Byte)
        BY <1>1, StateFacts
      <4> QED
        BY <4>1, ConcatAssociative
    <3> QED
      BY <1>1, <3>1, <3>3, <3>4, <3>5
  <2>10. RestOf(more)'
    BY <2>8 DEF RestOf
  <2>11. Len(loads') <= Len(sent')
    BY <1>1, <1>2, <1>3, <2>2
  <2> QED
    BY <2>9, <2>10, <2>11
<1> QED
  BY <1>6, <1>7 DEF StreamInv

(* A load that ends, and the frame it has read if it is in step.           *)
LEMMA LoadEnds ==
  ASSUME TypeOK, FieldInv, DataRead \/ RefuseMagic \/ RefuseSize
  PROVE  /\ Receiving /\ ~Receiving' /\ taken # <<>>
         /\ UNCHANGED <<sent, fifo, wire, taken, dropped, mem>>
         /\ Len(loads') = Len(loads) + 1 /\ DOMAIN loads' = 1 .. Len(loads) + 1
         /\ \A j \in 1 .. Len(loads) : loads'[j] = loads[j]
         /\ loads'[Len(loads) + 1]
              = [ok |-> DataRead, addr |-> buf, size |-> size, room |-> room]
         /\ \A p \in 1 .. Len(loads) + 1 : InStep(p)' => InStep(p)
<1>1. /\ Receiving /\ ~Receiving' /\ Len(got) = Wanted
      /\ UNCHANGED <<sent, fifo, wire, taken, dropped, mem>>
  BY DEF DataRead, RefuseMagic, RefuseSize, MagicRead, SizeRead, Done, Receiving
<1>2. taken # <<>>
  BY <1>1, TakenSome
<1> DEFINE new == [ok |-> DataRead, addr |-> buf, size |-> size, room |-> room]
<1>3. loads' = Append(loads, new)
  <2>1. CASE DataRead
    <3>1. DataRead = TRUE
      BY <2>1
    <3> QED
      BY <3>1 DEF DataRead, Done
  <2>2. CASE RefuseMagic \/ RefuseSize
    <3>1. DataRead = FALSE
      BY <2>2 DEF DataRead, RefuseMagic, RefuseSize, MagicRead, SizeRead
    <3> QED
      BY <2>2, <3>1 DEF RefuseMagic, RefuseSize, Done
  <2> QED
    BY <2>1, <2>2
<1>4. new \in Reception
  <2>1. DataRead \in BOOLEAN
    BY DEF DataRead
  <2> QED
    BY <2>1, StateFacts DEF Reception
<1> HIDE DEF new
<1>5. /\ loads' \in Seq(Reception) /\ Len(loads') = Len(loads) + 1
      /\ \A j \in 1 .. Len(loads) : loads'[j] = loads[j]
      /\ loads'[Len(loads) + 1] = new
  BY <1>3, <1>4, StateFacts, AppendProperties
<1>6. DOMAIN loads' = 1 .. Len(loads) + 1
  BY <1>5, LenProperties
<1>7. ASSUME NEW p \in 1 .. Len(loads) + 1, InStep(p)' PROVE InStep(p)
  <2>1. ~dropped
    BY <1>1, <1>7 DEF InStep
  <2>2. ASSUME NEW j \in 1 .. (p - 1)
        PROVE  loads[j].ok /\ (j \in DOMAIN sent => WellFormed(sent[j]))
    <3>1. loads'[j].ok /\ (j \in DOMAIN sent' => WellFormed(sent'[j]))
      BY <1>7 DEF InStep
    <3>2. loads'[j] = loads[j]
      BY <1>5, StateFacts
    <3> QED
      BY <1>1, <3>1, <3>2
  <2> QED
    BY <2>1, <2>2 DEF InStep
<1> QED
  BY <1>1, <1>2, <1>5, <1>6, <1>7 DEF new

(* The data of a well-formed frame is read to its end, and no further.     *)
LEMMA FrameRead ==
  ASSUME TypeOK, FieldInv, StreamInv, DataRead, InStep(Len(loads) + 1),
         WellFormed(sent[Len(loads) + 1])
  PROVE  Len(taken) = Len(sent[Len(loads) + 1])
<1> DEFINE f == sent[Len(loads) + 1]
<1>1. /\ f \in Seq(Byte) /\ taken \in Seq(Byte) /\ WellFormed(f)
      /\ \A k \in 1 .. Len(taken) : k <= Len(f) => taken[k] = f[k]
  BY LoadEnds, CurrentFrame, StateFacts
<1> HIDE DEF f
<1>2. Len(taken) = Header + size /\ size = Value(SizeField(taken))
  BY DEF DataRead, Wanted, FieldInv
<1>3. Len(taken) >= Header
  <2>1. size \in Nat /\ Header \in Nat
    BY StateFacts, HeaderFacts
  <2> QED
    BY <1>2, <2>1
<1>4. SizeField(taken) = SizeField(f) /\ Len(f) = Header + Value(SizeField(f))
  BY <1>1, <1>3, FrameFields
<1> QED
  BY <1>2, <1>4 DEF f

(* The load after one in step finds the frame after its frame.             *)
LEMMA LoadEndsStream ==
  ASSUME TypeOK, FieldInv, StreamInv, DataRead \/ RefuseMagic \/ RefuseSize
  PROVE  StreamInv'
<1>0. PICK n \in Nat : n = Len(loads) + 1
  BY StateFacts
<1>1. n \in Nat \ {0} /\ DOMAIN loads = 1 .. Len(loads) /\ Len(loads) \in Nat
      /\ Len(loads) + 2 = n + 1 /\ n - 1 = Len(loads)
  BY <1>0, StateFacts
<1>2. /\ Receiving /\ ~Receiving' /\ taken # <<>>
      /\ UNCHANGED <<sent, fifo, wire, taken, dropped>>
      /\ Len(loads') = n /\ DOMAIN loads' = 1 .. n
      /\ loads'[n] = [ok |-> DataRead, addr |-> buf, size |-> size, room |-> room]
      /\ \A p \in 1 .. n : InStep(p)' => InStep(p)
  BY <1>0, LoadEnds
<1>3. ASSUME NEW p \in DOMAIN loads', InStep(p)' PROVE p \in DOMAIN sent'
  <2>1. p \in 1 .. n /\ InStep(p)
    BY <1>2, <1>3
  <2>2. CASE p = n
    BY <1>0, <1>2, <2>1, <2>2, CurrentFrame
  <2>3. CASE p \in DOMAIN loads
    BY <1>2, <2>1, <2>3 DEF StreamInv
  <2> QED
    BY <1>1, <2>1, <2>2, <2>3
<1>4. ASSUME InStep(n + 1)'
      PROVE  /\ n <= Len(sent')
             /\ \E rest \in [1 .. Len(sent') + 1 -> Seq(Byte)] :
                  RestOf(rest)' /\ rest[n + 1] = Pending'
  <2>1. ~dropped' /\ \A j \in 1 .. n : loads'[j].ok /\ (j \in DOMAIN sent' => WellFormed(sent'[j]))
    <3>1. n + 1 - 1 = n
      BY <1>1
    <3> QED
      BY <1>4, <3>1 DEF InStep
  <2>2. InStep(n)
    <3>1. \A j \in 1 .. (n - 1) : j \in 1 .. n
      BY <1>1
    <3>2. InStep(n)'
      BY <2>1, <3>1 DEF InStep
    <3>3. n \in 1 .. n
      BY <1>1
    <3> QED
      BY <1>2, <3>2, <3>3
  <2>3. n \in DOMAIN sent
    BY <1>0, <1>2, <2>2, CurrentFrame
  <2>4. DataRead /\ WellFormed(sent[n])
    <3>1. n \in 1 .. n
      BY <1>1
    <3> QED
      BY <1>2, <2>1, <2>3, <3>1
  <2>5. Len(taken) = Len(sent[n])
    BY <1>0, <2>2, <2>4, FrameRead
  <2>6. PICK rest \in [1 .. Len(sent) + 1 -> Seq(Byte)] :
          RestOf(rest) /\ rest[n + 1] = fifo \o wire
    BY <1>0, <1>1, <1>2, <2>2, <2>5, CurrentFrame
  <2>7. Pending' = fifo \o wire
    BY <1>2, PendingTyped, ConcatEmptySeq DEF Pending
  <2>8. RestOf(rest)' /\ rest[n + 1] = Pending'
    BY <1>2, <2>6, <2>7 DEF RestOf
  <2>9. n <= Len(sent')
    BY <1>2, <2>3, StateFacts
  <2> QED
    BY <1>2, <2>8, <2>9
<1> QED
  BY <1>2, <1>3, <1>4 DEF StreamInv

(* Every step keeps loads and frames in step.                              *)
LEMMA StreamKept ==
  ASSUME TypeOK, FieldInv, StreamInv, [Next]_vars
  PROVE  StreamInv'
<1>1. CASE UNCHANGED vars
  BY <1>1, StreamSame DEF vars, Pending, Receiving
<1>2. CASE Arrive
  BY <1>2, StreamSame, ArrivePending DEF Arrive
<1>3. CASE LoadCommand
  <2>1. ~dropped' => fifo' = fifo
    BY <1>3 DEF LoadCommand, PortInit
  <2>2. ~Receiving /\ Receiving' /\ taken' = <<>> /\ wire' = wire
    BY <1>3 DEF LoadCommand, Receiving
  <2>3. ~dropped' => Pending' = Pending
    BY <2>1, <2>2 DEF Pending
  <2> QED
    BY <1>3, <2>3, StreamSame DEF LoadCommand
<1>4. CASE RecvByte
  BY <1>4, StreamSame, RecvBytePending DEF RecvByte
<1>5. CASE AcceptMagic \/ AcceptSize
  <2>1. Receiving /\ Receiving' /\ UNCHANGED <<taken, fifo, wire>>
    BY <1>5 DEF AcceptMagic, AcceptSize, MagicRead, SizeRead, Receiving
  <2>2. Pending' = Pending
    BY <2>1 DEF Pending
  <2> QED
    BY <1>5, <2>2, StreamSame DEF AcceptMagic, AcceptSize
<1>6. CASE Loads \/ CallProgram \/ Program
  <2>1. ~Receiving /\ ~Receiving' /\ UNCHANGED <<taken, fifo, wire, dropped, loads, sent>>
    BY <1>6 DEF Loads, CallProgram, Program, RejectFile, AcceptFile, RejectHeader,
                SkipSegment, RejectSegment, LoadSegment, Finish, Return, InTable, Receiving,
                ProgramWrites, ProgramSbrk, ProgramEnds
  <2>2. Pending' = Pending
    BY <2>1 DEF Pending
  <2> QED
    BY <2>1, <2>2, StreamSame
<1>7. CASE Receives
  BY <1>4, <1>5, <1>7, LoadEndsStream DEF Receives
<1> QED
  BY <1>1, <1>2, <1>3, <1>6, <1>7, HostSendsStream DEF Next, Shell

(* What the shell gets is the frame; it is refused only for want of room.  *)
LEMMA FrameOfLoad ==
  ASSUME TypeOK, FieldInv, StreamInv, DataRead \/ RefuseMagic \/ RefuseSize,
         InStep(Len(loads) + 1), WellFormed(sent[Len(loads) + 1])
  PROVE  IF Len(Data(sent[Len(loads) + 1])) <= room
           THEN DataRead /\ [k \in 1 .. size |-> mem[buf + k - 1]] = Data(sent[Len(loads) + 1])
           ELSE ~DataRead
<1> DEFINE f == sent[Len(loads) + 1]
<1>1. /\ f \in Seq(Byte) /\ taken \in Seq(Byte) /\ WellFormed(f)
      /\ \A k \in 1 .. Len(taken) : k <= Len(f) => taken[k] = f[k]
  BY LoadEnds, CurrentFrame, StateFacts
<1>2. DataRead => taken = f
  BY LoadEnds, CurrentFrame, FrameRead
<1> HIDE DEF f
<1>3. /\ Len(MAGIC) \in Nat /\ Header \in Nat /\ Len(MAGIC) <= Header /\ Len(got) \in Nat
      /\ size \in Nat /\ Len(taken) \in Nat /\ room \in Nat /\ buf \in Nat
  BY StateFacts, HeaderFacts, ConstantFacts
<1>4. /\ Len(taken) >= Len(MAGIC) => SubSeq(taken, 1, Len(MAGIC)) = MAGIC
      /\ Len(taken) >= Header => SizeField(taken) = SizeField(f)
      /\ Value(SizeField(f)) \in 1 .. KELF_MAX_SIZE
      /\ Value(SizeField(f)) = Len(Data(f))
  BY <1>1, FrameFields DEF WellFormed
<1>5. CASE DataRead
  <2>1. /\ Len(taken) = Header + size /\ size <= room
        /\ \A k \in 1 .. size : mem[buf + k - 1] = taken[Header + k]
    BY <1>5 DEF DataRead, Wanted, FieldInv, DataAt
  <2>2. /\ Data(taken) \in Seq(Byte) /\ Len(Data(taken)) = size
        /\ \A k \in 1 .. size : Data(taken)[k] = taken[Header + k]
    <3>1. Len(taken) >= Header /\ Len(taken) - Header = size
      BY <1>3, <2>1
    <3> QED
      BY <1>1, <3>1, DataFacts
  <2>3. Data(taken) \in [1 .. size -> Byte]
    BY <2>2, LenProperties
  <2>4. [k \in 1 .. size |-> mem[buf + k - 1]] = Data(taken)
    BY <2>1, <2>2, <2>3
  <2> QED
    BY <1>2, <1>5, <2>1, <2>2, <2>4 DEF f
<1>6. ~RefuseMagic
  <2> SUFFICES ASSUME RefuseMagic PROVE FALSE
    OBVIOUS
  <2>1. taken = got /\ Len(got) = Len(MAGIC) /\ got # MAGIC
    BY DEF RefuseMagic, MagicRead, Wanted, FieldInv
  <2>2. SubSeq(taken, 1, Len(MAGIC)) = MAGIC
    BY <1>3, <1>4, <2>1
  <2>3. SubSeq(taken, 1, Len(MAGIC)) = taken
    BY <1>1, <2>1, SubSeqFull
  <2> QED
    BY <2>1, <2>2, <2>3
<1>7. CASE RefuseSize
  <2>1. /\ SizeRead /\ pc = "size" /\ room = HeapLimit - heap_cur
        /\ ~(InRange(Value(got)) /\ Granted(Value(got)))
    BY <1>7 DEF RefuseSize, SizeRead, FieldInv
  <2>2. SizeField(taken) = got /\ Len(taken) = Header
    BY <2>1, SizeFieldRead
  <2>3. Value(got) = Len(Data(f)) /\ Value(got) \in 1 .. KELF_MAX_SIZE
    BY <1>3, <1>4, <2>2
  <2>4. ~(heap_cur + Len(Data(f)) <= HeapLimit)
    BY <2>1, <2>3 DEF InRange, Granted
  <2>5. ~(Len(Data(f)) <= room)
    <3>1. Len(Data(f)) \in Nat /\ heap_cur \in Nat /\ HeapLimit \in Nat
      BY <2>3, StateFacts, ConstantFacts
    <3> QED
      BY <2>1, <2>4, <3>1
  <2> QED
    BY <2>1, <2>5 DEF f, DataRead
<1> QED
  BY <1>5, <1>6, <1>7

(* What has been sent stays sent, and what was dropped stays dropped.      *)
LEMMA SentExtended ==
  ASSUME TypeOK, [Next]_vars
  PROVE  /\ \A j \in DOMAIN sent : j \in DOMAIN sent' /\ sent'[j] = sent[j]
         /\ dropped => dropped'
<1>1. ASSUME NEW f \in Sendings, HostSends(f), NEW j \in DOMAIN sent
      PROVE  j \in DOMAIN sent' /\ sent'[j] = sent[j]
  <2>1. /\ sent' \in Seq(Sendings) /\ Len(sent') = Len(sent) + 1
        /\ \A x \in 1 .. Len(sent) : sent'[x] = sent[x]
    BY <1>1, StateFacts, AppendProperties DEF HostSends
  <2>2. DOMAIN sent' = 1 .. Len(sent')
    BY <2>1, LenProperties
  <2> QED
    BY <2>1, <2>2, StateFacts
<1>2. (\E f \in Sendings : HostSends(f)) \/ sent' = sent
  BY DEF Next, Shell, Receives, RecvByte, AcceptMagic, AcceptSize, RefuseMagic, RefuseSize,
         DataRead, Done, LoadCommand, Arrive, Loads, CallProgram, Program, RejectFile, AcceptFile,
         RejectHeader, SkipSegment, RejectSegment, LoadSegment, Finish, Return, ProgramWrites,
         ProgramSbrk, ProgramEnds, vars
<1>3. dropped => dropped'
  BY DEF HostSends, Next, Shell, Receives, RecvByte, AcceptMagic, AcceptSize, RefuseMagic,
         RefuseSize, DataRead, Done, LoadCommand, Arrive, Loads, CallProgram, Program, RejectFile,
         AcceptFile, RejectHeader, SkipSegment, RejectSegment, LoadSegment, Finish, Return,
         ProgramWrites, ProgramSbrk, ProgramEnds, vars
<1> QED
  BY <1>1, <1>2, <1>3

(* Every step keeps what the loads in step were given.                     *)
LEMMA FramesKept ==
  ASSUME MInv, LinkedAboveHeap, StreamInv, FramesReceived, [Next]_vars
  PROVE  FramesReceived'
<1>1. TypeOK /\ FieldInv
  BY DEF MInv
<1> SUFFICES ASSUME NEW j \in DOMAIN loads' \cap DOMAIN sent', ~dropped',
                    \A k \in 1 .. j : WellFormed(sent'[k]),
                    \A k \in 1 .. (j - 1) : loads'[k].ok
             PROVE  IF Len(Data(sent'[j])) <= loads'[j].room
                      THEN loads'[j].ok /\ Contents(loads[j])' = Data(sent'[j])
                      ELSE ~loads'[j].ok
  BY DEF FramesReceived
<1>2. /\ \A k \in DOMAIN sent : k \in DOMAIN sent' /\ sent'[k] = sent[k]
      /\ \A k \in DOMAIN loads : k \in DOMAIN loads' /\ loads'[k] = loads[k]
      /\ ~dropped
  BY <1>1, SentExtended, LoadsExtended
<1>3. /\ DOMAIN loads = 1 .. Len(loads) /\ Len(loads) \in Nat
      /\ DOMAIN sent = 1 .. Len(sent) /\ Len(sent) \in Nat
  BY <1>1, StateFacts
<1>4. ASSUME j \in 1 .. Len(loads) + 1 PROVE InStep(j)
  <2>1. ASSUME NEW k \in 1 .. (j - 1)
        PROVE  loads[k].ok /\ (k \in DOMAIN sent => WellFormed(sent[k]))
    <3>1. k \in DOMAIN loads /\ k \in 1 .. j
      BY <1>3, <1>4
    <3> QED
      BY <1>2, <3>1
  <2> QED
    BY <1>2, <2>1 DEF InStep
<1>5. CASE j \in DOMAIN loads
  <2>1. InStep(j)
    BY <1>3, <1>4, <1>5
  <2>2. j \in DOMAIN sent
    BY <1>5, <2>1 DEF StreamInv
  <2>3. loads'[j] = loads[j] /\ sent'[j] = sent[j]
    BY <1>2, <1>5, <2>2
  <2>4. /\ \A k \in 1 .. j : WellFormed(sent[k])
        /\ \A k \in 1 .. (j - 1) : loads[k].ok
    <3>1. \A k \in 1 .. j : k \in DOMAIN sent
      BY <1>3, <2>2
    <3>2. \A k \in 1 .. (j - 1) : k \in DOMAIN loads
      BY <1>3, <1>5
    <3> QED
      BY <1>2, <3>1, <3>2
  <2>5. IF Len(Data(sent[j])) <= loads[j].room
          THEN loads[j].ok /\ Contents(loads[j]) = Data(sent[j])
          ELSE ~loads[j].ok
    BY <1>2, <1>5, <2>2, <2>4 DEF FramesReceived
  <2>6. loads[j].ok => Contents(loads[j])' = Contents(loads[j])
    BY <1>5, ContentsKept
  <2> QED
    BY <2>3, <2>5, <2>6
<1>6. CASE j \notin DOMAIN loads
  <2>1. DataRead \/ RefuseMagic \/ RefuseSize
    <3>1. loads' # loads
      BY <1>6
    <3> QED
      BY <1>1, <3>1, LoadsExtended
  <2>2. /\ sent' = sent /\ mem' = mem /\ DOMAIN loads' = 1 .. Len(loads) + 1
        /\ loads'[Len(loads) + 1]
             = [ok |-> DataRead, addr |-> buf, size |-> size, room |-> room]
    BY <1>1, <2>1, LoadEnds
  <2>3. j = Len(loads) + 1
    BY <1>3, <1>6, <2>2
  <2>4. InStep(j) /\ WellFormed(sent[j])
    BY <1>3, <1>4, <2>2, <2>3
  <2>5. IF Len(Data(sent[j])) <= room
          THEN DataRead /\ [k \in 1 .. size |-> mem[buf + k - 1]] = Data(sent[j])
          ELSE ~DataRead
    BY <1>1, <2>1, <2>3, <2>4, FrameOfLoad
  <2>6. /\ loads'[j].ok = DataRead /\ loads'[j].room = room
        /\ Contents(loads[j])' = [k \in 1 .. size |-> mem[buf + k - 1]]
    BY <2>2, <2>3 DEF Contents
  <2> QED
    BY <2>2, <2>5, <2>6
<1> QED
  BY <1>5, <1>6

(* Nothing was sent and nothing loaded when the kernel has booted, ...     *)
LEMMA InitSInv == Init => SInv
<1> SUFFICES ASSUME Init PROVE SInv
  OBVIOUS
<1>1. /\ loads = <<>> /\ sent = <<>> /\ pc = "prompt" /\ fifo = <<>> /\ wire = <<>>
      /\ Len(loads) = 0 /\ Len(sent) = 0 /\ DOMAIN loads = {} /\ DOMAIN sent = {}
  BY EmptySeq DEF Init, TransferInit
<1>2. FramesReceived
  BY <1>1 DEF FramesReceived
<1>3. Pending = <<>>
  <2>1. <<>> \o <<>> = <<>>
    BY EmptySeq, ConcatEmptySeq
  <2> QED
    BY <1>1, <2>1 DEF Pending, Receiving
<1>4. StreamInv
  <2> DEFINE rest == [j \in 1 .. Len(sent) + 1 |-> <<>>]
  <2>1. rest \in [1 .. Len(sent) + 1 -> Seq(Byte)]
    BY EmptySeq
  <2>2. rest[Len(sent) + 1] = <<>> /\ rest[Len(loads) + 1] = Pending /\ 1 .. Len(sent) = {}
    BY <1>1, <1>3
  <2> HIDE DEF rest
  <2>3. RestOf(rest)
    BY <2>2 DEF RestOf
  <2> QED
    BY <1>1, <2>1, <2>2, <2>3 DEF StreamInv
<1> QED
  BY <1>2, <1>4, InitMInv DEF SInv

(* ... and every step keeps frames and loads together.                     *)
LEMMA NextSInv == SInv /\ LinkedAboveHeap /\ [Next]_vars => SInv'
<1> SUFFICES ASSUME SInv, LinkedAboveHeap, [Next]_vars PROVE SInv'
  OBVIOUS
<1>1. MInv /\ TypeOK /\ FieldInv /\ StreamInv /\ FramesReceived
  BY DEF SInv, MInv
<1> QED
  BY <1>1, NextMInv, StreamKept, FramesKept DEF SInv

(* Programs linked above the heap: each load gives the shell the frame     *)
(* that belongs to it, byte for byte and for as long as the shell runs,    *)
(* as long as the host keeps to the protocol -- however far the host is    *)
(* ahead, wherever the port cuts the frames, and whatever is loaded later. *)
THEOREM LoadFramesReceived == Spec /\ []LinkedAboveHeap => []FramesReceived
<1>1. SInv => FramesReceived
  BY DEF SInv
<1> QED
  BY <1>1, InitSInv, NextSInv, PTL DEF Spec

----------------------------------------------------------------------------
(* Load implements FrameStream.                                            *)

(* The parts of a concatenation.                                           *)
LEMMA PartsOfConcat ==
  ASSUME NEW s \in Seq(Byte), NEW t \in Seq(Byte)
  PROVE  /\ s \o t \in Seq(Byte)
         /\ Len(s \o t) = Len(s) + Len(t)
         /\ SubSeq(s \o t, Len(s) + 1, Len(s \o t)) = t
         /\ \A m \in Nat \ {0}, n \in 0 .. Len(s) : SubSeq(s \o t, m, n) = SubSeq(s, m, n)
<1>1. Len(s) \in Nat /\ Len(t) \in Nat
  BY LenProperties
<1>2. /\ s \o t \in Seq(Byte) /\ Len(s \o t) = Len(s) + Len(t)
      /\ \A k \in 1 .. Len(s) + Len(t) :
           (s \o t)[k] = IF k <= Len(s) THEN s[k] ELSE t[k - Len(s)]
  BY ConcatProperties
<1> DEFINE u == s \o t
<1>3. u \in Seq(Byte) /\ Len(u) = Len(s) + Len(t)
  BY <1>2
<1>4. SubSeq(u, Len(s) + 1, Len(u)) = t
  <2>1. \A k \in (Len(s) + 1) .. Len(u) : u[k] \in Byte
    <3> TAKE k \in (Len(s) + 1) .. Len(u)
    <3>1. k \in 1 .. Len(u)
      BY <1>1, <1>3
    <3> HIDE DEF u
    <3> QED
      BY <1>3, <3>1, ElementOfSeq
  <2>2. \A k \in 1 .. Len(t) : u[Len(s) + 1 + k - 1] = t[k]
    <3> TAKE k \in 1 .. Len(t)
    <3>1. /\ Len(s) + k \in 1 .. Len(s) + Len(t) /\ ~(Len(s) + k <= Len(s))
          /\ Len(s) + k - Len(s) = k /\ Len(s) + 1 + k - 1 = Len(s) + k
      BY <1>1
    <3> QED
      BY <1>2, <3>1
  <2> HIDE DEF u
  <2>3. Len(s) + 1 \in Int /\ Len(u) \in Int
    BY <1>1, <1>3
  <2>4. /\ SubSeq(u, Len(s) + 1, Len(u)) \in Seq(Byte)
        /\ Len(SubSeq(u, Len(s) + 1, Len(u)))
             = IF Len(s) + 1 <= Len(u) THEN Len(u) - (Len(s) + 1) + 1 ELSE 0
        /\ \A k \in 1 .. Len(u) - (Len(s) + 1) + 1 :
             SubSeq(u, Len(s) + 1, Len(u))[k] = u[Len(s) + 1 + k - 1]
    BY <2>1, <2>3, SubSeqProperties
  <2>5. Len(SubSeq(u, Len(s) + 1, Len(u))) = Len(t) /\ Len(u) - (Len(s) + 1) + 1 = Len(t)
    BY <1>1, <1>3, <2>4
  <2>6. \A k \in 1 .. Len(t) : SubSeq(u, Len(s) + 1, Len(u))[k] = t[k]
    BY <2>2, <2>4, <2>5
  <2> QED
    BY <2>4, <2>5, <2>6, SeqEqual
<1>5. ASSUME NEW m \in Nat \ {0}, NEW n \in 0 .. Len(s) PROVE SubSeq(u, m, n) = SubSeq(s, m, n)
  <2>1. n \in Nat /\ n <= Len(s) /\ n <= Len(u)
    BY <1>1, <1>3
  <2>2. \A k \in m .. n : u[k] = s[k]
    <3> TAKE k \in m .. n
    <3>1. k \in 1 .. Len(s) + Len(t) /\ k <= Len(s)
      BY <1>1
    <3> QED
      BY <1>2, <3>1
  <2> HIDE DEF u
  <2> QED
    BY <1>3, <2>1, <2>2, PartEqual
<1> QED
  BY <1>3, <1>4, <1>5

(* The beginning of what was sent, and no more, is thrown away.            *)
LEMMA EndOfConcat ==
  ASSUME NEW s \in Seq(Byte), NEW t \in Seq(Byte)
  PROVE  FS!IsSuffix(t, s \o t)
<1>1. Len(s) \in Nat /\ Len(t) \in Nat
  BY LenProperties
<1> DEFINE u == s \o t
<1>2. /\ u \in Seq(Byte) /\ Len(u) = Len(s) + Len(t)
      /\ \A k \in 1 .. Len(s) + Len(t) :
           u[k] = IF k <= Len(s) THEN s[k] ELSE t[k - Len(s)]
  BY ConcatProperties
<1> HIDE DEF u
<1>3. ASSUME NEW x \in Seq(Byte)
      PROVE  /\ FS!Reverse(x) \in Seq(Byte) /\ Len(FS!Reverse(x)) = Len(x)
             /\ \A k \in 1 .. Len(x) : FS!Reverse(x)[k] = x[(Len(x) - k) + 1]
  <2>1. Len(x) \in Nat
    BY LenProperties
  <2>2. \A k \in 1 .. Len(x) : x[(Len(x) - k) + 1] \in Byte
    <3> TAKE k \in 1 .. Len(x)
    <3>1. (Len(x) - k) + 1 \in 1 .. Len(x)
      BY <2>1
    <3> QED
      BY <3>1, ElementOfSeq
  <2>3. FS!Reverse(x) \in [1 .. Len(x) -> Byte]
    BY <2>2 DEF FS!Reverse
  <2>4. FS!Reverse(x) \in Seq(Byte) /\ Len(FS!Reverse(x)) = Len(x)
    BY <2>1, <2>3, SeqDef
  <2> QED
    BY <2>4 DEF FS!Reverse
<1>4. \A k \in 1 .. Len(t) : FS!Reverse(t)[k] = FS!Reverse(u)[k]
  <2> TAKE k \in 1 .. Len(t)
  <2>1. /\ k \in 1 .. Len(u) /\ (Len(u) - k) + 1 \in 1 .. Len(s) + Len(t)
        /\ ~((Len(u) - k) + 1 <= Len(s)) /\ (Len(u) - k) + 1 - Len(s) = (Len(t) - k) + 1
    BY <1>1, <1>2
  <2>2. u[(Len(u) - k) + 1] = t[(Len(t) - k) + 1]
    BY <1>2, <2>1
  <2> QED
    BY <1>2, <1>3, <2>1, <2>2
<1>5. SubSeq(FS!Reverse(t), 1, Len(t)) = SubSeq(FS!Reverse(u), 1, Len(t))
  <2>1. 1 \in Nat \ {0} /\ Len(t) <= Len(FS!Reverse(t)) /\ Len(t) <= Len(FS!Reverse(u))
    BY <1>1, <1>2, <1>3
  <2> QED
    BY <1>1, <1>2, <1>3, <1>4, <2>1, PartEqual
<1>6. Len(FS!Reverse(t)) = Len(t) /\ Len(FS!Reverse(t)) <= Len(FS!Reverse(u))
  BY <1>1, <1>2, <1>3
<1> QED
  BY <1>5, <1>6 DEF FS!IsSuffix, FS!IsPrefix, u

(* What a load received is bytes.                                          *)
LEMMA ContentsTyped ==
  ASSUME TypeOK, NEW l \in Reception, HEAP_BASE <= l.addr, l.addr + l.size <= heap_cur
  PROVE  Contents(l) \in [1 .. l.size -> Byte] /\ Contents(l) \in Seq(Byte)
<1>1. /\ l.addr \in Nat /\ l.size \in Nat /\ HEAP_BASE \in Nat /\ HeapLimit \in Nat
      /\ heap_cur \in Nat /\ heap_cur <= HeapLimit /\ mem \in [Address -> Byte]
  BY StateFacts, ConstantFacts DEF Reception, Memory
<1>2. \A n \in 1 .. l.size : l.addr + n - 1 \in Address
  <2> TAKE n \in 1 .. l.size
  <2>1. l.addr + n - 1 \in HEAP_BASE .. (HeapLimit - 1)
    BY <1>1
  <2> QED
    BY <2>1, ConstantFacts
<1>3. Contents(l) \in [1 .. l.size -> Byte]
  BY <1>1, <1>2 DEF Contents
<1> QED
  BY <1>1, <1>3, SeqDef

(* So is every outcome.                                                    *)
LEMMA OutcomesTyped ==
  ASSUME TypeOK, BlocksInv
  PROVE  Outcomes \in Seq(Seq(Byte)) /\ Len(Outcomes) = Len(loads)
<1>1. \A k \in 1 .. Len(loads) : Outcome(loads[k]) \in Seq(Byte)
  <2> TAKE k \in 1 .. Len(loads)
  <2>1. loads[k] \in Reception /\ k \in DOMAIN loads
    BY StateFacts, BlockFacts
  <2>2. CASE loads[k].ok
    BY <2>1, <2>2, ContentsTyped DEF Outcome, BlocksInv
  <2>3. CASE ~loads[k].ok
    BY <2>3, EmptySeq DEF Outcome
  <2> QED
    BY <2>2, <2>3
<1>2. Outcomes \in [1 .. Len(loads) -> Seq(Byte)] /\ Len(loads) \in Nat
  BY <1>1, StateFacts DEF Outcomes
<1> QED
  BY <1>2, SeqDef

(* No step changes an outcome there has been.                              *)
LEMMA OutcomeKept ==
  ASSUME MInv, LinkedAboveHeap, [Next]_vars, NEW k \in DOMAIN loads
  PROVE  Outcomes'[k] = Outcomes[k] /\ k \in DOMAIN loads'
<1>1. k \in DOMAIN loads' /\ loads'[k] = loads[k]
  BY LoadsExtended DEF MInv
<1>2. Outcomes[k] = Outcome(loads[k]) /\ Outcomes'[k] = Outcome(loads[k])'
  BY <1>1 DEF Outcomes
<1>3. CASE loads[k].ok
  <2>1. Contents(loads[k])' = Contents(loads[k])
    BY <1>3, ContentsKept
  <2>2. Outcome(loads[k]) = Contents(loads[k]) /\ Outcome(loads[k])' = Contents(loads[k])'
    BY <1>1, <1>3 DEF Outcome
  <2> QED
    BY <1>1, <1>2, <2>1, <2>2
<1>4. CASE ~loads[k].ok
  BY <1>1, <1>2, <1>4 DEF Outcome
<1> QED
  BY <1>3, <1>4

(* So while no load ends, there is nothing new.                            *)
LEMMA OutcomesSame ==
  ASSUME MInv, LinkedAboveHeap, [Next]_vars, loads' = loads
  PROVE  Outcomes' = Outcomes
<1>1. \A k \in DOMAIN loads : Outcomes'[k] = Outcomes[k]
  BY OutcomeKept
<1>2. /\ Outcomes = [k \in DOMAIN loads |-> Outcomes[k]]
      /\ Outcomes' = [k \in DOMAIN loads |-> Outcomes'[k]]
  BY DEF Outcomes
<1> QED
  BY <1>1, <1>2

(* A load that ends adds its own.                                          *)
LEMMA OutcomesAppended ==
  ASSUME MInv, LinkedAboveHeap, [Next]_vars,
         NEW ok \in BOOLEAN, NEW next \in {"prompt", "elf"}, Done(ok, next)
  PROVE  Outcomes' = Append(Outcomes, IF ok THEN [n \in 1 .. size |-> mem[buf + n - 1]] ELSE <<>>)
<1> DEFINE out == IF ok THEN [n \in 1 .. size |-> mem[buf + n - 1]] ELSE <<>>
<1>1. TypeOK /\ TypeOK' /\ BlocksInv
  BY NextTypeOK DEF MInv
<1>0. PICK new : new = [ok |-> ok, addr |-> buf, size |-> size, room |-> room]
  OBVIOUS
<1>2. /\ loads' = Append(loads, new) /\ new \in Reception /\ mem' = mem
      /\ buf \in Nat /\ HEAP_BASE <= buf /\ buf + size <= heap_cur /\ Len(loads) \in Nat
  BY <1>0, <1>1, StateFacts DEF Done, Reception, heap
<1>3. out \in Seq(Byte)
  <2>1. Contents(new) \in Seq(Byte) /\ Contents(new) = [n \in 1 .. size |-> mem[buf + n - 1]]
    BY <1>0, <1>1, <1>2, ContentsTyped DEF Contents
  <2> QED
    BY <2>1, EmptySeq
<1>4. Outcome(new)' = out
  BY <1>0, <1>2 DEF Outcome, Contents
<1> HIDE DEF out
<1>5. /\ Len(loads') = Len(loads) + 1 /\ loads'[Len(loads) + 1] = new
      /\ DOMAIN loads' = 1 .. Len(loads) + 1
  <2>1. /\ loads' \in Seq(Reception) /\ Len(loads') = Len(loads) + 1
        /\ loads'[Len(loads) + 1] = new
    BY <1>1, <1>2, StateFacts, AppendProperties
  <2> QED
    BY <2>1, LenProperties
<1>6. Outcomes \in Seq(Seq(Byte)) /\ Len(Outcomes) = Len(loads)
  BY <1>1, OutcomesTyped
<1>7. /\ Append(Outcomes, out) \in Seq(Seq(Byte)) /\ Len(Append(Outcomes, out)) = Len(loads) + 1
      /\ \A k \in 1 .. Len(loads) : Append(Outcomes, out)[k] = Outcomes[k]
      /\ Append(Outcomes, out)[Len(loads) + 1] = out
  BY <1>3, <1>6, AppendProperties
<1>8. Outcomes'[Len(loads) + 1] = out
  <2>1. Len(loads) + 1 \in DOMAIN loads'
    BY <1>2, <1>5
  <2>2. Outcomes'[Len(loads) + 1] = Outcome(new)'
    BY <1>5, <2>1 DEF Outcomes, Outcome, Contents
  <2> QED
    BY <1>4, <2>2
<1>9. \A k \in 1 .. Len(loads) : Outcomes'[k] = Outcomes[k]
  BY <1>1, StateFacts, OutcomeKept
<1>10. \A k \in 1 .. Len(loads) + 1 : Outcomes'[k] = Append(Outcomes, out)[k]
  <2> TAKE k \in 1 .. Len(loads) + 1
  <2>1. k \in 1 .. Len(loads) \/ k = Len(loads) + 1
    BY <1>2
  <2> QED
    BY <1>7, <1>8, <1>9, <2>1
<1>11. /\ Outcomes' = [k \in 1 .. Len(loads) + 1 |-> Outcomes'[k]]
       /\ Append(Outcomes, out) = [k \in 1 .. Len(loads) + 1 |-> Append(Outcomes, out)[k]]
  <2>1. Outcomes' = [k \in 1 .. Len(loads) + 1 |-> Outcomes'[k]]
    BY <1>5 DEF Outcomes
  <2>2. Append(Outcomes, out) \in [1 .. Len(loads) + 1 -> Seq(Byte)]
    BY <1>7, LenProperties
  <2> QED
    BY <2>1, <2>2
<1> QED
  BY <1>10, <1>11 DEF out

(* A load that ends has taken what it has read off the stream.             *)
LEMMA Gives ==
  ASSUME MInv, LinkedAboveHeap, [Next]_vars, Receiving,
         NEW ok \in BOOLEAN, NEW next \in {"prompt", "elf"}, Done(ok, next)
  PROVE  /\ FS!Give(IF ok THEN [n \in 1 .. size |-> mem[buf + n - 1]] ELSE <<>>, Len(taken))
         /\ Pending = taken \o (fifo \o wire)
<1>1. TypeOK /\ UNCHANGED <<wire, fifo, com2_initialized>> /\ pc' = next
  BY DEF MInv, Done, port
<1>2. Pending = taken \o (fifo \o wire) /\ taken \in Seq(Byte) /\ fifo \o wire \in Seq(Byte)
  BY <1>1, StateFacts, PendingTyped DEF Pending
<1>3. Receiving \in BOOLEAN /\ Receiving' \in BOOLEAN /\ ~Receiving'
  BY <1>1 DEF Receiving
<1>4. Pending' = fifo \o wire
  <2>1. Pending' = <<>> \o (fifo \o wire)
    BY <1>1, <1>3 DEF Pending
  <2> QED
    BY <1>2, <2>1, ConcatEmptySeq
<1>5. Pending' = SubSeq(Pending, Len(taken) + 1, Len(Pending))
  BY <1>2, <1>4, PartsOfConcat
<1> QED
  BY <1>1, <1>2, <1>3, <1>5, OutcomesAppended DEF FS!Give

(* A header is the same to both.                                           *)
LEMMA SameHeader == FS!Header = Header
BY DEF FS!Header, Header

(* A wrong magic.                                                          *)
LEMMA RefuseMagicImplements ==
  ASSUME MInv, LinkedAboveHeap, [Next]_vars, RefuseMagic
  PROVE  FS!RefuseMagic
<1>1. /\ Receiving /\ taken = got /\ Len(taken) = Len(MAGIC) /\ got # MAGIC
      /\ Done(FALSE, "prompt") /\ taken \in Seq(Byte) /\ fifo \o wire \in Seq(Byte)
  BY StateFacts, PendingTyped DEF MInv, FieldInv, RefuseMagic, MagicRead, Receiving, Wanted
<1>2. FS!Give(<<>>, Len(MAGIC)) /\ Pending = taken \o (fifo \o wire)
  BY <1>1, Gives
<1>3. Len(MAGIC) \in Nat /\ MAGIC \in Seq(Byte) /\ Len(fifo \o wire) \in Nat
  BY <1>1, ConstantFacts, LenProperties
<1>4. Len(Pending) >= Len(MAGIC) /\ SubSeq(Pending, 1, Len(MAGIC)) = taken
  <2>1. /\ Len(Pending) = Len(taken) + Len(fifo \o wire)
        /\ SubSeq(Pending, 1, Len(MAGIC)) = SubSeq(taken, 1, Len(MAGIC))
    <3>1. /\ Len(Pending) = Len(taken) + Len(fifo \o wire)
          /\ \A m \in Nat \ {0}, n \in 0 .. Len(taken) : SubSeq(Pending, m, n) = SubSeq(taken, m, n)
      <4>1. /\ taken \in Seq(Byte) /\ fifo \o wire \in Seq(Byte)
            /\ Pending = taken \o (fifo \o wire)
        BY <1>1, <1>2
      <4> QED
        BY <4>1, PartsOfConcat
    <3>2. Len(MAGIC) \in 0 .. Len(taken) /\ 1 \in Nat \ {0}
      BY <1>1, <1>3
    <3> QED
      BY <3>1, <3>2
  <2>2. SubSeq(taken, 1, Len(taken)) = taken
    BY <1>1, SubSeqFull
  <2> QED
    BY <1>1, <1>3, <2>1, <2>2
<1>5. SubSeq(MAGIC, 1, Len(MAGIC)) = MAGIC
  BY <1>3, SubSeqFull
<1> QED
  BY <1>1, <1>2, <1>4, <1>5 DEF FS!RefuseMagic, FS!BadMagic, FS!IsPrefix

(* What begins with the magic.                                             *)
LEMMA HeadedIs ==
  ASSUME TypeOK, Len(taken) >= Header, SubSeq(taken, 1, Len(MAGIC)) = MAGIC,
         Pending = taken \o (fifo \o wire)
  PROVE  FS!Headed /\ SizeField(Pending) = SizeField(taken) /\ Pending \in Seq(Byte)
<1>1. /\ taken \in Seq(Byte) /\ fifo \o wire \in Seq(Byte) /\ MAGIC \in Seq(Byte)
      /\ Len(MAGIC) \in Nat /\ Header \in Nat /\ Len(MAGIC) <= Header
  BY StateFacts, PendingTyped, ConstantFacts, HeaderFacts
<1>2. Len(taken) \in Nat /\ Len(fifo \o wire) \in Nat
  BY <1>1, LenProperties
<1>3. /\ Pending \in Seq(Byte) /\ Len(Pending) = Len(taken) + Len(fifo \o wire)
      /\ \A m \in Nat \ {0}, n \in 0 .. Len(taken) : SubSeq(Pending, m, n) = SubSeq(taken, m, n)
  BY <1>1, PartsOfConcat
<1>4. SubSeq(Pending, 1, Len(MAGIC)) = MAGIC /\ SizeField(Pending) = SizeField(taken)
  <2>1. Len(MAGIC) \in 0 .. Len(taken) /\ Header \in 0 .. Len(taken)
        /\ Len(MAGIC) + 1 \in Nat \ {0} /\ 1 \in Nat \ {0}
    BY <1>1, <1>2
  <2> QED
    BY <1>3, <2>1 DEF SizeField
<1>5. SubSeq(MAGIC, 1, Len(MAGIC)) = MAGIC
  BY <1>1, SubSeqFull
<1>6. Len(Pending) >= Header /\ Len(MAGIC) <= Len(Pending)
  BY <1>1, <1>2, <1>3
<1> QED
  BY <1>3, <1>4, <1>5, <1>6, SameHeader DEF FS!Headed, FS!IsPrefix

(* A size out of range, or for which there is no room.                     *)
LEMMA RefuseSizeImplements ==
  ASSUME MInv, LinkedAboveHeap, [Next]_vars, RefuseSize
  PROVE  FS!RefuseSize
<1>1. /\ TypeOK /\ Receiving /\ Len(taken) = Header /\ SubSeq(taken, 1, Len(MAGIC)) = MAGIC
      /\ Done(FALSE, "prompt")
  BY HeaderFacts DEF MInv, FieldInv, RefuseSize, SizeRead, Receiving, Wanted
<1>2. FS!Give(<<>>, Header) /\ Pending = taken \o (fifo \o wire)
  BY <1>1, Gives
<1>3. FS!Headed
  BY <1>1, <1>2, HeadedIs, HeaderFacts
<1> QED
  BY <1>2, <1>3, SameHeader DEF FS!RefuseSize

(* The size field of anything that is as long as a header.                 *)
LEMMA SizeFieldTyped ==
  ASSUME NEW s \in Seq(Byte), Len(s) >= Header
  PROVE  SizeField(s) \in [1 .. SIZE_BYTES -> Byte]
<1>1. /\ Len(s) \in Nat /\ Header \in Nat /\ Len(MAGIC) \in Nat /\ SIZE_BYTES \in Nat
      /\ Header = Len(MAGIC) + SIZE_BYTES
  BY LenProperties, HeaderFacts, ConstantFacts
<1>2. \A k \in (Len(MAGIC) + 1) .. Header : s[k] \in Byte
  <2> TAKE k \in (Len(MAGIC) + 1) .. Header
  <2>1. k \in 1 .. Len(s)
    BY <1>1
  <2> QED
    BY <2>1, ElementOfSeq
<1>3. /\ SizeField(s) \in Seq(Byte)
      /\ Len(SizeField(s)) = IF Len(MAGIC) + 1 <= Header THEN Header - (Len(MAGIC) + 1) + 1 ELSE 0
  BY <1>1, <1>2, SubSeqProperties, Len(MAGIC) + 1 \in Int, Header \in Int DEF SizeField
<1>4. Len(SizeField(s)) = SIZE_BYTES
  BY <1>1, <1>3
<1> QED
  BY <1>3, <1>4, LenProperties

(* A frame that is complete.                                               *)
LEMMA DataReadImplements ==
  ASSUME SizesAgree, MInv, LinkedAboveHeap, [Next]_vars, DataRead
  PROVE  FS!GiveFrame
<1>1. /\ TypeOK /\ Receiving /\ Len(taken) = Header + size /\ SubSeq(taken, 1, Len(MAGIC)) = MAGIC
      /\ Done(TRUE, "elf") /\ size = Value(SizeField(taken)) /\ size \in 1 .. KELF_MAX_SIZE
      /\ DataAt(mem, size)
  BY DEF MInv, FieldInv, DataRead, Receiving, Wanted
<1>2. /\ FS!Give([n \in 1 .. size |-> mem[buf + n - 1]], Header + size)
      /\ Pending = taken \o (fifo \o wire)
  BY <1>1, Gives
<1>3. /\ size \in Nat /\ Header \in Nat /\ KELF_MAX_SIZE \in Nat
      /\ taken \in Seq(Byte) /\ fifo \o wire \in Seq(Byte)
  BY <1>1, StateFacts, HeaderFacts, ConstantFacts, PendingTyped
<1>4. Len(taken) >= Header
  BY <1>1, <1>3
<1>5. FS!Headed /\ SizeField(Pending) = SizeField(taken) /\ Pending \in Seq(Byte)
  BY <1>1, <1>2, <1>4, HeadedIs
<1>6. /\ Len(Pending) >= Header + size /\ Len(Pending) >= Header
      /\ SubSeq(Pending, Header + 1, Header + size) = Data(taken)
  <2>1. Len(taken) \in Nat /\ Len(fifo \o wire) \in Nat
    BY <1>3, LenProperties
  <2>2. /\ Len(Pending) = Len(taken) + Len(fifo \o wire)
        /\ SubSeq(Pending, Header + 1, Len(taken)) = SubSeq(taken, Header + 1, Len(taken))
    <3>1. Header + 1 \in Nat \ {0} /\ Len(taken) \in 0 .. Len(taken)
      BY <1>3, <2>1
    <3> QED
      BY <1>2, <1>3, <3>1, PartsOfConcat
  <2>3. SubSeq(Pending, Header + 1, Header + size) = Data(taken)
    BY <1>1, <2>2 DEF Data
  <2>4. Len(Pending) >= Header + size /\ Len(Pending) >= Header
    <3>1. PICK x \in Nat : Len(Pending) = (Header + size) + x
      BY <1>1, <2>1, <2>2
    <3> QED
      BY <1>3, <3>1
  <2> QED
    BY <2>3, <2>4
<1>7. FS!Announced = size
  <2>1. SizeField(taken) \in [1 .. SIZE_BYTES -> Byte]
    BY <1>3, <1>4, SizeFieldTyped
  <2>2. FS!Announced = FS!SizeOf(SizeField(Pending))
    BY SameHeader DEF FS!Announced, SizeField
  <2> QED
    BY <1>1, <1>5, <2>1, <2>2 DEF SizesAgree
<1>8. FS!Whole
  BY <1>1, <1>3, <1>5, <1>6, <1>7, SameHeader DEF FS!Whole, FS!GoodSize
<1>9. [n \in 1 .. size |-> mem[buf + n - 1]] = Data(taken)
  <2>1. /\ Data(taken) \in Seq(Byte) /\ Len(Data(taken)) = size
        /\ \A k \in 1 .. size : Data(taken)[k] = taken[Header + k]
    <3>1. Len(taken) - Header = size
      BY <1>1, <1>3
    <3> QED
      BY <1>3, <1>4, <3>1, DataFacts
  <2>2. Data(taken) \in [1 .. size -> Byte]
    BY <2>1, LenProperties
  <2>3. \A k \in 1 .. size : mem[buf + k - 1] = Data(taken)[k]
    BY <1>1, <2>1 DEF DataAt
  <2> QED
    BY <2>2, <2>3
<1> QED
  BY <1>2, <1>6, <1>7, <1>8, <1>9, SameHeader DEF FS!GiveFrame

(* The first load may throw away what is in the port.                      *)
LEMMA LoadCommandImplements ==
  ASSUME MInv, LinkedAboveHeap, [Next]_vars, LoadCommand
  PROVE  FS!Ask
<1>1. /\ TypeOK /\ ~Receiving /\ Receiving' /\ com2_initialized' /\ loads' = loads
      /\ taken' = <<>> /\ wire' = wire
      /\ fifo' = IF com2_initialized THEN fifo ELSE <<>>
  BY DEF MInv, LoadCommand, Receiving, PortInit
<1>2. /\ fifo \in Seq(Byte) /\ wire \in Seq(Byte) /\ fifo \o wire \in Seq(Byte)
  BY <1>1, StateFacts, PendingTyped
<1>3. Pending = fifo \o wire
  BY <1>1, <1>2, ConcatEmptySeq DEF Pending
<1>4. Pending' = IF com2_initialized THEN fifo \o wire ELSE wire
  <2>1. Pending' = <<>> \o (fifo' \o wire)
    BY <1>1 DEF Pending
  <2> QED
    BY <1>1, <1>2, <2>1, ConcatEmptySeq
<1>5. FS!IsSuffix(wire, fifo \o wire)
  BY <1>2, EndOfConcat
<1> QED
  BY <1>1, <1>3, <1>4, <1>5, OutcomesSame DEF FS!Ask

(* A frame that is sent.                                                   *)
LEMMA HostSendsImplements ==
  ASSUME MInv, LinkedAboveHeap, [Next]_vars, NEW f \in Sendings, HostSends(f)
  PROVE  FS!Send
<1>1. /\ TypeOK /\ loads' = loads /\ wire' = wire \o f /\ f \in Seq(Byte)
      /\ UNCHANGED <<pc, taken, fifo, com2_initialized>>
  BY TransferAssumption DEF MInv, HostSends, load
<1> DEFINE t == IF Receiving THEN taken ELSE <<>>
<1>2. fifo \in Seq(Byte) /\ wire \in Seq(Byte) /\ t \in Seq(Byte)
  BY <1>1, StateFacts, EmptySeq
<1>3. Pending = t \o (fifo \o wire) /\ Pending' = t \o (fifo \o (wire \o f))
  BY <1>1 DEF Pending, Receiving
<1> HIDE DEF t
<1>4. Pending' = Pending \o f /\ Pending \in Seq(Byte)
  <2>1. fifo \o (wire \o f) = (fifo \o wire) \o f /\ fifo \o wire \in Seq(Byte)
    BY <1>1, <1>2, ConcatAssociative, ConcatProperties
  <2> DEFINE w == fifo \o wire
  <2>2. w \in Seq(Byte) /\ f \in Seq(Byte)
    BY <1>1, <2>1
  <2> HIDE DEF w
  <2>3. t \o (w \o f) = (t \o w) \o f
    BY <1>2, <2>2, ConcatAssociative
  <2> QED
    BY <1>1, <1>2, <1>3, <2>1, <2>3, PendingTyped DEF w
<1>5. /\ Len(Pending') = Len(Pending) + Len(f)
      /\ SubSeq(Pending', 1, Len(Pending)) = SubSeq(Pending, 1, Len(Pending))
      /\ Len(Pending) \in Nat /\ Len(f) \in Nat
  <2>1. Len(Pending) \in Nat /\ Len(f) \in Nat
    BY <1>1, <1>4, LenProperties
  <2>2. Len(Pending) \in 0 .. Len(Pending) /\ 1 \in Nat \ {0}
    BY <2>1
  <2> QED
    BY <1>1, <1>4, <2>1, <2>2, PartsOfConcat
<1>6. FS!IsPrefix(Pending, Pending')
  BY <1>5 DEF FS!IsPrefix
<1>7. UNCHANGED Receiving
  BY <1>1 DEF Receiving
<1> QED
  BY <1>1, <1>6, <1>7, OutcomesSame DEF FS!Send

(* Every step of Load is one of FrameStream, or changes nothing of it.     *)
LEMMA StepImplements ==
  ASSUME SizesAgree, MInv, LinkedAboveHeap, [Next]_vars
  PROVE  [FS!Next]_(FS!fvars)
<1>1. ASSUME UNCHANGED <<Pending, Receiving, com2_initialized>>, loads' = loads
      PROVE  UNCHANGED FS!fvars
  BY <1>1, OutcomesSame DEF FS!fvars
<1>2. TypeOK
  BY DEF MInv
<1>3. CASE \E f \in Sendings : HostSends(f)
  BY <1>3, HostSendsImplements DEF FS!Next
<1>4. CASE Arrive
  BY <1>1, <1>2, <1>4, ArrivePending DEF Arrive, Receiving, load
<1>5. CASE LoadCommand
  BY <1>5, LoadCommandImplements DEF FS!Next
<1>6. CASE RecvByte
  BY <1>1, <1>2, <1>6, RecvBytePending DEF RecvByte, Receiving
<1>7. CASE AcceptMagic
  BY <1>1, <1>7 DEF AcceptMagic, MagicRead, Pending, Receiving, port
<1>8. CASE AcceptSize
  BY <1>1, <1>8 DEF AcceptSize, SizeRead, Pending, Receiving, port
<1>9. CASE RefuseMagic \/ RefuseSize \/ DataRead
  BY <1>9, RefuseMagicImplements, RefuseSizeImplements, DataReadImplements DEF FS!Next
<1>10. CASE Loads \/ CallProgram \/ Program \/ UNCHANGED vars
  <2>1. /\ UNCHANGED <<taken, fifo, wire, com2_initialized, loads>>
        /\ UNCHANGED Receiving
    <3>1. CASE Loads
      <4>1. UNCHANGED received /\ ~Receiving /\ pc' \in {"prompt", "table", "call"}
        BY <3>1 DEF Loads, RejectFile, AcceptFile, RejectHeader, InTable, SkipSegment,
                    RejectSegment, LoadSegment, Finish, Return, Receiving
      <4> QED
        BY <4>1 DEF received, port, Receiving
    <3>2. CASE CallProgram \/ Program
      <4>1. UNCHANGED received /\ ~Receiving /\ pc' \in {"prompt", "run"}
        BY <3>2 DEF CallProgram, Program, ProgramWrites, ProgramSbrk, ProgramEnds, Receiving
      <4> QED
        BY <4>1 DEF received, port, Receiving
    <3>3. CASE UNCHANGED vars
      BY <3>3 DEF vars, transfer, load, port, Receiving
    <3> QED
      BY <1>10, <3>1, <3>2, <3>3
  <2>2. UNCHANGED Pending
    BY <2>1 DEF Pending
  <2> QED
    BY <1>1, <2>1, <2>2
<1> QED
  BY <1>3, <1>4, <1>5, <1>6, <1>7, <1>8, <1>9, <1>10 DEF Next, Shell, Receives

(* When the kernel has booted nothing was sent or asked for.               *)
LEMMA InitImplements == Init => FS!Init
<1> SUFFICES ASSUME Init PROVE FS!Init
  OBVIOUS
<1>1. /\ wire = <<>> /\ fifo = <<>> /\ com2_initialized = FALSE /\ pc = "prompt" /\ loads = <<>>
  BY DEF Init, TransferInit
<1>2. <<>> \o (<<>> \o <<>>) = <<>>
  BY EmptySeq, ConcatEmptySeq
<1>3. Pending = <<>> /\ Receiving = FALSE
  BY <1>1, <1>2 DEF Pending, Receiving
<1>4. Outcomes = <<>>
  BY <1>1 DEF Outcomes
<1> QED
  BY <1>1, <1>3, <1>4 DEF FS!Init

(* Programs linked above the heap: byte by byte, through port, magic, size *)
(* check, heap and block, a load takes from the front of what the host has *)
(* sent one whole frame, or the magic or header that shows it is none --   *)
(* broken frames, a shell out of step and later loads included.            *)
THEOREM LoadImplementsStream ==
  ASSUME SizesAgree
  PROVE  Spec /\ []LinkedAboveHeap => FS!Safety
<1>1. MInv /\ LinkedAboveHeap /\ [Next]_vars => [FS!Next]_(FS!fvars)
  BY StepImplements
<1> QED
  BY <1>1, InitImplements, LoadInvariant, PTL DEF Spec, FS!Safety
=============================================================================
