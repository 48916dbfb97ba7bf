------------------------------ MODULE ElfProofs ------------------------------
(***************************************************************************)
(* Proofs about ElfLoader, for every word size, window and file: a file    *)
(* whose headers do not wrap is accepted exactly when plain arithmetic     *)
(* accepts it, is written nowhere but into the window, and lies in memory  *)
(* as its program headers say.  The runs elf and elf_any show that the     *)
(* condition on the file is needed.                                        *)
(***************************************************************************)
EXTENDS ElfLoader, TLAPS

(***************************************************************************)
(* What a linker guarantees of a program: the program header table does    *)
(* not reach the end of the address space, the image of a segment is not   *)
(* larger than the segment, no segment starts behind the window.           *)
(***************************************************************************)
Linked(f) ==
  \A k \in DOMAIN f.phdr :
    /\ f.phoff + (k - 1) * f.phentsize + PHDR < WORD
    /\ f.phdr[k].load => /\ f.phdr[k].filesz <= f.phdr[k].memsz
                         /\ f.phdr[k].vaddr <= PROG_LOAD_MAX

LinkedFilesOnly == \A f \in Files : Linked(f)

(* The checks of one program header, in plain arithmetic.                  *)
InFile(k) == file.phoff + (k - 1) * file.phentsize + PHDR <= file.size
InWindow(ph) == /\ PROG_LOAD_MIN <= ph.vaddr
                /\ ph.vaddr + ph.memsz <= PROG_LOAD_MAX
                /\ ph.offset + ph.filesz <= file.size
Passed(k) == InFile(k) /\ (file.phdr[k].load => InWindow(file.phdr[k]))

(* What segment k puts at address a.                                       *)
ByteOf(k, a) ==
  LET ph == file.phdr[k]
  IN  IF a < ph.vaddr + ph.filesz THEN ph.offset + (a - ph.vaddr) ELSE Zero

(* Memory after the program headers before n.                              *)
InPlace(n) ==
  \A a \in Words :
    \/ /\ \A k \in Segments : k < n => ~Covers(k, a)
       /\ memory[a] = Untouched
    \/ \E k \in Segments :
         /\ k < n /\ Covers(k, a)
         /\ \A l \in Segments : k < l /\ l < n => ~Covers(l, a)
         /\ memory[a] = ByteOf(k, a)

LoopInv ==
  /\ pc = "call" => i = 1 /\ ~loaded /\ \A a \in Words : memory[a] = Untouched
  /\ pc = "loop" => /\ HeaderAccepted(file)
                    /\ \A k \in 1 .. i - 1 : Passed(k)
                    /\ loaded <=> \E k \in 1 .. i - 1 : file.phdr[k].load
                    /\ InPlace(i)

EInv == /\ TypeOK /\ Linked(file)
        /\ LoopInv
        /\ WritesInWindow /\ AcceptsExactly /\ ProgramInPlace

----------------------------------------------------------------------------
(* Differences on words.                                                   *)
LEMMA MinusIs ==
  ASSUME NEW a \in Words, NEW b \in Words
  PROVE  Minus(a, b) = IF b <= a THEN a - b ELSE a - b + WORD
<1>1. WORD \in Nat \ {0} /\ a \in Nat /\ b \in Nat /\ a < WORD /\ b < WORD
  BY ElfAssumption DEF Words
<1>2. \A x \in 0 .. (WORD - 1) : x % WORD = x
  BY <1>1
<1>3. \A x \in -WORD .. -1 : x % WORD = x + WORD
  BY <1>1
<1>4. CASE b <= a
  BY <1>1, <1>2, <1>4 DEF Minus
<1>5. CASE a < b
  BY <1>1, <1>3, <1>5 DEF Minus
<1> QED BY <1>1, <1>4, <1>5

LEMMA PlusIs ==
  ASSUME NEW a \in Nat, NEW b \in Nat, a + b < WORD
  PROVE  Plus(a, b) = a + b
<1>1. WORD \in Nat \ {0}
  BY ElfAssumption
<1>2. \A x \in 0 .. (WORD - 1) : x % WORD = x
  BY <1>1
<1> QED BY <1>1, <1>2 DEF Plus

(* A run of bytes that does not wrap.                                      *)
LEMMA BytesAre ==
  ASSUME NEW s \in Words, NEW n \in Words, s + n < WORD, NEW a \in Words
  PROVE  a \in Bytes(s, n) <=> s <= a /\ a < s + n
<1>1. WORD \in Nat \ {0} /\ a \in Nat /\ s \in Nat /\ n \in Nat /\ a < WORD /\ s < WORD
  BY ElfAssumption DEF Words
<1>2. a \in Bytes(s, n) <=> Minus(a, s) < n
  BY DEF Bytes
<1> QED BY <1>1, <1>2, MinusIs

----------------------------------------------------------------------------
(* The wrapping checks of elf_load decide what plain arithmetic decides.   *)
LEMMA FileFields ==
  ASSUME TypeOK
  PROVE  /\ file.size \in Words /\ file.phoff \in Words /\ file.phentsize \in Words
         /\ file.entry \in Words
         /\ DOMAIN file.phdr = 1 .. Len(file.phdr) /\ Len(file.phdr) \in Nat
         /\ \A k \in DOMAIN file.phdr : file.phdr[k] \in ProgramHeader
BY DEF TypeOK, File

LEMMA HeaderPlain ==
  ASSUME TypeOK, Linked(file), NEW k \in DOMAIN file.phdr
  PROVE  HeaderInFile(file, k) <=> InFile(k)
<1> DEFINE t == (k - 1) * file.phentsize
<1>1. /\ file.phoff \in Nat /\ file.phentsize \in Nat /\ k \in Nat \ {0}
      /\ PHDR \in Nat /\ file.size \in Nat /\ WORD \in Nat
  BY FileFields, ElfAssumption DEF Words
<1>2. t \in Nat
  BY <1>1
<1>3. file.phoff + t + PHDR < WORD
  BY DEF Linked
<1> HIDE DEF t
<1>4. Plus(file.phoff, t) = file.phoff + t
  BY <1>1, <1>2, <1>3, PlusIs
<1>5. Plus(file.phoff + t, PHDR) = file.phoff + t + PHDR
  BY <1>1, <1>2, <1>3, PlusIs
<1> QED BY <1>4, <1>5 DEF HeaderInFile, TableOffset, InFile, t

LEMMA SegmentPlain ==
  ASSUME TypeOK, Linked(file), NEW k \in DOMAIN file.phdr, file.phdr[k].load
  PROVE  SegmentAccepted(file, file.phdr[k]) <=> InWindow(file.phdr[k])
<1> DEFINE ph == file.phdr[k]
<1>1. /\ ph.offset \in Words /\ ph.vaddr \in Words /\ ph.filesz \in Words
      /\ ph.memsz \in Words /\ file.size \in Words /\ PROG_LOAD_MAX \in Words
      /\ PROG_LOAD_MIN \in Words
  BY FileFields, ElfAssumption DEF ProgramHeader
<1>2. ph.vaddr <= PROG_LOAD_MAX
  BY DEF Linked
<1> HIDE DEF ph
<1>3. Minus(PROG_LOAD_MAX, ph.vaddr) = PROG_LOAD_MAX - ph.vaddr
  BY <1>1, <1>2, MinusIs
<1>4. ph.filesz <= file.size => Minus(file.size, ph.filesz) = file.size - ph.filesz
  BY <1>1, MinusIs
<1>5. /\ ph.offset \in Nat /\ ph.vaddr \in Nat /\ ph.filesz \in Nat
      /\ ph.memsz \in Nat /\ file.size \in Nat /\ PROG_LOAD_MAX \in Nat
  BY <1>1, ElfAssumption DEF Words
<1>6. SegmentAccepted(file, ph) <=> InWindow(ph)
  BY <1>2, <1>3, <1>4, <1>5 DEF SegmentAccepted, InWindow
<1> QED BY <1>6 DEF ph

(* What km_memcpy and km_memset leave of a segment inside the window.      *)
LEMMA PlacedIs ==
  ASSUME TypeOK, NEW ph \in ProgramHeader, InWindow(ph), ph.filesz <= ph.memsz,
         NEW a \in Words
  PROVE  Placed(ph)[a] =
           IF ph.vaddr <= a /\ a < ph.vaddr + ph.memsz
             THEN IF a < ph.vaddr + ph.filesz THEN ph.offset + (a - ph.vaddr) ELSE Zero
             ELSE memory[a]
<1>1. /\ ph.offset \in Words /\ ph.vaddr \in Words /\ ph.filesz \in Words
      /\ ph.memsz \in Words /\ file.size \in Words /\ PROG_LOAD_MAX \in Words
  BY FileFields, ElfAssumption DEF ProgramHeader
<1>2. /\ ph.offset \in Nat /\ ph.vaddr \in Nat /\ ph.filesz \in Nat /\ ph.memsz \in Nat
      /\ file.size \in Nat /\ PROG_LOAD_MAX \in Nat /\ WORD \in Nat /\ a \in Nat
      /\ PROG_LOAD_MAX < WORD /\ file.size < WORD
  BY <1>1, ElfAssumption DEF Words
<1>3. ph.vaddr + ph.memsz < WORD /\ ph.offset + ph.filesz < WORD
  BY <1>2 DEF InWindow
<1>4. Plus(ph.vaddr, ph.filesz) = ph.vaddr + ph.filesz
  BY <1>2, <1>3, PlusIs
<1>5. Minus(ph.memsz, ph.filesz) = ph.memsz - ph.filesz
  BY <1>1, MinusIs
<1>6. a \in Bytes(ph.vaddr, ph.filesz) <=> ph.vaddr <= a /\ a < ph.vaddr + ph.filesz
  BY <1>1, <1>2, <1>3, BytesAre
<1>7. a \in Bytes(Plus(ph.vaddr, ph.filesz), Minus(ph.memsz, ph.filesz))
        <=> ph.vaddr + ph.filesz <= a /\ a < ph.vaddr + ph.memsz
  <2>1. /\ ph.vaddr + ph.filesz \in Words /\ ph.memsz - ph.filesz \in Words
        /\ ph.vaddr + ph.filesz + (ph.memsz - ph.filesz) = ph.vaddr + ph.memsz
    BY <1>2, <1>3 DEF Words
  <2>2. a \in Bytes(ph.vaddr + ph.filesz, ph.memsz - ph.filesz)
        <=> ph.vaddr + ph.filesz <= a
            /\ a < ph.vaddr + ph.filesz + (ph.memsz - ph.filesz)
    BY <2>1, <1>3, BytesAre
  <2> QED BY <1>4, <1>5, <2>1, <2>2
<1>8. ph.vaddr <= a /\ a < ph.vaddr + ph.filesz =>
        Plus(ph.offset, Minus(a, ph.vaddr)) = ph.offset + (a - ph.vaddr)
  <2> SUFFICES ASSUME ph.vaddr <= a, a < ph.vaddr + ph.filesz
               PROVE  Plus(ph.offset, Minus(a, ph.vaddr)) = ph.offset + (a - ph.vaddr)
    OBVIOUS
  <2>1. Minus(a, ph.vaddr) = a - ph.vaddr
    BY <1>1, MinusIs
  <2>2. a - ph.vaddr \in Nat /\ ph.offset + (a - ph.vaddr) < WORD
    BY <1>2, <1>3
  <2> QED BY <1>2, <2>1, <2>2, PlusIs
<1>9. Placed(ph)[a] =
        IF ph.memsz > ph.filesz
             /\ a \in Bytes(Plus(ph.vaddr, ph.filesz), Minus(ph.memsz, ph.filesz))
          THEN Zero
        ELSE IF a \in Bytes(ph.vaddr, ph.filesz)
          THEN Plus(ph.offset, Minus(a, ph.vaddr))
        ELSE memory[a]
  BY DEF Placed
<1>10. CASE ph.vaddr <= a /\ a < ph.vaddr + ph.filesz
  BY <1>2, <1>6, <1>7, <1>8, <1>9, <1>10
<1>11. CASE ph.vaddr + ph.filesz <= a /\ a < ph.vaddr + ph.memsz
  BY <1>2, <1>6, <1>7, <1>9, <1>11
<1>12. CASE a < ph.vaddr \/ ph.vaddr + ph.memsz <= a
  BY <1>2, <1>6, <1>7, <1>9, <1>12
<1> QED BY <1>2, <1>10, <1>11, <1>12

----------------------------------------------------------------------------
(* The invariant.                                                          *)
LEMMA InitEInv == LinkedFilesOnly /\ Init => EInv
<1> SUFFICES ASSUME LinkedFilesOnly, Init PROVE EInv
  OBVIOUS
<1>1. file \in File /\ Linked(file)
  BY FilesAssumption DEF Init, LinkedFilesOnly
<1>2. memory \in [Words -> Words \cup {Zero, Untouched}]
      /\ \A a \in Words : memory[a] = Untouched
  BY DEF Init
<1>3. 1 \in 1 .. Len(file.phdr) + 1 /\ 0 \in Words
  BY <1>1, ElfAssumption DEF File, Words
<1>4. TypeOK
  BY <1>1, <1>2, <1>3 DEF Init, TypeOK
<1>5. LoopInv
  BY <1>2 DEF Init, LoopInv
<1>6. WritesInWindow
  BY <1>2 DEF WritesInWindow, Written
<1>7. AcceptsExactly /\ ProgramInPlace
  BY DEF Init, AcceptsExactly, ProgramInPlace
<1> QED BY <1>1, <1>4, <1>5, <1>6, <1>7 DEF EInv

(* What a file and memory that stay keep.                                  *)
LEMMA Kept ==
  ASSUME UNCHANGED <<file, memory>>
  PROVE  /\ Linked(file) => Linked(file)'
         /\ WritesInWindow => WritesInWindow'
         /\ Acceptable' <=> Acceptable
         /\ Segments' = Segments
         /\ \A k, a : (Covers(k, a)' <=> Covers(k, a)) /\ ByteOf(k, a)' = ByteOf(k, a)
         /\ \A k : Passed(k)' <=> Passed(k)
         /\ \A n : InPlace(n)' <=> InPlace(n)
<1>1. Linked(file) => Linked(file)'
  BY DEF Linked
<1>2. WritesInWindow => WritesInWindow'
  BY DEF WritesInWindow, Written
<1>3. Segments' = Segments
  BY DEF Segments
<1>4. Acceptable' <=> Acceptable
  BY <1>3 DEF Acceptable, HeaderAccepted
<1>5. \A k, a : (Covers(k, a)' <=> Covers(k, a)) /\ ByteOf(k, a)' = ByteOf(k, a)
  BY DEF Covers, ByteOf
<1>6. \A k : Passed(k)' <=> Passed(k)
  BY DEF Passed, InFile, InWindow
<1>7. \A n : InPlace(n)' <=> InPlace(n)
  BY <1>3, <1>5 DEF InPlace
<1> QED BY <1>1, <1>2, <1>3, <1>4, <1>5, <1>6, <1>7

(* An acceptable file is one with a good header whose program headers all  *)
(* pass, and with a segment.                                               *)
LEMMA AcceptableIs ==
  Acceptable <=> /\ HeaderAccepted(file)
                 /\ \A k \in DOMAIN file.phdr : Passed(k)
                 /\ \E k \in DOMAIN file.phdr : file.phdr[k].load
BY DEF Acceptable, Passed, InFile, InWindow, Segments

(* A refusal: the file is not acceptable.                                  *)
LEMMA RejectEInv ==
  EInv /\ (RejectFile \/ RejectHeader \/ RejectSegment) => EInv'
<1> SUFFICES ASSUME EInv, RejectFile \/ RejectHeader \/ RejectSegment PROVE EInv'
  OBVIOUS
<1> USE DEF EInv
<1>1. UNCHANGED <<file, i, loaded, memory>> /\ pc' = "done" /\ result' = 0
  BY DEF RejectFile, RejectHeader, RejectSegment, Return
<1>2. TypeOK'
  BY <1>1, ElfAssumption DEF TypeOK, Words
<1>3. ~Acceptable
  <2>1. CASE RejectFile
    BY <2>1 DEF RejectFile, Acceptable
  <2>2. CASE RejectHeader
    <3>1. i \in DOMAIN file.phdr /\ ~HeaderInFile(file, i)
      BY <2>2 DEF RejectHeader, InTable, TypeOK
    <3>2. ~InFile(i)
      BY <3>1, HeaderPlain
    <3> QED BY <3>1, <3>2, AcceptableIs DEF Passed
  <2>3. CASE RejectSegment
    <3>1. i \in DOMAIN file.phdr /\ file.phdr[i].load /\ ~SegmentAccepted(file, file.phdr[i])
      BY <2>3 DEF RejectSegment, InTable, TypeOK
    <3>2. ~InWindow(file.phdr[i])
      BY <3>1, SegmentPlain
    <3> QED BY <3>1, <3>2, AcceptableIs DEF Passed
  <2> QED BY <2>1, <2>2, <2>3
<1>4. AcceptsExactly'
  BY <1>1, <1>3, Kept DEF AcceptsExactly
<1>5. LoopInv' /\ ProgramInPlace'
  BY <1>1 DEF LoopInv, ProgramInPlace
<1> QED BY <1>1, <1>2, <1>4, <1>5, Kept

LEMMA AcceptFileEInv == EInv /\ AcceptFile => EInv'
<1> SUFFICES ASSUME EInv, AcceptFile PROVE EInv'
  OBVIOUS
<1> USE DEF EInv
<1>1. UNCHANGED <<file, i, loaded, memory, result>> /\ pc = "call" /\ pc' = "loop"
      /\ HeaderAccepted(file)
      /\ i = 1 /\ ~loaded /\ \A a \in Words : memory[a] = Untouched
  BY DEF AcceptFile, LoopInv
<1>2. TypeOK'
  BY <1>1 DEF TypeOK
<1>3. InPlace(1)
  <2>1. \A k \in Segments : ~(k < 1)
    BY FileFields DEF Segments
  <2> QED BY <1>1, <2>1 DEF InPlace
<1>4. LoopInv'
  <2>1. HeaderAccepted(file)'
    BY <1>1 DEF HeaderAccepted
  <2>2. 1 .. i' - 1 = {}
    BY <1>1
  <2> QED BY <1>1, <1>3, <2>1, <2>2, Kept DEF LoopInv
<1>5. AcceptsExactly' /\ ProgramInPlace'
  BY <1>1 DEF AcceptsExactly, ProgramInPlace
<1> QED BY <1>1, <1>2, <1>4, <1>5, Kept

LEMMA SkipEInv == EInv /\ SkipSegment => EInv'
<1> SUFFICES ASSUME EInv, SkipSegment PROVE EInv'
  OBVIOUS
<1> USE DEF EInv
<1>1. UNCHANGED <<file, pc, loaded, memory, result>> /\ pc = "loop" /\ i' = i + 1
      /\ i \in DOMAIN file.phdr /\ HeaderInFile(file, i) /\ ~file.phdr[i].load
  BY DEF SkipSegment, InTable, TypeOK
<1>2. i \in 1 .. Len(file.phdr) /\ Len(file.phdr) \in Nat
  BY <1>1, FileFields
<1>3. TypeOK'
  BY <1>1, <1>2 DEF TypeOK
<1>4. Passed(i)
  BY <1>1, HeaderPlain DEF Passed
<1>5. \A k \in 1 .. i' - 1 : k \in 1 .. i - 1 \/ k = i
  BY <1>1, <1>2
<1>6. InPlace(i')
  <2>1. \A k \in Segments : k \in Nat /\ k # i /\ (k < i' <=> k < i)
    BY <1>1, <1>2, FileFields DEF Segments
  <2>2. InPlace(i)
    BY <1>1 DEF LoopInv
  <2> QED BY <2>1, <2>2 DEF InPlace
<1>7. LoopInv'
  <2>1. HeaderAccepted(file)'
    BY <1>1 DEF HeaderAccepted, LoopInv
  <2>2. \A k \in 1 .. i' - 1 : Passed(k)'
    BY <1>1, <1>4, <1>5, Kept DEF LoopInv
  <2>3. loaded' <=> \E k \in 1 .. i' - 1 : file'.phdr[k].load
    <3>1. \A k \in 1 .. i - 1 : k \in 1 .. i' - 1
      BY <1>1, <1>2
    <3> QED BY <3>1, <1>1, <1>5 DEF LoopInv
  <2>4. InPlace(i)'
    <3>1. \A n : InPlace(n)' <=> InPlace(n)
      BY <1>1, Kept
    <3> QED BY <3>1, <1>6 DEF InPlace
  <2> QED BY <1>1, <2>1, <2>2, <2>3, <2>4 DEF LoopInv
<1>8. AcceptsExactly' /\ ProgramInPlace'
  BY <1>1 DEF AcceptsExactly, ProgramInPlace
<1> QED BY <1>1, <1>3, <1>7, <1>8, Kept

(* Copying segment i after the ones before it.                             *)
LEMMA LoadEInv == EInv /\ LoadSegment => EInv'
<1> SUFFICES ASSUME EInv, LoadSegment PROVE EInv'
  OBVIOUS
<1> USE DEF EInv
<1> DEFINE ph == file.phdr[i]
<1>1. UNCHANGED <<file, pc, result>> /\ pc = "loop" /\ i' = i + 1 /\ loaded' = TRUE
      /\ memory' = Placed(ph)
      /\ i \in DOMAIN file.phdr /\ HeaderInFile(file, i) /\ ph.load
      /\ SegmentAccepted(file, ph)
  BY DEF LoadSegment, InTable, TypeOK
<1>2. i \in 1 .. Len(file.phdr) /\ Len(file.phdr) \in Nat /\ ph \in ProgramHeader
  BY <1>1, FileFields
<1>3. InWindow(ph) /\ ph.filesz <= ph.memsz /\ Passed(i)
  BY <1>1, HeaderPlain, SegmentPlain DEF Linked, Passed
<1>4. \A a \in Words :
        memory'[a] = IF Covers(i, a) THEN ByteOf(i, a) ELSE memory[a]
  BY <1>1, <1>2, <1>3, PlacedIs DEF Covers, ByteOf
<1>5. /\ ph.offset \in Nat /\ ph.vaddr \in Nat /\ ph.filesz \in Nat /\ ph.memsz \in Nat
      /\ file.size \in Words /\ PROG_LOAD_MAX \in Words /\ PROG_LOAD_MIN \in Words
      /\ Words \subseteq Nat /\ WORD \in Nat
  BY <1>2, FileFields, ElfAssumption DEF ProgramHeader, Words
<1>6. \A a \in Words : Covers(i, a) =>
        /\ PROG_LOAD_MIN <= a /\ a < PROG_LOAD_MAX
        /\ ByteOf(i, a) \in Words \cup {Zero}
  <2> SUFFICES ASSUME NEW a \in Words, Covers(i, a)
               PROVE  /\ PROG_LOAD_MIN <= a /\ a < PROG_LOAD_MAX
                      /\ ByteOf(i, a) \in Words \cup {Zero}
    OBVIOUS
  <2>1. ph.vaddr <= a /\ a < ph.vaddr + ph.memsz
    BY DEF Covers
  <2>2. PROG_LOAD_MIN <= a /\ a < PROG_LOAD_MAX
    BY <1>3, <1>5, <2>1 DEF InWindow
  <2>3. a < ph.vaddr + ph.filesz => ph.offset + (a - ph.vaddr) \in Words
    BY <1>3, <1>5, <2>1 DEF InWindow, Words
  <2> QED BY <2>2, <2>3 DEF ByteOf
<1>7. TypeOK'
  <2>1. memory' = [a \in Words |-> memory'[a]]
    BY <1>1 DEF Placed
  <2>2. \A a \in Words : memory'[a] \in Words \cup {Zero, Untouched}
    BY <1>4, <1>6 DEF TypeOK
  <2>3. memory' \in [Words -> Words \cup {Zero, Untouched}]
    BY <2>1, <2>2
  <2> QED BY <2>3, <1>1, <1>2 DEF TypeOK
<1>8. WritesInWindow'
  <2> SUFFICES ASSUME NEW a \in Words, memory'[a] # Untouched
               PROVE  PROG_LOAD_MIN <= a /\ a < PROG_LOAD_MAX
    BY DEF WritesInWindow, Written
  <2>1. CASE Covers(i, a)
    BY <2>1, <1>6
  <2>2. CASE ~Covers(i, a)
    BY <2>2, <1>4 DEF WritesInWindow, Written
  <2> QED BY <2>1, <2>2
<1>9. Segments' = Segments /\ i \in Segments /\ Segments \subseteq Nat
      /\ \A k, a : (Covers(k, a)' <=> Covers(k, a)) /\ ByteOf(k, a)' = ByteOf(k, a)
  BY <1>1, <1>2, FileFields DEF Segments, Covers, ByteOf
<1>10. \A a \in Words :
         \/ /\ \A k \in Segments : k < i + 1 => ~Covers(k, a)
            /\ memory'[a] = Untouched
         \/ \E k \in Segments :
              /\ k < i + 1 /\ Covers(k, a)
              /\ \A l \in Segments : k < l /\ l < i + 1 => ~Covers(l, a)
              /\ memory'[a] = ByteOf(k, a)
  <2> TAKE a \in Words
  <2>1. \A k \in Segments : k < i + 1 <=> k < i \/ k = i
    BY <1>2, <1>9
  <2>2. CASE Covers(i, a)
    <3>1. i < i + 1 /\ \A l \in Segments : ~(i < l /\ l < i + 1)
      BY <1>2, <1>9
    <3> QED BY <3>1, <2>2, <1>4, <1>9
  <2>3. CASE ~Covers(i, a)
    <3>1. memory'[a] = memory[a]
      BY <2>3, <1>4
    <3>2. \/ /\ \A k \in Segments : k < i => ~Covers(k, a)
             /\ memory[a] = Untouched
          \/ \E k \in Segments :
               /\ k < i /\ Covers(k, a)
               /\ \A l \in Segments : k < l /\ l < i => ~Covers(l, a)
               /\ memory[a] = ByteOf(k, a)
      BY <1>1 DEF LoopInv, InPlace
    <3> QED BY <3>1, <3>2, <2>1, <2>3
  <2> QED BY <2>2, <2>3
<1>11. InPlace(i)'
  BY <1>1, <1>9, <1>10 DEF InPlace
<1>12. LoopInv'
  <2>1. HeaderAccepted(file)'
    BY <1>1 DEF HeaderAccepted, LoopInv
  <2>2. \A k \in 1 .. i' - 1 : k \in 1 .. i - 1 \/ k = i
    BY <1>1, <1>2
  <2>3. \A k : Passed(k)' <=> Passed(k)
    BY <1>1 DEF Passed, InFile, InWindow
  <2>4. \A k \in 1 .. i' - 1 : Passed(k)'
    BY <1>1, <1>3, <2>2, <2>3 DEF LoopInv
  <2>5. \E k \in 1 .. i' - 1 : file'.phdr[k].load
    <3>1. i \in 1 .. i' - 1
      BY <1>1, <1>2
    <3> QED BY <3>1, <1>1
  <2> QED BY <1>1, <1>11, <2>1, <2>4, <2>5 DEF LoopInv
<1>13. AcceptsExactly' /\ ProgramInPlace' /\ Linked(file)'
  BY <1>1 DEF AcceptsExactly, ProgramInPlace, Linked
<1> QED BY <1>7, <1>8, <1>12, <1>13

(* The end of the loop.                                                    *)
LEMMA FinishEInv == EInv /\ Finish => EInv'
<1> SUFFICES ASSUME EInv, Finish PROVE EInv'
  OBVIOUS
<1> USE DEF EInv
<1>1. UNCHANGED <<file, i, loaded, memory>> /\ pc = "loop" /\ pc' = "done"
      /\ result' = (IF loaded THEN file.entry ELSE 0)
      /\ i > Len(file.phdr)
  BY DEF Finish, Return
<1>2. i = Len(file.phdr) + 1 /\ Len(file.phdr) \in Nat
      /\ DOMAIN file.phdr = 1 .. i - 1
  BY <1>1, FileFields DEF TypeOK
<1>3. file.entry \in Words /\ 0 \in Words
  BY FileFields, ElfAssumption DEF Words
<1>4. TypeOK'
  BY <1>1, <1>3 DEF TypeOK
<1>5. loaded <=> Acceptable
  BY <1>1, <1>2, AcceptableIs DEF LoopInv
<1>6. AcceptsExactly'
  BY <1>1, <1>5, Kept DEF AcceptsExactly
<1>7. ProgramInPlace'
  <2>1. \A k \in Segments : k < i /\ k \in Nat
    BY <1>2, FileFields DEF Segments
  <2>2. InPlace(i)
    BY <1>1 DEF LoopInv
  <2>3. \A a \in Words :
          \/ /\ \A k \in Segments : ~Covers(k, a)
             /\ memory[a] = Untouched
          \/ \E k \in Segments :
               /\ Covers(k, a)
               /\ \A l \in Segments : l > k => ~Covers(l, a)
               /\ memory[a] = ByteOf(k, a)
    BY <2>1, <2>2 DEF InPlace
  <2> QED BY <1>1, <2>3, Kept DEF ProgramInPlace, ByteOf
<1>8. LoopInv'
  BY <1>1 DEF LoopInv
<1> QED BY <1>1, <1>4, <1>6, <1>7, <1>8, Kept

LEMMA NextEInv == EInv /\ [Next]_vars => EInv'
<1> SUFFICES ASSUME EInv, [Next]_vars PROVE EInv'
  OBVIOUS
<1>1. CASE UNCHANGED vars
  <2>1. UNCHANGED <<file, pc, i, loaded, memory, result>>
    BY <1>1 DEF vars
  <2>2. TypeOK'
    BY <2>1 DEF EInv, TypeOK
  <2>3. LoopInv'
    BY <2>1, Kept DEF EInv, LoopInv, HeaderAccepted
  <2>4. AcceptsExactly' /\ ProgramInPlace'
    BY <2>1, Kept DEF EInv, AcceptsExactly, ProgramInPlace
  <2> QED BY <2>1, <2>2, <2>3, <2>4, Kept DEF EInv
<1>2. CASE Next
  BY <1>2, RejectEInv, AcceptFileEInv, SkipEInv, LoadEInv, FinishEInv DEF Next
<1> QED BY <1>1, <1>2

LEMMA ElfInvariance == LinkedFilesOnly /\ Spec => []EInv
BY InitEInv, NextEInv, PTL DEF Spec

(* elf_load keeps its state well formed: every byte of memory it changes   *)
(* holds a byte of the file or zero.                                       *)
THEOREM ElfTypeCorrect == LinkedFilesOnly /\ Spec => []TypeOK
<1>1. EInv => TypeOK
  BY DEF EInv
<1> QED BY <1>1, ElfInvariance, PTL

(* For every file a linker writes, no byte outside the window is written,  *)
(* whether the file is accepted or refused half way.                       *)
THEOREM WindowRespected == LinkedFilesOnly /\ Spec => []WritesInWindow
<1>1. EInv => WritesInWindow
  BY DEF EInv
<1> QED BY <1>1, ElfInvariance, PTL

(* The wrapping checks of elf_load accept a file exactly when plain        *)
(* arithmetic does.                                                        *)
THEOREM ExactAcceptance == LinkedFilesOnly /\ Spec => []AcceptsExactly
<1>1. EInv => AcceptsExactly
  BY DEF EInv
<1> QED BY <1>1, ElfInvariance, PTL

(* When elf_load returns an entry point, each address holds what the last  *)
(* segment that covers it says, however segments overlap.                  *)
THEOREM ProgramLoaded == LinkedFilesOnly /\ Spec => []ProgramInPlace
<1>1. EInv => ProgramInPlace
  BY DEF EInv
<1> QED BY <1>1, ElfInvariance, PTL
============================================================================
