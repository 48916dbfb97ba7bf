------------------------------- MODULE MCLoad -------------------------------
(***************************************************************************)
(* Load with bytes of four values, headers of one byte each, a magic and a *)
(* size field of two bytes, and 16 bytes of memory: the kernel's, the heap *)
(* from 2 on, and what is left of the window of programs above it.         *)
(***************************************************************************)
EXTENDS Load

MCMagic == <<1, 2>>

\* A file header: of an ELF file with one program header, with two, of none.
MCEhdr(b) == [elf64 |-> b[1] \in {2, 3}, entry |-> IF b[1] = 2 THEN 10 ELSE 9,
              phoff |-> 1, phentsize |-> 1, phnum |-> IF b[1] = 2 THEN 2 ELSE 1]

Segment(o, v, fs, ms) ==
  [load |-> TRUE, offset |-> o, vaddr |-> v, filesz |-> fs, memsz |-> ms]
Note == [load |-> FALSE, offset |-> 0, vaddr |-> 0, filesz |-> 9, memsz |-> 9]

\* Programs linked at address v: two segments that overlap, and one that
\* lies below the window.
Linked(b, v) == CASE b[1] = 0 -> Note
                  [] b[1] = 1 -> Segment(2, v, 1, 3)
                  [] b[1] = 2 -> Segment(3, v + 1, 1, 1)
                  [] b[1] = 3 -> Segment(0, 1, 1, 1)

AboveHeap(b) == Linked(b, 9)
OnHeap(b) == Linked(b, 3)

Frame(length, data) == MCMagic \o length \o data

OneSegment == Frame(<<3, 0>>, <<3, 1, 3>>)
TwoSegments == Frame(<<0, 1>>, <<2, 1, 2, 3>>)

\* Good programs; programs refused before, between and after their segments;
\* a wrong magic; a size of zero, one above the limit; less data than announced.
MCSendings == {OneSegment, TwoSegments,
               Frame(<<0, 1>>, <<2, 2, 3, 1>>),
               Frame(<<2, 0>>, <<2, 0>>),
               Frame(<<2, 0>>, <<3, 0>>),
               <<1, 1, 2, 0>>,
               Frame(<<0, 0>>, <<>>),
               Frame(<<1, 1>>, <<>>),
               Frame(<<2, 0>>, <<1>>)}

\* Whatever their bytes say, the programs of AboveHeap are LinkedAboveHeap.
ASSUME AboveHeapLinked ==
  \A b \in [1 .. EHDR -> Byte], c \in [1 .. PHDR -> Byte] :
    LET h == MCEhdr(b)
        s == AboveHeap(c)
    IN  /\ h.phoff + (h.phnum - 1) * h.phentsize + PHDR < WORD
        /\ s.load => /\ s.filesz <= s.memsz /\ s.vaddr <= PROG_LOAD_MAX
                     /\ s.vaddr < PROG_LOAD_MIN \/ HeapLimit <= s.vaddr

\* Copied is km_memcpy byte by byte, for all blocks, overlapping or wrapping.
ASSUME CopiedBytewise ==
  \A dst, src, n \in Words :
    LET m == [a \in Address |-> a]
    IN  Copied(m, dst, src, n) =
          FoldLeft(LAMBDA x, k : [x EXCEPT ![Plus(dst, k - 1)] = x[Plus(src, k - 1)]],
                   m, [k \in 1 .. n |-> k])

\* Value is the sum that FrameStream says it is.
ASSUME ValueIsSum == SizesAgree

TwoPrograms == {OneSegment, TwoSegments}
============================================================================
