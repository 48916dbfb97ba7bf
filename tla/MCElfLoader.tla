---------------------------- MODULE MCElfLoader ----------------------------
(***************************************************************************)
(* ElfLoader in a 16-byte address space with the window 4 .. 11: files of  *)
(* up to two segments around every boundary of window and file.  Linked    *)
(* files are those a linker writes (the image of a segment is not larger   *)
(* than the segment, and no segment starts behind the window); AnyFiles    *)
(* are not.                                                                *)
(***************************************************************************)
EXTENDS ElfLoader

Segment(o, v, fs, ms) ==
  [load |-> TRUE, offset |-> o, vaddr |-> v, filesz |-> fs, memsz |-> ms]
Note == [load |-> FALSE, offset |-> 0, vaddr |-> 0, filesz |-> 9, memsz |-> 9]

Sizes == {<<0, 3>>, <<2, 2>>, <<2, 5>>, <<5, 5>>, <<0, 15>>}

Linked == {Note} \cup {Segment(o, v, s[1], s[2]) :
                         o \in {0, 3, 4, 15}, v \in {3, 4, 7, 9, 12}, s \in Sizes}
Strange == {Note} \cup {Segment(2, v, s[1], s[2]) :
                          v \in {4, 9, 13, 15}, s \in {<<2, 3>>, <<5, 1>>}}

FileOf(size, good, entry, off, esz, ph) ==
  [size |-> size, elf64 |-> good, entry |-> entry, phoff |-> off, phentsize |-> esz, phdr |-> ph]

Tables(S) == UNION {[1 .. n -> S] : n \in 0 .. 2}

LinkedFiles == {FileOf(6, TRUE, 4, 2, 2, t) : t \in Tables(Linked)}
                 \cup {FileOf(size, good, entry, off, esz, <<Segment(0, 4, 2, 2), Note>>) :
                         size \in {1, 5, 6}, good \in BOOLEAN, entry \in {0, 4},
                         off \in {0, 2, 5}, esz \in {1, 2}}
AnyFiles == {FileOf(6, TRUE, 4, 2, 2, t) : t \in Tables(Strange)}
============================================================================
