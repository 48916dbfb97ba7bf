------------------------------- MODULE Console -------------------------------
(***************************************************************************)
(* A line of input from the key to the screen.  A user types at the        *)
(* keyboard or at a terminal on COM1, whichever console the machine was    *)
(* booted with.  keyboard_getchar (keyboard.c) turns scan codes into       *)
(* characters, serial_getchar (serial.c) takes them as they are.  Three    *)
(* readers ask for them: readline of the shell (command_kern/main.c), read *)
(* of the C library of a program (newlib.c), which edits and echoes too,   *)
(* and the kernel's own kst_read (modules.c), which does neither.          *)
(*                                                                         *)
(* All of them poll: what is typed while a command computes or prints      *)
(* waits, and the next reader gets it.                                     *)
(***************************************************************************)
EXTENDS Vga, Sequences

CONSTANTS
  Devices,      \* the consoles a machine may be booted with
  LINE_MAX,     \* readline's buffer
  ReadLens,     \* lengths a program passes to read
  Keys,         \* the keys of the keyboard that have a character
  Normal,       \* their characters, and those with shift held: NoChar if none
  Shifted,
  SerialChars,  \* the characters a terminal sends
  Outputs,      \* what a command prints, character by character
  MaxCalls,     \* bound: characters and reads of a command
  MaxQueue      \* bound: codes waiting in the keyboard's buffer

NoChar == "none"

\* What ends a line, what takes a character back, and the rest below 0x20.
Ends == {"newline", "return"}
Backs == {"backspace", "delete"}
Chars == Glyphs \cup Ends \cup Backs \cup {"tab"}

(***************************************************************************)
(* A line with its prompt is shorter than the screen.                      *)
(***************************************************************************)
ASSUME ConsoleAssumption ==
  /\ Devices \subseteq {"vga", "serial"}
  /\ LINE_MAX \in Nat \ {0}
  /\ LINE_MAX + 1 <= (VGA_ROWS - 1) * VGA_COLS
  /\ ReadLens \subseteq 1 .. LINE_MAX
  /\ {"LShift", "RShift", "E0"} \cap (Keys \cup Chars) = {}
  /\ ">" \in Glyphs
  /\ NoChar \notin Chars
  /\ (Ends \cup Backs \cup {"tab"}) \cap Glyphs = {}
  /\ Normal \in [Keys -> Chars \cup {NoChar}]
  /\ Shifted \in [Keys -> Chars \cup {NoChar}]
  /\ SerialChars \subseteq Chars
  /\ Outputs \subseteq Chars
  /\ MaxCalls \in Nat /\ MaxQueue \in Nat

Shifts == {"LShift", "RShift"}

(***************************************************************************)
(* What waits to be read: a scan code, or a character of the terminal.     *)
(* `means' is history: the characters the user may mean to type with it,   *)
(* one of them except in the case told at MeansOf.                         *)
(***************************************************************************)
Code == [key : Keys \cup Shifts \cup {"E0"} \cup Chars, release : BOOLEAN,
         means : SUBSET (Chars \cup {NoChar})]

Make(k, m) == [key |-> k, release |-> FALSE, means |-> m]
Break(k) == [key |-> k, release |-> TRUE, means |-> {NoChar}]

VARIABLES
  device,       \* hal.c: active_console
  held,         \* the shift keys the user holds down
  queue,        \* typed, not yet read
  shift_held,   \* keyboard.c
  extended,     \* keyboard.c: the last code was the prefix 0xE0
  screen,       \* vga.c, or the terminal; screen.home is the cell the line starts in
  pc,           \* the reader that waits for a character, or "command"
  line,         \* the buffer of the last reader
  limit,        \* how much that reader takes
  called,       \* bound: characters and reads of this command
  far,          \* history: the most cells the line has covered
  meant,        \* history: what the user may mean that buffer to hold
  unsure        \* history: of two shift keys held, one has been released

keyboard == <<held, queue, shift_held, extended>>
vars == <<device, keyboard, screen, pc, line, limit, called, far, meant, unsure>>

Editors == {"readline", "read"}
Readers == Editors \cup {"kst_read"}

----------------------------------------------------------------------------
(* The terminal on COM1 starts a line at a line feed, and moves its cursor *)
(* on one line only.                                                       *)

Terminal == [cell : Seq(Entry), col : Nat, home : Int]

TerminalCell(t, p) == IF p < Len(t.cell) THEN t.cell[p + 1] ELSE MakeEntry(Blank)

TerminalPut(t, c) ==
  CASE c = "newline"   -> [cell |-> <<>>, col |-> 0, home |-> 0]
    [] c = "return"    -> [t EXCEPT !.col = 0]
    [] c = "tab"       -> [t EXCEPT !.col = ((t.col + 4) \div 4) * 4]
    [] c = "backspace" -> [t EXCEPT !.col = IF t.col > 0 THEN t.col - 1 ELSE 0]
    [] c = "delete"    -> t
    [] OTHER -> [t EXCEPT
                   !.cell = [n \in 1 .. (IF t.col < Len(t.cell) THEN Len(t.cell) ELSE t.col + 1) |->
                               IF n = t.col + 1 THEN MakeEntry(c) ELSE TerminalCell(t, n - 1)],
                   !.col = t.col + 1]

(* hal_console_putchar, hal_console_print, hal_console_clear.              *)

Put(v, c) == IF device = "vga" THEN PutChar(v, c) ELSE TerminalPut(v, c)

ClearedScreen(v) == IF device = "vga" THEN Cleared(0) ELSE v

\* "\b \b", as readline and read print it to take a character back.
Erase_MovesOnly(v) == Put(v, "backspace")
Erase(v) == Put(Put(Put(v, "backspace"), Blank), "backspace")

----------------------------------------------------------------------------
Init == /\ device \in Devices
        /\ held = {}
        /\ queue = <<>>
        /\ shift_held = FALSE
        /\ extended = FALSE
        /\ screen = IF device = "vga" THEN Cleared(0)
                    ELSE [cell |-> <<>>, col |-> 0, home |-> 0]
        /\ pc = "command"
        /\ line = <<>>
        /\ limit = 0
        /\ called = 0
        /\ far = 0
        /\ meant = {<<>>}
        /\ unsure = FALSE

----------------------------------------------------------------------------
(* The user.  A cursor key sends the code of a key of the number pad       *)
(* behind a prefix.  A controller whose buffer is full keeps the user      *)
(* waiting.                                                                *)

Sent(codes) == /\ Len(queue) + Len(codes) <= MaxQueue
               /\ queue' = queue \o codes
               /\ UNCHANGED <<device, shift_held, extended, screen, pc, line, limit,
                              called, far, meant>>

\* With both shift keys held and one of them released, the other still shifts
\* on a typewriter, and shifts no more for keyboard.c: the user may mean either.
MeansOf(k) == (IF held # {} THEN {Shifted[k]} ELSE {})
              \cup (IF held = {} \/ unsure THEN {Normal[k]} ELSE {})

TypeKey(k) == /\ device = "vga"
              /\ Sent(<<Make(k, MeansOf(k)), Break(k)>>)
              /\ UNCHANGED <<held, unsure>>

TypeCursorKey(k) == /\ device = "vga"
                    /\ Sent(<<Make("E0", {NoChar}), Make(k, {NoChar}),
                              Make("E0", {NoChar}), Break(k)>>)
                    /\ UNCHANGED <<held, unsure>>

PressShift(s) == /\ device = "vga"
                 /\ s \notin held
                 /\ Sent(<<Make(s, {NoChar})>>)
                 /\ held' = held \cup {s}
                 /\ unsure' = FALSE

ReleaseShift(s) == /\ s \in held
                   /\ Sent(<<Break(s)>>)
                   /\ held' = held \ {s}
                   /\ unsure' = (held' # {})

TypeAtTerminal(c) == /\ device = "serial"
                     /\ Sent(<<Make(c, {c})>>)
                     /\ UNCHANGED <<held, unsure>>

----------------------------------------------------------------------------
(* kbd_process: what one code does to the state, and the character it is.  *)

IsPrefix(code) == code.key = "E0"

KbdChar(code) ==
  IF IsPrefix(code) \/ extended \/ code.release \/ code.key \in Shifts THEN NoChar
  ELSE IF shift_held THEN Shifted[code.key] ELSE Normal[code.key]

KbdProcess_PrefixKept(code) ==
  /\ extended' = (extended \/ IsPrefix(code))
  /\ shift_held' = IF ~extended /\ code.key \in Shifts THEN ~code.release ELSE shift_held
KbdProcess(code) ==
  /\ extended' = IsPrefix(code)
  /\ shift_held' = IF ~extended /\ code.key \in Shifts THEN ~code.release ELSE shift_held

\* hal_console_getchar: one code, and the character it is.
CharOf(code) == IF device = "serial" THEN code.key ELSE KbdChar(code)

(***************************************************************************)
(* What a reader's buffer ought to hold after one more character.          *)
(***************************************************************************)
Edited(s, c) ==
  IF c = NoChar THEN s
  ELSE IF pc = "kst_read" THEN Append(s, c)
  ELSE CASE c \in Ends -> IF pc = "read" THEN Append(s, "newline") ELSE s
         [] c \in Backs -> SubSeq(s, 1, Len(s) - 1)
         [] c \in Glyphs /\ Len(s) < limit -> Append(s, c)
         [] OTHER -> s

ReadCode == /\ pc \in Readers
            /\ queue # <<>>
            /\ queue' = Tail(queue)
            /\ IF device = "vga" THEN KbdProcess(Head(queue))
                                 ELSE UNCHANGED <<extended, shift_held>>
            /\ meant' = {Edited(s, c) : s \in meant, c \in Head(queue).means}
            /\ UNCHANGED <<device, held, limit, called, unsure>>

Got(c) == ReadCode /\ CharOf(Head(queue)) = c

NothingYet == Got(NoChar) /\ UNCHANGED <<screen, pc, line, far>>

----------------------------------------------------------------------------
(* readline and read, one action per kind of character.                    *)

EndLine == /\ pc \in Editors
           /\ \E c \in Ends : Got(c)
           /\ screen' = Put(screen, "newline")
           /\ line' = IF pc = "read" THEN Append(line, "newline") ELSE line
           /\ pc' = "command"
           /\ UNCHANGED far

TakeBack_Always == /\ pc \in Editors
                   /\ \E c \in Backs : Got(c)
                   /\ line' = SubSeq(line, 1, Len(line) - 1)
                   /\ screen' = Erase(screen)
                   /\ UNCHANGED <<pc, far>>
TakeBack == /\ pc \in Editors
            /\ \E c \in Backs : Got(c)
            /\ IF line = <<>> THEN UNCHANGED <<line, screen>>
               ELSE /\ line' = SubSeq(line, 1, Len(line) - 1)
                    /\ screen' = Erase(screen)
            /\ UNCHANGED <<pc, far>>

Start == IF pc = "readline" THEN <<">", Blank>> ELSE <<>>

\* read returns when the buffer of its caller is full; readline goes on.
AddChar(c) == /\ pc \in Editors
              /\ Got(c)
              /\ Len(line) < limit
              /\ line' = Append(line, c)
              /\ screen' = Put(screen, c)
              /\ LET cells == Len(Start \o line')
                 IN  far' = IF cells > far THEN cells ELSE far
              /\ pc' = IF pc = "read" /\ Len(line') = limit THEN "command" ELSE pc

LineFull(c) == /\ pc = "readline"
               /\ Got(c)
               /\ Len(line) >= limit
               /\ UNCHANGED <<screen, pc, line, far>>

\* The other characters below 0x20.
PassOver == /\ pc \in Editors
            /\ Got("tab")
            /\ UNCHANGED <<screen, pc, line, far>>

(* kst_read takes what comes, up to a line feed.                           *)
RawChar(c) == /\ pc = "kst_read"
              /\ Got(c)
              /\ line' = Append(line, c)
              /\ pc' = IF c = "newline" \/ Len(line') = limit THEN "command" ELSE pc
              /\ UNCHANGED <<screen, far>>

Reading == \/ NothingYet \/ EndLine \/ TakeBack \/ PassOver
           \/ \E c \in Glyphs : AddChar(c) \/ LineFull(c)
           \/ \E c \in Chars : RawChar(c)

----------------------------------------------------------------------------
(* Between two lines: the command prints, clears or reads, then the prompt. *)

Output(c) == /\ pc = "command"
             /\ called < MaxCalls
             /\ screen' = Put(screen, c)
             /\ called' = called + 1
             /\ UNCHANGED <<device, keyboard, pc, line, limit, far, meant, unsure>>

Clear == /\ pc = "command"
         /\ screen' = ClearedScreen(screen)
         /\ UNCHANGED <<device, keyboard, pc, line, limit, called, far, meant, unsure>>

Await(reader, len, v) == /\ pc = "command"
                         /\ pc' = reader
                         /\ limit' = len
                         /\ line' = <<>>
                         /\ meant' = {<<>>}
                         /\ screen' = v
                         /\ UNCHANGED <<device, keyboard, unsure>>

Here == [screen EXCEPT !.home = IF device = "vga" THEN Cursor(screen) ELSE screen.col]

Read(reader, len) == /\ reader \in {"read", "kst_read"}
                     /\ called < MaxCalls
                     /\ Await(reader, len, Here)
                     /\ called' = called + 1
                     /\ far' = 0

Prompt == /\ Await("readline", LINE_MAX - 1, Put(Put(Here, ">"), Blank))
          /\ called' = 0
          /\ far' = 2

Next == \/ \E k \in Keys : TypeKey(k) \/ TypeCursorKey(k)
        \/ \E s \in Shifts : PressShift(s) \/ ReleaseShift(s)
        \/ \E c \in SerialChars : TypeAtTerminal(c)
        \/ Reading
        \/ \E c \in Outputs : Output(c)
        \/ \E reader \in {"read", "kst_read"}, len \in ReadLens : Read(reader, len)
        \/ Clear \/ Prompt

Spec == Init /\ [][Next]_vars

----------------------------------------------------------------------------
(* Type invariant; the cursor is on the screen, so every character is      *)
(* written inside the frame buffer, and no reader writes behind the end of *)
(* its buffer.                                                             *)
TypeOK ==
  /\ device \in Devices
  /\ held \subseteq Shifts
  /\ queue \in Seq(Code)
  /\ shift_held \in BOOLEAN
  /\ extended \in BOOLEAN
  /\ screen \in IF device = "vga" THEN Screen ELSE Terminal
  /\ pc \in Readers \cup {"command"}
  /\ limit \in 0 .. LINE_MAX
  /\ line \in Seq(Chars) /\ Len(line) <= limit
  /\ called \in 0 .. MaxCalls
  /\ far \in Nat
  /\ meant \subseteq Seq(Chars)
  /\ unsure \in BOOLEAN

Text == Start \o line

At == IF device = "vga" THEN Cursor(screen) ELSE screen.col

Shown(p) == (IF device = "vga" THEN screen.cell[p] ELSE TerminalCell(screen, p)).char

(***************************************************************************)
(* While a line is edited, by the shell or in a program, the screen shows  *)
(* it: from the cell it starts in, through line ends and scrolls, stand    *)
(* the prompt and the characters of the line, then the cursor; and what    *)
(* was typed and taken back is gone from the screen.                       *)
(***************************************************************************)
ScreenShowsLine ==
  pc \in Editors =>
    /\ At = screen.home + Len(Text)
    /\ screen.home >= 0
    /\ \A n \in 1 .. far :
         \/ device = "vga" /\ screen.home + n - 1 \notin Cells
         \/ Shown(screen.home + n - 1) = IF n <= Len(Text) THEN Text[n] ELSE Blank

(***************************************************************************)
(* A reader gets what the user typed, shift and cursor keys included,      *)
(* however far it lags behind the keys and whoever read before it.  Two    *)
(* lines are as good only for a key typed while one of two shift keys has  *)
(* been released, which the one flag of keyboard.c takes for both.         *)
(***************************************************************************)
LineAsTyped == line \in meant

(***************************************************************************)
(* Editing a line changes nothing above its start: earlier output moves    *)
(* with the screen or stays, and is never erased.                          *)
(***************************************************************************)
EditLeavesRest ==
  [][device = "vga" /\ pc \in Readers =>
       \A p \in Cells : p < screen.home /\ p - screen.home + screen'.home \in Cells =>
         screen'.cell[p - screen.home + screen'.home] = screen.cell[p]]_vars

(***************************************************************************)
(* A character above 0x7F spoils the colour of the cell it stands in (the  *)
(* sign of make_entry's char, vga.c:30, a defect), and the damage goes no  *)
(* further, however the screen scrolls and whatever is erased.             *)
(***************************************************************************)
ColourKept ==
  device = "vga" =>
    \A p \in Cells : screen.cell[p].color = "current" <=> screen.cell[p].char \notin High
============================================================================
