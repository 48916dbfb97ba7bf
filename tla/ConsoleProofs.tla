--------------------------- MODULE ConsoleProofs ---------------------------
(***************************************************************************)
(* Proofs about Console, for every size of screen that holds a line, every *)
(* keyboard and every bound on what waits.  VgaProofs says what one char   *)
(* does to the cells; here a line of text is followed through them, and a  *)
(* key from the user's finger to the buffer of the reader.                 *)
(***************************************************************************)
EXTENDS Console, VgaProofs, SequenceTheorems

(***************************************************************************)
(* The keyboard.  A queue is tracked from a state of the driver if, code   *)
(* by code, the driver finds a character the user may mean; `end' is the   *)
(* state of the shift flag it comes to.                                    *)
(***************************************************************************)
ShiftAfter(shift, prefixed, code) ==
  IF ~prefixed /\ code.key \in Shifts THEN ~code.release ELSE shift

CharIn(shift, prefixed, code) ==
  IF IsPrefix(code) \/ prefixed \/ code.release \/ code.key \in Shifts THEN NoChar
  ELSE IF shift THEN Shifted[code.key] ELSE Normal[code.key]

Prefixed(q, first, n) == IF n = 1 THEN first ELSE IsPrefix(q[n - 1])

Tracked(q, shift, prefixed, end) ==
  \E sh \in [1 .. (Len(q) + 1) -> BOOLEAN] :
    /\ sh[1] = shift
    /\ sh[Len(q) + 1] = end
    /\ \A n \in 1 .. Len(q) :
         /\ sh[n + 1] = ShiftAfter(sh[n], Prefixed(q, prefixed, n), q[n])
         /\ CharIn(sh[n], Prefixed(q, prefixed, n), q[n]) \in q[n].means

(* An empty queue is tracked: the driver already knows the shift key.      *)
LEMMA TrackedEmpty ==
  ASSUME NEW shift \in BOOLEAN, NEW prefixed
  PROVE  Tracked(<<>>, shift, prefixed, shift)
<1> DEFINE sh == [n \in 1 .. 1 |-> shift]
<1>1. sh \in [1 .. (Len(<<>>) + 1) -> BOOLEAN] /\ sh[1] = shift
  OBVIOUS
<1> HIDE DEF sh
<1> QED
  BY <1>1 DEF Tracked

(* A code sent behind a tracked queue keeps it tracked, if the driver,     *)
(* once it gets there, makes of the code what the user meant.              *)
LEMMA TrackedAppend ==
  ASSUME NEW q \in Seq(Code), NEW shift, NEW prefixed \in BOOLEAN, NEW end,
         Tracked(q, shift, prefixed, end),
         NEW c \in Code,
         NEW px, px = Prefixed(q, prefixed, Len(q) + 1),
         CharIn(end, px, c) \in c.means
  PROVE  /\ Tracked(Append(q, c), shift, prefixed, ShiftAfter(end, px, c))
         /\ Prefixed(Append(q, c), prefixed, Len(Append(q, c)) + 1) = IsPrefix(c)
         /\ Append(q, c) \in Seq(Code)
<1> DEFINE r == Append(q, c)
<1>1. /\ r \in Seq(Code)
      /\ Len(r) = Len(q) + 1 /\ Len(q) \in Nat
      /\ \A n \in 1 .. Len(q) : r[n] = q[n]
      /\ r[Len(q) + 1] = c
  BY AppendProperties, LenProperties
<1> HIDE DEF r
<1>2. PICK sh \in [1 .. (Len(q) + 1) -> BOOLEAN] :
        /\ sh[1] = shift
        /\ sh[Len(q) + 1] = end
        /\ \A n \in 1 .. Len(q) :
             /\ sh[n + 1] = ShiftAfter(sh[n], Prefixed(q, prefixed, n), q[n])
             /\ CharIn(sh[n], Prefixed(q, prefixed, n), q[n]) \in q[n].means
  BY DEF Tracked
<1>3. ShiftAfter(end, px, c) \in BOOLEAN
  <2>1. end \in BOOLEAN
    BY <1>1, <1>2
  <2>2. c.release \in BOOLEAN
    BY DEF Code
  <2> QED
    BY <2>1, <2>2 DEF ShiftAfter
<1> DEFINE th == [n \in 1 .. (Len(r) + 1) |-> IF n <= Len(q) + 1 THEN sh[n]
                                                   ELSE ShiftAfter(end, px, c)]
<1>4. th \in [1 .. (Len(r) + 1) -> BOOLEAN]
  BY <1>1, <1>2, <1>3
<1>5. /\ \A n \in 1 .. (Len(q) + 1) : th[n] = sh[n]
      /\ th[Len(r) + 1] = ShiftAfter(end, px, c)
  BY <1>1
<1> HIDE DEF th
<1>6. \A n \in 1 .. (Len(q) + 1) : Prefixed(r, prefixed, n) = Prefixed(q, prefixed, n)
  BY <1>1 DEF Prefixed
<1>7. ASSUME NEW n \in 1 .. Len(r)
      PROVE  /\ th[n + 1] = ShiftAfter(th[n], Prefixed(r, prefixed, n), r[n])
             /\ CharIn(th[n], Prefixed(r, prefixed, n), r[n]) \in r[n].means
  <2>1. CASE n \in 1 .. Len(q)
    <3>1. th[n + 1] = sh[n + 1] /\ th[n] = sh[n] /\ r[n] = q[n]
          /\ Prefixed(r, prefixed, n) = Prefixed(q, prefixed, n)
      BY <1>1, <1>5, <1>6, <2>1
    <3> QED
      BY <1>2, <2>1, <3>1
  <2>2. CASE n = Len(q) + 1
    <3>1. /\ th[n + 1] = ShiftAfter(end, px, c) /\ th[n] = end /\ r[n] = c
          /\ Prefixed(r, prefixed, n) = px
      BY <1>1, <1>2, <1>5, <1>6, <2>2
    <3> QED
      BY <3>1
  <2> QED
    BY <1>1, <2>1, <2>2
<1>8. th[1] = shift
  BY <1>1, <1>2, <1>5
<1>9. Tracked(r, shift, prefixed, ShiftAfter(end, px, c))
  BY <1>4, <1>5, <1>7, <1>8 DEF Tracked
<1>10. Prefixed(r, prefixed, Len(r) + 1) = IsPrefix(c)
  BY <1>1 DEF Prefixed
<1> QED
  BY <1>1, <1>9, <1>10 DEF r

(* The driver takes the first code of a tracked queue for what was meant,  *)
(* and tracks the rest from the state that code leaves it in.              *)
LEMMA TrackedTail ==
  ASSUME NEW q \in Seq(Code), q # <<>>,
         NEW shift, NEW prefixed \in BOOLEAN, NEW end,
         Tracked(q, shift, prefixed, end)
  PROVE  /\ CharIn(shift, prefixed, Head(q)) \in Head(q).means
         /\ Tracked(Tail(q), ShiftAfter(shift, prefixed, Head(q)), IsPrefix(Head(q)), end)
         /\ Prefixed(Tail(q), IsPrefix(Head(q)), Len(Tail(q)) + 1)
              = Prefixed(q, prefixed, Len(q) + 1)
<1> DEFINE r == Tail(q)
           h == Head(q)
<1>1. /\ r \in Seq(Code) /\ Len(r) = Len(q) - 1 /\ Len(q) \in Nat \ {0}
      /\ \A n \in 1 .. Len(r) : r[n] = q[n + 1]
      /\ h = q[1]
  BY HeadTailProperties, LenProperties
<1> HIDE DEF r, h
<1>2. PICK sh \in [1 .. (Len(q) + 1) -> BOOLEAN] :
        /\ sh[1] = shift
        /\ sh[Len(q) + 1] = end
        /\ \A n \in 1 .. Len(q) :
             /\ sh[n + 1] = ShiftAfter(sh[n], Prefixed(q, prefixed, n), q[n])
             /\ CharIn(sh[n], Prefixed(q, prefixed, n), q[n]) \in q[n].means
  BY DEF Tracked
<1>3. Prefixed(q, prefixed, 1) = prefixed
  BY DEF Prefixed
<1>4. CharIn(shift, prefixed, h) \in h.means /\ sh[2] = ShiftAfter(shift, prefixed, h)
  BY <1>1, <1>2, <1>3, 1 \in 1 .. Len(q)
<1> DEFINE th == [n \in 1 .. (Len(r) + 1) |-> sh[n + 1]]
<1>5. th \in [1 .. (Len(r) + 1) -> BOOLEAN]
  BY <1>1, <1>2
<1>6. \A n \in 1 .. (Len(r) + 1) : th[n] = sh[n + 1]
  OBVIOUS
<1> HIDE DEF th
<1>7. \A n \in 1 .. (Len(r) + 1) :
        Prefixed(r, IsPrefix(h), n) = Prefixed(q, prefixed, n + 1)
  BY <1>1 DEF Prefixed
<1>8. ASSUME NEW n \in 1 .. Len(r)
      PROVE  /\ th[n + 1] = ShiftAfter(th[n], Prefixed(r, IsPrefix(h), n), r[n])
             /\ CharIn(th[n], Prefixed(r, IsPrefix(h), n), r[n]) \in r[n].means
  <2>1. n + 1 \in 1 .. Len(q) /\ n + 1 \in 1 .. (Len(r) + 1) /\ n \in 1 .. (Len(r) + 1)
    BY <1>1
  <2>2. /\ sh[(n + 1) + 1] = ShiftAfter(sh[n + 1], Prefixed(q, prefixed, n + 1), q[n + 1])
        /\ CharIn(sh[n + 1], Prefixed(q, prefixed, n + 1), q[n + 1]) \in q[n + 1].means
    BY <1>2, <2>1
  <2> QED
    BY <1>1, <1>6, <1>7, <2>1, <2>2
<1>9. th[1] = ShiftAfter(shift, prefixed, h) /\ th[Len(r) + 1] = end
  BY <1>1, <1>2, <1>4, <1>6
<1>10. Tracked(r, ShiftAfter(shift, prefixed, h), IsPrefix(h), end)
  BY <1>5, <1>8, <1>9 DEF Tracked
<1>11. Prefixed(r, IsPrefix(h), Len(r) + 1) = Prefixed(q, prefixed, Len(q) + 1)
  BY <1>1, <1>7
<1> QED
  BY <1>4, <1>10, <1>11 DEF r, h
----------------------------------------------------------------------------
(* The screen and the line on it, for either device.                       *)

AnyScreen == IF device = "vga" THEN Screen ELSE Terminal

AtOf(v) == IF device = "vga" THEN Cursor(v) ELSE v.col

ShownOn(v, p) == (IF device = "vga" THEN v.cell[p] ELSE TerminalCell(v, p)).char

Off(p) == device = "vga" /\ p \notin Cells

Holds(v, text, cells) ==
  /\ AtOf(v) = v.home + Len(text)
  /\ v.home >= 0
  /\ Len(text) <= cells
  /\ \A n \in 1 .. cells :
       \/ Off(v.home + n - 1)
       \/ ShownOn(v, v.home + n - 1) = IF n <= Len(text) THEN text[n] ELSE Blank

----------------------------------------------------------------------------
(* The inductive invariant.                                                *)

(* The driver's flag, once it has read all that waits: it is up while a    *)
(* shift key is held, but down once one of two has been released.          *)
FlagAtEnd == held # {} /\ ~unsure

(* Read code by code, what waits in the queue is what the user may mean.   *)
KeyInv ==
  /\ device = "serial" => /\ held = {}
                          /\ \A n \in DOMAIN queue : queue[n].means = {queue[n].key}
  /\ device = "vga" =>
       /\ unsure => held # {}
       /\ Prefixed(queue, extended, Len(queue) + 1) = FALSE
       /\ Tracked(queue, shift_held, extended, FlagAtEnd)

(* A reader that goes on has room; readline keeps the last byte free.      *)
LimitInv ==
  /\ pc = "readline" => limit = LINE_MAX - 1
  /\ pc \in {"read", "kst_read"} => Len(line) < limit

LineInv == line \in meant

ShownInv == pc \in Editors => Holds(screen, Text, far)

CInv == TypeOK /\ KeyInv /\ LimitInv /\ LineInv /\ ShownInv

----------------------------------------------------------------------------
(* A character, or a movement, changes the cells it ought to.              *)

(* A glyph sent to the terminal shows in the cell of its cursor, and       *)
(* changes no other cell.                                                  *)
LEMMA TerminalGlyph ==
  ASSUME NEW t \in Terminal, NEW c \in Glyphs, NEW w, w = TerminalPut(t, c)
  PROVE  /\ w \in Terminal
         /\ w.home = t.home /\ w.col = t.col + 1
         /\ \A p \in Nat : TerminalCell(w, p) = IF p = t.col THEN MakeEntry(c)
                                                 ELSE TerminalCell(t, p)
<1>1. t.cell \in Seq(Entry) /\ Len(t.cell) \in Nat /\ t.col \in Nat /\ t.home \in Int
      /\ t.cell \in [1 .. Len(t.cell) -> Entry]
      /\ t = [cell |-> t.cell, col |-> t.col, home |-> t.home]
  BY LenProperties DEF Terminal
<1> DEFINE top == IF t.col < Len(t.cell) THEN Len(t.cell) ELSE t.col + 1
           cells == [n \in 1 .. top |-> IF n = t.col + 1 THEN MakeEntry(c)
                                        ELSE TerminalCell(t, n - 1)]
<1>2. w = [cell |-> cells, col |-> t.col + 1, home |-> t.home]
  <2>1. c \notin {"newline", "return", "tab", "backspace", "delete"}
    BY VgaAssumption, ConsoleAssumption DEF Backs
  <2>2. w = [t EXCEPT !.cell = cells, !.col = t.col + 1]
    BY <2>1 DEF TerminalPut
  <2> HIDE DEF cells
  <2> QED
    BY <1>1, <2>2
<1>3. top \in Nat /\ top >= t.col + 1 /\ top >= Len(t.cell)
  BY <1>1
<1> HIDE DEF top
<1>4. \A n \in 1 .. top : TerminalCell(t, n - 1) \in Entry
  BY <1>1, <1>3, EntryFacts DEF TerminalCell
<1>5. cells \in [1 .. top -> Entry] /\ MakeEntry(c) \in Entry
  BY <1>4, EntryFacts
<1>6. cells \in Seq(Entry) /\ Len(cells) = top
  BY <1>3, <1>5
<1>7. \A p \in Nat : TerminalCell(w, p) = IF p = t.col THEN MakeEntry(c)
                                            ELSE TerminalCell(t, p)
  BY <1>1, <1>2, <1>3, <1>6 DEF TerminalCell
<1> HIDE DEF cells
<1> QED
  BY <1>1, <1>2, <1>6, <1>7 DEF Terminal

(* Whatever is sent to the terminal leaves a terminal.                     *)
LEMMA TerminalFacts ==
  ASSUME NEW t \in Terminal, NEW c \in Chars
  PROVE  TerminalPut(t, c) \in Terminal
<1>1. t.cell \in Seq(Entry) /\ Len(t.cell) \in Nat /\ t.col \in Nat /\ t.home \in Int
      /\ t = [cell |-> t.cell, col |-> t.col, home |-> t.home]
  BY LenProperties DEF Terminal
<1>2. CASE c = "newline"
  BY <1>2 DEF TerminalPut, Terminal
<1>3. CASE c = "return"
  BY <1>1, <1>3 DEF TerminalPut, Terminal
<1>4. CASE c = "tab"
  BY <1>1, <1>4 DEF TerminalPut, Terminal
<1>5. CASE c = "backspace"
  BY <1>1, <1>5 DEF TerminalPut, Terminal
<1>6. CASE c = "delete"
  BY <1>1, <1>6 DEF TerminalPut, Terminal
<1>7. CASE c \in Glyphs \ {"newline", "return", "tab", "backspace", "delete"}
  BY <1>1, <1>7, TerminalGlyph
<1> QED
  BY <1>2, <1>3, <1>4, <1>5, <1>6, <1>7 DEF Chars, Ends, Backs

(* The kinds of characters, and what the keys may mean.                    *)
LEMMA CharFacts ==
  /\ Glyphs \cup {"delete"} \cup Moves = Chars
  /\ Glyphs \subseteq Plain /\ Blank \in Glyphs /\ ">" \in Glyphs
  /\ "backspace" \in Moves /\ "newline" \in Moves
  /\ Devices \subseteq {"vga", "serial"}
  /\ NoChar \notin Chars
  /\ Glyphs \cap ({NoChar} \cup Ends \cup Backs \cup {"tab"}) = {}
  /\ \A k \in Keys : /\ Normal[k] \in Chars \cup {NoChar} /\ Shifted[k] \in Chars \cup {NoChar}
                     /\ k \notin Shifts \cup {"E0"}
  /\ SerialChars \subseteq Chars /\ Outputs \subseteq Chars
<1>1. /\ Devices \subseteq {"vga", "serial"}
      /\ {"LShift", "RShift", "E0"} \cap (Keys \cup Chars) = {}
      /\ ">" \in Glyphs
      /\ NoChar \notin Chars
      /\ (Ends \cup Backs \cup {"tab"}) \cap Glyphs = {}
      /\ Normal \in [Keys -> Chars \cup {NoChar}]
      /\ Shifted \in [Keys -> Chars \cup {NoChar}]
      /\ SerialChars \subseteq Chars /\ Outputs \subseteq Chars
  BY ConsoleAssumption
<1>2. Blank \in Glyphs
  BY VgaAssumption
<1>3. Glyphs \cup {"delete"} \cup Moves = Chars /\ Glyphs \subseteq Chars
  BY DEF Chars, Ends, Backs, Moves
<1>4. Glyphs \cap ({NoChar} \cup Ends \cup Backs \cup {"tab"}) = {}
  BY <1>1, <1>3
<1>5. \A k \in Keys : /\ Normal[k] \in Chars \cup {NoChar} /\ Shifted[k] \in Chars \cup {NoChar}
                      /\ k \notin Shifts \cup {"E0"}
  BY <1>1 DEF Shifts
<1> QED
  BY <1>1, <1>2, <1>3, <1>4, <1>5 DEF Plain, Moves

(* hal_console_putchar leaves the cursor on the screen of either device.   *)
LEMMA PutTyped ==
  ASSUME device \in Devices, NEW v \in AnyScreen, NEW c \in Chars
  PROVE  Put(v, c) \in AnyScreen
<1>1. CASE device = "vga"
  <2>1. c \in Plain \cup Moves
    BY CharFacts DEF Plain
  <2> QED
    BY <1>1, <2>1, PutPlain, PutMove DEF AnyScreen, Put
<1>2. CASE device = "serial"
  BY <1>2, TerminalFacts DEF AnyScreen, Put
<1> QED
  BY <1>1, <1>2, CharFacts

(* A glyph put behind a text on the screen makes the text longer by it.    *)
LEMMA PutShown ==
  ASSUME device \in Devices, NEW v \in AnyScreen, NEW c \in Glyphs,
         NEW text \in Seq(Chars), NEW cells \in Nat, Holds(v, text, cells),
         Len(text) + 1 <= (VGA_ROWS - 1) * VGA_COLS,
         NEW more, more = IF Len(text) + 1 > cells THEN Len(text) + 1 ELSE cells
  PROVE  Holds(Put(v, c), Append(text, c), more)
<1> DEFINE w == Put(v, c)
           k == Len(text)
           r == Append(text, c)
<1>1. k \in Nat /\ Len(r) = k + 1 /\ (\A n \in 1 .. k : r[n] = text[n]) /\ r[k + 1] = c
  BY CharFacts, AppendProperties, LenProperties, c \in Chars
<1>2. v.home \in Int /\ v.home >= 0 /\ AtOf(v) = v.home + k
  BY CharFacts DEF Holds, AnyScreen, Screen, Terminal
<1>3. \A n \in 1 .. cells : \/ Off(v.home + n - 1)
                            \/ ShownOn(v, v.home + n - 1) = IF n <= k THEN text[n] ELSE Blank
  BY DEF Holds
<1>4. MakeEntry(c).char = c /\ MakeEntry(Blank).char = Blank
  BY EntryFacts
<1> HIDE DEF k, r
<1>0. /\ more \in Nat /\ k + 1 <= more
      /\ \A n \in 1 .. more : n \in Int /\ (n # k + 1 => n \in 1 .. cells)
  <2>1. more = IF k + 1 > cells THEN k + 1 ELSE cells
    BY DEF k
  <2>2. k <= cells
    BY DEF Holds, k
  <2> QED
    BY <1>1, <2>1, <2>2
<1>5. CASE device = "vga"
  <2> DEFINE s == v.home - w.home
  <2>0. v \in Screen /\ w = PutChar(v, c) /\ c \in Plain /\ Cursor(v) = v.home + k
    BY <1>2, <1>5, CharFacts DEF AnyScreen, Put, AtOf
  <2> HIDE DEF w
  <2>1. /\ w \in Screen
        /\ s = IF Cursor(v) + 1 = Size THEN VGA_COLS ELSE 0
        /\ Cursor(w) = Cursor(v) + 1 - s
        /\ \A q \in Cells : w.cell[q] = IF q + s = Cursor(v) THEN MakeEntry(c)
                                        ELSE IF q + s \in Cells THEN v.cell[q + s]
                                        ELSE MakeEntry(Blank)
    BY <2>0, PutPlain
  <2>2. w.home \in Int /\ w.home = v.home - s /\ s \in Int
    BY <1>2, <2>1 DEF Screen
  <2> HIDE DEF s
  <2>3. w.home >= 0
    <3>1. k + 1 <= Size - VGA_COLS
      BY SizeFacts DEF k
    <3>2. CASE Cursor(v) + 1 = Size
      <4>1. w.home = v.home - VGA_COLS /\ Size = v.home + k + 1
        BY <2>0, <2>1, <2>2, <3>2
      <4>2. v.home \in Int /\ k \in Int /\ VGA_COLS \in Int
        BY <1>1, <1>2, SizeFacts
      <4>3. \A a, b, d \in Int : b + 1 <= (a + b + 1) - d => a - d >= 0
        OBVIOUS
      <4>4. k + 1 <= (v.home + k + 1) - VGA_COLS
        BY <3>1, <4>1
      <4> QED
        BY <4>1, <4>2, <4>3, <4>4
    <3>3. CASE Cursor(v) + 1 # Size
      BY <1>2, <2>1, <2>2, <3>3
    <3> QED
      BY <3>2, <3>3
  <2>4. Cursor(w) = w.home + (k + 1)
    <3>1. /\ k \in Int /\ v.home \in Int /\ s \in Int
          /\ Cursor(w) = v.home + k + 1 - s /\ w.home = v.home - s
      BY <1>1, <1>2, <2>0, <2>1, <2>2
    <3>2. \A a, b, d \in Int : a + b + 1 - d = (a - d) + (b + 1)
      OBVIOUS
    <3>3. v.home + k + 1 - s = (v.home - s) + (k + 1)
      BY <3>1, <3>2
    <3> QED
      BY <3>1, <3>3
  <2>5. ASSUME NEW n \in 1 .. more, w.home + n - 1 \in Cells
        PROVE  w.cell[w.home + n - 1].char = IF n <= k + 1 THEN r[n] ELSE Blank
    <3> DEFINE q == w.home + n - 1
    <3>1. q + s = v.home + n - 1 /\ more \in Nat
      BY <1>0, <1>2, <2>2
    <3> HIDE DEF q
    <3>2. w.cell[q] = IF q + s = Cursor(v) THEN MakeEntry(c)
                      ELSE IF q + s \in Cells THEN v.cell[q + s] ELSE MakeEntry(Blank)
      BY <2>1, <2>5 DEF q
    <3>3. CASE n = k + 1
      <4>1. q + s = Cursor(v)
        BY <1>1, <1>2, <2>0, <3>1, <3>3
      <4> QED
        BY <1>1, <1>4, <3>2, <3>3, <4>1 DEF q
    <3>4. CASE n # k + 1
      <4>0. n \in Int /\ k \in Int /\ v.home \in Int /\ n \in 1 .. cells
        BY <1>0, <1>1, <1>2, <3>4
      <4>1. q + s # Cursor(v) /\ n \in 1 .. cells
        BY <2>0, <3>1, <3>4, <4>0
      <4>2. CASE q + s \in Cells
        <5>1. w.cell[q] = v.cell[v.home + n - 1] /\ ~Off(v.home + n - 1)
          BY <3>1, <3>2, <4>1, <4>2 DEF Off
        <5>2. v.cell[v.home + n - 1].char = IF n <= k THEN text[n] ELSE Blank
          BY <1>3, <1>5, <4>1, <5>1 DEF ShownOn
        <5> QED
          BY <1>1, <3>4, <5>1, <5>2 DEF q
      <4>3. CASE q + s \notin Cells
        <5>1. n > k + 1
          <6>1. v.home + n - 1 >= Size
            BY <1>2, <3>1, <4>3, SizeFacts, <3>4
          <6>2. Cursor(v) < Size
            BY <2>0, CursorFacts, SizeFacts DEF Screen, Unscrolled, Rows
          <6> QED
            BY <1>1, <1>2, <2>0, <3>4, <6>1, <6>2, SizeFacts
        <5>2. w.cell[q] = MakeEntry(Blank)
          BY <3>2, <4>1, <4>3
        <5> QED
          BY <1>1, <1>4, <5>1, <5>2 DEF q
      <4> QED
        BY <4>2, <4>3
    <3> QED
      BY <3>3, <3>4
  <2> QED
    BY <1>0, <1>1, <1>5, <2>3, <2>4, <2>5 DEF Holds, AtOf, ShownOn, Off, w, r
<1>6. CASE device = "serial"
  <2>0. v \in Terminal /\ w = TerminalPut(v, c) /\ v.col = v.home + k /\ device # "vga"
    BY <1>2, <1>6 DEF AnyScreen, Put, AtOf
  <2> HIDE DEF w
  <2>1. /\ w.home = v.home /\ w.col = v.col + 1
        /\ \A p \in Nat : TerminalCell(w, p) = IF p = v.col THEN MakeEntry(c)
                                                ELSE TerminalCell(v, p)
    BY <2>0, TerminalGlyph
  <2>2. ASSUME NEW n \in 1 .. more
        PROVE  TerminalCell(w, w.home + n - 1).char = IF n <= k + 1 THEN r[n] ELSE Blank
    <3>1. more \in Nat /\ v.home + n - 1 \in Nat
      BY <1>0, <1>2
    <3>2. CASE n = k + 1
      BY <1>1, <1>2, <1>4, <2>0, <2>1, <3>1, <3>2
    <3>3. CASE n # k + 1
      <4>1. v.home + n - 1 # v.col /\ n \in 1 .. cells
        BY <1>0, <1>1, <1>2, <2>0, <3>3
      <4>2. TerminalCell(v, v.home + n - 1).char = IF n <= k THEN text[n] ELSE Blank
        BY <1>3, <2>0, <4>1 DEF ShownOn, Off
      <4> QED
        BY <1>1, <2>1, <3>1, <3>3, <4>1, <4>2
    <3> QED
      BY <3>2, <3>3
  <2>3. w.col = w.home + (k + 1)
    <3>1. k \in Int /\ v.home \in Int /\ v.col = v.home + k
      BY <1>1, <1>2, <2>0
    <3>2. w.col = v.col + 1 /\ w.home = v.home
      BY <2>1
    <3>3. v.home + k + 1 = v.home + (k + 1)
      BY <3>1
    <3> QED
      BY <3>1, <3>2, <3>3
  <2> QED
    BY <1>0, <1>1, <1>2, <2>0, <2>1, <2>2, <2>3 DEF Holds, AtOf, ShownOn, Off, w, r
<1> QED
  BY <1>5, <1>6, CharFacts

(* What "\b \b" does to a screen, once the cursor is not in its corner.     *)
LEMMA EraseCells ==
  ASSUME device \in Devices, NEW v \in AnyScreen, NEW at, at = AtOf(v), at > 0,
         NEW w, w = Erase(v)
  PROVE  /\ w \in AnyScreen
         /\ w.home = v.home
         /\ at \in Nat /\ AtOf(w) = at - 1
         /\ device = "vga" => at - 1 \in Cells
         /\ \A p \in IF device = "vga" THEN Cells ELSE Nat :
              /\ p = at - 1 => ShownOn(w, p) = Blank
              /\ p # at - 1 => ShownOn(w, p) = ShownOn(v, p)
         /\ device = "vga" => \A p \in Cells : p # at - 1 => w.cell[p] = v.cell[p]
<1> DEFINE x == Put(v, "backspace")
           y == Put(x, Blank)
<1>0. w = Put(y, "backspace") /\ MakeEntry(Blank).char = Blank
  BY EntryFacts DEF Erase
<1>1. CASE device = "vga"
  <2>1. v \in Screen /\ v \in Unscrolled /\ at = Cursor(v) /\ Cursor(v) \in Nat /\ v.home \in Int
        /\ Cursor(v) < Size
    BY <1>1, CursorFacts, SizeFacts DEF AnyScreen, AtOf, Screen, Unscrolled, Rows
  <2>2. x \in Screen /\ x.home = v.home /\ x.cell = v.cell /\ Cursor(x) = at - 1
    BY <1>1, <2>1, PutMove, CharFacts DEF Put
  <2> HIDE DEF x
  <2>3. /\ y \in Screen /\ y.home = x.home - 0 /\ Cursor(y) = at
        /\ \A q \in Cells : y.cell[q] = IF q = at - 1 THEN MakeEntry(Blank) ELSE v.cell[q]
    <3> DEFINE s == x.home - y.home
    <3>1. /\ y \in Screen
          /\ s = IF Cursor(x) + 1 = Size THEN VGA_COLS ELSE 0
          /\ Cursor(y) = Cursor(x) + 1 - s
          /\ \A q \in Cells : y.cell[q] = IF q + s = Cursor(x) THEN MakeEntry(Blank)
                                          ELSE IF q + s \in Cells THEN x.cell[q + s]
                                          ELSE MakeEntry(Blank)
      BY <1>1, <2>2, PutPlain, CharFacts DEF Put
    <3>2. s = 0
      BY <2>1, <2>2, <3>1, SizeFacts
    <3>3. y.home = x.home
      BY <2>1, <2>2, <3>1, <3>2 DEF Screen
    <3> HIDE DEF s
    <3>4. \A q \in Cells : q + s = q
      BY <3>2, SizeFacts
    <3> QED
      BY <2>1, <2>2, <3>1, <3>2, <3>3, <3>4
  <2> HIDE DEF y
  <2>4. w \in Screen /\ w.home = y.home /\ w.cell = y.cell /\ Cursor(w) = at - 1
    BY <1>0, <1>1, <2>1, <2>3, PutMove, CharFacts DEF Put
  <2>5. at - 1 \in Cells
    BY <2>1, SizeFacts
  <2> QED
    BY <1>0, <1>1, <2>1, <2>2, <2>3, <2>4, <2>5 DEF AnyScreen, AtOf, ShownOn
<1>2. CASE device = "serial"
  <2>1. v \in Terminal /\ at = v.col /\ at \in Nat /\ v.home \in Int /\ device # "vga"
    BY <1>2 DEF AnyScreen, AtOf, Terminal
  <2>2. x \in Terminal
    BY <2>1, TerminalFacts, CharFacts DEF Put
  <2>9. x = [v EXCEPT !.col = at - 1]
    BY <2>1, CharFacts DEF Put, TerminalPut
  <2>3. x.home = v.home /\ x.cell = v.cell /\ x.col = at - 1
    BY <2>1, <2>9 DEF Terminal
  <2> HIDE DEF x
  <2>4. /\ y \in Terminal /\ y.home = x.home /\ y.col = x.col + 1
        /\ \A p \in Nat : TerminalCell(y, p) = IF p = x.col THEN MakeEntry(Blank)
                                                ELSE TerminalCell(x, p)
    <3>1. y = TerminalPut(x, Blank) /\ Blank \in Glyphs
      BY <2>1, CharFacts DEF Put
    <3> HIDE DEF y
    <3>2. \A p \in Nat : TerminalCell(y, p) = IF p = x.col THEN MakeEntry(Blank)
                                                ELSE TerminalCell(x, p)
      BY <2>2, <3>1, TerminalGlyph
    <3> QED
      BY <2>2, <3>1, <3>2, TerminalGlyph
  <2> HIDE DEF y
  <2>5. w \in Terminal /\ w = [y EXCEPT !.col = at - 1]
    <3>1. w = TerminalPut(y, "backspace") /\ "backspace" \in Chars
      BY <1>0, <2>1, CharFacts DEF Put
    <3>2. y.col = at /\ at - 1 = y.col - 1
      BY <2>1, <2>3, <2>4
    <3> QED
      BY <2>1, <2>4, <3>1, <3>2, TerminalFacts DEF TerminalPut
  <2>6. w.home = y.home /\ w.cell = y.cell /\ w.col = at - 1
    BY <2>4, <2>5 DEF Terminal
  <2>7. \A p \in Nat : /\ TerminalCell(w, p) = TerminalCell(y, p)
                       /\ TerminalCell(x, p) = TerminalCell(v, p)
    BY <2>3, <2>6 DEF TerminalCell
  <2> QED
    BY <1>0, <2>1, <2>3, <2>4, <2>5, <2>6, <2>7 DEF AnyScreen, AtOf, ShownOn
<1> QED
  BY <1>1, <1>2, CharFacts

(* "\b \b" behind a text on the screen takes its last character off it.     *)
LEMMA EraseShown ==
  ASSUME device \in Devices, NEW v \in AnyScreen,
         NEW text \in Seq(Chars), NEW cells \in Nat, Holds(v, text, cells),
         NEW rest \in Seq(Chars), Len(text) = Len(rest) + 1,
         \A n \in 1 .. Len(rest) : rest[n] = text[n]
  PROVE  Holds(Erase(v), rest, cells)
<1> DEFINE w == Erase(v)
           k == Len(rest)
<1>1. /\ v.home \in Int /\ v.home >= 0 /\ k \in Nat /\ k <= cells
      /\ AtOf(v) = v.home + (k + 1)
  BY CharFacts, LenProperties DEF Holds, AnyScreen, Screen, Terminal
<1>2. AtOf(v) > 0 /\ AtOf(v) - 1 = v.home + k
  BY <1>1
<1> HIDE DEF w
<1>3. /\ w.home = v.home
      /\ AtOf(w) = v.home + k
      /\ \A p \in IF device = "vga" THEN Cells ELSE Nat :
           /\ p = v.home + k => ShownOn(w, p) = Blank
           /\ p # v.home + k => ShownOn(w, p) = ShownOn(v, p)
  BY <1>2, EraseCells DEF w
<1>4. ASSUME NEW n \in 1 .. cells, ~Off(w.home + n - 1)
      PROVE  ShownOn(w, w.home + n - 1) = IF n <= k THEN rest[n] ELSE Blank
  <2> DEFINE p == v.home + n - 1
  <2>1. p \in Nat /\ w.home + n - 1 = p /\ (p = v.home + k <=> n = k + 1)
    BY <1>1, <1>3
  <2> HIDE DEF p
  <2>2. p \in IF device = "vga" THEN Cells ELSE Nat
    BY <1>4, <2>1 DEF Off
  <2>3. CASE n = k + 1
    BY <1>1, <1>3, <2>1, <2>2, <2>3
  <2>4. CASE n # k + 1
    <3>1. ShownOn(w, p) = ShownOn(v, p)
      BY <1>3, <2>1, <2>2, <2>4
    <3>2. ShownOn(v, p) = IF n <= k + 1 THEN text[n] ELSE Blank
      BY <1>4, <2>1 DEF Holds, p
    <3>3. n <= k => rest[n] = text[n]
      BY DEF k
    <3> QED
      BY <1>1, <2>1, <2>4, <3>1, <3>2, <3>3
  <2> QED
    BY <2>3, <2>4
<1> QED
  BY <1>1, <1>3, <1>4 DEF Holds, w

(* Editing changes nothing above the line it edits.                        *)
LEMMA PutKeepsAbove ==
  ASSUME device = "vga", NEW v \in Screen,
         NEW c, c = "newline" \/ (c \in Glyphs /\ v.home <= Cursor(v)),
         NEW w, w = Put(v, c),
         NEW p \in Cells, p < v.home, p - v.home + w.home \in Cells
  PROVE  w.cell[p - v.home + w.home] = v.cell[p]
<1> DEFINE s == v.home - w.home
           q == p - v.home + w.home
<1>1. w = PutChar(v, c) /\ v.home \in Int /\ Cursor(v) \in Nat
  BY SizeFacts, CursorFacts DEF Put, Screen, Unscrolled, Rows
<1>0. w = PutChar(v, c) /\ v.home \in Int /\ p \in Int
  BY SizeFacts DEF Put, Screen
<1>2. CASE c = "newline"
  <2>1. /\ w \in Screen
        /\ \A r \in Cells : w.cell[r] = IF r + s \in Cells THEN v.cell[r + s] ELSE MakeEntry(Blank)
    BY <1>0, <1>2, PutMove, CharFacts
  <2>2. q + s = p
    BY <1>0, <2>1 DEF Screen
  <2> HIDE DEF s, q
  <2>3. w.cell[q] = v.cell[p]
    BY <2>1, <2>2 DEF q
  <2> QED
    BY <2>3 DEF q
<1>3. CASE c \in Glyphs /\ c # "newline"
  <2>1. /\ w \in Screen
        /\ \A r \in Cells : w.cell[r] = IF r + s = Cursor(v) THEN MakeEntry(c)
                                        ELSE IF r + s \in Cells THEN v.cell[r + s]
                                        ELSE MakeEntry(Blank)
    <3>1. c \in Plain /\ w = PutChar(v, c) /\ s = v.home - w.home
      BY <1>0, <1>3, CharFacts
    <3> HIDE DEF s
    <3> QED
      BY <3>1, PutPlain
  <2>2. q + s = p
    BY <1>0, <2>1 DEF Screen
  <2>3. p # Cursor(v)
    BY <1>0, <1>1, <1>3
  <2> HIDE DEF s, q
  <2>4. w.cell[q] = v.cell[p]
    BY <2>1, <2>2, <2>3 DEF q
  <2> QED
    BY <2>4 DEF q
<1> QED
  BY <1>2, <1>3

----------------------------------------------------------------------------
(* The user: every action sends codes, and changes the shift keys held.    *)

(* Scan codes are codes, and hold what they are made of.                   *)
LEMMA Codes ==
  /\ \A k \in Keys \cup Shifts \cup {"E0"} \cup Chars :
     \A c \in SUBSET (Chars \cup {NoChar}) : Make(k, c) \in Code /\ Break(k) \in Code
  /\ \A k, c : /\ Make(k, c).key = k /\ Make(k, c).release = FALSE /\ Make(k, c).means = c
               /\ Break(k).key = k /\ Break(k).release = TRUE /\ Break(k).means = {NoChar}
  BY DEF Make, Break, Code

(* Sending one or two codes is appending them.                             *)
LEMMA Appended ==
  ASSUME NEW S, NEW q \in Seq(S), NEW a \in S, NEW b \in S
  PROVE  /\ <<a>> \in Seq(S) /\ <<a, b>> \in Seq(S) /\ Len(<<a, b>>) = 2
         /\ q \o <<a>> = Append(q, a)
         /\ q \o <<a, b>> = Append(Append(q, a), b)
<1>1. <<a>> \in Seq(S) /\ <<b>> \in Seq(S) /\ <<a, b>> \in Seq(S) /\ Len(<<a, b>>) = 2
  OBVIOUS
<1>2. q \o <<a>> = Append(q, a) /\ Append(q, a) \in Seq(S)
  BY AppendIsConcat, AppendProperties
<1>3. Append(q, a) \o <<b>> = Append(Append(q, a), b)
  BY <1>2, AppendIsConcat
<1>4. <<a, b>> = <<a>> \o <<b>>
  <2>1. /\ <<a>> \o <<b>> \in Seq(S) /\ Len(<<a>> \o <<b>>) = 2
        /\ (<<a>> \o <<b>>)[1] = a /\ (<<a>> \o <<b>>)[2] = b
    BY <1>1, ConcatProperties, Len(<<a>>) = 1, Len(<<b>>) = 1, <<a>>[1] = a, <<b>>[1] = b
  <2>2. <<a, b>>[1] = a /\ <<a, b>>[2] = b
    OBVIOUS
  <2> QED
    <3>1. \A i \in 1 .. 2 : <<a, b>>[i] = (<<a>> \o <<b>>)[i]
      BY <2>1, <2>2, \A i \in 1 .. 2 : i = 1 \/ i = 2
    <3> QED
      BY <1>1, <2>1, <3>1, SeqEqual
<1> QED
  BY <1>1, <1>2, <1>3, <1>4, ConcatAssociative

(* What the user does changes the queue and the shift keys held, and       *)
(* nothing any reader or the screen knows of.                              *)
LEMMA UserKeeps ==
  ASSUME CInv, NEW codes \in Seq(Code), Sent(codes),
         held' \subseteq Shifts, unsure' \in BOOLEAN,
         KeyInv'
  PROVE  CInv'
<1>1. queue' \in Seq(Code)
  BY ConcatProperties DEF CInv, TypeOK, Sent
<1>2. TypeOK'
  BY <1>1 DEF CInv, TypeOK, Sent
<1>3. LimitInv' /\ LineInv'
  BY DEF CInv, TypeOK, LimitInv, LineInv, Sent
<1>4. ShownInv'
  BY DEF CInv, ShownInv, Sent, Holds, AtOf, ShownOn, Off, Text, Start
<1> QED
  BY <1>2, <1>3, <1>4 DEF CInv

(* What the queue comes to after one more code.                            *)
Ready(q, px, end) == /\ q \in Seq(Code)
                     /\ Prefixed(q, extended, Len(q) + 1) = px
                     /\ Tracked(q, shift_held, extended, end)

(* One more code: TrackedAppend for the present state of the driver.       *)
LEMMA OneMore ==
  ASSUME TypeOK, NEW q, NEW px, NEW end, Ready(q, px, end),
         NEW c \in Code, CharIn(end, px, c) \in c.means,
         NEW next, next = IsPrefix(c), NEW shift, shift = ShiftAfter(end, px, c)
  PROVE  Ready(Append(q, c), next, shift)
<1>1. extended \in BOOLEAN
  BY DEF TypeOK
<1>2. /\ q \in Seq(Code) /\ px = Prefixed(q, extended, Len(q) + 1)
      /\ Tracked(q, shift_held, extended, end)
  BY DEF Ready
<1>3. Append(q, c) \in Seq(Code)
  BY <1>2, AppendProperties
<1>4. Prefixed(Append(q, c), extended, Len(Append(q, c)) + 1) = next
  <2>1. Len(Append(q, c)) = Len(q) + 1 /\ Append(q, c)[Len(q) + 1] = c /\ Len(q) \in Nat
    BY <1>2, AppendProperties, LenProperties
  <2> QED
    BY <2>1 DEF Prefixed
<1>5. Tracked(Append(q, c), shift_held, extended, shift)
  BY <1>1, <1>2, TrackedAppend
<1> QED
  BY <1>3, <1>4, <1>5 DEF Ready

(* A key pressed and released gives its character, shifted if the flag is  *)
(* up, whenever the driver gets to it.                                     *)
LEMMA ReadyKey ==
  ASSUME TypeOK, NEW q, NEW end \in BOOLEAN, Ready(q, FALSE, end), NEW k \in Keys,
         NEW m \in SUBSET (Chars \cup {NoChar}),
         (IF end THEN Shifted[k] ELSE Normal[k]) \in m
  PROVE  LET c == Make(k, m)
         IN  /\ c \in Code
             /\ Ready(Append(Append(q, c), Break(k)), FALSE, end)
<1> DEFINE c == Make(k, m)
           r == Append(q, c)
<1>1. c \in Code /\ Break(k) \in Code
  BY Codes, CharFacts
<1>2. CharIn(end, FALSE, c) \in c.means /\ ShiftAfter(end, FALSE, c) = end /\ IsPrefix(c) = FALSE
  BY Codes, CharFacts DEF CharIn, ShiftAfter, IsPrefix
<1>3. /\ CharIn(end, FALSE, Break(k)) \in Break(k).means /\ ShiftAfter(end, FALSE, Break(k)) = end
      /\ IsPrefix(Break(k)) = FALSE
  BY Codes, CharFacts DEF CharIn, ShiftAfter, IsPrefix
<1> HIDE DEF c
<1>4. Ready(r, FALSE, end)
  BY <1>1, <1>2, OneMore
<1> HIDE DEF r
<1>5. Ready(Append(r, Break(k)), FALSE, end)
  BY <1>1, <1>3, <1>4, OneMore
<1> QED
  BY <1>1, <1>5 DEF c, r

(* A prefix and the code behind it mean nothing, and leave shift alone.    *)
LEMMA ReadyCursorKey ==
  ASSUME TypeOK, NEW q, NEW end \in BOOLEAN, Ready(q, FALSE, end), NEW k \in Keys,
         NEW c, c \in {Make(k, {NoChar}), Break(k)}
  PROVE  Ready(Append(Append(q, Make("E0", {NoChar})), c), FALSE, end)
<1> DEFINE e == Make("E0", {NoChar})
           r == Append(q, e)
<1>1. e \in Code /\ c \in Code
  <2>1. Make("E0", {NoChar}) \in Code /\ Make(k, {NoChar}) \in Code /\ Break(k) \in Code
    BY Codes
  <2> QED
    BY <2>1
<1>2. CharIn(end, FALSE, e) \in e.means /\ ShiftAfter(end, FALSE, e) = end /\ IsPrefix(e) = TRUE
  BY Codes, CharFacts DEF CharIn, ShiftAfter, IsPrefix, Shifts
<1>3. CharIn(end, TRUE, c) \in c.means /\ ShiftAfter(end, TRUE, c) = end /\ IsPrefix(c) = FALSE
  BY Codes, CharFacts DEF CharIn, ShiftAfter, IsPrefix
<1> HIDE DEF e
<1>4. Ready(r, TRUE, end)
  BY <1>1, <1>2, OneMore
<1> HIDE DEF r
<1>5. Ready(Append(r, c), FALSE, end)
  BY <1>1, <1>3, <1>4, OneMore
<1> QED
  BY <1>5 DEF e, r

(* The shift keys the user holds, and what the queue comes to.             *)
LEMMA KeysOf ==
  ASSUME CInv, device = "vga"
  PROVE  /\ Ready(queue, FALSE, FlagAtEnd) /\ FlagAtEnd \in BOOLEAN
         /\ unsure => held # {}
  BY DEF CInv, TypeOK, KeyInv, Ready, FlagAtEnd

(* A step of the user at the keyboard, from what it makes of the queue.    *)
LEMMA UserVga ==
  ASSUME CInv, NEW codes \in Seq(Code), Sent(codes), device = "vga",
         held' \subseteq Shifts, unsure' \in BOOLEAN, unsure' => held' # {},
         NEW end, end = FlagAtEnd', Ready(queue \o codes, FALSE, end)
  PROVE  CInv'
<1>1. device' = "vga" /\ queue' = queue \o codes /\ extended' = extended
      /\ shift_held' = shift_held
  BY DEF Sent
<1>2. KeyInv'
  BY <1>1 DEF KeyInv, Ready
<1> QED
  BY <1>2, UserKeeps

(* A key with a character.                                                 *)
LEMMA TypeKey_Inv ==
  ASSUME CInv, NEW k \in Keys, TypeKey(k)
  PROVE  CInv'
<1> DEFINE c == Make(k, MeansOf(k))
<1>1. device = "vga" /\ Sent(<<c, Break(k)>>) /\ UNCHANGED <<held, unsure>>
  BY DEF TypeKey
<1>2. queue \in Seq(Code) /\ held \subseteq Shifts /\ unsure \in BOOLEAN /\ TypeOK
  BY DEF CInv, TypeOK
<1>3. /\ MeansOf(k) \in SUBSET (Chars \cup {NoChar})
      /\ (IF FlagAtEnd THEN Shifted[k] ELSE Normal[k]) \in MeansOf(k)
  BY <1>2, CharFacts DEF MeansOf, FlagAtEnd
<1>4. c \in Code /\ Break(k) \in Code
  BY <1>3, Codes
<1>5. Ready(Append(Append(queue, c), Break(k)), FALSE, FlagAtEnd)
  BY <1>1, <1>2, <1>3, KeysOf, ReadyKey
<1> HIDE DEF c
<1>6. <<c, Break(k)>> \in Seq(Code) /\ queue \o <<c, Break(k)>> = Append(Append(queue, c), Break(k))
  BY <1>2, <1>4, Appended
<1>7. FlagAtEnd = FlagAtEnd'
  BY <1>1 DEF FlagAtEnd
<1> QED
  BY <1>1, <1>2, <1>5, <1>6, <1>7, KeysOf, UserVga

(* A cursor key: two prefixed codes.                                       *)
LEMMA TypeCursorKey_Inv ==
  ASSUME CInv, NEW k \in Keys, TypeCursorKey(k)
  PROVE  CInv'
<1> DEFINE e == Make("E0", {NoChar})
           c == Make(k, {NoChar})
           b == Break(k)
           r == Append(Append(queue, e), c)
<1>1. device = "vga" /\ Sent(<<e, c, e, b>>) /\ UNCHANGED <<held, unsure>>
  BY DEF TypeCursorKey
<1>2. queue \in Seq(Code) /\ held \subseteq Shifts /\ unsure \in BOOLEAN /\ TypeOK
  BY DEF CInv, TypeOK
<1>3. e \in Code /\ c \in Code /\ b \in Code
  BY Codes
<1>4. Ready(Append(Append(r, e), b), FALSE, FlagAtEnd)
  <2>1. Ready(r, FALSE, FlagAtEnd)
    BY <1>1, <1>2, KeysOf, ReadyCursorKey
  <2> HIDE DEF r
  <2> QED
    BY <1>1, <1>2, <2>1, KeysOf, ReadyCursorKey
<1> HIDE DEF e, c, b
<1>5. <<e, c>> \in Seq(Code) /\ <<e, b>> \in Seq(Code) /\ queue \o <<e, c>> = r
      /\ r \in Seq(Code)
  BY <1>2, <1>3, Appended, AppendProperties
<1>6. r \o <<e, b>> = Append(Append(r, e), b)
  BY <1>3, <1>5, Appended
<1>7. <<e, c, e, b>> = <<e, c>> \o <<e, b>>
  <2>1. /\ <<e, c>> \o <<e, b>> \in Seq(Code) /\ Len(<<e, c>> \o <<e, b>>) = 4
        /\ (<<e, c>> \o <<e, b>>)[1] = e /\ (<<e, c>> \o <<e, b>>)[2] = c
        /\ (<<e, c>> \o <<e, b>>)[3] = e /\ (<<e, c>> \o <<e, b>>)[4] = b
    BY <1>5, ConcatProperties, Len(<<e, c>>) = 2, Len(<<e, b>>) = 2,
       <<e, c>>[1] = e, <<e, c>>[2] = c, <<e, b>>[1] = e, <<e, b>>[2] = b
  <2>2. /\ <<e, c, e, b>> \in Seq(Code) /\ Len(<<e, c, e, b>>) = 4
        /\ <<e, c, e, b>>[1] = e /\ <<e, c, e, b>>[2] = c
        /\ <<e, c, e, b>>[3] = e /\ <<e, c, e, b>>[4] = b
    BY <1>3
  <2>3. \A i \in 1 .. 4 : (<<e, c>> \o <<e, b>>)[i] = <<e, c, e, b>>[i]
    BY <2>1, <2>2, \A i \in 1 .. 4 : i = 1 \/ i = 2 \/ i = 3 \/ i = 4
  <2> QED
    BY <2>1, <2>2, <2>3, SeqEqual
<1>8. <<e, c, e, b>> \in Seq(Code) /\ queue \o <<e, c, e, b>> = Append(Append(r, e), b)
  BY <1>2, <1>5, <1>6, <1>7, ConcatAssociative, ConcatProperties
<1>9. FlagAtEnd = FlagAtEnd'
  BY <1>1 DEF FlagAtEnd
<1> QED
  BY <1>1, <1>2, <1>4, <1>8, <1>9, KeysOf, UserVga

(* A shift key goes down: the flag will be up, whatever it was.            *)
LEMMA PressShift_Inv ==
  ASSUME CInv, NEW s \in Shifts, PressShift(s)
  PROVE  CInv'
<1> DEFINE c == Make(s, {NoChar})
<1>1. /\ device = "vga" /\ s \notin held /\ Sent(<<c>>)
      /\ held' = held \cup {s} /\ unsure' = FALSE
  BY DEF PressShift
<1>2. queue \in Seq(Code) /\ held \subseteq Shifts /\ unsure \in BOOLEAN /\ TypeOK
  BY DEF CInv, TypeOK
<1>3. c \in Code
  BY Codes
<1>4. \A end : /\ IsPrefix(c) = FALSE /\ CharIn(end, FALSE, c) \in c.means
               /\ ShiftAfter(end, FALSE, c) = TRUE
  BY Codes DEF CharIn, ShiftAfter, IsPrefix, Shifts
<1> HIDE DEF c
<1>5. <<c>> \in Seq(Code) /\ queue \o <<c>> = Append(queue, c)
  BY <1>2, <1>3, Appended
<1>6. Ready(Append(queue, c), FALSE, TRUE)
  BY <1>1, <1>2, <1>3, <1>4, KeysOf, OneMore
<1>7. TRUE = FlagAtEnd' /\ unsure' \in BOOLEAN /\ held' \subseteq Shifts
  BY <1>1, <1>2 DEF FlagAtEnd
<1> QED
  BY <1>1, <1>5, <1>6, <1>7, UserVga

(* A shift key goes up: the flag will be down, held or not the other key.  *)
LEMMA ReleaseShift_Inv ==
  ASSUME CInv, NEW s \in Shifts, ReleaseShift(s)
  PROVE  CInv'
<1> DEFINE c == Break(s)
<1>1. s \in held /\ Sent(<<c>>) /\ held' = held \ {s} /\ unsure' = (held' # {})
  BY DEF ReleaseShift
<1>2. queue \in Seq(Code) /\ held \subseteq Shifts /\ unsure \in BOOLEAN /\ TypeOK
  BY DEF CInv, TypeOK
<1>3. c \in Code
  BY Codes
<1>4. \A end : /\ IsPrefix(c) = FALSE /\ CharIn(end, FALSE, c) \in c.means
               /\ ShiftAfter(end, FALSE, c) = FALSE
  BY Codes DEF CharIn, ShiftAfter, IsPrefix, Shifts
<1> HIDE DEF c
<1>5. <<c>> \in Seq(Code) /\ queue \o <<c>> = Append(queue, c)
  BY <1>2, <1>3, Appended
<1>6. device = "vga"
  BY <1>1, CharFacts DEF CInv, TypeOK, KeyInv
<1>7. Ready(Append(queue, c), FALSE, FALSE)
  BY <1>2, <1>3, <1>4, <1>6, KeysOf, OneMore
<1>8. FALSE = FlagAtEnd' /\ unsure' \in BOOLEAN /\ held' \subseteq Shifts
      /\ (unsure' => held' # {})
  BY <1>1, <1>2 DEF FlagAtEnd
<1> QED
  BY <1>1, <1>5, <1>6, <1>7, <1>8, UserVga

(* A character typed at the terminal on COM1.                              *)
LEMMA TypeAtTerminal_Inv ==
  ASSUME CInv, NEW c \in SerialChars, TypeAtTerminal(c)
  PROVE  CInv'
<1> DEFINE m == Make(c, {c})
<1>1. device = "serial" /\ Sent(<<m>>) /\ UNCHANGED <<held, unsure>>
  BY DEF TypeAtTerminal
<1>2. queue \in Seq(Code) /\ held \subseteq Shifts /\ unsure \in BOOLEAN
  BY DEF CInv, TypeOK
<1>3. m \in Code /\ m.means = {m.key}
  BY Codes, CharFacts
<1> HIDE DEF m
<1>4. <<m>> \in Seq(Code) /\ queue' = Append(queue, m) /\ device' = "serial"
  BY <1>1, <1>2, <1>3, Appended DEF Sent
<1>5. held = {} /\ \A n \in DOMAIN queue : queue[n].means = {queue[n].key}
  BY <1>1 DEF CInv, KeyInv
<1>6. \A n \in DOMAIN queue' : queue'[n].means = {queue'[n].key}
  BY <1>2, <1>3, <1>4, <1>5, AppendProperties, LenProperties
<1>7. KeyInv'
  BY <1>1, <1>4, <1>5, <1>6 DEF KeyInv
<1> QED
  BY <1>1, <1>2, <1>4, <1>7, UserKeeps

----------------------------------------------------------------------------
(* The readers.                                                            *)

(* The types the readers rely on.                                          *)
LEMMA ReadFacts ==
  ASSUME CInv
  PROVE  /\ device \in Devices /\ queue \in Seq(Code) /\ extended \in BOOLEAN
         /\ shift_held \in BOOLEAN /\ unsure \in BOOLEAN
         /\ screen \in AnyScreen /\ pc \in Readers \cup {"command"}
         /\ limit \in 0 .. LINE_MAX /\ limit \in Nat
         /\ line \in Seq(Chars) /\ Len(line) \in Nat /\ Len(line) <= limit
         /\ far \in Nat /\ meant \subseteq Seq(Chars)
         /\ LINE_MAX \in Nat \ {0}
  BY LenProperties, ConsoleAssumption DEF CInv, TypeOK, AnyScreen

(* However far a reader lags behind the keys, it gets a character that     *)
(* was meant, and leaves the queue in order for the next.                  *)
LEMMA ReadCodeKeys ==
  ASSUME CInv, ReadCode
  PROVE  /\ Head(queue) \in Code /\ queue' \in Seq(Code)
         /\ extended' \in BOOLEAN /\ shift_held' \in BOOLEAN
         /\ KeyInv'
         /\ CharOf(Head(queue)) \in Head(queue).means
<1> DEFINE h == Head(queue)
<1>0. /\ device \in Devices /\ queue \in Seq(Code)
      /\ extended \in BOOLEAN /\ shift_held \in BOOLEAN
  BY ReadFacts
<1>1. /\ queue # <<>> /\ queue' = Tail(queue) /\ UNCHANGED <<device, held, unsure>>
      /\ IF device = "vga" THEN KbdProcess(h) ELSE UNCHANGED <<extended, shift_held>>
  BY DEF ReadCode
<1>2. h \in Code /\ queue' \in Seq(Code)
  BY <1>0, <1>1, HeadTailProperties
<1>3. CASE device = "vga"
  <2>1. extended' = IsPrefix(h) /\ shift_held' = ShiftAfter(shift_held, extended, h)
    BY <1>1, <1>3 DEF KbdProcess, ShiftAfter
  <2>2. extended' \in BOOLEAN /\ shift_held' \in BOOLEAN
    <3>1. h.release \in BOOLEAN
      BY <1>2 DEF Code
    <3>2. IsPrefix(h) \in BOOLEAN
      BY DEF IsPrefix
    <3>3. ShiftAfter(shift_held, extended, h) \in BOOLEAN
      BY <1>0, <3>1 DEF ShiftAfter
    <3> QED
      BY <2>1, <3>2, <3>3
  <2>3. CharOf(h) = CharIn(shift_held, extended, h)
    BY <1>3, device # "serial" DEF CharOf, KbdChar, CharIn
  <2> HIDE DEF h
  <2>4. /\ CharIn(shift_held, extended, h) \in h.means
        /\ Tracked(queue', shift_held', extended', FlagAtEnd)
        /\ Prefixed(queue', extended', Len(queue') + 1) = FALSE
    <3>1. Ready(queue, FALSE, FlagAtEnd)
      BY <1>3, KeysOf
    <3>2. /\ CharIn(shift_held, extended, h) \in h.means
          /\ Tracked(Tail(queue), ShiftAfter(shift_held, extended, h), IsPrefix(h), FlagAtEnd)
          /\ Prefixed(Tail(queue), IsPrefix(h), Len(Tail(queue)) + 1) = FALSE
      BY <1>0, <1>1, <3>1, TrackedTail DEF Ready, h
    <3> QED
      BY <1>1, <2>1, <3>2
  <2>5. KeyInv'
    <3>1. FlagAtEnd' = FlagAtEnd
      BY <1>1 DEF FlagAtEnd
    <3> QED
      BY <1>1, <1>3, <2>4, <3>1, KeysOf DEF KeyInv
  <2> QED
    BY <1>2, <2>2, <2>3, <2>4, <2>5 DEF h
<1>4. CASE device = "serial"
  <2>1. held = {} /\ (\A n \in DOMAIN queue : queue[n].means = {queue[n].key})
        /\ UNCHANGED <<extended, shift_held>>
    BY <1>1, <1>4 DEF CInv, KeyInv
  <2>2. \A n \in DOMAIN queue' : queue'[n].means = {queue'[n].key}
    BY <1>0, <1>1, <2>1, HeadTailProperties, LenProperties
  <2>3. CharOf(h) \in h.means
    <3>1. h = queue[1] /\ 1 \in DOMAIN queue
      BY <1>0, <1>1, HeadTailProperties, LenProperties, EmptySeq
    <3> QED
      BY <1>4, <2>1, <3>1 DEF CharOf
  <2>4. KeyInv'
    BY <1>1, <1>4, <2>1, <2>2 DEF KeyInv
  <2> QED
    BY <1>0, <1>2, <2>1, <2>3, <2>4
<1> QED
  BY <1>0, <1>3, <1>4, CharFacts

(* A sequence without its last element.                                    *)
LEMMA Front ==
  ASSUME NEW s \in Seq(Chars), s # <<>>
  PROVE  LET r == SubSeq(s, 1, Len(s) - 1)
         IN  /\ r \in Seq(Chars) /\ Len(r) + 1 = Len(s) /\ Len(r) \in Nat
             /\ \A n \in 1 .. Len(r) : r[n] = s[n]
<1>1. Len(s) \in Nat \ {0} /\ \A n \in 1 .. Len(s) : s[n] \in Chars
  BY LenProperties, EmptySeq, ElementOfSeq
<1> DEFINE k == Len(s) - 1
<1>2. k \in Nat /\ k + 1 = Len(s) /\ k - 1 + 1 = k /\ (1 <= k \/ k = 0)
      /\ \A n \in 1 .. k : 1 + n - 1 = n /\ s[n] \in Chars
  <2>1. k \in Nat /\ k + 1 = Len(s)
    BY <1>1
  <2> HIDE DEF k
  <2>2. \A n \in 1 .. k : n \in 1 .. Len(s) /\ 1 + n - 1 = n
    BY <2>1
  <2>3. k - 1 + 1 = k /\ (1 <= k \/ k = 0)
    BY <2>1
  <2> QED
    BY <1>1, <2>1, <2>2, <2>3
<1> HIDE DEF k
<1>3. /\ SubSeq(s, 1, k) \in Seq(Chars)
      /\ Len(SubSeq(s, 1, k)) = IF 1 <= k THEN k - 1 + 1 ELSE 0
      /\ \A n \in 1 .. k - 1 + 1 : SubSeq(s, 1, k)[n] = s[1 + n - 1]
  BY <1>2, 1 \in Int, SubSeqProperties
<1>4. Len(SubSeq(s, 1, k)) = k /\ \A n \in 1 .. k : SubSeq(s, 1, k)[n] = s[n]
  BY <1>2, <1>3
<1> QED
  BY <1>2, <1>3, <1>4 DEF k

(* Nothing can be taken off an empty line.                                 *)
LEMMA NoFront == SubSeq(<<>>, 1, Len(<<>>) - 1) = <<>>
  BY SubSeqEmpty

(* Editing a line of characters leaves a line of characters.               *)
LEMMA EditedTyped ==
  ASSUME NEW s \in Seq(Chars), NEW c \in Chars \cup {NoChar}
  PROVE  Edited(s, c) \in Seq(Chars)
<1>1. Append(s, "newline") \in Seq(Chars)
  BY AppendProperties DEF Chars, Ends
<1>2. c # NoChar => Append(s, c) \in Seq(Chars)
  BY AppendProperties
<1>3. SubSeq(s, 1, Len(s) - 1) \in Seq(Chars)
  BY Front, NoFront
<1> QED
  BY <1>1, <1>2, <1>3 DEF Edited

(* What a reader's step has to show: that it edits its buffer as the       *)
(* character asks, stays in bounds, and shows the line.                    *)
LEMMA ReadKeeps ==
  ASSUME CInv, ReadCode,
         line' = Edited(line, CharOf(Head(queue))),
         line' \in Seq(Chars), Len(line') <= limit,
         screen' \in AnyScreen, pc' \in Readers \cup {"command"}, far' \in Nat,
         LimitInv', ShownInv'
  PROVE  CInv'
<1>1. /\ UNCHANGED <<device, held, limit, called, unsure>>
      /\ meant' = {Edited(s, c) : s \in meant, c \in Head(queue).means}
  BY DEF ReadCode
<1>2. meant' \subseteq Seq(Chars)
  BY <1>1, ReadCodeKeys, ReadFacts, EditedTyped DEF Code
<1>3. TypeOK'
  BY <1>1, <1>2, ReadCodeKeys DEF CInv, TypeOK, AnyScreen
<1>4. LineInv'
  BY <1>1, ReadCodeKeys DEF CInv, LineInv
<1> QED
  BY <1>3, <1>4, ReadCodeKeys DEF CInv

(* The line on the screen, of a reader that goes on.                       *)
LEMMA ShownNext ==
  ASSUME device' = device, pc' = pc, Holds(screen', Start \o line', far')
  PROVE  ShownInv'
  BY DEF ShownInv, Holds, AtOf, ShownOn, Off, Text, Start

(* The prompt is two characters, and a program has none.                   *)
LEMMA StartFacts == Start \in Seq(Chars) /\ Len(Start) = IF pc = "readline" THEN 2 ELSE 0
<1>1. ">" \in Chars /\ Blank \in Chars
  BY CharFacts
<1> QED
  BY <1>1 DEF Start

(* A code without a character: a release, a shift key, a prefix, a cursor  *)
(* key.                                                                    *)
LEMMA NothingYet_Inv ==
  ASSUME CInv, NothingYet
  PROVE  CInv'
<1>1. ReadCode /\ CharOf(Head(queue)) = NoChar /\ UNCHANGED <<screen, pc, line, far>>
  BY DEF NothingYet, Got
<1>2. line = Edited(line, NoChar)
  BY DEF Edited
<1>3. limit' = limit /\ device' = device
  BY <1>1 DEF ReadCode
<1>4. LimitInv'
  BY <1>1, <1>3 DEF CInv, LimitInv
<1>5. ShownInv'
  BY <1>1, <1>3 DEF CInv, ShownInv, Holds, AtOf, ShownOn, Off, Text, Start
<1> QED
  BY <1>1, <1>2, <1>4, <1>5, ReadFacts, ReadKeeps

(* Return: readline and read finish the line.                              *)
LEMMA EndLine_Inv ==
  ASSUME CInv, EndLine
  PROVE  CInv'
<1>1. PICK c \in Ends : Got(c)
  BY DEF EndLine
<1>2. ReadCode /\ CharOf(Head(queue)) = c
  BY <1>1 DEF Got
<1>3. /\ pc \in Editors /\ screen' = Put(screen, "newline") /\ pc' = "command" /\ far' = far
      /\ line' = IF pc = "read" THEN Append(line, "newline") ELSE line
  BY DEF EndLine
<1>4. line' = Edited(line, c)
  BY <1>3, CharFacts DEF Edited, Chars, Editors, Ends, Backs
<1>5. line' \in Seq(Chars) /\ Len(line') <= limit
  <2>1. pc = "read" => Len(line) + 1 <= limit
    BY ReadFacts DEF CInv, LimitInv
  <2> QED
    BY <1>3, <2>1, ReadFacts, AppendProperties DEF Chars, Ends
<1>6. screen' \in AnyScreen
  BY <1>3, ReadFacts, PutTyped DEF Chars, Ends
<1>7. LimitInv' /\ ShownInv'
  BY <1>3 DEF LimitInv, ShownInv, Editors
<1> QED
  BY <1>2, <1>3, <1>4, <1>5, <1>6, <1>7, ReadFacts, ReadKeeps

(* Backspace: off the buffer and off the screen, or neither.               *)
LEMMA TakeBack_Inv ==
  ASSUME CInv, TakeBack
  PROVE  CInv'
<1>1. PICK c \in Backs : Got(c)
  BY DEF TakeBack
<1>2. ReadCode /\ CharOf(Head(queue)) = c /\ limit' = limit /\ device' = device
  BY <1>1 DEF Got, ReadCode
<1>3. pc \in Editors /\ pc' = pc /\ far' = far
  BY DEF TakeBack
<1>4. Edited(line, c) = SubSeq(line, 1, Len(line) - 1)
  BY <1>3, CharFacts DEF Edited, Chars, Editors, Backs, Ends
<1>5. CASE line = <<>>
  <2>1. UNCHANGED <<line, screen>>
    BY <1>5 DEF TakeBack
  <2>2. line' = Edited(line, c)
    BY <1>4, <1>5, <2>1, NoFront
  <2>3. LimitInv'
    BY <1>2, <1>3, <2>1 DEF CInv, LimitInv
  <2>4. ShownInv'
    BY <1>2, <1>3, <2>1 DEF CInv, ShownInv, Holds, AtOf, ShownOn, Off, Text, Start
  <2> QED
    BY <1>2, <1>3, <2>1, <2>2, <2>3, <2>4, ReadFacts, ReadKeeps
<1>6. CASE line # <<>>
  <2>1. line' = SubSeq(line, 1, Len(line) - 1) /\ screen' = Erase(screen)
    BY <1>6 DEF TakeBack
  <2>2. /\ line' \in Seq(Chars) /\ Len(line') + 1 = Len(line) /\ Len(line') \in Nat
        /\ \A n \in 1 .. Len(line') : line'[n] = line[n]
    BY <1>6, <2>1, ReadFacts, Front
  <2>3. LimitInv' /\ Len(line') <= limit
    BY <1>2, <1>3, <2>2, ReadFacts DEF CInv, LimitInv
  <2>4. screen' \in AnyScreen
    <3>1. {"backspace", Blank} \subseteq Chars
      BY CharFacts DEF Chars, Backs
    <3> QED
      BY <2>1, <3>1, ReadFacts, PutTyped DEF Erase
  <2>5. Holds(screen, Text, far)
    BY <1>3 DEF CInv, ShownInv
  <2>6. /\ Text \in Seq(Chars) /\ Start \o line' \in Seq(Chars)
        /\ Len(Text) = Len(Start \o line') + 1
        /\ \A n \in 1 .. Len(Start \o line') : (Start \o line')[n] = Text[n]
    <3>1. Len(Start) \in Nat /\ Start \in Seq(Chars)
      BY StartFacts
    <3>2. /\ Text \in Seq(Chars) /\ Len(Text) = Len(Start) + Len(line)
          /\ \A n \in 1 .. Len(Start) + Len(line) :
               Text[n] = IF n <= Len(Start) THEN Start[n] ELSE line[n - Len(Start)]
      BY <3>1, ReadFacts, ConcatProperties DEF Text
    <3>3. /\ Start \o line' \in Seq(Chars) /\ Len(Start \o line') = Len(Start) + Len(line')
          /\ \A n \in 1 .. Len(Start) + Len(line') :
               (Start \o line')[n] = IF n <= Len(Start) THEN Start[n]
                                     ELSE line'[n - Len(Start)]
      BY <2>2, <3>1, ConcatProperties
    <3>4. ASSUME NEW n \in 1 .. Len(Start) + Len(line')
          PROVE  (Start \o line')[n] = Text[n]
      <4>1. n \in 1 .. Len(Start) + Len(line)
        BY <2>2, <3>1
      <4>2. n > Len(Start) => n - Len(Start) \in 1 .. Len(line')
        BY <2>2, <3>1
      <4>3. Text[n] = IF n <= Len(Start) THEN Start[n] ELSE line[n - Len(Start)]
        BY <3>2, <4>1
      <4>4. (Start \o line')[n] = IF n <= Len(Start) THEN Start[n] ELSE line'[n - Len(Start)]
        BY <3>3
      <4>5. n > Len(Start) => line'[n - Len(Start)] = line[n - Len(Start)]
        BY <2>2, <4>2
      <4>6. n <= Len(Start) \/ n > Len(Start)
        BY <3>1, <4>1
      <4> QED
        BY <4>3, <4>4, <4>5, <4>6
    <3> QED
      <4>1. Len(Text) = Len(Start \o line') + 1
        BY <2>2, <3>1, <3>2, <3>3,
           Len(Start) + (Len(line') + 1) = (Len(Start) + Len(line')) + 1
      <4> QED
        BY <3>2, <3>3, <3>4, <4>1
  <2>7. Holds(screen', Start \o line', far')
    BY <1>3, <2>1, <2>5, <2>6, ReadFacts, EraseShown
  <2>8. ShownInv'
    BY <1>2, <1>3, <2>7, ShownNext
  <2> QED
    BY <1>2, <1>3, <1>4, <2>1, <2>2, <2>3, <2>4, <2>8, ReadFacts, ReadKeeps
<1> QED
  BY <1>5, <1>6

(* A prompt and the longest line are shorter than the screen.              *)
LEMMA RoomOnScreen ==
  ASSUME CInv, pc \in Editors, Len(line) < limit
  PROVE  Len(Text) + 1 <= (VGA_ROWS - 1) * VGA_COLS /\ Text \in Seq(Chars)
<1>1. /\ Len(line) \in Nat /\ limit \in Nat /\ limit <= LINE_MAX /\ LINE_MAX \in Nat
      /\ pc = "readline" => limit = LINE_MAX - 1
  BY ReadFacts DEF CInv, LimitInv
<1>2. Text \in Seq(Chars) /\ Len(Text) = Len(Start) + Len(line)
  BY StartFacts, ReadFacts, ConcatProperties DEF Text
<1>3. Len(Text) + 1 <= LINE_MAX + 1
  BY <1>1, <1>2, StartFacts
<1>4. Size - VGA_COLS \in Int /\ LINE_MAX + 1 <= Size - VGA_COLS /\ Len(Text) \in Nat
  BY <1>2, ConsoleAssumption, SizeFacts, LenProperties
<1> QED
  BY <1>1, <1>2, <1>3, <1>4, SizeFacts

(* A character into the buffer and onto the screen, with a line end or a   *)
(* scroll if it comes to that.                                             *)
LEMMA AddChar_Inv ==
  ASSUME CInv, NEW c \in Glyphs, AddChar(c)
  PROVE  CInv'
<1>1. /\ ReadCode /\ CharOf(Head(queue)) = c /\ limit' = limit /\ device' = device
      /\ pc \in Editors /\ Len(line) < limit /\ line' = Append(line, c)
      /\ screen' = Put(screen, c)
      /\ far' = IF Len(Start \o line') > far THEN Len(Start \o line') ELSE far
      /\ pc' = IF pc = "read" /\ Len(line') = limit THEN "command" ELSE pc
  BY DEF AddChar, Got, ReadCode
<1>2. c \in Chars /\ c \notin {NoChar} \cup Ends \cup Backs
  BY CharFacts
<1>3. line' = Edited(line, c)
  BY <1>1, <1>2 DEF Edited, Editors
<1>4. line' \in Seq(Chars) /\ Len(line') = Len(line) + 1 /\ Len(line') <= limit
  BY <1>1, <1>2, ReadFacts, AppendProperties
<1>5. Text \in Seq(Chars) /\ Len(Text) \in Nat /\ Start \o line' = Append(Text, c)
  <2>1. Text \in Seq(Chars)
    BY <1>1, RoomOnScreen
  <2>2. <<c>> \in Seq(Chars) /\ Append(line, c) = line \o <<c>>
    BY <1>2, ReadFacts, AppendIsConcat
  <2>3. Append(Text, c) = Text \o <<c>>
    BY <1>2, <2>1, AppendIsConcat
  <2>4. (Start \o line) \o <<c>> = Start \o (line \o <<c>>)
    <3>1. Start \in Seq(Chars) /\ line \in Seq(Chars)
      BY StartFacts, ReadFacts
    <3> QED
      BY <2>2, <3>1, ConcatAssociative
  <2> QED
    BY <1>1, <2>1, <2>2, <2>3, <2>4, LenProperties DEF Text
<1>6. Len(Start \o line') = Len(Text) + 1
  BY <1>2, <1>5, AppendProperties
<1>7. far' \in Nat /\ far' = IF Len(Text) + 1 > far THEN Len(Text) + 1 ELSE far
  BY <1>1, <1>5, <1>6, ReadFacts
<1>8. screen' \in AnyScreen
  BY <1>1, <1>2, ReadFacts, PutTyped
<1>9. Holds(screen', Start \o line', far')
  <2>1. Holds(screen, Text, far)
    BY <1>1 DEF CInv, ShownInv
  <2>2. Len(Text) + 1 <= (VGA_ROWS - 1) * VGA_COLS
    BY <1>1, RoomOnScreen
  <2>3. Holds(Put(screen, c), Append(Text, c), far')
    BY <1>5, <1>7, <2>1, <2>2, ReadFacts, PutShown
  <2> QED
    BY <1>1, <1>5, <2>3
<1>10. ShownInv'
  <2>1. CASE pc' = pc
    BY <1>1, <1>9, <2>1, ShownNext
  <2>2. CASE pc' # pc
    BY <1>1, <2>2 DEF ShownInv, Editors
  <2> QED
    BY <2>1, <2>2
<1>11. LimitInv'
  BY <1>1, <1>4, ReadFacts DEF CInv, LimitInv, Editors
<1>12. pc' \in Readers \cup {"command"}
  BY <1>1, ReadFacts
<1> QED
  BY <1>1, <1>3, <1>4, <1>7, <1>8, <1>10, <1>11, <1>12, ReadKeeps

(* Characters that are read and change nothing.                            *)
LEMMA Ignored_Inv ==
  ASSUME CInv, NEW c, Got(c), UNCHANGED <<screen, pc, line, far>>, line = Edited(line, c)
  PROVE  CInv'
<1>1. ReadCode /\ CharOf(Head(queue)) = c /\ limit' = limit /\ device' = device
  BY DEF Got, ReadCode
<1>2. LimitInv'
  BY <1>1 DEF CInv, LimitInv
<1>3. ShownInv'
  BY <1>1 DEF CInv, ShownInv, Holds, AtOf, ShownOn, Off, Text, Start
<1> QED
  BY <1>1, <1>2, <1>3, ReadFacts, ReadKeeps

(* readline with a full buffer.                                            *)
LEMMA LineFull_Inv ==
  ASSUME CInv, NEW c \in Glyphs, LineFull(c)
  PROVE  CInv'
<1>1. Got(c) /\ UNCHANGED <<screen, pc, line, far>> /\ pc = "readline" /\ ~(Len(line) < limit)
  BY ReadFacts DEF LineFull
<1>2. c \notin {NoChar} \cup Ends \cup Backs
  BY CharFacts
<1>3. line = Edited(line, c)
  BY <1>1, <1>2 DEF Edited
<1> QED
  BY <1>1, <1>3, Ignored_Inv

(* A control character no reader handles.                                  *)
LEMMA PassOver_Inv ==
  ASSUME CInv, PassOver
  PROVE  CInv'
<1>1. Got("tab") /\ UNCHANGED <<screen, pc, line, far>> /\ pc # "kst_read"
  BY DEF PassOver, Editors
<1>2. "tab" \notin {NoChar} \cup Ends \cup Backs \cup Glyphs
  BY CharFacts DEF Chars, Ends, Backs
<1>3. line = Edited(line, "tab")
  BY <1>1, <1>2 DEF Edited
<1> QED
  BY <1>1, <1>3, Ignored_Inv

(* A character for kst_read, which echoes nothing.                         *)
LEMMA RawChar_Inv ==
  ASSUME CInv, NEW c \in Chars, RawChar(c)
  PROVE  CInv'
<1>1. /\ ReadCode /\ CharOf(Head(queue)) = c /\ limit' = limit
      /\ pc = "kst_read" /\ line' = Append(line, c)
      /\ pc' = IF c = "newline" \/ Len(line') = limit THEN "command" ELSE pc
      /\ UNCHANGED <<screen, far>>
  BY DEF RawChar, Got, ReadCode
<1>2. line' = Edited(line, c)
  BY <1>1, CharFacts DEF Edited
<1>3. Len(line) < limit
  BY <1>1 DEF CInv, LimitInv
<1>4. line' \in Seq(Chars) /\ Len(line') = Len(line) + 1 /\ Len(line') <= limit
  BY <1>1, <1>3, ReadFacts, AppendProperties
<1>5. LimitInv'
  BY <1>1, <1>4, ReadFacts DEF LimitInv
<1>6. ShownInv'
  BY <1>1 DEF ShownInv, Editors
<1> QED
  BY <1>1, <1>2, <1>4, <1>5, <1>6, ReadFacts, ReadKeeps

(* Every step of a reader.                                                 *)
LEMMA Reading_Inv ==
  ASSUME CInv, Reading
  PROVE  CInv'
<1>1. CASE NothingYet
  BY <1>1, NothingYet_Inv
<1>2. CASE EndLine
  BY <1>2, EndLine_Inv
<1>3. CASE TakeBack
  BY <1>3, TakeBack_Inv
<1>4. CASE PassOver
  BY <1>4, PassOver_Inv
<1>5. ASSUME NEW c \in Glyphs, AddChar(c) \/ LineFull(c)
      PROVE  CInv'
  BY <1>5, AddChar_Inv, LineFull_Inv
<1>6. ASSUME NEW c \in Chars, RawChar(c)
      PROVE  CInv'
  BY <1>6, RawChar_Inv
<1> QED
  BY <1>1, <1>2, <1>3, <1>4, <1>5, <1>6 DEF Reading

----------------------------------------------------------------------------
(* Between two lines.                                                      *)

(* A command prints.                                                       *)
LEMMA Output_Inv ==
  ASSUME CInv, NEW c \in Outputs, Output(c)
  PROVE  CInv'
<1>1. /\ pc = "command" /\ called < MaxCalls /\ screen' = Put(screen, c) /\ called' = called + 1
      /\ UNCHANGED <<device, held, queue, shift_held, extended, pc, line, limit, far, meant,
                     unsure>>
  BY DEF Output, keyboard
<1>2. screen' \in AnyScreen
  BY <1>1, ReadFacts, PutTyped, CharFacts
<1>3. TypeOK'
  BY <1>1, <1>2, ConsoleAssumption DEF CInv, TypeOK, AnyScreen
<1>4. KeyInv' /\ LimitInv' /\ LineInv'
  BY <1>1 DEF CInv, KeyInv, FlagAtEnd, LimitInv, LineInv
<1>5. ShownInv'
  BY <1>1 DEF ShownInv, Editors
<1> QED
  BY <1>3, <1>4, <1>5 DEF CInv

(* The screens of a machine that has just booted.                          *)
LEMMA ClearedScreenTyped ==
  /\ Cleared(0) \in Screen
  /\ [cell |-> <<>>, col |-> 0, home |-> 0] \in Terminal
<1>1. 0 \in Rows /\ 0 \in Cols
  BY SizeFacts DEF Rows, Cols
<1> QED
  BY <1>1, EntryFacts DEF Cleared, Screen, Terminal

(* The screen is cleared between two lines.                                *)
LEMMA Clear_Inv ==
  ASSUME CInv, Clear
  PROVE  CInv'
<1>1. /\ pc = "command" /\ screen' = ClearedScreen(screen)
      /\ UNCHANGED <<device, held, queue, shift_held, extended, pc, line, limit, called, far,
                     meant, unsure>>
  BY DEF Clear, keyboard
<1>2. screen' \in AnyScreen
  BY <1>1, ReadFacts, ClearedScreenTyped DEF ClearedScreen, AnyScreen
<1>3. TypeOK'
  BY <1>1, <1>2 DEF CInv, TypeOK, AnyScreen
<1>4. KeyInv' /\ LimitInv' /\ LineInv'
  BY <1>1 DEF CInv, KeyInv, FlagAtEnd, LimitInv, LineInv
<1>5. ShownInv'
  BY <1>1 DEF ShownInv, Editors
<1> QED
  BY <1>3, <1>4, <1>5 DEF CInv

(* A line that starts at the cursor is empty and is shown.                 *)
LEMMA HereFacts ==
  ASSUME CInv
  PROVE  Here \in AnyScreen /\ Holds(Here, <<>>, 0)
<1> DEFINE at == IF device = "vga" THEN Cursor(screen) ELSE screen.col
<1>1. Here = [screen EXCEPT !.home = at]
  BY DEF Here
<1>2. CASE device = "vga"
  <2>1. screen \in Screen /\ at = Cursor(screen) /\ at \in Nat
    <3>1. screen \in Screen
      BY <1>2, ReadFacts DEF AnyScreen
    <3>2. screen \in Unscrolled
      BY <3>1, SizeFacts DEF Screen, Unscrolled, Rows
    <3> QED
      BY <1>2, <3>1, <3>2, CursorFacts
  <2> HIDE DEF at
  <2>2. Here = [cell |-> screen.cell, row |-> screen.row, col |-> screen.col, home |-> at]
    BY <1>1, <2>1 DEF Screen
  <2>3. Here \in Screen
    BY <2>1, <2>2 DEF Screen
  <2>4. Cursor(Here) = at /\ Here.home = at
    BY <2>1, <2>2 DEF Cursor
  <2> QED
    BY <1>2, <2>1, <2>3, <2>4 DEF AnyScreen, Holds, AtOf
<1>3. CASE device = "serial"
  <2>1. screen \in Terminal /\ at = screen.col /\ at \in Nat
    BY <1>3, ReadFacts DEF AnyScreen, Terminal
  <2> HIDE DEF at
  <2>2. Here = [cell |-> screen.cell, col |-> screen.col, home |-> at]
    BY <1>1, <2>1 DEF Terminal
  <2>3. Here \in Terminal /\ Here.col = at /\ Here.home = at
    BY <2>1, <2>2 DEF Terminal
  <2> QED
    BY <1>3, <2>1, <2>3 DEF AnyScreen, Holds, AtOf
<1> QED
  BY <1>2, <1>3, ReadFacts, CharFacts

(* A program starts to read.                                               *)
LEMMA Read_Inv ==
  ASSUME CInv, NEW reader \in {"read", "kst_read"}, NEW len \in ReadLens, Read(reader, len)
  PROVE  CInv'
<1>1. /\ pc = "command" /\ pc' = reader /\ limit' = len /\ line' = <<>> /\ meant' = {<<>>}
      /\ screen' = Here /\ called' = called + 1 /\ called < MaxCalls /\ far' = 0
      /\ UNCHANGED <<device, held, queue, shift_held, extended, unsure>>
  BY DEF Read, Await, keyboard
<1>2. len \in 1 .. LINE_MAX /\ LINE_MAX \in Nat
  BY ConsoleAssumption
<1>3. TypeOK'
  BY <1>1, <1>2, HereFacts, ConsoleAssumption DEF CInv, TypeOK, AnyScreen, Readers, Editors
<1>4. KeyInv' /\ LimitInv' /\ LineInv'
  BY <1>1, <1>2 DEF CInv, KeyInv, FlagAtEnd, LimitInv, LineInv
<1>5. ShownInv'
  <2>1. Start' \o line' = <<>>
    BY <1>1 DEF Start
  <2>2. Holds(screen', <<>>, far')
    BY <1>1, HereFacts
  <2> QED
    BY <1>1, <2>1, <2>2 DEF ShownInv, Holds, AtOf, ShownOn, Off, Text
<1> QED
  BY <1>3, <1>4, <1>5 DEF CInv

(* The shell prompts, wherever the cursor is, and reads a line.            *)
LEMMA Prompt_Inv ==
  ASSUME CInv, Prompt
  PROVE  CInv'
<1>1. /\ pc = "command" /\ pc' = "readline" /\ limit' = LINE_MAX - 1 /\ line' = <<>>
      /\ meant' = {<<>>} /\ screen' = Put(Put(Here, ">"), Blank) /\ called' = 0 /\ far' = 2
      /\ UNCHANGED <<device, held, queue, shift_held, extended, unsure>>
  BY DEF Prompt, Await, keyboard
<1>2. LINE_MAX \in Nat \ {0} /\ MaxCalls \in Nat /\ 2 <= (VGA_ROWS - 1) * VGA_COLS
      /\ 1 <= (VGA_ROWS - 1) * VGA_COLS
  <2>1. LINE_MAX + 1 <= Size - VGA_COLS /\ Size - VGA_COLS \in Int
        /\ LINE_MAX \in Nat \ {0} /\ MaxCalls \in Nat
    BY ConsoleAssumption, SizeFacts
  <2> QED
    BY <2>1, SizeFacts
<1>3. /\ Put(Here, ">") \in AnyScreen
      /\ Holds(Put(Here, ">"), Append(<<>>, ">"), 1)
  <2>1. <<>> \in Seq(Chars) /\ Len(<<>>) = 0 /\ 0 \in Nat /\ 1 = IF 0 + 1 > 0 THEN 0 + 1 ELSE 0
    OBVIOUS
  <2> QED
    <3>1. Put(Here, ">") \in AnyScreen
      BY HereFacts, ReadFacts, CharFacts, PutTyped
    <3>2. /\ Len(<<>>) + 1 <= (VGA_ROWS - 1) * VGA_COLS
          /\ 1 = IF Len(<<>>) + 1 > 0 THEN Len(<<>>) + 1 ELSE 0
      BY <1>2, <2>1
    <3>3. Holds(Put(Here, ">"), Append(<<>>, ">"), 1)
      BY <2>1, <3>2, HereFacts, ReadFacts, CharFacts, PutShown
    <3> QED
      BY <3>1, <3>3
<1>4. /\ screen' \in AnyScreen
      /\ Holds(screen', Append(<<">">>, Blank), 2)
  <2>1. /\ <<">">> \in Seq(Chars) /\ Len(<<">">>) = 1 /\ 1 \in Nat /\ Append(<<>>, ">") = <<">">>
        /\ 2 = IF 1 + 1 > 1 THEN 1 + 1 ELSE 1
    BY CharFacts
  <2>2. Holds(Put(Here, ">"), <<">">>, 1)
    BY <1>3, <2>1
  <2> QED
    <3>1. screen' \in AnyScreen
      BY <1>1, <1>3, ReadFacts, CharFacts, PutTyped
    <3>2. /\ Len(<<">">>) + 1 <= (VGA_ROWS - 1) * VGA_COLS
          /\ 2 = IF Len(<<">">>) + 1 > 1 THEN Len(<<">">>) + 1 ELSE 1
      BY <1>2, <2>1
    <3>3. Holds(Put(Put(Here, ">"), Blank), Append(<<">">>, Blank), 2)
      BY <1>3, <2>1, <2>2, <3>2, ReadFacts, CharFacts, PutShown
    <3> QED
      BY <1>1, <3>1, <3>3
<1>5. TypeOK'
  BY <1>1, <1>2, <1>4 DEF CInv, TypeOK, AnyScreen, Readers, Editors
<1>6. KeyInv' /\ LimitInv' /\ LineInv'
  BY <1>1 DEF CInv, KeyInv, FlagAtEnd, LimitInv, LineInv
<1>7. ShownInv'
  <2>1. Start' \o line' = Append(<<">">>, Blank)
    BY <1>1 DEF Start
  <2>2. Holds(screen', Append(<<">">>, Blank), far')
    BY <1>1, <1>4
  <2> QED
    BY <1>1, <2>1, <2>2 DEF ShownInv, Holds, AtOf, ShownOn, Off, Text
<1> QED
  BY <1>5, <1>6, <1>7 DEF CInv

----------------------------------------------------------------------------
(* The machine boots with nothing typed and nothing read.                  *)
LEMMA InitInv == Init => CInv
<1> SUFFICES ASSUME Init PROVE CInv
  OBVIOUS
<1>1. TypeOK
  <2>1. shift_held \in BOOLEAN /\ extended \in BOOLEAN /\ unsure \in BOOLEAN
    BY FALSE \in BOOLEAN DEF Init
  <2>2. /\ LINE_MAX \in Nat /\ MaxCalls \in Nat
        /\ <<>> \in Seq(Code) /\ <<>> \in Seq(Chars) /\ Len(<<>>) = 0
    BY ConsoleAssumption
  <2>3. screen \in IF device = "vga" THEN Screen ELSE Terminal
    BY ClearedScreenTyped DEF Init
  <2> QED
    BY <2>1, <2>2, <2>3 DEF Init, TypeOK
<1>2. Tracked(<<>>, FALSE, FALSE, FALSE)
  BY TrackedEmpty, FALSE \in BOOLEAN
<1>5. Prefixed(<<>>, FALSE, Len(<<>>) + 1) = FALSE
  BY Len(<<>>) = 0 DEF Prefixed
<1>3. KeyInv
  <2>1. queue = <<>> /\ shift_held = FALSE /\ extended = FALSE /\ held = {}
    BY DEF Init
  <2>2. (held # {}) = FALSE /\ DOMAIN queue = {}
    BY <2>1
  <2> QED
    BY <1>2, <1>5, <2>1, <2>2 DEF Init, KeyInv, FlagAtEnd
<1>4. LimitInv /\ LineInv /\ ShownInv
  BY DEF Init, LimitInv, LineInv, ShownInv, Editors
<1> QED
  BY <1>1, <1>3, <1>4 DEF CInv

(* Every step keeps the invariant.                                         *)
LEMMA NextInv == CInv /\ [Next]_vars => CInv'
<1> SUFFICES ASSUME CInv, [Next]_vars PROVE CInv'
  OBVIOUS
<1>1. ASSUME NEW k \in Keys, TypeKey(k) \/ TypeCursorKey(k) PROVE CInv'
  BY <1>1, TypeKey_Inv, TypeCursorKey_Inv
<1>2. ASSUME NEW s \in Shifts, PressShift(s) \/ ReleaseShift(s) PROVE CInv'
  BY <1>2, PressShift_Inv, ReleaseShift_Inv
<1>3. ASSUME NEW c \in SerialChars, TypeAtTerminal(c) PROVE CInv'
  BY <1>3, TypeAtTerminal_Inv
<1>4. CASE Reading
  BY <1>4, Reading_Inv
<1>5. ASSUME NEW c \in Outputs, Output(c) PROVE CInv'
  BY <1>5, Output_Inv
<1>6. ASSUME NEW reader \in {"read", "kst_read"}, NEW len \in ReadLens, Read(reader, len)
      PROVE  CInv'
  BY <1>6, Read_Inv
<1>7. CASE Clear
  BY <1>7, Clear_Inv
<1>8. CASE Prompt
  BY <1>8, Prompt_Inv
<1>9. CASE UNCHANGED vars
  BY <1>9 DEF vars, keyboard, CInv, TypeOK, KeyInv, FlagAtEnd, LimitInv, LineInv, ShownInv,
              Holds, AtOf, ShownOn, Off, Text, Start
<1> QED
  BY <1>1, <1>2, <1>3, <1>4, <1>5, <1>6, <1>7, <1>8, <1>9 DEF Next

(* The invariant holds in every reachable state.                           *)
THEOREM ConsoleInvariant == Spec => []CInv
  BY InitInv, NextInv, PTL DEF Spec

(* Whatever is typed and printed, the cursor stays on the screen, every    *)
(* cell holds an entry, and no reader writes past the length it was given  *)
(* (vga.c, main.c, newlib.c, modules.c).                                   *)
THEOREM ConsoleTypeCorrect == Spec => []TypeOK
<1>1. CInv => TypeOK
  BY DEF CInv
<1> QED
  BY <1>1, ConsoleInvariant, PTL

(* While a line is edited the screen shows it, prompt, characters and      *)
(* cursor, and nothing of what was taken back -- across line ends and      *)
(* scrolls, for every size of screen that holds a line (readline, read).   *)
THEOREM ScreenTruthful == Spec => []ScreenShowsLine
<1>1. CInv => ScreenShowsLine
  BY DEF CInv, ShownInv, Holds, ScreenShowsLine, At, AtOf, Shown, ShownOn, Off
<1> QED
  BY <1>1, ConsoleInvariant, PTL

(* A reader's buffer is what the user meant it to be, whoever read before, *)
(* however much was typed ahead and whatever shift keys are pressed        *)
(* meanwhile (keyboard.c); where the user may mean two lines, one of them. *)
THEOREM ReadersGetWhatWasTyped == Spec => []LineAsTyped
<1>1. CInv => LineAsTyped
  BY DEF CInv, LineInv, LineAsTyped
<1> QED
  BY <1>1, ConsoleInvariant, PTL

(* vga_make_entry spoils the colour of exactly the cells that show a       *)
(* character above 0x7F.                                                   *)
THEOREM OneCellSpoiled == Spec => []ColourKept
<1>1. ASSUME CInv, device = "vga", NEW p \in Cells
      PROVE  screen.cell[p].color = "current" <=> screen.cell[p].char \notin High
  <2>1. screen.cell[p] \in Entry
    BY <1>1 DEF CInv, TypeOK, Screen
  <2>2. PICK c \in Glyphs \cup {"delete"} : screen.cell[p] = MakeEntry(c)
    BY <2>1 DEF Entry
  <2>3. /\ MakeEntry(c).char = c
        /\ MakeEntry(c).color = IF c \in High THEN "all ones" ELSE "current"
    BY DEF MakeEntry
  <2>4. MakeEntry(c).color = "current" <=> MakeEntry(c).char \notin High
    BY <2>3, "all ones" # "current"
  <2> QED
    BY <2>2, <2>4
<1>2. CInv => ColourKept
  BY <1>1 DEF ColourKept
<1> QED
  BY <1>2, ConsoleInvariant, PTL

(* No reader's step, and no step of the user, changes a cell above.        *)
RestKept ==
  device = "vga" /\ pc \in Readers =>
    \A p \in Cells : p < screen.home /\ p - screen.home + screen'.home \in Cells =>
      screen'.cell[p - screen.home + screen'.home] = screen.cell[p]

(* A screen that stays as it is keeps what stands above the line.          *)
LEMMA SameScreen ==
  ASSUME CInv, screen' = screen
  PROVE  RestKept
<1>1. ASSUME device = "vga", NEW p \in Cells PROVE p - screen.home + screen'.home = p
  BY <1>1, ReadFacts, SizeFacts DEF AnyScreen, Screen
<1> QED
  BY <1>1 DEF RestKept

(* No step taken while a line is read changes a cell above it.             *)
LEMMA NextKeepsRest == CInv /\ [Next]_vars => RestKept
<1> SUFFICES ASSUME CInv, [Next]_vars, device = "vga", pc \in Readers PROVE RestKept
  BY DEF RestKept
<1>0. screen \in Screen
  BY ReadFacts DEF AnyScreen
<1>1. CASE EndLine
  <2>1. screen' = Put(screen, "newline")
    BY <1>1 DEF EndLine
  <2>2. ASSUME NEW p \in Cells, p < screen.home, p - screen.home + screen'.home \in Cells
        PROVE  screen'.cell[p - screen.home + screen'.home] = screen.cell[p]
    BY <1>0, <2>1, <2>2, PutKeepsAbove
  <2> QED
    BY <2>2 DEF RestKept
<1>2. ASSUME NEW c \in Glyphs, AddChar(c) PROVE RestKept
  <2>1. screen' = Put(screen, c) /\ pc \in Editors
    BY <1>2 DEF AddChar
  <2>2. screen.home <= Cursor(screen)
    <3>1. Cursor(screen) = screen.home + Len(Text) /\ Len(Text) \in Nat /\ screen.home \in Int
      <4>1. AddChar(c) => Len(line) < limit
        BY DEF AddChar
      <4>2. Text \in Seq(Chars)
        BY <1>2, <2>1, <4>1, RoomOnScreen
      <4> QED
        BY <1>0, <2>1, <4>2, LenProperties DEF CInv, ShownInv, Holds, AtOf, Screen
    <3> QED
      BY <3>1
  <2> QED
    BY <1>0, <2>1, <2>2, PutKeepsAbove DEF RestKept
<1>3. CASE TakeBack /\ line # <<>>
  <2>1. screen' = Erase(screen) /\ pc \in Editors
    BY <1>3 DEF TakeBack
  <2>2. Text \in Seq(Chars) /\ Len(Text) \in Nat \ {0}
    <3>1. Text \in Seq(Chars) /\ Len(Text) = Len(Start) + Len(line)
      BY StartFacts, ReadFacts, ConcatProperties DEF Text
    <3>2. Len(line) \in Nat \ {0}
      BY <1>3, ReadFacts, EmptySeq
    <3> QED
      BY <3>1, <3>2, StartFacts
  <2>3. AtOf(screen) = screen.home + Len(Text) /\ screen.home \in Int /\ screen.home >= 0
    BY <1>0, <2>1 DEF CInv, ShownInv, Holds, Screen
  <2>4. AtOf(screen) > 0
    BY <2>2, <2>3
  <2>5. /\ screen'.home = screen.home
        /\ \A p \in Cells : p # AtOf(screen) - 1 => screen'.cell[p] = screen.cell[p]
    BY <2>1, <2>4, ReadFacts, EraseCells
  <2>6. ASSUME NEW p \in Cells, p < screen.home
        PROVE  p # AtOf(screen) - 1 /\ p - screen.home + screen'.home = p
    BY <2>2, <2>3, <2>5, <2>6, SizeFacts
  <2> QED
    BY <2>5, <2>6 DEF RestKept
<1>4. CASE screen' = screen
  BY <1>4, SameScreen
<1>5. pc # "command"
  BY DEF Readers, Editors
<1>6. CASE Reading
  <2>1. CASE NothingYet \/ PassOver \/ (TakeBack /\ line = <<>>)
    BY <1>4, <2>1 DEF NothingYet, PassOver, TakeBack
  <2>2. ASSUME NEW c \in Glyphs, LineFull(c) PROVE RestKept
    BY <1>4, <2>2 DEF LineFull
  <2>3. ASSUME NEW c \in Chars, RawChar(c) PROVE RestKept
    BY <1>4, <2>3 DEF RawChar
  <2>4. CASE TakeBack
    BY <1>3, <2>1, <2>4
  <2>5. ASSUME NEW c \in Glyphs, AddChar(c) \/ LineFull(c) PROVE RestKept
    BY <1>2, <2>2, <2>5
  <2> QED
    BY <1>1, <1>6, <2>1, <2>3, <2>4, <2>5 DEF Reading
<1>7. CASE UNCHANGED vars
  BY <1>4, <1>7 DEF vars
<1> QED
  BY <1>4, <1>5, <1>6, <1>7
     DEF Next, TypeKey, TypeCursorKey, PressShift, ReleaseShift, TypeAtTerminal, Sent,
         Output, Clear, Read, Prompt, Await

(* Editing a line, in the shell or in a program, never changes the output  *)
(* above it, also when it scrolls the screen.                              *)
THEOREM EditingLocal == Spec => EditLeavesRest
<1>1. CInv /\ [Next]_vars =>
        [device = "vga" /\ pc \in Readers =>
           \A p \in Cells : p < screen.home /\ p - screen.home + screen'.home \in Cells =>
             screen'.cell[p - screen.home + screen'.home] = screen.cell[p]]_vars
  BY NextKeepsRest DEF RestKept
<1> QED
  BY <1>1, ConsoleInvariant, PTL DEF Spec, EditLeavesRest
============================================================================
