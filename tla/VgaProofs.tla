----------------------------- MODULE VgaProofs -----------------------------
(***************************************************************************)
(* What vga_putchar does to the screen, for every size of it: PutPlain and *)
(* PutMove say where each cell and the cursor go, through the end of a     *)
(* line and the end of the screen.                                         *)
(***************************************************************************)
EXTENDS Vga, TLAPS

Size == VGA_ROWS * VGA_COLS

(* The screen has room for a row; its last row starts a row before its     *)
(* end.                                                                    *)
LEMMA SizeFacts ==
  /\ VGA_ROWS \in Nat \ {0} /\ VGA_COLS \in Nat \ {0}
  /\ Size \in Nat
  /\ Cells = 0 .. (Size - 1)
  /\ (VGA_ROWS - 1) * VGA_COLS = Size - VGA_COLS
  /\ VGA_COLS <= Size
<1>1. VGA_ROWS \in Nat \ {0} /\ VGA_COLS \in Nat \ {0}
  BY VgaAssumption
<1>2. Size \in Nat
  BY <1>1 DEF Size
<1>3. (VGA_ROWS - 1) * VGA_COLS = Size - VGA_COLS
  BY <1>1 DEF Size
<1>4. (VGA_ROWS - 1) * VGA_COLS >= 0
  BY <1>1
<1> QED
  BY <1>1, <1>2, <1>3, <1>4 DEF Cells, Size

(* The first cell of a row.  No other product occurs below.                *)
RowStart(r) == r * VGA_COLS

(* The rows lie one behind the other.                                      *)
LEMMA RowFacts ==
  /\ \A r \in Int : /\ RowStart(r) \in Int
                    /\ RowStart(r + 1) = RowStart(r) + VGA_COLS
                    /\ RowStart(r - 1) = RowStart(r) - VGA_COLS
                    /\ r >= 0 => RowStart(r) >= 0
                    /\ r > 0 => RowStart(r) >= VGA_COLS
                    /\ r < VGA_ROWS => RowStart(r) <= Size - VGA_COLS
  /\ RowStart(0) = 0
  /\ RowStart(VGA_ROWS) = Size
<1>1. VGA_ROWS \in Nat \ {0} /\ VGA_COLS \in Nat \ {0}
  BY VgaAssumption
<1>2. \A x, y \in Int : x >= 0 /\ y >= 0 => x * y >= 0
  OBVIOUS
<1>3. ASSUME NEW r \in Int
      PROVE  /\ RowStart(r) \in Int
             /\ RowStart(r + 1) = RowStart(r) + VGA_COLS
             /\ RowStart(r - 1) = RowStart(r) - VGA_COLS
  BY <1>1 DEF RowStart
<1>4. ASSUME NEW r \in Int, r >= 0 PROVE RowStart(r) >= 0
  BY <1>1, <1>2, <1>4 DEF RowStart
<1>5. ASSUME NEW r \in Int, r > 0 PROVE RowStart(r) >= VGA_COLS
  <2>1. RowStart(r - 1) >= 0
    BY <1>4, <1>5
  <2> QED
    BY <1>1, <1>3, <2>1
<1>6. ASSUME NEW r \in Int, r < VGA_ROWS PROVE RowStart(r) <= Size - VGA_COLS
  <2>1. (VGA_ROWS - 1 - r) * VGA_COLS >= 0
    BY <1>1, <1>2, <1>6
  <2>2. (VGA_ROWS - 1 - r) * VGA_COLS = Size - VGA_COLS - r * VGA_COLS
    BY <1>1 DEF Size
  <2> QED
    BY <1>1, <2>1, <2>2, SizeFacts DEF RowStart
<1>7. RowStart(0) = 0 /\ RowStart(VGA_ROWS) = Size
  BY <1>1 DEF RowStart, Size
<1> QED
  BY <1>3, <1>4, <1>5, <1>6, <1>7

----------------------------------------------------------------------------
(* A screen in the middle of vga_putchar: the cursor may be one row below. *)
Unscrolled == [cell : [Cells -> Entry], row : 0 .. VGA_ROWS, col : Cols, home : Int]

(* What shows in a cell.                                                   *)
LEMMA EntryFacts == /\ MakeEntry(Blank) \in Entry
                    /\ \A c \in Glyphs \cup {"delete"} : MakeEntry(c) \in Entry
                    /\ \A c : MakeEntry(c).char = c
  BY VgaAssumption DEF Entry, MakeEntry

(* The cursor is a cell of the screen, or of the row below it.             *)
LEMMA CursorFacts ==
  ASSUME NEW v \in Unscrolled
  PROVE  /\ Cursor(v) \in Nat
         /\ Cursor(v) = RowStart(v.row) + v.col
         /\ v.row < VGA_ROWS <=> Cursor(v) < Size
         /\ v.row = VGA_ROWS => Cursor(v) = Size + v.col
         /\ Cursor(v) = 0 <=> v.row = 0 /\ v.col = 0
<1>1. v.row \in 0 .. VGA_ROWS /\ v.col \in 0 .. (VGA_COLS - 1)
  BY DEF Unscrolled, Cols
<1>2. Cursor(v) = RowStart(v.row) + v.col
  BY DEF Cursor, RowStart
<1>3. v.row = 0 \/ v.row > 0
  BY <1>1, SizeFacts
<1>4. v.row = VGA_ROWS \/ v.row < VGA_ROWS
  BY <1>1, SizeFacts
<1>5. /\ VGA_ROWS \in Nat /\ VGA_COLS \in Nat /\ Size \in Nat /\ v.row \in Int /\ v.col \in Int
      /\ v.row >= 0 /\ v.col >= 0 /\ v.col < VGA_COLS
  BY <1>1, SizeFacts
<1>6. /\ RowStart(v.row) \in Int /\ RowStart(v.row) >= 0
      /\ v.row > 0 => RowStart(v.row) >= VGA_COLS
      /\ v.row < VGA_ROWS => RowStart(v.row) <= Size - VGA_COLS
      /\ v.row = 0 => RowStart(v.row) = 0
      /\ v.row = VGA_ROWS => RowStart(v.row) = Size
  BY <1>5, RowFacts
<1> QED
  BY <1>2, <1>3, <1>4, <1>5, <1>6

(* The end of a line: the cursor moves on to the next cell, or not at      *)
(* all, and no cell changes.                                               *)
LEMMA WrapFacts ==
  ASSUME NEW v \in [cell : [Cells -> Entry], row : Rows, col : Nat, home : Int]
  PROVE  /\ Wrapped(v) \in Unscrolled
         /\ Wrapped(v).cell = v.cell /\ Wrapped(v).home = v.home
         /\ v.col < VGA_COLS => Wrapped(v) = v
         /\ v.col = VGA_COLS => Cursor(Wrapped(v)) = Cursor(v)
<1>1. v.row \in 0 .. (VGA_ROWS - 1) /\ v.col \in Nat
  BY DEF Rows
<1>2. CASE v.col < VGA_COLS
  BY <1>1, <1>2, SizeFacts DEF Wrapped, Unscrolled, Rows, Cols
<1>3. CASE v.col >= VGA_COLS
  <2>1. Wrapped(v) = [v EXCEPT !.col = 0, !.row = v.row + 1]
    BY <1>1, <1>3, SizeFacts DEF Wrapped
  <2>2. Wrapped(v) = [cell |-> v.cell, row |-> v.row + 1, col |-> 0, home |-> v.home]
    BY <2>1
  <2>3. Wrapped(v) \in Unscrolled
    BY <1>1, <2>2, SizeFacts DEF Unscrolled, Cols
  <2>4. v.col = VGA_COLS => Cursor(Wrapped(v)) = Cursor(v)
    BY <1>1, <2>2, SizeFacts, RowFacts DEF Cursor, RowStart
  <2> QED
    BY <1>1, <1>3, <2>2, <2>3, <2>4, SizeFacts
<1> QED
  BY <1>1, <1>2, <1>3, SizeFacts

(* The end of the screen: cells and cursor move up together, by `s'        *)
(* cells.                                                                  *)
LEMMA ScrollFacts ==
  ASSUME NEW v \in Unscrolled,
         NEW w, w = Scrolled(v),
         NEW s, s = v.home - w.home
  PROVE  /\ w \in Screen
         /\ s = IF Cursor(v) < Size THEN 0 ELSE VGA_COLS
         /\ Cursor(w) = Cursor(v) - s
         /\ \A q \in Cells : w.cell[q] = IF q + s \in Cells THEN v.cell[q + s]
                                                        ELSE MakeEntry(Blank)
<1>1. v.row \in 0 .. VGA_ROWS /\ v.col \in Cols /\ v.home \in Int /\ v.cell \in [Cells -> Entry]
  BY DEF Unscrolled
<1>2. CASE v.row < VGA_ROWS
  <2>1. w = v /\ s = 0
    BY <1>1, <1>2, SizeFacts DEF Scrolled
  <2>2. w \in Screen
    BY <1>1, <1>2, <2>1, SizeFacts DEF Screen, Unscrolled, Rows
  <2> QED
    BY <1>2, <2>1, <2>2, CursorFacts, SizeFacts
<1>3. CASE v.row = VGA_ROWS
  <2> DEFINE cells == [p \in Cells |-> IF p + VGA_COLS \in Cells
                                         THEN v.cell[p + VGA_COLS] ELSE MakeEntry(Blank)]
  <2>1. w = [v EXCEPT !.cell = cells, !.row = VGA_ROWS - 1, !.home = v.home - VGA_COLS]
    BY <1>1, <1>3, SizeFacts DEF Scrolled
  <2>2. cells \in [Cells -> Entry]
    BY <1>1, EntryFacts
  <2>3. \A q \in Cells : cells[q] = IF q + VGA_COLS \in Cells THEN v.cell[q + VGA_COLS]
                                                               ELSE MakeEntry(Blank)
    OBVIOUS
  <2> HIDE DEF cells
  <2>4. w = [cell |-> cells, row |-> VGA_ROWS - 1, col |-> v.col, home |-> v.home - VGA_COLS]
    BY <2>1 DEF Unscrolled
  <2>5. s = VGA_COLS
    BY <1>1, <2>4, SizeFacts
  <2>6. w \in Screen
    BY <1>1, <2>2, <2>4, SizeFacts DEF Screen, Rows
  <2>7. Cursor(w) = Cursor(v) - VGA_COLS
    <3>1. Cursor(w) = RowStart(VGA_ROWS - 1) + v.col
      BY <2>4 DEF Cursor, RowStart
    <3>2. Cursor(v) = Size + v.col
      BY <1>3, CursorFacts
    <3>3. RowStart(VGA_ROWS - 1) = Size - VGA_COLS
      BY SizeFacts, RowFacts, VGA_ROWS \in Int
    <3> QED
      BY <1>1, <3>1, <3>2, <3>3, SizeFacts DEF Cols
  <2> QED
    BY <1>3, <2>3, <2>4, <2>5, <2>6, <2>7, CursorFacts, SizeFacts
<1> QED
  BY <1>1, <1>2, <1>3, SizeFacts

----------------------------------------------------------------------------
Plain == Glyphs \cup {"delete"}
Moves == {"newline", "return", "tab", "backspace"}

(* A character with a shape stands where the cursor was, whatever          *)
(* scrolls; every other cell keeps what it showed, and the cursor moves    *)
(* one cell on.                                                            *)
LEMMA PutPlain ==
  ASSUME NEW v \in Screen, NEW c \in Plain,
         NEW w, w = PutChar(v, c), NEW s, s = v.home - w.home
  PROVE  /\ w \in Screen
         /\ s = IF Cursor(v) + 1 = Size THEN VGA_COLS ELSE 0
         /\ Cursor(w) = Cursor(v) + 1 - s
         /\ \A q \in Cells : w.cell[q] = IF q + s = Cursor(v) THEN MakeEntry(c)
                                         ELSE IF q + s \in Cells THEN v.cell[q + s]
                                         ELSE MakeEntry(Blank)
<1> DEFINE p == Cursor(v)
           u == [cell |-> [v.cell EXCEPT ![p] = MakeEntry(c)], row |-> v.row,
                 col |-> v.col + 1, home |-> v.home]
<1>1. /\ v.row \in 0 .. (VGA_ROWS - 1) /\ v.col \in 0 .. (VGA_COLS - 1)
      /\ v.home \in Int /\ v.cell \in [Cells -> Entry]
  BY DEF Screen, Rows, Cols
<1>2. v \in Unscrolled /\ v.row < VGA_ROWS
  BY <1>1, SizeFacts DEF Screen, Unscrolled, Rows
<1>3. p \in Cells /\ p \in Nat /\ p < Size
  BY <1>2, CursorFacts, SizeFacts
<1>4. Placed(v, c) = u
  <2>1. c \notin Moves
    BY VgaAssumption DEF Plain, Moves
  <2>2. Placed(v, c) = [v EXCEPT !.cell[Cursor(v)] = MakeEntry(c), !.col = v.col + 1]
    BY <2>1 DEF Placed, Moves
  <2> QED
    BY <2>2 DEF Screen
<1>5. MakeEntry(c) \in Entry
  BY EntryFacts DEF Plain
<1>6. /\ u \in [cell : [Cells -> Entry], row : Rows, col : Nat, home : Int]
      /\ u.col <= VGA_COLS /\ u.home = v.home
      /\ \A q \in Cells : u.cell[q] = IF q = p THEN MakeEntry(c) ELSE v.cell[q]
  <2>1. u.cell \in [Cells -> Entry]
    BY <1>1, <1>5
  <2>2. \A q \in Cells : u.cell[q] = IF q = p THEN MakeEntry(c) ELSE v.cell[q]
    BY <1>1
  <2>3. v.row \in Rows /\ v.col + 1 \in Nat /\ v.col + 1 <= VGA_COLS
    BY <1>1, SizeFacts DEF Rows
  <2> QED
    BY <1>1, <2>1, <2>2, <2>3
<1>7. Cursor(u) = p + 1
  BY <1>1, RowFacts DEF Cursor, RowStart
<1> HIDE DEF p, u
<1> DEFINE x == Wrapped(u)
<1>8. x \in Unscrolled /\ x.cell = u.cell /\ x.home = u.home /\ Cursor(x) = p + 1
  BY <1>6, <1>7, WrapFacts, SizeFacts
<1>9. w = Scrolled(x)
  BY <1>4 DEF PutChar
<1> HIDE DEF x
<1>10. s = x.home - w.home
  BY <1>6, <1>8
<1>11. /\ w \in Screen
       /\ s = IF p + 1 < Size THEN 0 ELSE VGA_COLS
       /\ Cursor(w) = p + 1 - s
       /\ \A q \in Cells : w.cell[q] = IF q + s \in Cells THEN u.cell[q + s] ELSE MakeEntry(Blank)
  <2>1. /\ w \in Screen
        /\ s = IF Cursor(x) < Size THEN 0 ELSE VGA_COLS
        /\ Cursor(w) = Cursor(x) - s
        /\ \A q \in Cells : w.cell[q] = IF q + s \in Cells THEN x.cell[q + s]
                                                       ELSE MakeEntry(Blank)
    BY <1>8, <1>9, <1>10, ScrollFacts
  <2>2. x.cell = u.cell /\ Cursor(x) = p + 1
    BY <1>8
  <2>3. s = IF p + 1 < Size THEN 0 ELSE VGA_COLS
    <3>1. s = IF Cursor(x) < Size THEN 0 ELSE VGA_COLS
      BY <2>1
    <3> QED
      BY <3>1, <2>2, Zenon
  <2>4. Cursor(w) = p + 1 - s
    <3>1. Cursor(w) = Cursor(x) - s
      BY <2>1
    <3>2. s \in Int /\ p \in Int /\ Cursor(x) = p + 1
      BY <1>3, <2>2, <2>3, SizeFacts
    <3> QED
      BY <3>1, <3>2, SMT
  <2>5. \A q \in Cells : w.cell[q] = IF q + s \in Cells THEN u.cell[q + s] ELSE MakeEntry(Blank)
    BY <2>1, <2>2
  <2> QED
    BY <2>1, <2>3, <2>4, <2>5
<1>12. p + 1 < Size <=> p + 1 # Size
  BY <1>3, SizeFacts
<1>13. \A q \in Cells : w.cell[q] = IF q + s = p THEN MakeEntry(c)
                                    ELSE IF q + s \in Cells THEN v.cell[q + s]
                                    ELSE MakeEntry(Blank)
  BY <1>3, <1>6, <1>11
<1> QED
  BY <1>11, <1>12, <1>13 DEF p

(* The other characters move the cursor and change no cell, but for a      *)
(* scroll; a backspace moves it one cell back, across the start of a row   *)
(* too, and stops in the corner.                                           *)
LEMMA PutMove ==
  ASSUME NEW v \in Screen, NEW c \in Moves,
         NEW w, w = PutChar(v, c), NEW s, s = v.home - w.home
  PROVE  /\ w \in Screen
         /\ s \in {0, VGA_COLS}
         /\ \A q \in Cells : w.cell[q] = IF q + s \in Cells THEN v.cell[q + s]
                                                        ELSE MakeEntry(Blank)
         /\ c = "backspace" => /\ w.home = v.home /\ w.cell = v.cell
                               /\ Cursor(w) = IF Cursor(v) = 0 THEN 0 ELSE Cursor(v) - 1
<1> DEFINE u == Placed(v, c)
           x == Wrapped(u)
<1>1. /\ v.row \in 0 .. (VGA_ROWS - 1) /\ v.col \in 0 .. (VGA_COLS - 1)
      /\ v.home \in Int /\ v.cell \in [Cells -> Entry]
      /\ v = [cell |-> v.cell, row |-> v.row, col |-> v.col, home |-> v.home]
  BY DEF Screen, Rows, Cols
<1>2. v \in Unscrolled /\ v.row < VGA_ROWS
  BY <1>1, SizeFacts DEF Screen, Unscrolled, Rows
<1>3. w = Scrolled(x)
  BY DEF PutChar
<1>4. CASE c = "newline"
  <2>1. u = [cell |-> v.cell, row |-> v.row + 1, col |-> 0, home |-> v.home]
    BY <1>1, <1>4 DEF Placed
  <2>2. x = u
    BY <2>1, SizeFacts DEF Wrapped
  <2>3. x \in Unscrolled /\ x.cell = v.cell /\ x.home = v.home
    BY <1>1, <2>1, <2>2, SizeFacts DEF Unscrolled, Cols
  <2> HIDE DEF u, x
  <2> QED
    BY <1>3, <1>4, <2>3, ScrollFacts
<1>5. CASE c \in {"return", "tab"}
  <2>1. PICK col \in Nat : u = [cell |-> v.cell, row |-> v.row, col |-> col, home |-> v.home]
    <3>1. ((v.col + 4) \div 4) * 4 \in Nat
      BY <1>1
    <3>2. CASE c = "return"
      BY <1>1, <3>2 DEF Placed
    <3>3. CASE c = "tab"
      BY <1>1, <3>1, <3>3 DEF Placed
    <3> QED
      BY <1>5, <3>2, <3>3
  <2>2. u \in [cell : [Cells -> Entry], row : Rows, col : Nat, home : Int]
    BY <1>1, <2>1 DEF Rows
  <2>3. u.cell = v.cell /\ u.home = v.home
    BY <2>1
  <2> HIDE DEF u
  <2>4. x \in Unscrolled /\ x.cell = v.cell /\ x.home = v.home
    BY <2>2, <2>3, WrapFacts
  <2> HIDE DEF x
  <2> QED
    BY <1>3, <1>5, <2>4, ScrollFacts
<1>6. CASE c = "backspace"
  <2>1. u = [cell |-> v.cell, home |-> v.home,
             row |-> IF v.col = 0 /\ v.row > 0 THEN v.row - 1 ELSE v.row,
             col |-> IF v.col > 0 THEN v.col - 1
                     ELSE IF v.row > 0 THEN VGA_COLS - 1 ELSE 0]
    <3>1. CASE v.col > 0
      BY <1>1, <1>6, <3>1 DEF Placed
    <3>2. CASE v.col = 0 /\ v.row > 0
      <4>1. u = [v EXCEPT !.row = v.row - 1, !.col = VGA_COLS - 1]
        BY <1>1, <1>6, <3>2 DEF Placed
      <4>2. u = [cell |-> v.cell, row |-> v.row - 1, col |-> VGA_COLS - 1, home |-> v.home]
        BY <1>1, <4>1
      <4> QED
        BY <3>2, <4>2
    <3>3. CASE v.col = 0 /\ v.row = 0
      BY <1>1, <1>6, <3>3 DEF Placed
    <3> QED
      BY <1>1, <3>1, <3>2, <3>3
  <2>2. /\ u \in Unscrolled /\ u.cell = v.cell /\ u.home = v.home
        /\ u.row \in 0 .. (VGA_ROWS - 1) /\ u.col \in 0 .. (VGA_COLS - 1)
    <3>1. u.row \in 0 .. (VGA_ROWS - 1) /\ u.col \in 0 .. (VGA_COLS - 1)
      BY <1>1, <2>1, SizeFacts
    <3> QED
      BY <1>1, <2>1, <3>1, SizeFacts DEF Unscrolled, Cols
  <2>3. Cursor(u) = IF Cursor(v) = 0 THEN 0 ELSE Cursor(v) - 1
    <3>1. CASE v.col > 0
      BY <1>1, <1>2, <2>1, <3>1, CursorFacts, RowFacts DEF Cursor, RowStart
    <3>2. CASE v.col = 0 /\ v.row > 0
      <4>1. Cursor(u) = RowStart(v.row - 1) + VGA_COLS - 1
        BY <1>1, <2>1, <3>2, SizeFacts DEF Cursor, RowStart
      <4>2. Cursor(v) = RowStart(v.row) /\ Cursor(v) # 0
        BY <1>2, <1>1, <3>2, CursorFacts, RowFacts
      <4>3. RowStart(v.row - 1) = RowStart(v.row) - VGA_COLS /\ RowStart(v.row) \in Int
        BY <1>1, RowFacts, v.row \in Int
      <4> QED
        BY <1>1, <4>1, <4>2, <4>3, SizeFacts
    <3>3. CASE v.col = 0 /\ v.row = 0
      <4>1. Cursor(u) = RowStart(0) + 0
        BY <2>1, <3>3 DEF Cursor, RowStart
      <4> QED
        BY <1>2, <3>3, <4>1, CursorFacts, RowFacts
    <3> QED
      BY <1>1, <3>1, <3>2, <3>3
  <2> HIDE DEF u
  <2>4. x = u
    BY <2>2, SizeFacts DEF Wrapped
  <2>5. w = u
    BY <1>3, <2>2, <2>4, SizeFacts DEF Scrolled
  <2>6. w \in Screen
    BY <2>2, <2>5 DEF Unscrolled, Screen, Rows
  <2>7. s = 0
    BY <1>1, <2>2, <2>5
  <2> QED
    BY <1>1, <1>6, <2>2, <2>3, <2>5, <2>6, <2>7, SizeFacts
<1> QED
  BY <1>4, <1>5, <1>6 DEF Moves
============================================================================
