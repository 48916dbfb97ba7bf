--------------------------------- MODULE Vga ---------------------------------
(***************************************************************************)
(* The text screen (vga.c): a matrix of cells, a cursor, and the routines  *)
(* that write one character after the other.  A cell is a character and a  *)
(* colour byte.  current_color is left out: vga_set_color is called by a   *)
(* panic only, after which nothing is read any more.                       *)
(*                                                                         *)
(* `home' is history, not a word of vga.c: the position of a cell someone  *)
(* wants to follow when the screen scrolls.                                *)
(***************************************************************************)
EXTENDS Integers

CONSTANTS
  VGA_ROWS, VGA_COLS,
  Glyphs,              \* the characters a cell can show
  High                 \* those of them above 0x7F

Blank == " "

ASSUME VgaAssumption ==
  /\ VGA_ROWS \in Nat \ {0}
  /\ VGA_COLS \in Nat \ {0}
  /\ High \subseteq Glyphs
  /\ Blank \in Glyphs \ High
  /\ {"newline", "return", "tab", "backspace"} \cap Glyphs = {}

Rows == 0 .. (VGA_ROWS - 1)
Cols == 0 .. (VGA_COLS - 1)

\* Cells are numbered as in the frame buffer.
Cells == 0 .. (VGA_ROWS * VGA_COLS - 1)

\* char is signed: above 0x7F its sign fills the byte of the colour.  make_entry
\* packs "an ASCII character and color"; a char above 0x7F loses the colour.
MakeEntry(c) == [char |-> c, color |-> IF c \in High THEN "all ones" ELSE "current"]

\* 0x7F has a shape on the screen, although it takes back what a user typed.
Entry == {MakeEntry(c) : c \in Glyphs \cup {"delete"}}

Screen == [cell : [Cells -> Entry], row : Rows, col : Cols, home : Int]

Cursor(v) == v.row * VGA_COLS + v.col

Cleared(home) == [cell |-> [p \in Cells |-> MakeEntry(Blank)], row |-> 0, col |-> 0, home |-> home]

----------------------------------------------------------------------------
(* vga_putchar: the character, then the end of the line, then the end of   *)
(* the screen.                                                             *)

Placed(v, c) ==
  CASE c = "newline"   -> [v EXCEPT !.col = 0, !.row = v.row + 1]
    [] c = "return"    -> [v EXCEPT !.col = 0]
    [] c = "tab"       -> [v EXCEPT !.col = ((v.col + 4) \div 4) * 4]
    [] c = "backspace" -> IF v.col > 0 THEN [v EXCEPT !.col = v.col - 1]
                          ELSE IF v.row > 0
                            THEN [v EXCEPT !.row = v.row - 1, !.col = VGA_COLS - 1]
                          ELSE v
    [] OTHER           -> [v EXCEPT !.cell[Cursor(v)] = MakeEntry(c), !.col = v.col + 1]

Wrapped_Late(v) == IF v.col > VGA_COLS THEN [v EXCEPT !.col = 0, !.row = v.row + 1] ELSE v
Wrapped(v) == IF v.col >= VGA_COLS THEN [v EXCEPT !.col = 0, !.row = v.row + 1] ELSE v

Scrolled_CharsOnly(v) ==
  IF v.row >= VGA_ROWS
    THEN [v EXCEPT !.cell = [p \in Cells |->
                               [v.cell[p] EXCEPT !.char = IF p + VGA_COLS \in Cells
                                 THEN v.cell[p + VGA_COLS].char ELSE Blank]],
                   !.row = VGA_ROWS - 1,
                   !.home = v.home - VGA_COLS]
    ELSE v
Scrolled(v) ==
  IF v.row >= VGA_ROWS
    THEN [v EXCEPT !.cell = [p \in Cells |-> IF p + VGA_COLS \in Cells
                                               THEN v.cell[p + VGA_COLS] ELSE MakeEntry(Blank)],
                   !.row = VGA_ROWS - 1,
                   !.home = v.home - VGA_COLS]
    ELSE v

PutChar(v, c) == Scrolled(Wrapped(Placed(v, c)))
============================================================================
