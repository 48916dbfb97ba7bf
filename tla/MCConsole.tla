----------------------------- MODULE MCConsole -----------------------------
(***************************************************************************)
(* Console with a screen of three rows of two cells and a line of at most  *)
(* two characters, so that prompt and line cross rows and scroll; programs *)
(* read one or two characters at a time.  The keys are one of the number   *)
(* pad (a digit, nothing with shift, or a cursor key behind a prefix),     *)
(* Enter and Backspace; a terminal sends a digit, a character above 0x7F,  *)
(* return, delete and tab.                                                 *)
(***************************************************************************)
EXTENDS Console

MCGlyphs == {" ", ">", "8", "n~"}
MCHigh == {"n~"}
MCKeys == {"8", "enter", "back"}
MCNormal == [k \in MCKeys |-> CASE k = "8" -> "8"
                                [] k = "enter" -> "newline"
                                [] k = "back" -> "backspace"]
MCShifted == [MCNormal EXCEPT !["8"] = NoChar]
MCSerialChars == {"8", "n~", "return", "delete", "tab"}
MCOutputs == {"8", "n~", "newline", "tab", "backspace", "return"}
============================================================================
