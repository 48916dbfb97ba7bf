CONSTANTS
  VGA_ROWS = 3
  VGA_COLS = 2
  Glyphs <- MCGlyphs
  High <- MCHigh
  Devices = {"vga", "serial"}
  LINE_MAX = 3
  ReadLens = {1, 2}
  Keys <- MCKeys
  Normal <- MCNormal
  Shifted <- MCShifted
  SerialChars <- MCSerialChars
  Outputs <- MCOutputs
  MaxCalls = 2
  MaxQueue = 4
SPECIFICATION Spec
INVARIANTS
  TypeOK
  ScreenShowsLine
  LineAsTyped
  ColourKept
PROPERTIES
  EditLeavesRest
