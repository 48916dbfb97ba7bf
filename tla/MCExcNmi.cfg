CONSTANTS
  Faults <- MCFaults
  ProgRsps <- MCProgRsps
  Lines = {"nmi"}
SPECIFICATION Spec
\* The machine really stops: a panic, "halt", or an unhandled exception.
CHECK_DEADLOCK FALSE
INVARIANT
  FrameIntact
