CONSTANTS
  Faults <- MCFaults
  ProgRsps <- MCProgRsps
  Lines = {"nmi", "timer"}
SPECIFICATION Spec
\* The machine really stops: a panic, "halt", or an unhandled exception.
CHECK_DEADLOCK FALSE
INVARIANTS
  TypeOK
  HookScope
  ShellStateKept
  ReportTruthful
  FrameIntactIfNoNmi
  FaultsSurvived
  NoReentry
PROPERTIES
  FaultReported
