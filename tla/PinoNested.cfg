\* Records nested in each other wherever host code runs; orphan lines alone.
SPECIFICATION PinoSpec
CONSTANTS
  BareLines = {"alone"}
  MaxRecords = 4
  MaxValues = 1
INVARIANTS
  ReportedOnce
  CountsAddUp
\* The host may stop logging at any point.
CHECK_DEADLOCK FALSE
