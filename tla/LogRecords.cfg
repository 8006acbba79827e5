\* Two records, nested or on two threads, in either language.
SPECIFICATION LogSpec
CONSTANTS
  Limits <- SmallLimits
  Threads = {t1, t2}
  Records = {r1, r2}
  Shapes <- SmallShapes
  MaxPasses = 2
SYMMETRY LogSymmetry
INVARIANTS
  NothingRawIsPassedOn
  CountsAreTheRecords
  EachPassIsReported
\* Every record has been logged.
CHECK_DEADLOCK FALSE
