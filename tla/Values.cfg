\* Values of any width, three deep, of two objects.
SPECIFICATION WalkSpec
CONSTANTS
  Limits <- SmallLimits
  Objects = {a, b}
  MaxDepth = 3
  MaxWidth = 2
  MaxNodes = 5
  MaxLeaves = 2
SYMMETRY WalkSymmetry
INVARIANTS
  NothingRawIsReturned
  CountedWithinLimits
\* The walk has returned.
CHECK_DEADLOCK FALSE
