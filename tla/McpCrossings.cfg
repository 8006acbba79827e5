\* Every operation of the boundary, results of up to two blocks.
SPECIFICATION BoundarySpec
CONSTANTS
  Serialized = {p, q}
  MaxBlocks = 2
INVARIANTS
  AuditedAsAnswered
  DeliveredPassed
PROPERTIES
  NothingPastARefusal
\* A handler may never settle, and a crossing that is answered is over.
CHECK_DEADLOCK FALSE
