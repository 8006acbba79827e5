\* Texts of every kind, values of two levels, contexts of several parts.
SPECIFICATION Spec
CONSTANTS
  Limits <- SmallOperation
  Texts = {short, long}
  LongTexts = {long}
  NoKey = NoKey
  MaxMemo = 2
  MaxDepth = 2
  MaxNodes = 3
INVARIANTS
  DeliveredAsScanned
  FindingsPerOccurrence
  OneBudget
PROPERTIES
  AlwaysReturns
  WholeOrNothing
\* A host makes one operation and may make none.
CHECK_DEADLOCK FALSE
