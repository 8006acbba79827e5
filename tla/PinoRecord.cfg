\* Calls of every form: messages that only their prefix, format or values make
\* detectable, bindings no argument holds, budgets and limits that run out.
SPECIFICATION RecordSpec
CONSTANTS
  Words <- SomeWords
  MsgPrefixes <- SomePrefixes
  Firsts <- SomeFirsts
  Messages <- SomeMessages
  Values <- SomeValues
  Bindings <- SomeBindings
  Budgets = {0, 2, 4, 7, 20}
  Arrays = {1, 3, 9}
  Lines = {2, 9}
  MaxInterpolated = 2
INVARIANTS
  PinoSeesNothingRaw
  NothingRawIsWritten
  CleanRecordIsUntouched
\* A record is written once.
CHECK_DEADLOCK FALSE
