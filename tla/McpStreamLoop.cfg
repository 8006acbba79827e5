\* The producer settles in every way or never; the host cancels at any point
\* where its code runs, callbacks included.
SPECIFICATION McpSpec
CONSTANTS
  Limits <- FewFindings
  Callback = {"cancel"}
  PolicyOps = {"cancel"}
  SignalKinds = {"absent", "events", "polled"}
  MaxAppends = 3
  MaxFinalizes = 1
  MaxPerResult = 2
INVARIANTS
  OkIsTheWholeOutput
  ReturnedHoldsNothing
  LoopIsSound
PROPERTIES
  InOrderOrNotAtAll
  StopIsAnswered
\* A request ends, and a producer may never settle.
CHECK_DEADLOCK FALSE
