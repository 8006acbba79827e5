\* onFinding may call back into the stream it reports about; a policy cancels.
SPECIFICATION Spec
CONSTANTS
  Limits <- FewFindings
  Callback = {"append", "finalize", "abort", "cancel"}
  PolicyOps = {"abort", "cancel"}
  SignalKinds = {"absent", "events", "polled"}
  MaxAppends = 3
  MaxFinalizes = 2
  MaxPerResult = 2
INVARIANTS
  AtMostOneRelease
  EndedHoldsNothing
  ReleaseWithinBudget
PROPERTIES
  FailureIsFinal
  SessionCalledWhileOpen
\* The host may stop calling a stream at any point.
CHECK_DEADLOCK FALSE
