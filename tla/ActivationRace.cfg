\* An application and the factories of one runtime race for the selection: a
\* readiness check, which goes the way of a factory that rejects, and a boundary,
\* or two Python factories in two threads.  Each may be called again after a
\* refusal.
SPECIFICATION ActivationSpec
CONSTANTS
  Apps = {app}
  Factories = {}
  Boundaries = {boundary}
  Checks = {check}
  PythonCallers = {filter, processor}
  Selectors = {s1, s2}
  NoSelection = NoSelection
  MaxTries = 2
INVARIANTS
  RunsUnderItsSelection
  RefusedForItsOwnReasons
  PythonLeavesTheChoice
\* Every caller ends.
CHECK_DEADLOCK FALSE
