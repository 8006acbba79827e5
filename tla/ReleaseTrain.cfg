\* Two trains; a job, a push or a lookup fails at any point, and one person steps in.
SPECIFICATION TrainSpec
CONSTANTS
  Packages <- Chain
  Changes <- MCChanges
  HandPublished = {"adapter_mcp"}
  MaxTrains = 2
  MaxByHand = 1
INVARIANTS
  MainIsPublished
  NotesAreWhole
PROPERTIES
  PublishedInOrder
  TrainConverges
\* Nothing is left to do once both trains are back on develop.
CHECK_DEADLOCK FALSE
