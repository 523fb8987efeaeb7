\* Two runs, no faults: a cancel races the worker.
CONSTANTS
  MaxRuns = 2
  Handlers = {h1}
  Faults = {}
SPECIFICATION Spec
PROPERTIES
  CancelledNeverRuns
CHECK_DEADLOCK FALSE
