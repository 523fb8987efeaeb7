\* One deployment, no faults: a cancel races the worker.
CONSTANTS
  MaxDeployments = 1
  Handlers = {h1}
  Pipelines <- TwoStages
  Faults = {}
SPECIFICATION Spec
PROPERTIES
  CancelledIsFinal
CHECK_DEADLOCK FALSE
