\* One deployment and one task run; no stage timeout, no overrun of the TTL.
CONSTANTS
  MaxDeployments = 1
  MaxRuns = 1
  Handlers = {h1}
  TaskHandlers = {h2}
  Pipelines <- OneStage
  Faults = {"crash", "stall", "lockTimeout", "delete"}
SPECIFICATION AllFairSpec
INVARIANTS
  OneExecution
PROPERTIES
  ImplementsMutex
  DeploySettles
