\* A stage that times out, and a task waiting for the lock.
CONSTANTS
  MaxDeployments = 1
  MaxRuns = 1
  Handlers = {h1}
  TaskHandlers = {h2}
  Pipelines <- OneStage
  Faults = {"timeout"}
SPECIFICATION AllSpec
INVARIANTS
  OneExecution
CHECK_DEADLOCK FALSE
