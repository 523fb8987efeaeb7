CONSTANTS
  MaxDeployments = 2
  Handlers = {h1}
  Pipelines <- TwoStages
  Faults = {"crash", "stall", "lockTimeout", "timeout", "delete"}
SPECIFICATION UneditedSpec
INVARIANTS
  TypeOK
  StagesInOrder
  CompletedJobSettlesRow
PROPERTIES
  SuccessEarned
  QueuedJobSettles
