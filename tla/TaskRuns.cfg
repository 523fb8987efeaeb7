\* Two runs of one task; one request at a time, racing the worker.
CONSTANTS
  MaxRuns = 2
  Handlers = {h1}
  Faults = {"crash", "orphan", "stall", "lockTimeout", "overrun", "delete"}
SPECIFICATION FairSpec
INVARIANTS
  TypeOK
  RunningIsAttended
  KilledRunIsCancelled
  CompletedJobSettlesRun
PROPERTIES
  CancelEndsRun
  QueueAdvances
