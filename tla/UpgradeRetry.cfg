\* Two releases, up to three runs of the script, killed or with a failing pg_dump.
CONSTANTS
  MaxVersion = 2
  MaxUpgrades = 3
  Faults = {"kill", "dump"}
  None = None
SPECIFICATION Spec
INVARIANTS
  CompletedRunsTarget
CHECK_DEADLOCK FALSE
