\* One request at a time; a delete stops after it has released the port.
CONSTANTS
  Project = {p1, p2}
  MinPort = 2
  MaxPort = 3
  Requested = {3}
  Handlers = {h1}
  Free = Free
  NoEntry = NoEntry
SPECIFICATION Spec
INVARIANTS
  SettledPortsExclusive
CHECK_DEADLOCK FALSE
