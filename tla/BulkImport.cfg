\* Two items, uploaded together or in two packages, started at most twice.
CONSTANTS
  Name = {n1, n2}
  Packages = {{n1}, {n1, n2}}
  MaxItems = 2
  MaxUploads = 2
  MaxStarts = 2
  Handlers = {h1}
  Faults = {"crash", "deleteImport", "deleteProject"}
SPECIFICATION FairSpec
INVARIANTS
  TypeOK
PROPERTIES
  ImportedWhole
  FinalStatusHonest
  CancelHonoured
  StartedImportEnds
CHECK_DEADLOCK FALSE
