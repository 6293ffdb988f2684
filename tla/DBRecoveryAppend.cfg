\* A failed append, then a crash of the process.
SPECIFICATION Spec
CONSTANTS
  MaxWrites = 2
  MaxFile = 5
  MaxEdits = 3
  MaxCrashes = 2
  Setting <- FaultySetting
INVARIANTS SyncedSurvive
