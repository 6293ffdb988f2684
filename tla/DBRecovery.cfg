\* Two crashes at any step, flush and compaction.
SPECIFICATION Spec
CONSTANTS
  MaxWrites = 2
  MaxFile = 6
  MaxEdits = 3
  MaxCrashes = 2
  Setting <- AllSettings
INVARIANTS AckedSurvive DurableOnDisk NoDangling OpensInOrder
