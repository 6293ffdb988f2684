\* Automatic, seek and manual compactions; snapshots.
SPECIFICATION Spec
CONSTANTS
  Key = {1, 2}
  MaxSeq = 11
  NumLevels = 3
  MaxMemCompactLevel = 1
  L0CompactionTrigger = 2
  GrandParentLimit = 0
  ExpandLimit = 7
  LevelBase = 2
  LevelFactor = 2
  Ranges <- SomeRanges
  Setting <- Settings
INVARIANTS LevelsDisjoint NewestOnTop ReadsAreExact CompactionsComplete
