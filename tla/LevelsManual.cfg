\* CompactRange while another client writes; the code's numbers of levels.
SPECIFICATION Spec
CONSTANTS
  Key = {1, 2, 3}
  MaxSeq = 6
  NumLevels = 7
  MaxMemCompactLevel = 2
  L0CompactionTrigger = 4
  GrandParentLimit = 0
  ExpandLimit = 5
  LevelBase = 6
  LevelFactor = 2
  Ranges <- FullRange
  Setting <- Busy
INVARIANT LevelsDisjoint
