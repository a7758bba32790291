SPECIFICATION Spec
CONSTANTS
  a1 = a1
  a2 = a2
  b1 = b1
  b2 = b2
  s1 = s1
  s2 = s2
  Aois = {a1, a2}
  Bodies = {b1, b2}
  Keys = {k1}
  Slots = {s1, s2}
  MaxSaves = 2
  NULL = NULL
  Fits <- MCFits
  SourceOf <- MCSourceOf
SYMMETRY Symmetry
INVARIANTS TypeOK SavedFitsAoi OneBatch DeletedIsEmpty
PROPERTIES RetryInsertsNothing OpenedSetUp WorkIsKept SettingsStand
CHECK_DEADLOCK FALSE
