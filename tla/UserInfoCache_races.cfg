CONSTANTS
  NULL = NULL
  Tokens = {k1, k2}
  Slots = {s1, s2}
  MirrorMayFail = TRUE
SPECIFICATION Spec
INVARIANT TypeOK
INVARIANT StaleOnlyByRace
INVARIANT CutOffOnlyByRace
PROPERTY SettledRoleServed
