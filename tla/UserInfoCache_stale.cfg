CONSTANTS
  NULL = NULL
  Tokens = {k1, k2}
  Slots = {s1, s2}
  MirrorMayFail = FALSE
SPECIFICATION Spec
INVARIANT NextRequestSeesRole
