CONSTANTS
  NULL = NULL
  Ids = {here, other}
  Here = here
  Users = {u1, u2}
  POCs = {u1}
  Slots = {s1, s2}
  MayDie = TRUE
SPECIFICATION Spec
INVARIANTS
  TypeOK
  StraysExplained
  EntriesCurrent
  
PROPERTIES
  GoneStaysClean
SYMMETRY SlotSymmetry
CHECK_DEADLOCK FALSE
