CONSTANTS
  NULL = NULL
  Ids = {here, other}
  Here = here
  Users = {u1, u2}
  POCs = {u1}
  Slots = {s1, s2}
  MayDie = FALSE
SPECIFICATION Spec
PROPERTIES
  DeletesProperly
CHECK_DEADLOCK FALSE
