CONSTANTS
  NULL = NULL
  Users = {u1, u2}
  LockIds = {l1, l2}
  Slots = {s1, s2}
  Timeouts = {1, 2}
  MaxTime = 5
SPECIFICATION Spec
INVARIANTS
  TypeOK
  LeaseStandsOut
PROPERTIES
  OnlyHolderMoves
  HistoryStands
  BackByRenewal
SYMMETRY Symmetry
CHECK_DEADLOCK FALSE
