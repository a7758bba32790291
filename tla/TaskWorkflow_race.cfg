CONSTANTS
  NULL = NULL
  lead = lead
  val = val
  con = con
  Users <- MCUsers
  Tasks = {t1}
  LockIds = {l1, l2}
  Slots = {s1, s2}
  WorkspaceRole <- MCWorkspaceRole
  AllocatedRole <- MCAllocatedRole
  MaxRoleChanges = 0
SPECIFICATION AuditSpec
SYMMETRY Symmetry
CHECK_DEADLOCK FALSE
INVARIANT NoSelfReview
