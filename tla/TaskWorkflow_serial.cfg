CONSTANTS
  NULL = NULL
  lead = lead
  val = val
  con = con
  Users <- MCUsers
  Tasks = {t1, t2}
  LockIds = {l1, l2, l3}
  Slots = {s1}
  WorkspaceRole <- MCWorkspaceRole
  AllocatedRole <- MCAllocatedRole
  MaxRoleChanges = 1
SPECIFICATION AuditSpec
SYMMETRY Symmetry
CHECK_DEADLOCK FALSE
CONSTRAINT ReviewersChange
INVARIANT TrailTellsStatus
PROPERTY KeepsTheBoard
