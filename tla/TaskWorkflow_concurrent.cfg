CONSTANTS
  NULL = NULL
  lead = lead
  val = val
  Users <- MCUsers
  Tasks = {t1}
  LockIds = {l1, l2}
  Slots = {s1, s2}
  WorkspaceRole <- MCWorkspaceRole
  AllocatedRole <- MCAllocatedRole
  MaxRoleChanges = 1
SPECIFICATION OverlapSpec
SYMMETRY Symmetry
CHECK_DEADLOCK FALSE
CONSTRAINT ReviewerDemoted
CONSTRAINT RacedInReview
INVARIANT TypeOK
INVARIANT LocksExclusive
INVARIANT UnmappedHasNoMapper
INVARIANT RemapHasFeedback
INVARIANT DeletedIsEmpty
INVARIANT SafeUntilRace
PROPERTY KeepsTheSetup
PROPERTY BoardUntilRace
PROPERTY RecordsUntilRace
