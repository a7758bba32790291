CONSTANTS
  NULL = NULL
  Users = {creator, member, outsider}
  WorkspaceLeads = {creator}
  Members = {creator, member}
  SignedIn = {creator}
  Slots = {s1, s2}
SPECIFICATION OverlapSpec
SYMMETRY Symmetry
CHECK_DEADLOCK FALSE
INVARIANT TypeOK
INVARIANT RolesOfMembers
PROPERTY PostAddsPatchChanges
PROPERTY RosterUnlessOvertaken
