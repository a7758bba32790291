CONSTANTS
  NULL = NULL
  Users = {creator, member, outsider}
  WorkspaceLeads = {creator}
  Members = {creator, member}
  SignedIn = {creator}
  Slots = {s1, s2}
SPECIFICATION Spec
CHECK_DEADLOCK FALSE
PROPERTY LastLeadStays
