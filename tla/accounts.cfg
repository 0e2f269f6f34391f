SPECIFICATION Spec
CONSTANTS
  Emails = {ana, ben}
  Requests = {r1, r2}
  SessionLifetime = 1
  RefreshWindow = 0
  LinkLifetime = 0
  Kinds = {"look", "toggle", "delete"}
  MaxUsers = 3
  MaxSessions = 3
  MaxDigests = 3
  MaxLinks = 0
  Horizon = 0
SYMMETRY RequestsAndEmails
INVARIANTS
  AlwaysAWayIn
  SessionsHaveOwners
  ApprovedIsTold
PROPERTIES
  NoSessionComesBack
CHECK_DEADLOCK FALSE
