SPECIFICATION Spec
CONSTANTS
  Emails = {ana}
  Requests = {r1, r2}
  SessionLifetime = 3
  RefreshWindow = 2
  LinkLifetime = 1
  Kinds = {"look", "sign_out", "change", "mail"}
  MaxUsers = 1
  MaxSessions = 2
  MaxDigests = 2
  MaxLinks = 1
  Horizon = 4
SYMMETRY RequestsAndEmails
INVARIANTS
  VisitorsStay
PROPERTIES
  EndedForGood
  OldLinksFail
CHECK_DEADLOCK FALSE
