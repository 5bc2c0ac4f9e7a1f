SPECIFICATION AuthoritySpec
CONSTANTS
  Streams = {s1}
  Sockets = {k1, k2}
  MaxSessions = 1
  MaxPending = 2
  Ttl = 1
  Abs = 2
  AuthTimeout = 1
  CheckEvery = 1
  Faults = {}
  MaxAudits = 1
  MaxNow = 4
  Viewers = {v1, v2}
  Pats = {p}
  Logins = {j}
  AuthTtl = 2
  ViewerTimeout = 2
  MaxPendingViewers = 2
  AuthScopes = {"pat", "login", "alarm"}
SYMMETRY Symmetry
INVARIANTS
  LifeIsLimited
  PendingIsTimed
PROPERTIES
  VerdictHolds
  AuthorityIsRecent
  RevokedIsShownNothing
CHECK_DEADLOCK FALSE
