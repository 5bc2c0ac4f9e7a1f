SPECIFICATION SharedSpec
CONSTANTS
  s1 = s1
  k1 = k1
  u1 = u1
  u2 = u2
  a1 = a1
  a2 = a2
  e1 = e1
  e2 = e2
  v1 = v1
  v2 = v2
  r1 = r1
  r2 = r2
  NoKey = NoKey
  Job <- MCJob
  Server <- MCServer
  Key <- MCKey
  KindOf <- MCKindOf
  ServerOf <- MCServerOf
  KeyOf <- MCKeyOf
  Viewer <- MCViewer
  Reader <- MCReader
  ExecWindow = 1
  UploadWindow = 1
  AgentWindow = 1
  UpdateWindow = 1
  JobTtl = 2
  MaxTime = 3
  MaxRows = 2
  MaxPending = 2
  MaxConn = 2
  MaxWrites = 1
CONSTRAINT Small
SYMMETRY MCSymmetry
INVARIANTS
  ExpiredWasOverdue
  AnswersFollowClears
  RateSettles
PROPERTY
  ImplementsLifecycle
CHECK_DEADLOCK FALSE
