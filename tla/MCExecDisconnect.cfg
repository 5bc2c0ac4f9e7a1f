SPECIFICATION FlowSpec
CONSTANTS
  s1 = s1
  k1 = k1
  e1 = e1
  e2 = e2
  a1 = a1
  a2 = a2
  NoKey = NoKey
  Job <- MCJob
  Server <- MCServer
  Key <- MCKey
  KindOf <- MCKindOf
  ServerOf <- MCServerOf
  KeyOf <- MCKeyOf
  ExecWindow = 0
  UploadWindow = 0
  AgentWindow = 0
  UpdateWindow = 0
  JobTtl = 1
  MaxTime = 2
  MaxConn = 2
  MaxRequests = 1
INVARIANT
  CleanupSparesNewConnection
CONSTRAINT Small
SYMMETRY MCSymmetry
CHECK_DEADLOCK FALSE
