SPECIFICATION FlowSpec
CONSTANTS
  s1 = s1
  u1 = u1
  NoKey = NoKey
  Job <- MCJob
  Server <- MCServer
  Key = {}
  KindOf <- MCKindOf
  ServerOf <- MCServerOf
  KeyOf <- MCKeyOf
  ExecWindow = 1
  UploadWindow = 1
  AgentWindow = 1
  UpdateWindow = 1
  JobTtl = 2
  MaxTime = 3
  MaxConn = 2
  CapsAtConnect <- MCCodeCaps
CHECK_DEADLOCK FALSE
CONSTRAINT Small
INVARIANT ReconnectRedelivers
