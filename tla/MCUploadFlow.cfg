SPECIFICATION MCLiveSpec
CONSTANTS
  s1 = s1
  u1 = u1
  NoKey = NoKey
  Job <- MCJob
  Server <- MCServer
  Key = {}
  KindOf <- MCKindOf
  ServerOf <- MCServerOf
  KeyOf <- MCKeyOf
  ExecWindow = 1
  UploadWindow = 1
  AgentWindow = 1
  UpdateWindow = 1
  JobTtl = 1
  MaxTime = 2
  MaxConn = 2
  CapsAtConnect <- MCBothCaps
CHECK_DEADLOCK FALSE
PROPERTY EveryObjectGoes
INVARIANTS StagedObjectPresent OnlyResendAbandons
