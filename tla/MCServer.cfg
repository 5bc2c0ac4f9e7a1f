SPECIFICATION FairServerSpec
CONSTANTS
  Handlers = {h1, h2}
  Report <- Reports3
  Scopes <- Scopes3
  First <- First0
  Override = {o0, o1}
  NoOverride = o0
  Ttl = 2
  MaxConn = 3
  Spans <- Spans2
  FeedServers = {1, 2}
  ProbeEvery = 2
  BackfillMax = 1
  Senders <- Senders2
INVARIANTS DropIsFinal OneLiveConnection RevokedIsOut
PROPERTIES OverrideArrives ProbesConverge LinkRecovers FeedResumes
CHECK_DEADLOCK FALSE
