SPECIFICATION PreviewSpec_
CONSTANTS
  Sockets = {s1, s2, s3}
  Shells = {t1, t2, t3}
  MaxTimers = 2
  MaxRequests = 2
  TermRetryMax = 3
  Files = {"empty", "short", "long"}
  Size <- ThreeFiles
  Batches <- SomeBatches
  Docs = {"d", "e"}
  DocSize <- TwoDocs
  Uploads = {1, 2}
  MaxFrames = 3
  Scopes <- Scopes4
  Total = 7
  Chunk = 3
  Tail_ = 3
  Texts <- AllTexts
INVARIANTS NothingTwice
CHECK_DEADLOCK FALSE
