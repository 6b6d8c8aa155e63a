\* A worker that failed to persist, or crashed, comes back and runs on.
CONSTANTS
  s1 = s1
  s2 = s2
  Sessions = {s1, s2}
  Detached = {s1}
  MaxEvents = 1
  MaxLen = 10
  Undecodable = Undecodable
  Bottom = Bottom
  MaxFaults = 1
  MaxBuffered = 3
  MaxBuffers = 2
  ReadCount = 2
  MaxTotal = 1
  MaxScore = 1
  AlertThreshold = 1
  ReportThreshold = 1
  MaxStream = 3
  MaxBad = 0
SPECIFICATION FairSpec
PROPERTY FailedPersistIsRetried
CHECK_DEADLOCK FALSE
