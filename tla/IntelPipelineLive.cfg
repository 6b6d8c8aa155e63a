\* Liveness: no faults, no eviction, no trim; a session may stay open for good.
CONSTANTS
  s1 = s1
  s2 = s2
  Sessions = {s1, s2}
  Detached = {s1}
  MaxEvents = 1
  MaxLen = 10
  Undecodable = Undecodable
  Bottom = Bottom
  MaxFaults = 0
  MaxBuffered = 3
  MaxBuffers = 2
  ReadCount = 2
  MaxTotal = 2
  MaxScore = 1
  AlertThreshold = 1
  ReportThreshold = 1
  MaxStream = 4
  MaxBad = 0
SPECIFICATION FairSpec
PROPERTIES
  EventuallyAcked
  EventuallyFingerprinted
  EventuallyAlerted
  NoticesBackedByRow
CHECK_DEADLOCK FALSE
