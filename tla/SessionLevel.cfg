\* An idle flush between SESSION_OPEN and the events of a long session.
CONSTANTS
  s1 = s1
  s2 = s2
  Sessions = {s1, s2}
  Detached = {s1}
  MaxEvents = 1
  MaxLen = 10
  Undecodable = Undecodable
  Bottom = Bottom
  MaxFaults = 0
  MaxBuffered = 10
  MaxBuffers = 2
  ReadCount = 2
  MaxTotal = 1
  MaxScore = 1
  AlertThreshold = 1
  ReportThreshold = 1
  MaxStream = 5
  MaxBad = 0
SPECIFICATION Spec
INVARIANT FingerprintIsSessionLevel
CHECK_DEADLOCK FALSE
