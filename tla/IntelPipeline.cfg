\* Safety: three sessions, one of them an FTP session, with eviction, the
\* per-session cap, the trim, an undecodable entry and one fault in reach.
\* Every score reaches both thresholds.
CONSTANTS
  s1 = s1
  s2 = s2
  s3 = s3
  Sessions = {s1, s2, s3}
  Detached = {s1}
  MaxEvents = 1
  MaxLen = 3
  Undecodable = Undecodable
  Bottom = Bottom
  MaxFaults = 1
  MaxBuffered = 2
  MaxBuffers = 2
  ReadCount = 2
  MaxTotal = 1
  MaxScore = 0
  AlertThreshold = 0
  ReportThreshold = 0
  MaxStream = 4
  MaxBad = 1
SPECIFICATION Spec
SYMMETRY Symmetry
INVARIANTS
  TypeOK
  StreamBackedByRows
  AckedWereEnriched
  PendingAccounted
  IdsMatchBuffers
  OrderMatchesBuffers
PROPERTIES
  FingerprintMovesForward
  ImplementsLedger
CHECK_DEADLOCK FALSE
