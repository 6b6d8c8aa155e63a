\* Two dedup keys, one transport besides the log, one document that is
\* enriched again, three entries in all, one fault anywhere.
CONSTANTS
  k1 = k1
  k2 = k2
  d1 = d1
  telegram = telegram
  log = log
  BadNotice = BadNotice
  Keys = {k1, k2}
  Channels = {telegram}
  LogChannel = log
  Documents = {d1}
  BatchSize = 2
  MaxQueue = 3
  MaxVersion = 2
  MaxFaults = 1
SPECIFICATION FairSpec
INVARIANTS
  NoticesTypeOK
  RecordedIfAcked
  DedupedWereTold
  FreshOnceAcked
  FileBehindRow
PROPERTIES
  EveryNoticeEnds
CHECK_DEADLOCK FALSE
