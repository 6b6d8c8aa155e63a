\* The worker dies between the claim of a dedup key and the first send.
CONSTANTS
  k1 = k1
  k2 = k2
  d1 = d1
  telegram = telegram
  log = log
  BadNotice = BadNotice
  Keys = {k1, k2}
  Channels = {telegram}
  LogChannel = log
  Documents = {d1}
  BatchSize = 2
  MaxQueue = 3
  MaxVersion = 2
  MaxFaults = 1
SPECIFICATION Spec
INVARIANT DedupedWereAlerted
CHECK_DEADLOCK FALSE
