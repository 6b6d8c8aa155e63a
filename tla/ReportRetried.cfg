\* A report fails, the worker goes down and comes back.
CONSTANTS
  k1 = k1
  k2 = k2
  d1 = d1
  telegram = telegram
  log = log
  BadNotice = BadNotice
  Keys = {k1, k2}
  Channels = {telegram}
  LogChannel = log
  Documents = {d1}
  BatchSize = 2
  MaxQueue = 1
  MaxVersion = 1
  MaxFaults = 2
SPECIFICATION FairSpec
PROPERTY FailedJobIsRetried
CHECK_DEADLOCK FALSE
