SPECIFICATION Spec
\* Every part may rest.
CHECK_DEADLOCK FALSE
CONSTANTS
  Users = {"u1", "u2"}
  Learners = {"u1"}
  Txs = {1, 2}
  Posted = {"correct_label", "wrong_label", "lesson_complete", "block"}
  Catalogue <- MCCatalogue
  PlatformBadges = {"globalist"}
  MaxEvents = 3
  MaxWaves = 2
  MaxWindows = 2
  Founders <- MCFounders
  Names <- MCNames
  Emails = {"no address", "mail"}
  Requests = {1, 2}
  SignUpLimit = 2
  SignUpWindow = 2
  ForgotLimit = 1
  ForgotWindow = 1
  AccessTTL = 1
  MaxConcurrent = 2
  LaunchLimit = 2
  LaunchWindow = 2
  TaskTTL = 1
  MaxLaunches = 4
  InviteTTL = 3
  InviteTimeout = 3
  PollPeriod = 1
  RequestTime = 1
  MatchLength = 1
  MaxInvites = 2
  LobbyCrashes = 1
  Clients = {"c1", "c2"}
  SeedLimit = 1
  MaxScored = 3
  PublishFaults = 1
  MaxClock = 3
  Scheduled = {"apt28", "fin7", "scriptKiddie", "sshHydra", "httpRecon", "multiService"}
  AllowAfter = 3
  SiblingLimit = 50
  Dwell = 2
  LongStep = 70
  LostChecks = {0, 5}
  Connections = {"s1", "s2"}
  GrantFrom = 2
  MaxCaptures = 3
  Peers = {"p1"}
  MaxCommands = 3
  CallFaults = 2
  Workers = {"w1", "w2"}
  Addresses = {"a1", "a2"}
  DailyQuota = 2
  MaxDay = 1
  MaxLookups = 4
  LookupFaults = 1
INVARIANTS
  NothingMadeUp
  ScoreboardAgrees
  AdminsRemain
  OneAccountEach
  LimitsHold
  OneMatchPerInvite
  AbandonedIfLate
  FeedMissesOnlyTheGap
  OnlyTheseAreMissed
  GuessedIfUngranted
  CapturesAccounted
  EventsCounted
  QuotaKept
PROPERTIES
  OnlyRacesTakeAway
