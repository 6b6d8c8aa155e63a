\* Two players and two duels: what challenges, finalizations and their locks
\* of different duels do to each other.  Without waves every duel is a tie.
CONSTANTS
  a = a
  b = b
  d1 = d1
  d2 = d2
  r1 = r1
  r2 = r2
  Players = {a, b}
  Nobody = Nobody
  DuelIds = {d1, d2}
  NoDuel = NoDuel
  Requests = {r1, r2}
  MaxWaves = 0
  MaxFired = 0
SPECIFICATION FairSpec
INVARIANTS
  FinishedWasPaid
  XPAccounted
  OneOpenPerPair
PROPERTIES
  Answered
CHECK_DEADLOCK FALSE
