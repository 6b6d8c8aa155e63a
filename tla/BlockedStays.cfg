\* A fire() overlaps a label().
CONSTANTS
  a = a
  b = b
  d1 = d1
  r1 = r1
  r2 = r2
  Players = {a, b}
  Nobody = Nobody
  DuelIds = {d1}
  NoDuel = NoDuel
  Requests = {r1, r2}
  MaxWaves = 2
  MaxFired = 2
SPECIFICATION Spec
INVARIANT BlockedStaysBlocked
CHECK_DEADLOCK FALSE
