\* One duel with two waves and up to three fire() calls: what two requests
\* for the same duel do to each other, and to duels whose requests do not meet.
CONSTANTS
  a = a
  b = b
  d1 = d1
  r1 = r1
  r2 = r2
  Players = {a, b}
  Nobody = Nobody
  DuelIds = {d1}
  NoDuel = NoDuel
  Requests = {r1, r2}
  MaxWaves = 2
  MaxFired = 3
SPECIFICATION Spec
SYMMETRY Symmetry
INVARIANTS
  DuelTypeOK
  PaidOnceForItsWaves
  BlockedIfConfirmed
PROPERTIES
  ImplementsRules
CHECK_DEADLOCK FALSE
