SPECIFICATION Spec
CONSTANTS
  Providers = {p1, p2}
  Writers = {w1}
  Operators = {o1}
  Readers = {r1}
  Seeders = {s1}
  Nobody = Nobody
  Nothing = Nothing
  Damaged = Damaged
  MAX_READ_ATTEMPTS = 2
  MaxEpoch = 3
  MaxVersion = 3
INVARIANTS
  OwnerIsCurrent
  RosterOfOneEpoch
  NoAlarm
