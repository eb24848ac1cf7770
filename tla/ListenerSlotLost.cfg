SPECIFICATION ListenerSpec
CONSTANTS
  Leader = leader
  Descendants = {d1, d2}
  Messages = {m1, m2}
  MaxSize = 1
  MaxDeliveries = 2
INVARIANTS
  CoalescedIsAnswered
CHECK_DEADLOCK FALSE
