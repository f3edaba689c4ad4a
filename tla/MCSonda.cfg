SPECIFICATION Spec
CONSTANTS
  Pid = {p1, p2}
  RingCap = 2
  ChanCap = 2
  MaxKills = 5
INVARIANTS EventsAreKills NoLossBelowCapacity ConfirmedWereTargets
PROPERTY RingDrains
CHECK_DEADLOCK FALSE
