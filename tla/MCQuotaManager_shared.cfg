CONSTANTS
  m1 = m1  m2 = m2  k1 = k1  k2 = k2
  Managers = {m1, m2}
  Keys = {k1}
  Windows = {"perSecond", "perMinute"}
  Duration <- Lengths
  Config <- TwoManagers
  Second = 2
  MaxTime = 8
SPECIFICATION Spec
INVARIANT QuotaInv
INVARIANT SlidingWindow
INVARIANT ResetFrees
