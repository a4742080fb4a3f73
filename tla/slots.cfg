SPECIFICATION MCSpec
CONSTANTS
  t1 = t1  t2 = t2  t3 = t3  t4 = t4
  a = a  b = b  c = c
  Tasks = {t1, t2, t3, t4}
  Engines = {a, b, c}
  Source <- MixedSource
  Target <- MixedTarget
  Limits = {1, 2}
  ReadsMayFail = TRUE
INVARIANTS TypeOK SlotsAccounted NoIdleSlotWhenCalm
PROPERTIES ImplementsLimits EventuallyGranted
