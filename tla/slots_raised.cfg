CONSTANTS
  t1 = t1  t2 = t2  t3 = t3  t4 = t4
  a = a  b = b  c = c
  Tasks = {t1, t2, t4}
  Engines = {a, b}
  Source <- SameSource
  Target <- SameTarget
  Limits = {1, 2}
  ReadsMayFail = FALSE
SPECIFICATION MCSpec
PROPERTY RaisedLimitReachesQueue
