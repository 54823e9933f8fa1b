SPECIFICATION MCSpec
CONSTANTS
  t1 = t1  t2 = t2  n1 = n1  p1 = p1  p2 = p2
  None = None
  Tasks = {t1, t2}
  Base = 3  MaxCount = 5  MaxAt = 3
  Level = TRUE
  MaxTicks = 4  MaxWake = 3
INVARIANTS TypesOK ReadExact AlarmCovers
PROPERTIES NobodyEarly AllServed EdgeDelivered
