SPECIFICATION Spec
CONSTANTS
  n1 = n1  n2 = n2  t1 = t1  t2 = t2
  None = None
  Timers = {n1}
  Tasks = {t1}
  TimerOf <- OneTimer
  Periods = {3}
PROPERTIES ResolvesOnNextPoll
