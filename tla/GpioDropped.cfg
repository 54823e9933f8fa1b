SPECIFICATION Spec
CONSTANTS
  p1 = p1  p2 = p2  t1 = t1  t2 = t2
  None = None
  Pins = {p1, p2}
  Tasks = {t1, t2}
  PinOf <- OwnPins
  GroupOf <- TwoGroups
  NumGroups = 2
  MaxWaiting = 2
  Senses <- EdgeSenses
  MaxToggles = 2
INVARIANT EdgeNotDropped
