SPECIFICATION MCSpec
CONSTANTS
  p1 = p1  p2 = p2  t1 = t1  t2 = t2  c1 = c1  c2 = c2
  None = None  Gone = Gone
  Pins = {p1, p2}
  Tasks = {t1, t2}
  PinOf <- OwnPins
  GroupOf <- TwoGroups
  NumGroups = 2
  MaxWaiting = 1
  Senses <- MixedSenses
  MaxToggles = 2
  Masters = {t1}  Channels = {c1}  ChOf <- OneChannel  MaxPhases = 2
  I3cTasks = {t1}  Devices = {c1, c2}  MaxSlots = 2  MaxDrops = 1  MaxWords = 1
  Sleepers = {t1, t2}  Timers = {c1, c2}  TimerOf <- OwnTimers  Periods = {1}
  Hashers = {t1, t2}
  Signers = {t1}  Verifiers = {t2}
  Handles = {t1, t2}  EccOf <- OneEcc  OtpWords = {0, 1}  MaxBatch = 2
  Watchers = {t1}  Groups <- SgpioGroups  Bits = {p1}
  Flashers = {t1, t2}  DmaReaders = {p1, p2}
  Ids = {0, 1}  NumWords = 2  MaxSends = 3
  Randoms = {t1, t2}  MaxPolls = 2  MaxLen = 5  MaxRandoms = 3
  Copier = t1  Starter = c1  Bytes = 2  MaxBytes = 3  Tries = 2
INVARIANTS TypeOK PoolSound NoLostWakeup NoLostEdge TypesOK NoLostWakeups OwnAnswers NothingLost
CHECK_DEADLOCK FALSE
