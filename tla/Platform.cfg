SPECIFICATION MCSpec
CONSTANTS
  Taps = 5  MinWindow = 3  Retries = 2  Margin = 2  DefaultDelay = 2  VideoDelay = 2  Lanes = 2  LaneEnd = 5  Earlier <- EarlierWindows
  TrainingAttempts = 2  ImageWords = 2  MaxInfos = 1
  Prebuilts = {1, 2}  FirstSoc = 100  BootList <- TwoImages  ImageSizes = {4, 6, 12}
  FmcEnds = {5}  Align = 8  InfoSize = 8
  Secondaries = {1, 2}  FwWords = 2  MaxResets = 1
  Slots = {1}  Opcodes = {"op"}  Entries = 2  Bits = 2  Narrow = 4  Unit = 2  MaxSize = 14
  Buses = {0, 1}  Addresses = 2
  Modulus = 16  Manifests = {0, 1, 3, 4, 6}  MaxManifest = 5  MaxCert = 6
  CertRooms = {0, 3, 5}  Lengths = {0, 4, 6, 8, 11, 12, 13, 14, 16, 17, 18, 19}  MaxCalls = 2
  BlockWords = 3  MaxDraws = 4  MaxLoops = 3
  Contexts = {1, 2}  MaxOps = 1
  Ids = {0, 1, 7, 8, 13, 17}  MaxIds = {7, 13}  Bank = 8  MaxLists = 2
  Timeouts = {1, 3}  MaxStarts = 3
  InputClock = 20000  PwmPeriod = 256  DivMax = 15  Threshold = 1023  Minute = 60
  Percents = {0, 1, 33, 50, 99, 100}  Targets = {1, 5, 10, 70, 100}
  Rpms = {60, 119, 1000, 1230, 4000}  Pulses = {1, 2}
INVARIANTS TypesOK Believed HandedOver SetUp
CHECK_DEADLOCK FALSE
