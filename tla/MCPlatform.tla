----------------------------- MODULE MCPlatform -----------------------------
(***************************************************************************)
(* The parts of the platform side by side: the links and memories that are *)
(* trained, the images and messages, the order in which cores and filters  *)
(* are set up, the clocks, watchdogs and fans.  They share no state with   *)
(* each other: every behaviour runs one of them, which `part` names, and   *)
(* leaves the state of the others alone.  Its constants are those of the   *)
(* parts, and below them what a finite instance is given.                  *)
(***************************************************************************)
EXTENDS Naturals, Sequences, FiniteSets, TLC

CONSTANTS
  Taps, MinWindow, Retries, Margin, DefaultDelay, VideoDelay, Lanes, LaneEnd, Earlier,  \* of Sli
  TrainingAttempts, ImageWords, MaxInfos,                               \* of Phy
  Prebuilts, FirstSoc, BootList, ImageSizes, FmcEnds, Align, InfoSize,  \* of BootImages
  Secondaries, FwWords, MaxResets,                                      \* of Release
  Slots, Opcodes, Entries, Bits, Narrow, Unit, MaxSize, Buses, Addresses,  \* of Filters
  Modulus, Manifests, MaxManifest, MaxCert, CertRooms, Lengths, MaxCalls,  \* of Framing
  BlockWords, MaxDraws, MaxLoops,                                       \* of Feed
  Contexts, MaxOps,                                                     \* of Scu
  Ids, MaxIds, Bank, MaxLists,                                          \* of Policy
  Timeouts, MaxStarts,                                                  \* of Wdt
  InputClock, PwmPeriod, DivMax, Threshold, Minute, Percents, Targets, Rpms, Pulses  \* of Pwm

\* What an earlier calibration may have logged: nothing, or a wide window.
EarlierWindows == {<<0, 0>>, <<1, 4>>}

\* The boot images of the instance that is checked.
TwoImages == <<[id |-> 105, at |-> 8], [id |-> 106, at |-> 16]>>

VARIABLE part   \* the module that runs

\* What the variables of the others hold.
Off == "off"

VARIABLES clk, flags, guarded, logged, delay, spc, link, tap, first, last, win, try, lane,
  lo, hi, seen, windows, cal
slV == <<clk, flags, guarded, logged, delay, spc, link, tap, first, last, win, try, lane,
         lo, hi, seen, windows, cal>>
Sl == INSTANCE Sli WITH Default <- DefaultDelay
SlInit == IF part = "sli" THEN Sl!Init ELSE clk = Off /\ flags = Off /\ guarded = Off
          /\ logged = Off /\ delay = Off /\ spc = Off /\ link = Off /\ tap = Off
          /\ first = Off /\ last = Off /\ win = Off /\ try = Off /\ lane = Off /\ lo = Off
          /\ hi = Off /\ seen = Off /\ windows = Off /\ cal = Off

VARIABLES ddr4, phAt, phTodo, attempt, phPass, mux, csr, imem, dmem, block, mcu, phFw,
  infos, mail, phPending, unread, result, verdict
phV == <<ddr4, phAt, phTodo, attempt, phPass, mux, csr, imem, dmem, block, mcu, phFw, infos,
         mail, phPending, unread, result, verdict>>
Ph == INSTANCE Phy WITH Attempts <- TrainingAttempts, Words <- ImageWords, ResetDrops <- TRUE,
        at <- phAt, todo <- phTodo, pass <- phPass, fw <- phFw, pending <- phPending
PhInit == IF part = "phy" THEN Ph!Init ELSE ddr4 = Off /\ phAt = Off /\ phTodo = Off
          /\ attempt = Off /\ phPass = Off /\ mux = Off /\ csr = Off /\ imem = Off
          /\ dmem = Off /\ block = Off /\ mcu = Off /\ phFw = Off /\ infos = Off
          /\ mail = Off /\ phPending = Off /\ unread = Off /\ result = Off /\ verdict = Off

VARIABLES hw, images, fmc, asth, flsh, source, kind, cursor, slice, dram, turn, loaded
imV == <<hw, images, fmc, asth, flsh, source, kind, cursor, slice, dram, turn, loaded>>
Im == INSTANCE BootImages WITH Sizes <- ImageSizes
ImInit == IF part = "images" THEN Im!Init ELSE hw = Off /\ images = Off /\ fmc = Off
          /\ asth = Off /\ flsh = Off /\ source = Off /\ kind = Off /\ cursor = Off
          /\ slice = Off /\ dram = Off /\ turn = Off /\ loaded = Off

VARIABLES rlTodo, rvbar, ep, mpu, ufsAxi, rel, core, dp, rlFw, helper, e2m, resets
rlV == <<rlTodo, rvbar, ep, mpu, ufsAxi, rel, core, dp, rlFw, helper, e2m, resets>>
Rl == INSTANCE Release WITH todo <- rlTodo, fw <- rlFw
RlInit == IF part = "release" THEN Rl!Init ELSE rlTodo = Off /\ rvbar = Off /\ ep = Off
          /\ mpu = Off /\ ufsAxi = Off /\ rel = Off /\ core = Off /\ dp = Off /\ rlFw = Off
          /\ helper = Off /\ e2m = Off /\ resets = Off

VARIABLES fiPass, select, table, commands, fiPending, size, word, filter, irqEn, fiMask,
  granted
fiV == <<fiPass, select, table, commands, fiPending, size, word, filter, irqEn, fiMask,
         granted>>
Fi == INSTANCE Filters WITH pass <- fiPass, pending <- fiPending, mask <- fiMask
FiInit == IF part \in {"monitor", "bus"} THEN Fi!Init ELSE fiPass = Off /\ select = Off
          /\ table = Off /\ commands = Off /\ fiPending = Off /\ size = Off /\ word = Off
          /\ filter = Off /\ irqEn = Off /\ fiMask = Off /\ granted = Off

VARIABLES call, frStep, datain, dlen, answer, frRet, calls
frV == <<call, frStep, datain, dlen, answer, frRet, calls>>
Fr == INSTANCE Framing WITH step <- frStep, ret <- frRet
FrInit == IF part = "framing" THEN Fr!Init ELSE call = Off /\ frStep = Off /\ datain = Off
          /\ dlen = Off /\ answer = Off /\ frRet = Off /\ calls = Off

VARIABLES feAt, wait, loops, draw, next, data, req, done, ready, fatal, feRet, uc, read,
  blocks
feV == <<feAt, wait, loops, draw, next, data, req, done, ready, fatal, feRet, uc, read,
         blocks>>
Fe == INSTANCE Feed WITH Words <- BlockWords, RequestDrops <- TRUE,
        at <- feAt, ret <- feRet
FeInit == IF part = "feed" THEN Fe!Init ELSE feAt = Off /\ wait = Off /\ loops = Off
          /\ draw = Off /\ next = Off /\ data = Off /\ req = Off /\ done = Off
          /\ ready = Off /\ fatal = Off /\ feRet = Off /\ uc = Off /\ read = Off
          /\ blocks = Off

VARIABLES own, rst, stop, scTodo, ops, scAsked
scV == <<own, rst, stop, scTodo, ops, scAsked>>
Sc == INSTANCE Scu WITH todo <- scTodo, asked <- scAsked
ScInit == IF part = "scu" THEN Sc!Init ELSE own = Off /\ rst = Off /\ stop = Off
          /\ scTodo = Off /\ ops = Off /\ scAsked = Off

VARIABLES maxId, lists, regs, locked, second
poV == <<maxId, lists, regs, locked, second>>
Po == INSTANCE Policy
PoInit == IF part = "policy" THEN Po!Init ELSE maxId = Off /\ lists = Off /\ regs = Off
          /\ locked = Off /\ second = Off

VARIABLES timeout, wdStep, reload, count, en, rstSys, wdMask, down, applied, since, starts
wdV == <<timeout, wdStep, reload, count, en, rstSys, wdMask, down, applied, since, starts>>
Wd == INSTANCE Wdt WITH step <- wdStep, mask <- wdMask
WdInit == IF part = "wdt" THEN Wd!Init ELSE timeout = Off /\ wdStep = Off /\ reload = Off
          /\ count = Off /\ en = Off /\ rstSys = Off /\ wdMask = Off /\ down = Off
          /\ applied = Off /\ since = Off /\ starts = Off

VARIABLES clkEn, pinEn, inverse, div, period, falling, pwAsked, later, target, tach,
  limit, fan
pwV == <<clkEn, pinEn, inverse, div, period, falling, pwAsked, later, target, tach,
         limit, fan>>
Pw == INSTANCE Pwm WITH Clock <- InputClock, Period <- PwmPeriod, asked <- pwAsked
PwInit == IF part = "pwm" THEN Pw!Init ELSE clkEn = Off /\ pinEn = Off /\ inverse = Off
          /\ div = Off /\ period = Off /\ falling = Off /\ pwAsked = Off /\ later = Off
          /\ target = Off /\ tach = Off /\ limit = Off /\ fan = Off

-----------------------------------------------------------------------------
ASSUME PartsAssumption ==
  /\ Sl!SliAssumption /\ Ph!PhyAssumption /\ Im!BootImagesAssumption /\ Rl!ReleaseAssumption
  /\ Fi!FiltersAssumption /\ Fr!FramingAssumption /\ Fe!FeedAssumption /\ Sc!ScuAssumption
  /\ Po!PolicyAssumption /\ Wd!WdtAssumption /\ Pw!PwmAssumption

\* The regions that are protected are few enough for the number of their whole
\* entries to survive `as u8`; what happens beyond, run ProtectWraps shows.
ASSUME SizesFit == ((MaxSize + Unit - 1) \div Unit) \div Bits < Narrow

MCInit ==
          part \in {"sli", "phy", "images", "release", "monitor", "bus", "framing", "feed", "scu", "policy", "wdt", "pwm"}
          /\ SlInit /\ PhInit /\ ImInit /\ RlInit /\ FiInit /\ FrInit /\ FeInit /\ ScInit
          /\ PoInit /\ WdInit /\ PwInit

\* Of all modules only m takes a step.
Only(m) ==
  /\ IF m = "Sli" THEN TRUE ELSE UNCHANGED slV
  /\ IF m = "Phy" THEN TRUE ELSE UNCHANGED phV
  /\ IF m = "BootImages" THEN TRUE ELSE UNCHANGED imV
  /\ IF m = "Release" THEN TRUE ELSE UNCHANGED rlV
  /\ IF m = "Filters" THEN TRUE ELSE UNCHANGED fiV
  /\ IF m = "Framing" THEN TRUE ELSE UNCHANGED frV
  /\ IF m = "Feed" THEN TRUE ELSE UNCHANGED feV
  /\ IF m = "Scu" THEN TRUE ELSE UNCHANGED scV
  /\ IF m = "Policy" THEN TRUE ELSE UNCHANGED poV
  /\ IF m = "Wdt" THEN TRUE ELSE UNCHANGED wdV
  /\ IF m = "Pwm" THEN TRUE ELSE UNCHANGED pwV
  /\ UNCHANGED part

MCNext ==
  \/ part = "sli" /\ Sl!Next /\ Only("Sli")
  \/ part = "phy" /\ Ph!Next /\ Only("Phy")
  \/ part = "images" /\ Im!Next /\ Only("BootImages")
  \/ part = "release" /\ Rl!Next /\ Only("Release")
  \/ part = "monitor" /\ Fi!MonitorNext /\ Only("Filters")
  \/ part = "bus" /\ (Fi!BusNext \/ Fi!Block \/ Fi!ModifyIrq) /\ Only("Filters")
  \/ part = "framing" /\ Fr!Next /\ Only("Framing")
  \/ part = "feed" /\ Fe!Next /\ Only("Feed")
  \/ part = "scu" /\ Sc!Next /\ Only("Scu")
  \/ part = "policy" /\ Po!Next /\ Only("Policy")
  \/ part = "wdt" /\ Wd!Next /\ Only("Wdt")
  \/ part = "pwm" /\ Pw!Next /\ Only("Pwm")

all == <<part, slV, phV, imV, rlV, fiV, frV, feV, scV, poV, wdV, pwV>>
MCSpec == MCInit /\ [][MCNext]_all

TypesOK ==
  /\ part = "sli" => Sl!TypeOK
  /\ part = "phy" => Ph!TypeOK
  /\ part = "images" => Im!TypeOK
  /\ part = "release" => Rl!TypeOK
  /\ part \in {"monitor", "bus"} => Fi!TypeOK
  /\ part = "framing" => Fr!TypeOK
  /\ part = "feed" => Fe!TypeOK
  /\ part = "scu" => Sc!TypeOK
  /\ part = "policy" => Po!TypeOK
  /\ part = "wdt" => Wd!TypeOK
  /\ part = "pwm" => Pw!TypeOK

\* What is believed was measured or said now: a link that worked anywhere in this
\* calibration is set to where it worked, whatever an earlier run has logged, a
\* memory is used only after the firmware of this pass said so, an answer is
\* Caliptra's to this request, and the entropy for it was drawn for it.
Believed ==
  /\ part = "sli" => Sl!Centred
  /\ part = "sli" => Sl!SoundWhenOk
  /\ part = "phy" => Ph!VerdictIsOwn
  /\ part = "framing" => Fr!OnItsWord
  /\ part = "feed" => Fe!FreshEntropy

\* What is handed over, images to the cores and requests to Caliptra, arrives whole
\* and is of nothing earlier.
HandedOver ==
  /\ part = "images" => Im!SliceRight
  /\ part = "images" => Im!LoadedWhole
  /\ part = "framing" => Fr!RequestWhole

\* What a core, a bus, a chip select, a register or a peripheral is left with is
\* what was asked for, and in this order, and so is the program of a pass and its
\* parameters that the microcontroller of the PHY runs.
SetUp ==
  /\ part = "phy" => Ph!RunsItsPass
  /\ part = "release" => Rl!CoresStartRight
  /\ part = "release" => Rl!HelpersStartRight
  /\ part \in {"monitor", "bus"} => Fi!Protected
  /\ part \in {"monitor", "bus"} => Fi!BusesFiltered
  /\ part = "scu" => Sc!AsAskedFor
  /\ part = "policy" => Po!AsListed
  /\ part = "wdt" => Wd!Punctual
  /\ part = "pwm" => Pw!AsAsked
=============================================================================
