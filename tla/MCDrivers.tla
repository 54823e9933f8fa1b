----------------------------- MODULE MCDrivers ------------------------------
(***************************************************************************)
(* The drivers side by side.  They share no state with each other: every   *)
(* behaviour runs one of them, which `part` names, and leaves the state of *)
(* the others alone.  Its constants are those of the drivers, and below    *)
(* them the functions that a finite instance is given.                     *)
(***************************************************************************)
EXTENDS Gpio, TLC

CONSTANTS
  Gone,                                                 \* a call that is over
  Masters, Channels, ChOf, MaxPhases,                   \* of I2c
  I3cTasks, Devices, MaxSlots, MaxDrops, MaxWords,      \* of I3c
  Sleepers, Timers, TimerOf, Periods,                   \* of Timer
  Hashers,                                              \* of Hace
  Signers, Verifiers,                                   \* of Secure
  Handles, EccOf, OtpWords, MaxBatch,                   \* of Otp
  Watchers, Groups, Bits,                               \* of Sgpio
  Flashers, DmaReaders,                                 \* of Nor
  Ids, NumWords, MaxSends,                              \* of Ipc1
  Randoms, MaxPolls, MaxLen, MaxRandoms,                \* of Trng
  Copier, Starter, Bytes, MaxBytes, Tries               \* of Emmc

\* What the instance that is checked is made of.
CONSTANTS p1, p2, t1, t2, c1, c2

OwnPins == (t1 :> p1) @@ (t2 :> p2)
TwoGroups == (p1 :> 0) @@ (p2 :> 1)
MixedSenses == {"both", "high"}
OneChannel == t1 :> c1
OwnTimers == (t1 :> c1) @@ (t2 :> c2)
OneEcc == (t1 :> TRUE) @@ (t2 :> FALSE)
SgpioGroups == <<c1, c2>>

VARIABLE part   \* the module that runs

\* What the variables of the others hold.
Off == "off"

VARIABLES bus, dir, sts, pool, ended, irq, icWakers, icPc, icLeft, got, icReady, icCur, isr
icV == <<bus, dir, sts, pool, ended, irq, icWakers, icPc, icLeft, got, icReady, icCur, isr>>
Ic == INSTANCE I2c WITH Tasks <- Masters, wakers <- icWakers, pc <- icPc, left <- icLeft,
        ready <- icReady, cur <- icCur
IcInit == IF part = "i2c" THEN Ic!Init ELSE bus = Off /\ dir = Off /\ sts = Off
          /\ pool = Off /\ ended = Off /\ irq = Off /\ icWakers = Off /\ icPc = Off
          /\ icLeft = Off /\ got = Off /\ icReady = Off /\ icCur = Off /\ isr = Off

VARIABLES cmds, resps, tx, rx, i3Dat, dct, addr, irqI3c, wakerI3c, at, op, i3Took, dropped,
  clean, runq, polled, inIsr
i3V == <<cmds, resps, tx, rx, i3Dat, dct, addr, irqI3c, wakerI3c, at, op, i3Took, dropped,
         clean, runq, polled, inIsr>>
I3 == INSTANCE I3c WITH Nobody <- None, dat <- i3Dat, took <- i3Took
I3Init == IF part = "i3c" THEN I3!Init ELSE cmds = Off /\ resps = Off /\ tx = Off
          /\ rx = Off /\ i3Dat = Off /\ dct = Off /\ addr = Off /\ irqI3c = Off
          /\ wakerI3c = Off /\ at = Off /\ op = Off /\ i3Took = Off /\ dropped = Off
          /\ clean = Off /\ runq = Off /\ polled = Off /\ inIsr = Off

VARIABLES en, reload, cnt, tmStatus, tmWakers, tmPc, tmReady, tmCur, tmIsrPc, isrNo, due
tmV == <<en, reload, cnt, tmStatus, tmWakers, tmPc, tmReady, tmCur, tmIsrPc, isrNo, due>>
Tm == INSTANCE Timer WITH Tasks <- Sleepers, status <- tmStatus, wakers <- tmWakers,
        pc <- tmPc, ready <- tmReady, cur <- tmCur, isrPc <- tmIsrPc
TmInit == IF part = "timer" THEN Tm!Init ELSE en = Off /\ reload = Off /\ cnt = Off
          /\ tmStatus = Off /\ tmWakers = Off /\ tmPc = Off /\ tmReady = Off /\ tmCur = Off
          /\ tmIsrPc = Off /\ isrNo = Off /\ due = Off

VARIABLES engine, irqHace, wakerHace, hpc, steps, written, alone, hready, hcur, hisr
haV == <<engine, irqHace, wakerHace, hpc, steps, written, alone, hready, hcur, hisr>>
Ha == INSTANCE Hace WITH NoOne <- None
HaInit == IF part = "hace" THEN Ha!Init ELSE engine = Off /\ irqHace = Off
          /\ wakerHace = Off /\ hpc = Off /\ steps = Off /\ written = Off /\ alone = Off
          /\ hready = Off /\ hcur = Off /\ hisr = Off

VARIABLES sram, rsaRun, rsaReady, seRpc, answer, whole, scalars, eccOn, eccRun, eccDone,
  trig
seV == <<sram, rsaRun, rsaReady, seRpc, answer, whole, scalars, eccOn, eccRun, eccDone,
         trig>>
Se == INSTANCE Secure WITH Zero <- None, Junk <- Gone, rpc <- seRpc
SeInit == IF part = "secure" THEN Se!Init ELSE sram = Off /\ rsaRun = Off /\ rsaReady = Off
          /\ seRpc = Off /\ answer = Off /\ whole = Off /\ scalars = Off /\ eccOn = Off
          /\ eccRun = Off /\ eccDone = Off /\ trig = Off

VARIABLES otBusy, failed, rdata, ocall, opc, word, sole
otV == <<otBusy, failed, rdata, ocall, opc, word, sole>>
Ot == INSTANCE Otp WITH Words <- OtpWords, NoCmd <- Gone, busy <- otBusy
OtInit == IF part = "otp" THEN Ot!Init ELSE otBusy = Off /\ failed = Off /\ rdata = Off
          /\ ocall = Off /\ opc = Off /\ word = Off /\ sole = Off

VARIABLES latched, enabled, irqSgpio, look, sgWakers, spc, group, sgTook, sready, scur,
  unseen, lone
sgV == <<latched, enabled, irqSgpio, look, sgWakers, spc, group, sgTook, sready, scur,
         unseen, lone>>
Sg == INSTANCE Sgpio WITH Pins <- Bits, Nobody <- None, wakers <- sgWakers, took <- sgTook
SgInit == IF part = "sgpio" THEN Sg!Init ELSE latched = Off /\ enabled = Off
          /\ irqSgpio = Off /\ look = Off /\ sgWakers = Off /\ spc = Off /\ group = Off
          /\ sgTook = Off /\ sready = Off /\ scur = Off /\ unseen = Off /\ lone = Off

VARIABLES wip, wel, npc, effect, calm, dma, dmaDone, noRpc, filled, quiet
noV == <<wip, wel, npc, effect, calm, dma, dmaDone, noRpc, filled, quiet>>
No == INSTANCE Nor WITH Readers <- DmaReaders, Chip <- None, rpc <- noRpc
NoInit == IF part = "nor" THEN No!Init ELSE wip = Off /\ wel = Off /\ npc = Off
          /\ effect = Off /\ calm = Off /\ dma = Off /\ dmaDone = Off /\ noRpc = Off
          /\ filled = Off /\ quiet = Off

VARIABLES pending, ipSlot, sending, taking, buffer, lastSent, lastTaken, forced
ipV == <<pending, ipSlot, sending, taking, buffer, lastSent, lastTaken, forced>>
Ip == INSTANCE Ipc1 WITH NoId <- None, slot <- ipSlot
IpInit == IF part = "ipc1" THEN Ip!Init ELSE pending = Off /\ ipSlot = Off /\ sending = Off
          /\ taking = Off /\ buffer = Off /\ lastSent = Off /\ lastTaken = Off
          /\ forced = Off

VARIABLES disabled, trReady, data, trRpc, polls, len, fill, words, handed
trV == <<disabled, trReady, data, trRpc, polls, len, fill, words, handed>>
Tr == INSTANCE Trng WITH Readers <- Randoms, MaxWords <- MaxRandoms, ready <- trReady,
        rpc <- trRpc
TrInit == IF part = "trng" THEN Tr!Init ELSE disabled = Off /\ trReady = Off /\ data = Off
          /\ trRpc = Off /\ polls = Off /\ len = Off /\ fill = Off /\ words = Off
          /\ handed = Off

VARIABLES cmd, emBusy, emDat, block, emStatus, card, ocr, flags, epc, step, tries, rca, src,
  emLeft, scratch, good
emV == <<cmd, emBusy, emDat, block, emStatus, card, ocr, flags, epc, step, tries, rca, src,
         emLeft, scratch, good>>
Em == INSTANCE Emmc WITH Copiers <- {Copier}, NoBlock <- None, busy <- emBusy, dat <- emDat,
        status <- emStatus, left <- emLeft
EmInit == IF part = "emmc" THEN Em!Init ELSE cmd = Off /\ emBusy = Off /\ emDat = Off
          /\ block = Off /\ emStatus = Off /\ card = Off /\ ocr = Off /\ flags = Off
          /\ epc = Off /\ step = Off /\ tries = Off /\ rca = Off /\ src = Off
          /\ emLeft = Off /\ scratch = Off /\ good = Off

-----------------------------------------------------------------------------
ASSUME PartsAssumption ==
  /\ Ic!I2cAssumption /\ I3!I3cAssumption /\ Tm!TimerAssumption /\ Ha!HaceAssumption
  /\ Se!SecureAssumption /\ Ot!OtpAssumption /\ Sg!SgpioAssumption /\ No!NorAssumption
  /\ Ip!Ipc1Assumption /\ Tr!TrngAssumption /\ Em!EmmcAssumption

MCInit ==
  /\ part \in {"gpio", "i2c", "i3c", "timer", "hace", "secure", "otp", "sgpio", "nor",
              "ipc1", "trng", "emmc"}
  /\ Init /\ (part # "gpio" => level = [p \in Pins |-> FALSE])
  /\ IcInit /\ I3Init /\ TmInit /\ HaInit /\ SeInit /\ OtInit /\ SgInit /\ NoInit
  /\ IpInit /\ TrInit /\ EmInit

\* Of all modules only m takes a step.
Only(m) ==
  /\ IF m = "gpio" THEN TRUE ELSE UNCHANGED vars
  /\ IF m = "I2c" THEN TRUE ELSE UNCHANGED icV
  /\ IF m = "I3c" THEN TRUE ELSE UNCHANGED i3V
  /\ IF m = "Timer" THEN TRUE ELSE UNCHANGED tmV
  /\ IF m = "Hace" THEN TRUE ELSE UNCHANGED haV
  /\ IF m = "Secure" THEN TRUE ELSE UNCHANGED seV
  /\ IF m = "Otp" THEN TRUE ELSE UNCHANGED otV
  /\ IF m = "Sgpio" THEN TRUE ELSE UNCHANGED sgV
  /\ IF m = "Nor" THEN TRUE ELSE UNCHANGED noV
  /\ IF m = "Ipc1" THEN TRUE ELSE UNCHANGED ipV
  /\ IF m = "Trng" THEN TRUE ELSE UNCHANGED trV
  /\ IF m = "Emmc" THEN TRUE ELSE UNCHANGED emV
  /\ UNCHANGED part

MCNext ==
  \/ part = "gpio" /\ Next /\ Only("gpio")
  \/ part = "i2c" /\ Ic!Next /\ Only("I2c")
  \/ part = "i3c" /\ I3!Next /\ Only("I3c")
  \/ part = "timer" /\ Tm!Next /\ Only("Timer")
  \/ part = "hace" /\ Ha!Next /\ Only("Hace")
  \/ part = "secure" /\ Se!Next /\ Only("Secure")
  \/ part = "otp" /\ Ot!Next /\ Only("Otp")
  \/ part = "sgpio" /\ Sg!Next /\ Only("Sgpio")
  \/ part = "nor" /\ No!Next /\ Only("Nor")
  \/ part = "ipc1" /\ Ip!Next /\ Only("Ipc1")
  \/ part = "trng" /\ Tr!Next /\ Only("Trng")
  \/ part = "emmc" /\ Em!Next /\ Only("Emmc")

all == <<part, vars, icV, i3V, tmV, haV, seV, otV, sgV, noV, ipV, trV, emV>>
MCSpec == MCInit /\ [][MCNext]_all

TypesOK ==
  /\ part = "i2c" => Ic!TypeOK
  /\ part = "i3c" => I3!TypeOK
  /\ part = "timer" => Tm!TypeOK
  /\ part = "hace" => Ha!TypeOK
  /\ part = "secure" => Se!TypeOK
  /\ part = "otp" => Ot!TypeOK
  /\ part = "sgpio" => Sg!TypeOK
  /\ part = "nor" => No!TypeOK
  /\ part = "ipc1" => Ip!TypeOK
  /\ part = "trng" => Tr!TypeOK
  /\ part = "emmc" => Em!TypeOK

\* No driver that looks, registers its waker and looks again loses a wake-up.
NoLostWakeups ==
  /\ part = "i2c" => Ic!NoLostWakeup
  /\ part = "i3c" => I3!NoLostWakeup
  /\ part = "timer" => Tm!NoLostWakeup
  /\ part = "hace" => Ha!NoLostWakeup
  /\ part = "sgpio" => Sg!NoLostWakeup

\* The answer that a task is given is that of its own operation, whatever other
\* tasks do with the same device and whatever dropped operations left in it.
OwnAnswers ==
  /\ part = "i2c" => Ic!OwnCompletion
  /\ part = "i2c" => Ic!OwnBytes
  /\ part = "i3c" => I3!Lag
  /\ part = "i3c" => I3!OwnResponse
  /\ part = "i3c" => I3!DaaResults
  /\ part = "hace" => Ha!OwnDigest
  /\ part = "secure" => Se!OwnResult
  /\ part = "otp" => Ot!OwnWord
  /\ part = "nor" => No!OwnData
  /\ part = "trng" => Tr!FreshWords

\* Work is done as asked and nothing is lost or left behind: commands reach the
\* chip while it listens, payloads and events arrive, copies are complete, keys
\* are wiped.
NothingLost ==
  /\ part = "nor" => No!Performed
  /\ part = "sgpio" => Sg!NothingMissed
  /\ part = "ipc1" => Ip!Delivered
  /\ part = "emmc" => Em!CopiedRight
  /\ part = "emmc" => Em!Identified
  /\ part = "secure" => Se!Wiped
=============================================================================
