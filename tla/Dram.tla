-------------------------------- MODULE Dram --------------------------------
(***************************************************************************)
(* Bring-up of the AST2700 memory controller: `init` and the functions it  *)
(* calls (src/embassy-aspeed/src/sdrammc.rs), from the strap to the flag   *)
(* that tells the other processors that DRAM is there.                     *)
(*                                                                         *)
(* One processor runs init; the controller, the PHY with its training      *)
(* firmware and the MPLL answer whenever they like, or never.  Register    *)
(* values are left out: what counts is which part of the hardware has been *)
(* set up since it was last reset.                                         *)
(***************************************************************************)
EXTENDS Integers, FiniteSets

CONSTANTS
  Attempts,  \* TRAINING_ATTEMPTS
  NumMrs,    \* mode registers that configure_mrs_ddr4 sends
  Sizes,     \* installed sizes, as indices of DRAM_SIZE_TABLE
  MaxMsgs    \* bound: messages read in one training pass before POLL_TIMEOUT

\* Size indices 0 to 5 stand for 256 MB to 8 GB; size_detect assumes at least
\* 1 GB.
DramAssumption ==
  /\ Attempts \in Nat \ {0}
  /\ NumMrs \in Nat \ {0}
  /\ Sizes \subseteq 2..5
  /\ MaxMsgs \in Nat \ {0}

VARIABLES
  ddr4,     \* the strap: DDR4 or DDR5
  phys,     \* the installed size
  wdt,      \* the five WDT0_SW_RST_SEL masks: "boot" as found, "reset" as set for a reset
  protect,  \* PROTECT holds a key other than UNLOCK_KEY
  hw,       \* what has been set up since the hardware was last reset
  mrs,      \* mode registers written since then
  busy,     \* operations that the hardware works on
  status,   \* done bits: INTR_STS and MPLL_LOCK
  failed,   \* BIST_RESULT.FAIL
  training, \* the pass that the PHY runs, or "none"
  mail,     \* the message that the PHY shows
  passed,   \* the result in the PHY's message block
  size,     \* the size index in MAIN_CONF
  flag,     \* DRAMC_INIT_DONE
  pc, attempt, saved, pass, msg, msgs, sent, sz,  \* where init stands, its locals
  err       \* last_err, or "none"

hwVars == <<hw, mrs, busy, status, failed>>
phyVars == <<training, mail, passed>>
regVars == <<wdt, protect, size, flag>>
locals == <<saved, pass, msg, msgs, sent, sz>>
vars == <<ddr4, phys, hwVars, phyVars, regVars, pc, attempt, locals, err>>

DramcParts == {"config", "mission", "awake", "refresh"}
PhyParts   == {"powered", "1d", "2d", "pie"}
DramcOps   == {"init", "selfref", "mr", "bist"}
Messages   == {"none", "info", "done", "fail"}
Points     == {"firmware", "mpll", "reset", "config", "load", "mail", "ack", "result", "pie",
               "init", "selfref", "awake", "mrs", "mrdone", "refresh", "bist", "restore",
               "size", "lock", "done", "failed"}

TypeOK ==
  /\ ddr4 \in BOOLEAN /\ phys \in Sizes
  /\ wdt \in {"boot", "reset"} /\ saved \in {"zero", "boot", "reset"}
  /\ protect \in BOOLEAN /\ flag \in BOOLEAN
  /\ hw \subseteq DramcParts \cup PhyParts /\ mrs \in 0..NumMrs
  /\ busy \subseteq DramcOps \cup {"mpll"} /\ status \subseteq DramcOps \cup {"mpll"}
  /\ failed \in BOOLEAN /\ passed \in BOOLEAN
  /\ training \in {"none", "1d", "2d"} /\ pass \in {"1d", "2d"}
  /\ mail \in Messages /\ msg \in Messages /\ msgs \in 0..MaxMsgs
  /\ size \in 0..5 /\ sz \in 3..6 /\ sent \in 0..NumMrs
  /\ pc \in Points /\ attempt \in 0..Attempts
  /\ err \in {"none", "PhyInitTimeout", "SelfRefTimeout", "BistFail", "NoPhyFirmware"}

Init ==
  /\ ddr4 \in BOOLEAN /\ phys \in Sizes
  /\ wdt = "boot" /\ saved = "zero"
  /\ protect = TRUE /\ flag = FALSE
  /\ hw = {} /\ mrs = 0 /\ busy = {} /\ status = {} /\ failed = FALSE
  /\ training = "none" /\ mail = "none" /\ passed = FALSE
  /\ size = 0 /\ sz = 3 /\ sent = 0 /\ pass = "1d" /\ msg = "none" /\ msgs = 0
  /\ attempt = 0 /\ err = "none" /\ pc = "firmware"

-----------------------------------------------------------------------------
(* The hardware.                                                           *)

\* An operation is done and its bit is set.  The PHY is initialised only once
\* the PIE code is loaded, and DRAM leaves self-refresh only in mission mode.
Complete(o) ==
  /\ o \in busy
  /\ o = "init" => "pie" \in hw
  /\ o = "selfref" => "mission" \in hw
  /\ busy' = busy \ {o} /\ status' = status \cup {o}
  /\ hw' = hw \cup CASE o = "init" -> {"mission"} [] o = "selfref" -> {"awake"} [] OTHER -> {}
  /\ mrs' = IF o = "mr" /\ mrs < NumMrs THEN mrs + 1 ELSE mrs
  /\ IF o = "bist" THEN failed' \in BOOLEAN ELSE UNCHANGED failed
  /\ UNCHANGED <<ddr4, phys, phyVars, regVars, pc, attempt, locals, err>>

\* The training firmware shows a message.
PhyMessage ==
  /\ training # "none" /\ mail = "none"
  /\ mail' \in Messages \ {"none"}
  /\ passed' \in IF mail' = "done" THEN BOOLEAN ELSE {FALSE}
  /\ training' = IF mail' = "info" THEN training ELSE "none"
  /\ UNCHANGED <<ddr4, phys, hwVars, regVars, pc, attempt, locals, err>>

\* A write to a protected controller has no effect.
Set(parts) == hw' = IF protect THEN hw ELSE hw \cup parts
Start(o)   == busy' = IF protect THEN busy ELSE busy \cup {o}

-----------------------------------------------------------------------------
(* init, up to its retry loop.                                             *)

At(l) == pc = l
Goto(l) == pc' = l

\* A failed attempt: the loop goes on, or init returns the error.
Retry(e) ==
  /\ err' = e
  /\ IF attempt < Attempts
     THEN Goto("reset") /\ attempt' = attempt + 1
     ELSE Goto("failed") /\ UNCHANGED attempt

\* The prebuilt table is parsed; a missing image ends init before any write.
Firmware ==
  /\ At("firmware")
  /\ \/ Goto("mpll") /\ busy' = busy \cup {"mpll"} /\ UNCHANGED err
     \/ Goto("failed") /\ err' = "NoPhyFirmware" /\ UNCHANGED busy
  /\ UNCHANGED <<ddr4, phys, hw, mrs, status, failed, phyVars, regVars, attempt, locals>>

\* mpll_relock reads MPLL_LOCK until it is set.
Mpll ==
  /\ At("mpll") /\ "mpll" \in status
  /\ Goto("reset") /\ attempt' = 1
  /\ UNCHANGED <<ddr4, phys, hwVars, phyVars, regVars, locals, err>>

-----------------------------------------------------------------------------
(* One attempt.                                                            *)

\* Mutant: the masks are set and the reset is not kicked.
ResetNoKick ==
  /\ At("reset")
  /\ saved' = wdt /\ wdt' = "reset"
  /\ Goto("config")
  /\ UNCHANGED <<ddr4, phys, hwVars, phyVars, protect, size, flag, attempt, pass, msg,
                 msgs, sent, sz, err>>

\* The masks are saved and set, and the controller is reset.
Reset ==
  /\ At("reset")
  /\ saved' = wdt /\ wdt' = "reset"
  /\ hw' = hw \ DramcParts /\ mrs' = 0
  /\ busy' = busy \ DramcOps /\ status' = status \ DramcOps
  /\ failed' = FALSE /\ size' = 0 /\ protect' = TRUE
  /\ Goto("config")
  /\ UNCHANGED <<ddr4, phys, phyVars, flag, attempt, pass, msg, msgs, sent, sz, err>>

\* unlock, the registers of the controller, at the largest size, and the
\* cold reset and configuration of the PHY.
Config ==
  /\ At("config")
  /\ protect' = FALSE
  /\ hw' = (hw \ PhyParts) \cup {"config", "powered"}
  /\ size' = 5
  /\ training' = "none" /\ mail' = "none" /\ passed' = FALSE
  /\ pass' = "1d" /\ Goto("load")
  /\ UNCHANGED <<ddr4, phys, mrs, busy, status, failed, wdt, flag, attempt, saved, msg,
                 msgs, sent, sz, err>>

-----------------------------------------------------------------------------
(* run_training_pass.                                                      *)

\* The firmware is loaded and started.
Load ==
  /\ At("load")
  /\ training' = pass /\ mail' = "none" /\ passed' = FALSE
  /\ msgs' = 0 /\ Goto("mail")
  /\ UNCHANGED <<ddr4, phys, hwVars, regVars, attempt, saved, pass, msg, sent, sz, err>>

Mail ==
  /\ At("mail") /\ mail # "none" /\ msgs < MaxMsgs
  /\ msg' = mail /\ msgs' = msgs + 1 /\ Goto("ack")
  /\ UNCHANGED <<ddr4, phys, hwVars, phyVars, regVars, attempt, saved, pass, sent, sz, err>>

\* Mutant: only the messages are counted, not the polls.
MailTimeoutOnMessages ==
  /\ At("mail") /\ msgs = MaxMsgs
  /\ Retry("PhyInitTimeout")
  /\ UNCHANGED <<ddr4, phys, hwVars, phyVars, regVars, locals>>

\* POLL_TIMEOUT reads have passed, with or without messages.
MailTimeout ==
  /\ At("mail")
  /\ mail = "none" \/ msgs = MaxMsgs
  /\ Retry("PhyInitTimeout")
  /\ UNCHANGED <<ddr4, phys, hwVars, phyVars, regVars, locals>>

\* The message is acknowledged; init does not wait for the PHY to notice for
\* ever, and may then read the same message again.
Ack ==
  /\ At("ack")
  /\ mail' \in {"none", mail}
  /\ \/ msg = "info" /\ Goto("mail") /\ UNCHANGED <<attempt, err>>
     \/ msg = "done" /\ Goto("result") /\ UNCHANGED <<attempt, err>>
     \/ msg = "fail" /\ Retry("PhyInitTimeout")
  /\ UNCHANGED <<ddr4, phys, hwVars, training, passed, regVars, locals>>

\* DDR4 is trained in a second pass.
Result ==
  /\ At("result")
  /\ IF passed
     THEN /\ hw' = hw \cup {pass}
          /\ IF ddr4 /\ pass = "1d"
             THEN pass' = "2d" /\ Goto("load")
             ELSE Goto("pie") /\ UNCHANGED pass
          /\ UNCHANGED <<attempt, err>>
     ELSE Retry("PhyInitTimeout") /\ UNCHANGED <<hw, pass>>
  /\ UNCHANGED <<ddr4, phys, mrs, busy, status, failed, phyVars, regVars, saved, msg, msgs,
                 sent, sz>>

-----------------------------------------------------------------------------
(* Mission mode, self-refresh, mode registers, refresh and BIST.           *)

\* The PIE code is loaded and PHY_INIT_START is set.
PhyInit ==
  /\ At("pie")
  /\ hw' = hw \cup {"pie"} /\ Start("init")
  /\ Goto("init")
  /\ UNCHANGED <<ddr4, phys, mrs, status, failed, phyVars, regVars, attempt, locals, err>>

\* The interrupt bits are cleared once the PHY is initialised.
PhyInitPoll ==
  /\ At("init")
  /\ \/ /\ "init" \in status
        /\ status' = status \cap {"mpll"}
        /\ Goto("selfref")
        /\ UNCHANGED <<attempt, err>>
     \/ /\ "init" \notin status
        /\ Retry("PhyInitTimeout")
        /\ UNCHANGED status
  /\ UNCHANGED <<ddr4, phys, hw, mrs, busy, failed, phyVars, regVars, locals>>

SelfRef ==
  /\ At("selfref")
  /\ Start("selfref")
  /\ Goto("awake")
  /\ UNCHANGED <<ddr4, phys, hw, mrs, status, failed, phyVars, regVars, attempt, locals, err>>

SelfRefPoll ==
  /\ At("awake")
  /\ \/ /\ "selfref" \in status
        /\ status' = status \ {"selfref"} /\ sent' = 0
        /\ Goto(IF ddr4 THEN "mrs" ELSE "refresh")
        /\ UNCHANGED <<attempt, err>>
     \/ /\ "selfref" \notin status
        /\ Retry("SelfRefTimeout")
        /\ UNCHANGED <<status, sent>>
  /\ UNCHANGED <<ddr4, phys, hw, mrs, busy, failed, phyVars, regVars, saved, pass, msg, msgs,
                 sz>>

\* mr_send, for the next mode register.
MrSend ==
  /\ At("mrs")
  /\ Start("mr") /\ Goto("mrdone")
  /\ UNCHANGED <<ddr4, phys, hw, mrs, status, failed, phyVars, regVars, attempt, locals, err>>

\* Mutant: MR_DONE is not cleared.
MrDoneKept ==
  /\ At("mrdone") /\ "mr" \in status
  /\ sent' = sent + 1
  /\ Goto(IF sent' = NumMrs THEN "refresh" ELSE "mrs")
  /\ UNCHANGED <<ddr4, phys, hwVars, phyVars, regVars, attempt, saved, pass, msg, msgs, sz, err>>

\* MR_DONE is read until it is set.
MrDone ==
  /\ At("mrdone") /\ "mr" \in status
  /\ status' = status \ {"mr"} /\ sent' = sent + 1
  /\ Goto(IF sent' = NumMrs THEN "refresh" ELSE "mrs")
  /\ UNCHANGED <<ddr4, phys, hw, mrs, busy, failed, phyVars, regVars, attempt, saved, pass,
                 msg, msgs, sz, err>>

\* enable_refresh, and the start of BIST.
Bist ==
  /\ At("refresh")
  /\ Set({"refresh"}) /\ Start("bist")
  /\ Goto("bist")
  /\ UNCHANGED <<ddr4, phys, mrs, status, failed, phyVars, regVars, attempt, locals, err>>

BistPoll ==
  /\ At("bist")
  /\ IF "bist" \in status
     THEN status' = status \ {"bist"}
     ELSE UNCHANGED status  \* POLL_TIMEOUT
  /\ IF "bist" \in status /\ ~failed
     THEN Goto("restore") /\ UNCHANGED <<attempt, err>>
     ELSE Retry("BistFail")
  /\ UNCHANGED <<ddr4, phys, hw, mrs, busy, failed, phyVars, regVars, locals>>

-----------------------------------------------------------------------------
(* After the loop.                                                         *)

Restore ==
  /\ At("restore")
  /\ wdt' = saved /\ sz' = 3
  /\ Goto("size")
  /\ UNCHANGED <<ddr4, phys, hwVars, phyVars, protect, size, flag, attempt, saved, pass, msg,
                 msgs, sent, err>>

\* MAP1 of DRAM_SIZE_TABLE; the window shows DRAM from MAP1 - 64 units of
\* 256 MB on, and a location beyond the installed size is one within it.
Map1 == <<64, 64, 64, 68, 72, 80>>
Aliases(i) == (Map1[i + 1] - 64) % (2 ^ phys) = 0

\* Mutant: the size is the last one tried.
SizeDetectLast ==
  /\ At("size")
  /\ IF sz < 6 /\ ~Aliases(sz)
     THEN sz' = sz + 1 /\ UNCHANGED <<size, pc>>
     ELSE size' = (IF sz = 6 THEN 5 ELSE sz) /\ Goto("lock") /\ UNCHANGED sz
  /\ UNCHANGED <<ddr4, phys, hwVars, phyVars, wdt, protect, flag, attempt, saved, pass, msg,
                 msgs, sent, err>>

\* size_detect: one size per step; the pattern differs from size to size.
SizeDetect ==
  /\ At("size")
  /\ IF sz < 6 /\ ~Aliases(sz)
     THEN sz' = sz + 1 /\ UNCHANGED <<size, pc>>
     ELSE size' = (IF protect THEN size ELSE sz - 1) /\ Goto("lock") /\ UNCHANGED sz
  /\ UNCHANGED <<ddr4, phys, hwVars, phyVars, wdt, protect, flag, attempt, saved, pass, msg,
                 msgs, sent, err>>

\* qos_init, lock and set_dramc_init_done_flag.
Finish ==
  /\ At("lock")
  /\ protect' = TRUE /\ flag' = TRUE
  /\ Goto("done")
  /\ UNCHANGED <<ddr4, phys, hwVars, phyVars, wdt, size, attempt, locals, err>>

Stopped == pc \in {"done", "failed"} /\ UNCHANGED vars

Step ==
  \/ Firmware \/ Mpll \/ Reset \/ Config \/ Load \/ Mail \/ MailTimeout \/ Ack \/ Result
  \/ PhyInit \/ PhyInitPoll \/ SelfRef \/ SelfRefPoll \/ MrSend \/ MrDone \/ Bist \/ BistPoll
  \/ Restore \/ SizeDetect \/ Finish

Next == Step \/ PhyMessage \/ (\E o \in DramcOps \cup {"mpll"} : Complete(o)) \/ Stopped

Spec == Init /\ [][Next]_vars

\* The processor runs on; the MPLL locks and a mode register write ends, which
\* is all that init waits for without a bound.
Fairness == WF_vars(Step) /\ WF_vars(Complete("mpll")) /\ WF_vars(Complete("mr"))

FairSpec == Spec /\ Fairness

-----------------------------------------------------------------------------
(* Properties.                                                             *)

Usable ==
  /\ {"config", "powered", "1d", "pie", "mission", "awake", "refresh"} \subseteq hw
  /\ ddr4 => "2d" \in hw /\ mrs = NumMrs

\* Whatever failed attempts left in the controller and the PHY, init goes on to
\* use DRAM, and says that it is there, only when every part was set up since
\* the last reset.
UsableWhenUsed == pc \in {"bist", "restore", "size", "lock", "done"} => Usable

\* The size in MAIN_CONF is the installed one when the flag is set, although
\* training ran with the largest.
SizeRight == flag => size = phys

\* No operation that a failed attempt started is still at work in the next,
\* where its done bit would pass for that of the new one.
NoneLeftOver ==
  pc \in {"config", "load", "mail", "ack", "result", "pie"} => (busy \cup status) \cap DramcOps = {}

\* init returns.
Ends == <>(pc \in {"done", "failed"})

\* What the comment at step 18c says: the software reset masks are restored.
MasksRestored == pc = "done" => wdt = "boot"
=============================================================================
