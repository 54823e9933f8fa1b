------------------------------ MODULE Release -------------------------------
(***************************************************************************)
(* How the BootMCU releases the other processors of an AST2700: the four   *)
(* CA35 cores (ca35.rs), the SSP and TSP (ssp_tsp.rs) and the DisplayPort  *)
(* MCU (display.rs).  Each routine is a sequence of register writes; what  *)
(* was released earlier runs between any two of them.                      *)
(*                                                                         *)
(* A watchdog may reset the SoC at any moment: the cores are held again    *)
(* and the boot starts over, while scratch registers keep stale values.    *)
(***************************************************************************)
EXTENDS Naturals, Sequences

CONSTANTS
  Secondaries,  \* the CA35 cores 1..3
  FwWords,      \* the number of words of the DPMCU firmware
  MaxResets     \* bound: the number of resets

ReleaseAssumption == Secondaries \subseteq 1..3 /\ {FwWords, MaxResets} \subseteq Nat

Cores == {0} \cup Secondaries
Bridges == {0, 1}
Helpers == {1, 2}  \* the SSP and the TSP

VARIABLES
  todo,    \* the writes that the boot still makes
  rvbar,   \* rvbar[c]: CA35_RVBAR
  ep,      \* ep[c]: the halves of CPU_SMP_EP, "zero", "old" or "new"
  mpu,     \* region 0 of the DRAM's MPU: [range, masters, on, locked]
  ufsAxi,  \* UFS_PATH_AXI
  rel,     \* CA35_REL
  core,    \* core[c]: "held", "spin", or what it runs
  dp,      \* the DPMCU: [reset, power, window, run, imem, ints, hand]
  fw,      \* whether the flash has a firmware for it
  helper,  \* SSP and TSP: [reset, ctrl, ready, remap]
  e2m,     \* the bridges: [reset, clock, preset]
  resets

releaseVars == <<todo, rvbar, ep, mpu, ufsAxi, rel, core, dp, fw, helper, e2m, resets>>

Op(name, i) == [do |-> name, i |-> i]
Each(seq, name) == [i \in 1..Len(seq) |-> Op(name, seq[i])]

-----------------------------------------------------------------------------
(* The routines.                                                           *)

SetRvbar == Each(<<0, 1, 2, 3>>, "rvbar")

SetPrimaryEp == <<Op("epLow", 0), Op("epHigh", 0)>>

EnableDramAccess == <<Op("rangeAll", 0), Op("off", 0), Op("masters", 0), Op("on", 0), Op("lock", 0)>>
EnableVendorAccess == <<Op("rangeAtf", 0), Op("off", 0), Op("masters", 0), Op("on", 0), Op("lock", 0)>>

ClearEps == <<Op("epZeroLow", 1), Op("epZeroHigh", 1), Op("epZeroLow", 2), Op("epZeroHigh", 2),
              Op("epZeroLow", 3), Op("epZeroHigh", 3)>>

\* Mutant: release writes CA35_REL before it clears the entry points.
ReleaseCa35Early == <<Op("ufsAxi", 0), Op("release", 0)>> \o ClearEps

ReleaseCa35 == <<Op("ufsAxi", 0)>> \o ClearEps \o <<Op("release", 0)>>

InitUfsAxiPath == <<Op("ufsOwn", 0)>>

\* Plda2 and bridge 1 first.
InitPciE2m == <<Op("e2mCheck", 0), Op("preset", 1), Op("e2mClock", 1), Op("e2mClear", 1),
                Op("preset", 0), Op("e2mClock", 0), Op("e2mClear", 0)>>

\* Mutant: the core is released before its instruction memory is loaded.
BringUpDpEarly ==
  <<Op("dpAssert", 0), Op("dpClear", 0), Op("dpVersion", 0), Op("dpDown", 0),
    Op("dpPower", 0), Op("dpOpen", 0), Op("dpRun", 0)>>
  \o Each([i \in 1..FwWords |-> i], "dpWord") \o <<Op("dpInts", 0), Op("dpHand", 0), Op("dpHand", 1)>>

BringUpDp ==
  <<Op("dpAssert", 0), Op("dpClear", 0), Op("dpVersion", 0), Op("dpDown", 0),
    Op("dpPower", 0), Op("dpOpen", 0)>>
  \o Each([i \in 1..FwWords |-> i], "dpWord")
  \o <<Op("dpClose", 0), Op("dpRun", 0), Op("dpInts", 0), Op("dpHand", 0), Op("dpHand", 1)>>

\* Mutant: the processor is enabled while its debug reset is set up.
InitSspRuns == <<Op("hAssert", 1), Op("hClear", 1), Op("hEnable", 1), Op("hPoll", 1), Op("hRemap", 1)>>

\* Reset and its release, debug reset with the core held, wait, remap; then enable.
InitSsp == <<Op("hAssert", 1), Op("hClear", 1), Op("hHold", 1), Op("hPoll", 1), Op("hRemap", 1)>>
InitTsp == <<Op("hAssert", 2), Op("hClear", 2), Op("hHold", 2), Op("hPoll", 2), Op("hRemap", 2)>>

EnableSsp == <<Op("hEnable", 1)>>
EnableTsp == <<Op("hEnable", 2)>>

\* init_vendor_runtime_fabric: among others, the resets of the DPMCU are released.
RuntimeFabric == <<Op("fabric", 0)>>

\* start, and start_atf_bl33, which also names the entry of BL33.
StartCa35 == SetRvbar \o EnableDramAccess \o ReleaseCa35
StartAtfBl33 == SetRvbar \o SetPrimaryEp \o EnableDramAccess \o ReleaseCa35
StartVendor == EnableVendorAccess \o SetRvbar \o ReleaseCa35

\* What a boot program calls, each routine at the place its documentation asks for.
Boots == {RuntimeFabric \o BringUpDp \o start : start \in {StartCa35, StartVendor}}
         \cup {InitSsp \o EnableSsp \o InitTsp \o EnableTsp \o StartAtfBl33,
               InitPciE2m \o InitUfsAxiPath \o StartCa35}

-----------------------------------------------------------------------------
(* The registers.                                                          *)

\* What a reset of the SoC leaves in the registers that it does reset.
MpuOff == [range |-> "none", masters |-> FALSE, on |-> FALSE, locked |-> FALSE]
DpOff == [reset |-> TRUE, power |-> FALSE, window |-> FALSE, run |-> FALSE,
          imem |-> [i \in 1..FwWords |-> "old"], ints |-> FALSE, hand |-> {}]
HelperOff == [h \in Helpers |-> [reset |-> TRUE, run |-> FALSE, ready |-> FALSE, remap |-> "old"]]

Init ==
  /\ todo \in Boots /\ fw \in BOOLEAN
  /\ mpu = MpuOff /\ dp = DpOff /\ helper = HelperOff
  /\ rel = FALSE /\ core = [c \in Cores |-> "held"]
  /\ \E done \in BOOLEAN : e2m = [b \in Bridges |-> [reset |-> ~done, clock |-> done, preset |-> done]]
  /\ rvbar = [c \in Cores |-> "old"] /\ ep = [c \in Cores |-> <<"old", "old">>]
  /\ ufsAxi = FALSE /\ resets = 0

\* The vectors and entry points are now those of an earlier boot.
Reset ==
  /\ resets < MaxResets
  /\ todo' \in Boots /\ fw' \in BOOLEAN
  /\ mpu' = MpuOff /\ dp' = DpOff /\ helper' = HelperOff
  /\ rel' = FALSE /\ core' = [c \in Cores |-> "held"]
  /\ e2m' = [b \in Bridges |-> [reset |-> TRUE, clock |-> FALSE, preset |-> FALSE]]
  /\ rvbar' = [c \in Cores |-> "old"]
  /\ ep' = [c \in Cores |-> [half \in 1..2 |-> IF ep[c][half] = "zero" THEN "zero" ELSE "old"]]
  /\ resets' = resets + 1
  /\ UNCHANGED ufsAxi

\* The next write of the boot is this one, and this is what follows it.
Writes(name, i) == todo # <<>> /\ Head(todo) = Op(name, i) /\ todo' = Tail(todo)

\* The CA35.
Rvbar(c) ==
  /\ Writes("rvbar", c)
  /\ rvbar' = IF c \in Cores THEN [rvbar EXCEPT ![c] = "new"] ELSE rvbar
  /\ UNCHANGED <<ep, mpu, ufsAxi, rel, core, dp, fw, helper, e2m, resets>>

\* write64 is two writes, the low half first.
Half(c, half, name, value) ==
  /\ Writes(name, c)
  /\ ep' = IF c \in Cores THEN [ep EXCEPT ![c][half] = value] ELSE ep
  /\ UNCHANGED <<rvbar, mpu, ufsAxi, rel, core, dp, fw, helper, e2m, resets>>

SetEp(c) ==
  \/ Half(c, 1, "epZeroLow", "zero") \/ Half(c, 2, "epZeroHigh", "zero")
  \/ Half(c, 1, "epLow", "new") \/ Half(c, 2, "epHigh", "new")

\* A locked region keeps what it has.
Mpu ==
  /\ \/ Writes("rangeAll", 0) /\ mpu' = [mpu EXCEPT !.range = IF mpu.locked THEN @ ELSE "all"]
     \/ Writes("rangeAtf", 0) /\ mpu' = [mpu EXCEPT !.range = IF mpu.locked THEN @ ELSE "atf"]
     \/ Writes("off", 0) /\ mpu' = [mpu EXCEPT !.on = mpu.locked /\ @]
     \/ Writes("masters", 0) /\ mpu' = [mpu EXCEPT !.masters = TRUE]
     \/ Writes("on", 0) /\ mpu' = [mpu EXCEPT !.on = TRUE]
     \/ Writes("lock", 0) /\ mpu' = [mpu EXCEPT !.locked = TRUE]
  /\ UNCHANGED <<rvbar, ep, ufsAxi, rel, core, dp, fw, helper, e2m, resets>>

UfsPath ==
  /\ \/ Writes("ufsAxi", 0) /\ ufsAxi' = TRUE
     \/ Writes("ufsOwn", 0) /\ ufsAxi' = FALSE
  /\ UNCHANGED <<rvbar, ep, mpu, rel, core, dp, fw, helper, e2m, resets>>

Released ==
  /\ Writes("release", 0)
  /\ rel' = TRUE
  /\ UNCHANGED <<rvbar, ep, mpu, ufsAxi, core, dp, fw, helper, e2m, resets>>

DpWrites == {"dpVersion", "dpDown", "dpPower", "dpOpen", "dpWord", "dpClose", "dpRun", "dpInts", "dpHand"}

\* A routine that returns early: the boot goes on behind its writes.
Returns(writes) ==
  \E k \in 1..Len(todo) :
     /\ todo[k].do \notin writes /\ \A j \in 1..(k - 1) : todo[j].do \in writes
     /\ todo' = SubSeq(todo, k, Len(todo))

\* The DPMCU.
DpReset ==
  /\ \/ Writes("dpAssert", 0) /\ dp' = DpOff
     \/ (Writes("fabric", 0) \/ Writes("dpClear", 0)) /\ dp' = [dp EXCEPT !.reset = FALSE]
  /\ UNCHANGED <<rvbar, ep, mpu, ufsAxi, rel, core, fw, helper, e2m, resets>>

\* A bring-up that finds no controller returns.
DpVersion ==
  /\ \/ Writes("dpVersion", 0)
     \/ todo # <<>> /\ Head(todo) = Op("dpVersion", 0) /\ Returns(DpWrites)
  /\ UNCHANGED <<rvbar, ep, mpu, ufsAxi, rel, core, dp, fw, helper, e2m, resets>>

\* The writes of MCU_CTRL: memories off, on, the window to them open, closed,
\* the core and its bus master out of reset.
DpCtrl ==
  /\ \/ Writes("dpDown", 0) /\ dp' = [dp EXCEPT !.power = FALSE, !.window = FALSE, !.run = FALSE]
     \/ Writes("dpPower", 0) /\ dp' = [dp EXCEPT !.power = TRUE]
     \/ Writes("dpOpen", 0) /\ dp' = [dp EXCEPT !.window = TRUE]
     \/ Writes("dpClose", 0) /\ dp' = [dp EXCEPT !.window = FALSE]
     \/ Writes("dpRun", 0) /\ dp' = [dp EXCEPT !.run = TRUE]
  /\ UNCHANGED <<rvbar, ep, mpu, ufsAxi, rel, core, fw, helper, e2m, resets>>

\* copy_firmware_to_imem: a word, when the flash has a firmware; a write to a
\* memory without power or behind a closed window is lost.
DpWord(i) ==
  /\ Writes("dpWord", i)
  /\ dp' = [dp EXCEPT !.imem[i] = IF fw /\ dp.power /\ dp.window /\ ~dp.reset THEN "new" ELSE @]
  /\ UNCHANGED <<rvbar, ep, mpu, ufsAxi, rel, core, fw, helper, e2m, resets>>

DpHandshake ==
  /\ \/ Writes("dpInts", 0) /\ dp' = [dp EXCEPT !.ints = TRUE]
     \/ \E s \in {0, 1} : Writes("dpHand", s) /\ dp' = [dp EXCEPT !.hand = @ \cup {s}]
  /\ UNCHANGED <<rvbar, ep, mpu, ufsAxi, rel, core, fw, helper, e2m, resets>>

\* The SSP and the TSP.  The wait for the memory gives up and goes on.
HelperWrite(h) ==
  /\ \/ Writes("hAssert", h) /\ helper' = [helper EXCEPT ![h].reset = TRUE]
     \/ Writes("hClear", h) /\ helper' = [helper EXCEPT ![h].reset = FALSE]
     \/ Writes("hHold", h) /\ helper' = [helper EXCEPT ![h].run = FALSE]
     \/ Writes("hPoll", h) /\ \E ready \in BOOLEAN : helper' = [helper EXCEPT ![h].ready = ready]
     \/ Writes("hRemap", h) /\ helper' = [helper EXCEPT ![h].remap = "new"]
     \/ Writes("hEnable", h) /\ helper' = [helper EXCEPT ![h].run = TRUE]
  /\ UNCHANGED <<rvbar, ep, mpu, ufsAxi, rel, core, dp, fw, e2m, resets>>

E2mWrites == {"e2mCheck", "preset", "e2mClock", "e2mClear"}

\* init_pci_e2m does nothing when both bridges have left their reset.
E2m ==
  /\ \/ /\ todo # <<>> /\ Head(todo) = Op("e2mCheck", 0)
        /\ IF \E b \in Bridges : e2m[b].reset THEN todo' = Tail(todo) ELSE Returns(E2mWrites)
        /\ UNCHANGED e2m
     \/ \E b \in Bridges :
          \/ Writes("preset", b) /\ e2m' = [e2m EXCEPT ![b].preset = TRUE]
          \/ Writes("e2mClock", b) /\ e2m' = [e2m EXCEPT ![b].clock = TRUE]
          \/ Writes("e2mClear", b) /\ e2m' = [e2m EXCEPT ![b].reset = FALSE]
  /\ UNCHANGED <<rvbar, ep, mpu, ufsAxi, rel, core, dp, fw, helper, resets>>

-----------------------------------------------------------------------------
(* The CA35 cores, and ATF when it is what they run.                       *)

\* A core fetches from its RVBAR: what it finds there, or nothing when the
\* memory does not answer.
Fetch(c) ==
  /\ rel /\ core[c] = "held"
  /\ core' = [core EXCEPT ![c] =
       IF ~(mpu.on /\ mpu.masters /\ mpu.range # "none" /\ ufsAxi) THEN "blocked"
       ELSE IF rvbar[c] = "old" THEN "stale"
       ELSE IF c = 0 THEN "atf" ELSE "spin"]
  /\ UNCHANGED <<todo, rvbar, ep, mpu, ufsAxi, rel, dp, fw, helper, e2m, resets>>

\* A secondary sees an entry point and jumps to it.
Jump(c) ==
  /\ core[c] = "spin" /\ ep[c] # <<"zero", "zero">>
  /\ core' = [core EXCEPT ![c] = IF ep[c] = <<"new", "new">> THEN "atf" ELSE "stale"]
  /\ UNCHANGED <<todo, rvbar, ep, mpu, ufsAxi, rel, dp, fw, helper, e2m, resets>>

\* ATF starts a secondary for PSCI; it writes both halves at once.
Publish(c) ==
  /\ core[0] = "atf" /\ ep[c] = <<"zero", "zero">>
  /\ ep' = [ep EXCEPT ![c] = <<"new", "new">>]
  /\ UNCHANGED <<todo, rvbar, mpu, ufsAxi, rel, core, dp, fw, helper, e2m, resets>>

Next ==
  \/ Reset \/ Mpu \/ UfsPath \/ Released \/ DpReset \/ DpVersion \/ DpCtrl \/ DpHandshake \/ E2m
  \/ \E c \in 0..3 : Rvbar(c) \/ SetEp(c)
  \/ \E i \in 1..FwWords : DpWord(i)
  \/ \E h \in Helpers : HelperWrite(h)
  \/ \E c \in Cores : Fetch(c)
  \/ \E c \in Secondaries : Jump(c) \/ Publish(c)

Spec == Init /\ [][Next]_releaseVars

-----------------------------------------------------------------------------
(* Properties.                                                             *)

TypeOK ==
  /\ rvbar \in [Cores -> {"old", "new"}]
  /\ ep \in [Cores -> {"zero", "old", "new"} \X {"zero", "old", "new"}]
  /\ core \in [Cores -> {"held", "spin", "atf", "stale", "blocked"}]
  /\ dp.imem \in [1..FwWords -> {"old", "new"}] /\ dp.hand \subseteq {0, 1}
  /\ resets \in 0..MaxResets

\* No core runs an entry point that this boot did not set, and none starts
\* before the memory answers it.
CoresStartRight == \A c \in Cores : core[c] \notin {"stale", "blocked"}

\* The DPMCU executes the whole firmware, when the flash has one, and nobody
\* writes its memory meanwhile; the SSP and TSP run what they were remapped to;
\* a bridge that leaves its reset has its clock and its presets.
HelpersStartRight ==
  /\ dp.run => /\ ~dp.window /\ ~dp.reset /\ dp.power
               /\ fw => \A i \in 1..FwWords : dp.imem[i] = "new"
  /\ \A h \in Helpers : helper[h].run => helper[h].remap = "new" /\ ~helper[h].reset
  /\ \A b \in Bridges : ~e2m[b].reset => e2m[b].clock /\ e2m[b].preset
=============================================================================
