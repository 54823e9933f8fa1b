--------------------------------- MODULE Sli --------------------------------
(***************************************************************************)
(* Calibration of the serial links between the two dies: `init_f`,         *)
(* `init_r` and the sweeps (src/embassy-aspeed/src/sli.rs).                *)
(*                                                                         *)
(* A sweep sets one pad delay after the other and looks whether the link   *)
(* comes to rest.  The processor may be restarted at any moment; what the  *)
(* two stages tell each other lies in registers and scratch words, which   *)
(* the restart leaves as they are.                                         *)
(***************************************************************************)
EXTENDS Integers

CONSTANTS
  Taps,       \* number of pad delays in a coarse sweep, counted from its first
  MinWindow,  \* the window that ends the tries of the MBUS sweep (3 in the code)
  Retries,    \* SLIM_RETRY_COUNT
  Margin,     \* SLIM_FINE_MARGIN
  Default,    \* SLIM_DEFAULT_DELAY
  VideoDelay, \* the fallback of calibrate_sliv
  Lanes,      \* number of MBUS lanes
  LaneEnd,    \* the end of the range of a lane (31)
  Earlier     \* bound: the windows an earlier run may have left in a scratch word

SliAssumption ==
  /\ Taps \in Nat \ {0} /\ MinWindow \in Nat /\ Retries \in Nat \ {0}
  /\ Margin \in Nat /\ Default \in Nat /\ VideoDelay \in Nat /\ Lanes \in Nat \ {0}
  /\ LaneEnd \in 0..255 /\ Taps <= LaneEnd /\ Default <= LaneEnd
  /\ <<0, 0>> \in Earlier /\ Earlier \subseteq {w \in (0..(Taps - 1)) \X (0..(Taps - 1)) : w[1] <= w[2]}

VARIABLES
  clk,       \* the engine clock of the IO die is sped up (is_calibrated)
  flags,     \* SLI0_READY, SLI_SKIP_CALI and SLI1_READY
  guarded,   \* the AHB controllers whose timeouts are on
  logged,    \* the window in the scratch word of each link
  delay,     \* the pad delay of each link
  spc, link, \* where the code stands, and the link it calibrates
  tap, first, last, win,  \* its locals: delay, d_first, d_last, win_size ...
  try, lane, lo, hi,      \* ... the number of the try, the lane and its range
  seen,      \* history: the delays that passed in this sweep
  windows,   \* history: the windows of the sweeps of this calibration
  cal        \* history: links that were calibrated since power-on

sliRegs == <<clk, flags, guarded, logged, delay>>
sweepVars == <<tap, first, last, win, try, lane, lo, hi, seen, windows>>
sliVars == <<sliRegs, spc, link, sweepVars, cal>>

Links == {"ahb", "slim", "up", "down"}
Points == {"start", "skipped", "sweep", "swept", "set", "lane", "lanedone", "r", "ahbc1", "ack", "ahbc0",
           "mark", "ok", "timeout"}
Delays == 0..255 + Margin + Default + VideoDelay

TypeOK ==
  /\ clk \in BOOLEAN /\ flags \subseteq {"ready", "skip", "ack"} /\ guarded \subseteq {0, 1}
  /\ logged \in [Links -> (0..255) \X (0..255)] /\ delay \in [Links -> Delays]
  /\ spc \in Points /\ link \in Links
  /\ tap \in Delays /\ {first, last} \subseteq {-1} \cup Delays /\ win \in 0..Taps
  /\ try \in 1..Retries /\ lane \in 0..Lanes /\ {lo, hi} \subseteq Delays
  /\ seen \subseteq Delays /\ windows \subseteq (0..Taps) \X (0..Taps) /\ cal \subseteq Links

\* A scratch word holds a window in two bytes; -1, of a lane where no delay passed,
\* comes back from it as 255.
Byte(d) == (256 + d) % 256
NoWindow == <<Byte(-1), Byte(-1)>>

\* Power-on, or a reset of the engines that came before SLI0_READY was set and left
\* in the scratch words what the run before it had logged.
Init ==
  /\ clk = FALSE /\ flags = {} /\ guarded = {0, 1}
  /\ \E a \in Earlier, s \in Earlier \cup {NoWindow} :
       logged = [l \in Links |-> CASE l = "ahb" -> a [] l = "slim" -> s [] OTHER -> <<0, 0>>]
  /\ delay = [l \in Links |-> 0]
  /\ spc = "start" /\ link = "ahb" /\ cal = {}
  /\ tap = 0 /\ first = -1 /\ last = -1 /\ win = 0 /\ try = 1 /\ lane = 0 /\ lo = 0 /\ hi = 0
  /\ seen = {} /\ windows = {}

\* The locals before a sweep.
Fresh ==
  /\ tap' = 0 /\ first' = -1 /\ last' = -1 /\ win' = 0 /\ try' = 1 /\ lane' = 0 /\ lo' = 0 /\ hi' = 0
  /\ seen' = {} /\ windows' = {}

\* The processor starts again; its locals are lost.
Restart ==
  /\ spc' = "start" /\ link' = "ahb" /\ Fresh
  /\ UNCHANGED <<sliRegs, cal>>

Goto(p) == spc' = p

-----------------------------------------------------------------------------
(* One sweep of calibrate_ahb, calibrate_slim or calibrate_sliv.           *)

BeginSweep(l) == Goto("sweep") /\ link' = l /\ Fresh

\* Mutant: a window is kept although a wider one is there.
MeasureLatest(pass) ==
  /\ spc = "sweep" /\ tap < Taps
  /\ tap' = tap + 1
  /\ IF pass
     THEN /\ first' = (IF first = -1 THEN tap ELSE first) /\ last' = tap /\ seen' = seen \cup {tap}
          /\ UNCHANGED <<win, logged>>
     ELSE /\ IF last # -1 /\ last > first
             THEN win' = last - first /\ logged' = [logged EXCEPT ![link] = <<first, last>>]
             ELSE UNCHANGED <<win, logged>>
          /\ first' = -1 /\ last' = -1 /\ UNCHANGED seen
  /\ UNCHANGED <<clk, flags, guarded, delay, spc, link, try, lane, lo, hi, windows, cal>>

\* One delay: a window that ends is logged when it is wider than those before.
Measure(pass) ==
  /\ spc = "sweep" /\ tap < Taps
  /\ tap' = tap + 1
  /\ IF pass
     THEN /\ first' = (IF first = -1 THEN tap ELSE first) /\ last' = tap /\ seen' = seen \cup {tap}
          /\ UNCHANGED <<win, logged>>
     ELSE /\ IF last # -1 /\ last - first > win
             THEN win' = last - first /\ logged' = [logged EXCEPT ![link] = <<first, last>>]
             ELSE UNCHANGED <<win, logged>>
          /\ first' = -1 /\ last' = -1 /\ UNCHANGED seen
  /\ UNCHANGED <<clk, flags, guarded, delay, spc, link, try, lane, lo, hi, windows, cal>>

\* The maximal runs of delays that passed.
WindowsOf(s) == {w \in s \X s : w[1] <= w[2] /\ w[1]..w[2] \subseteq s /\ {w[1] - 1, w[2] + 1} \cap s = {}}

\* Mutant: the open window is compared with the one in the scratch word.
EndSweepEarlier ==
  /\ spc = "sweep" /\ tap = Taps
  /\ LET wider == last # -1 /\ last - first > logged[link][2] - logged[link][1]
         w == IF wider THEN <<first, last>> ELSE logged[link]
     IN /\ first' = w[1] /\ last' = w[2] /\ logged' = [logged EXCEPT ![link] = w]
        /\ win' = IF wider THEN last - first ELSE win
  /\ windows' = windows \cup WindowsOf(seen)
  /\ Goto("swept")
  /\ UNCHANGED <<clk, flags, guarded, delay, link, tap, try, lane, lo, hi, seen, cal>>

\* The window that is still open is taken if it is the widest, otherwise the
\* one that the scratch word holds: of this sweep, or, where it had none, of an
\* earlier try, or of an earlier run.
EndSweep ==
  /\ spc = "sweep" /\ tap = Taps
  /\ LET w == IF last # -1 /\ last - first > win THEN <<first, last>> ELSE logged[link]
     IN /\ first' = w[1] /\ last' = w[2] /\ logged' = [logged EXCEPT ![link] = w]
        /\ win' = IF last # -1 /\ last - first > win THEN last - first ELSE win
  /\ windows' = windows \cup WindowsOf(seen)
  /\ Goto("swept")
  /\ UNCHANGED <<clk, flags, guarded, delay, link, tap, try, lane, lo, hi, seen, cal>>

\* calibrate_slim tries again as long as the window is narrow; what it has
\* logged stays.
TryAgain ==
  /\ spc = "swept" /\ link = "slim" /\ last - first < MinWindow /\ try < Retries
  /\ try' = try + 1 /\ tap' = 0 /\ first' = -1 /\ last' = -1 /\ seen' = {}
  /\ Goto("sweep")
  /\ UNCHANGED <<sliRegs, link, win, lane, lo, hi, windows, cal>>

\* Mutant: the last delay of the window is set.
MiddleLast == last

\* (d_first + d_last) >> 1; MBUS and video replace a zero.
Middle ==
  LET m == (first + last) \div 2
  IN IF m # 0 \/ link = "ahb" THEN m ELSE IF link = "slim" THEN Default ELSE VideoDelay

Choose ==
  /\ spc = "swept"
  /\ link = "slim" => last - first >= MinWindow \/ try = Retries
  /\ delay' = [delay EXCEPT ![link] = Middle]
  /\ Goto("set")
  /\ UNCHANGED <<clk, flags, guarded, logged, link, sweepVars, cal>>

-----------------------------------------------------------------------------
(* calibrate_slim_lane.                                                    *)

Least(a, b) == IF a < b THEN a ELSE b

\* The lanes are tuned one by one if the coarse sweep found a window.
FineTune ==
  /\ spc = "set" /\ link = "slim" /\ win > 0 /\ lane < Lanes
  /\ lo' = (IF delay["slim"] < Margin THEN 0 ELSE delay["slim"] - Margin)
  /\ hi' = Least(delay["slim"] + Margin, LaneEnd)
  /\ tap' = lo' /\ first' = -1 /\ last' = -1 /\ seen' = {} /\ try' = 1
  /\ Goto("lane")
  /\ UNCHANGED <<sliRegs, link, win, lane, windows, cal>>

\* The sweep of a lane ends at the first delay that fails after one that passed.
MeasureLane(pass) ==
  /\ spc = "lane" /\ tap < hi
  /\ IF pass
     THEN /\ first' = (IF first = -1 THEN tap ELSE first) /\ last' = tap /\ seen' = seen \cup {tap}
          /\ tap' = tap + 1
     ELSE /\ tap' = (IF last # -1 THEN hi ELSE tap + 1)
          /\ UNCHANGED <<first, last, seen>>
  /\ UNCHANGED <<sliRegs, spc, link, win, try, lane, lo, hi, windows, cal>>

LaneAgain ==
  /\ spc = "lane" /\ tap = hi /\ last - first < 3 /\ try < Retries
  /\ try' = try + 1 /\ tap' = lo /\ first' = -1 /\ last' = -1 /\ seen' = {}
  /\ UNCHANGED <<sliRegs, spc, link, win, lane, lo, hi, windows, cal>>

\* Mutant: a lane that never passed is set to the end of its range all the same.
LaneMiddleHi == IF first = -1 THEN hi ELSE last + 1

LaneMiddle == IF first = -1 THEN (lo + hi) \div 2 ELSE (first + last) \div 2

\* The delay of a lane is set; `delay` holds that of the coarse sweep.  The window
\* of the first lane is logged over that of the coarse sweep.
ChooseLane ==
  /\ spc = "lane" /\ tap = hi
  /\ last - first >= 3 \/ try = Retries
  /\ tap' = LaneMiddle
  /\ logged' = [logged EXCEPT !["slim"] = IF lane = 0 THEN <<Byte(first), Byte(last)>> ELSE @]
  /\ Goto("lanedone")
  /\ UNCHANGED <<clk, flags, guarded, delay, link, first, last, win, try, lane, lo, hi, seen, windows, cal>>

NextLane ==
  /\ spc = "lanedone"
  /\ lane' = lane + 1 /\ tap' = 0 /\ seen' = {} /\ first' = -1 /\ last' = -1 /\ lo' = 0 /\ hi' = 0 /\ try' = 1
  /\ Goto("set")
  /\ UNCHANGED <<sliRegs, link, win, windows, cal>>

-----------------------------------------------------------------------------
(* init_f and init_r.                                                      *)

\* init_f: a sped up clock or the skip flag ends it; otherwise the timeouts go
\* off and the clocks up before the sweeps.
InitF ==
  /\ spc = "start"
  /\ IF clk \/ "skip" \in flags
     THEN Goto("skipped") /\ UNCHANGED <<clk, guarded, link, sweepVars>>
     ELSE BeginSweep("ahb") /\ clk' = TRUE /\ guarded' = {}
  /\ UNCHANGED <<flags, logged, delay, cal>>

\* Mutant: SLI0_READY is set once the AHB link is calibrated.
AdvanceReadyEarly ==
  /\ spc = "set"
  /\ ~(link = "slim" /\ win > 0 /\ lane < Lanes)
  /\ cal' = cal \cup {link}
  /\ CASE link = "ahb" -> BeginSweep("slim") /\ flags' = flags \cup {"ready"}
       [] link = "slim" -> Goto("r") /\ flags' = flags \cup {"ready"} /\ UNCHANGED link /\ Fresh
       [] link = "up" -> BeginSweep("down") /\ UNCHANGED flags
       [] link = "down" -> Goto("ok") /\ UNCHANGED <<flags, link>> /\ Fresh
  /\ UNCHANGED <<clk, guarded, logged, delay>>

\* The link is calibrated: MBUS follows AHB and ends init_f, the downstream
\* video link follows the upstream one and ends init_r.
Advance ==
  /\ spc = "set"
  /\ ~(link = "slim" /\ win > 0 /\ lane < Lanes)
  /\ cal' = cal \cup {link}
  /\ CASE link = "ahb" -> BeginSweep("slim") /\ UNCHANGED flags
       [] link = "slim" -> Goto("r") /\ flags' = flags \cup {"ready"} /\ UNCHANGED link /\ Fresh
       [] link = "up" -> BeginSweep("down") /\ UNCHANGED flags
       [] link = "down" -> Goto("ok") /\ UNCHANGED <<flags, link>> /\ Fresh
  /\ UNCHANGED <<clk, guarded, logged, delay>>

\* init_r: the skip flag ends it, and so does SLI0_READY when it stays clear.
InitR ==
  /\ spc \in {"skipped", "r"}
  /\ Goto(CASE "skip" \in flags -> "ok" [] "skip" \notin flags /\ "ready" \in flags -> "ahbc1" [] OTHER -> "timeout")
  /\ UNCHANGED <<sliRegs, link, sweepVars, cal>>

\* Mutant: the skip flag is set before the timeouts are back.
SettleMarkFirst ==
  /\ \/ spc = "ahbc1" /\ guarded' = guarded \cup {1} /\ flags' = flags \cup {"skip"} /\ Goto("ack") /\ UNCHANGED <<link, sweepVars>>
     \/ spc = "ack" /\ flags' = flags \cup {"ack"} /\ Goto("ahbc0") /\ UNCHANGED <<guarded, link, sweepVars>>
     \/ spc = "ahbc0" /\ guarded' = guarded \cup {0} /\ Goto("mark") /\ UNCHANGED <<flags, link, sweepVars>>
     \/ spc = "mark" /\ BeginSweep("up") /\ UNCHANGED <<flags, guarded>>
  /\ UNCHANGED <<clk, logged, delay, cal>>

\* The timeouts of AHBC1, the acknowledgement, those of AHBC0, the skip flag.
Settle ==
  /\ \/ spc = "ahbc1" /\ guarded' = guarded \cup {1} /\ Goto("ack") /\ UNCHANGED <<flags, link, sweepVars>>
     \/ spc = "ack" /\ flags' = flags \cup {"ack"} /\ Goto("ahbc0") /\ UNCHANGED <<guarded, link, sweepVars>>
     \/ spc = "ahbc0" /\ guarded' = guarded \cup {0} /\ Goto("mark") /\ UNCHANGED <<flags, link, sweepVars>>
     \/ spc = "mark" /\ flags' = flags \cup {"skip"} /\ BeginSweep("up") /\ UNCHANGED guarded
  /\ UNCHANGED <<clk, logged, delay, cal>>

Next ==
  \/ Restart \/ InitF \/ InitR \/ Settle \/ Advance
  \/ \E pass \in BOOLEAN : Measure(pass) \/ MeasureLane(pass)
  \/ EndSweep \/ TryAgain \/ Choose \/ FineTune \/ LaneAgain \/ ChooseLane \/ NextLane

Spec == Init /\ [][Next]_sliVars

-----------------------------------------------------------------------------
(* Properties.                                                             *)

Width(w) == w[2] - w[1]
Wide == {w \in windows : Width(w) > 0}

\* A coarse sweep that found a window in any of its tries sets the middle of a
\* widest one, never that of a window an earlier run has logged, and a lane whose
\* last try passed anywhere is set to a delay that passed.  A middle of zero is
\* replaced by the fallback.
Centred ==
  /\ spc = "set" /\ lane = 0 /\ Wide # {} =>
       \E w \in Wide : /\ \A v \in Wide : Width(v) <= Width(w)
                       /\ \/ delay[link] = (w[1] + w[2]) \div 2
                          \/ link # "ahb" /\ w = <<0, 1>>
  /\ spc = "lanedone" /\ seen # {} => tap \in seen

\* Wherever restarts came, init_r returns Ok only with the AHB and MBUS links
\* calibrated and the timeouts of both AHB controllers back.
SoundWhenOk == spc = "ok" => {"ahb", "slim"} \subseteq cal /\ guarded = {0, 1}
=============================================================================
