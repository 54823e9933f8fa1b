-------------------------------- MODULE Pwm ---------------------------------
(***************************************************************************)
(* A PWM output and a fan tachometer (pwm.rs): what the integer arithmetic *)
(* of frequencies, duty cycles and thresholds makes of a request.  A call  *)
(* is a step; its read-modify-writes are not interrupted.                  *)
(*                                                                         *)
(* The falling point 0 is special to the controller: the output is then    *)
(* active throughout (the comment in set_duty_percent).                    *)
(***************************************************************************)
EXTENDS Naturals

CONSTANTS
  Clock,       \* bound: input_clk_hz
  Period,      \* PWM_PERIOD_MAX + 1
  DivMax,      \* the largest div_l
  Threshold,   \* TACH_THRESHOLD_MASK
  Minute,      \* 60, the seconds of a minute
  Percents,    \* bound: the duty cycles asked for, in percent (u8)
  Targets,     \* bound: target_hz
  Rpms,        \* bound: min_rpm
  Pulses       \* bound: ppr

PwmAssumption ==
  /\ {Clock, Period, DivMax, Threshold, Minute} \subseteq Nat \ {0}
  /\ Period >= 100
  /\ Percents \subseteq 0..255
  /\ Targets \cup Rpms \cup Pulses \subseteq Nat \ {0}
  /\ \A r \in Rpms : r >= Minute

VARIABLES
  clkEn, pinEn, inverse,  \* PWM_CTRL
  div,                    \* PWM_CTRL: div_l
  period, falling,        \* PWM_DUTY: period + 1 and the falling point
  asked,                  \* history: the percentage asked for, or NoDuty
  later,                  \* history: which of "frequency" (set_frequency_hz) and
                          \* "enable" were called after set_duty_percent
  target,                 \* history: the frequency, or 0
  tach,                   \* TACH_CTRL: whether it is enabled
  limit,                  \* TACH_CTRL: the threshold
  fan                     \* history: [rpm, ppr] that the threshold is for, or NoFan

pwmVars == <<clkEn, pinEn, inverse, div, period, falling, asked, later, target, tach, limit, fan>>
NoDuty == 256
NoFan == [rpm |-> 0, ppr |-> 0]

Init ==
  /\ clkEn = FALSE /\ pinEn = FALSE /\ inverse = FALSE
  /\ div = 0 /\ period = 1 /\ falling = 0 /\ target = 0
  /\ asked = NoDuty /\ later = {}
  /\ tach = FALSE /\ limit = 0 /\ fan = NoFan

-----------------------------------------------------------------------------
(* The output.                                                             *)

Least(a, b) == IF a < b THEN a ELSE b

\* Mutant: the divisor is not made one less.
DivisorKept(hz) == Least(Clock \div (hz * Period), DivMax)

\* The register holds the divisor less one, and is saturated at both ends.
Divisor(hz) ==
  LET divisor == Clock \div (hz * Period) IN Least(IF divisor = 0 THEN 0 ELSE divisor - 1, DivMax)

\* set_frequency_hz also clears the falling point; what is said of it is that
\* the duty cycle is then 50%.
SetFrequency(hz) ==
  /\ div' = Divisor(hz) /\ period' = Period /\ falling' = 0
  /\ target' = hz /\ asked' = 50 /\ later' = {"frequency"}
  /\ UNCHANGED <<clkEn, pinEn, inverse, tach, limit, fan>>

\* Mutant: the falling point is scaled by the period less one.
FallingShort(percent) == IF percent = 0 \/ percent >= 100 THEN 0 ELSE ((period - 1) * (percent - 1)) \div 100

Falling(percent) == IF percent = 0 \/ percent >= 100 THEN 0 ELSE (period * percent) \div 100

SetDuty(percent) ==
  /\ falling' = Falling(percent) /\ clkEn' = (percent # 0)
  /\ asked' = percent /\ later' = {}
  /\ UNCHANGED <<pinEn, inverse, div, period, target, tach, limit, fan>>

\* enable, disable and set_inverted.
Switch ==
  /\ \/ pinEn' = TRUE /\ clkEn' = TRUE /\ later' = later \cup {"enable"}
        /\ UNCHANGED inverse
     \/ pinEn' = FALSE /\ UNCHANGED <<clkEn, inverse, later>>
     \/ inverse' \in BOOLEAN /\ UNCHANGED <<pinEn, clkEn, later>>
  /\ UNCHANGED <<div, period, falling, asked, target, tach, limit, fan>>

-----------------------------------------------------------------------------
(* The tachometer.                                                         *)

TachEnable ==
  /\ tach' = TRUE /\ limit' = Threshold \div 2 /\ fan' = NoFan
  /\ UNCHANGED <<clkEn, pinEn, inverse, div, period, falling, asked, later, target>>

TachDisable ==
  /\ tach' = FALSE
  /\ UNCHANGED <<clkEn, pinEn, inverse, div, period, falling, asked, later, target, limit, fan>>

\* Mutant: the revolutions of a minute are not made those of a second.
FromRpmMinutes(rpm, ppr) == Least(Clock \div (rpm * ppr), Threshold)

\* Mutant: the threshold is not limited to its field.
FromRpmUncapped(rpm, ppr) == Clock \div ((rpm \div Minute) * ppr)

\* threshold_from_rpm rounds the revolutions per second down.
FromRpm(rpm, ppr) == Least(Clock \div ((rpm \div Minute) * ppr), Threshold)

SetThreshold(rpm, ppr) ==
  /\ limit' = FromRpm(rpm, ppr) /\ fan' = [rpm |-> rpm, ppr |-> ppr]
  /\ UNCHANGED <<clkEn, pinEn, inverse, div, period, falling, asked, later, target, tach>>

Next ==
  \/ \E hz \in Targets : SetFrequency(hz)
  \/ \E p \in Percents : SetDuty(p)
  \/ Switch \/ TachEnable \/ TachDisable
  \/ \E r \in Rpms, p \in Pulses : SetThreshold(r, p)

Spec == Init /\ [][Next]_pwmVars

-----------------------------------------------------------------------------
(* Properties.                                                             *)

TypeOK == div \in 0..DivMax /\ period \in {1, Period} /\ falling \in 0..Period /\ limit \in 0..Threshold

\* The cycles of an edge pair of a fan at `rpm`.
Cycles(rpm, ppr) == (Clock * Minute) \div (rpm * ppr)

\* How much of a period the output is active: not at all without its clock, all
\* of it when the falling point is 0.
Active == IF ~clkEn THEN 0 ELSE IF falling = 0 THEN period ELSE falling

\* That is `percent` of the period, to within a step.
ActiveFor(percent) == Active * 100 <= percent * period /\ percent * period < (Active + 1) * 100

\* Two sequences of calls after which a duty cycle asked for is not the one the
\* output has: the frequency is set last, and an output that was set to 0% is
\* enabled again.
FrequencyLast == "frequency" \in later
StartedAgain == asked = 0 /\ "enable" \in later

\* The output is not slower than asked unless the divisor is at its end, and
\* not more than one divisor step faster; but for FrequencyLast and StartedAgain
\* it is active for the percentage asked for, from none of the period at 0 to all
\* of it at 100 and above; and a fan at its least speed or above is not reported
\* as stopped while the counter can hold its period.
AsAsked ==
  /\ target # 0 =>
       /\ div < DivMax => Clock < target * Period * (div + 2)
       /\ div > 0 => Clock >= target * Period * (div + 1)
  /\ asked # NoDuty /\ period = Period /\ ~FrequencyLast /\ ~StartedAgain =>
       ActiveFor(Least(asked, 100))
  /\ (fan # NoFan /\ Cycles(fan.rpm, fan.ppr) <= Threshold) =>
       \A faster \in 0..2 : Cycles(fan.rpm + faster, fan.ppr) <= limit

\* What the doc of set_frequency_hz says, that it uses a 50% duty cycle: an
\* enabled output whose frequency was set last is active for half of a period.
HalfAfterFrequency == FrequencyLast /\ pinEn /\ clkEn => ActiveFor(asked)
=============================================================================
