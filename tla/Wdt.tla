--------------------------------- MODULE Wdt --------------------------------
(***************************************************************************)
(* The AST1060 watchdog (wdt.rs): start writes three registers while the   *)
(* counter may be running already, feed reloads it, stop disables it, and  *)
(* sys_reboot resets at once.                                              *)
(***************************************************************************)
EXTENDS Naturals

CONSTANTS
  Timeouts,  \* timeout_us of the handles
  MaxStarts  \* bound

WdtAssumption ==
  /\ Timeouts \subseteq Nat \ {0} /\ MaxStarts \in Nat
  /\ \E t \in Timeouts : \A u \in Timeouts : u <= t

VARIABLES
  timeout,   \* of the handle in use
  step,      \* the caller: "idle", "load", "enable" or "trigger"
  reload, count, en, rstSys,
  mask,      \* SW_RESET_MASK1
  down,      \* the reset: "no", "expired" or "asked"
  applied, since, \* history: the timeout in force, and the ticks since it was reloaded
  starts

wdtVars == <<timeout, step, reload, count, en, rstSys, mask, down, applied, since, starts>>
Longest == CHOOSE t \in Timeouts : \A u \in Timeouts : u <= t

TypeOK ==
  /\ timeout \in Timeouts /\ step \in {"idle", "load", "enable", "trigger"}
  /\ {reload, count, applied} \subseteq 0..Longest /\ {en, rstSys} \subseteq BOOLEAN
  /\ mask \in {"reset", "std"} /\ down \in {"no", "expired", "asked"} /\ starts \in 0..MaxStarts

\* The boot code may have left a count of its own, never a running watchdog.
Init ==
  /\ timeout \in Timeouts /\ step = "idle" /\ reload \in {0, Longest} /\ count \in {0, Longest}
  /\ en = FALSE /\ rstSys = FALSE /\ mask = "reset" /\ down = "no"
  /\ applied = 0 /\ since = 0 /\ starts = 0

Up == down = "no"

\* A microsecond passes; a count that is up resets the chip.
Tick ==
  /\ Up /\ en
  /\ IF count = 0 THEN down' = "expired" /\ UNCHANGED count ELSE count' = count - 1 /\ UNCHANGED down
  /\ since' = since + 1
  /\ UNCHANGED <<timeout, step, reload, en, rstSys, mask, applied, starts>>

\* A new handle on the instance, with a timeout of its own.
New(t) ==
  /\ Up /\ step = "idle" /\ timeout' = t /\ starts < MaxStarts
  /\ UNCHANGED <<step, reload, count, en, rstSys, mask, down, applied, since, starts>>

\* Mutant: the counter is restarted and then given its reload value.
StartRestartFirst ==
  /\ Up /\ step = "idle" /\ starts < MaxStarts /\ starts' = starts + 1
  /\ count' = reload /\ reload' = timeout /\ applied' = timeout /\ since' = 0 /\ step' = "enable"
  /\ UNCHANGED <<timeout, en, rstSys, mask, down>>

\* start: RELOAD, then RESTART, then CTRL.
Start ==
  /\ Up /\ step = "idle" /\ starts < MaxStarts /\ starts' = starts + 1
  /\ reload' = timeout /\ step' = "load"
  /\ UNCHANGED <<timeout, count, en, rstSys, mask, down, applied, since>>

Restarted == count' = reload /\ applied' = reload /\ since' = 0

Load ==
  /\ Up /\ step = "load" /\ Restarted /\ step' = "enable"
  /\ UNCHANGED <<timeout, reload, en, rstSys, mask, down, starts>>

Enable ==
  /\ Up /\ step = "enable" /\ en' = TRUE /\ rstSys' = TRUE /\ step' = "idle"
  /\ UNCHANGED <<timeout, reload, count, mask, down, applied, since, starts>>

Feed ==
  /\ Up /\ step = "idle" /\ Restarted
  /\ UNCHANGED <<timeout, step, reload, en, rstSys, mask, down, starts>>

\* CTRL is written whole: the reset bit goes with the enable bit.
Stop ==
  /\ Up /\ step = "idle" /\ en' = FALSE /\ rstSys' = FALSE
  /\ UNCHANGED <<timeout, step, reload, count, mask, down, applied, since, starts>>

\* Mutant: the trigger is written before the mask.
RebootAtOnce ==
  /\ Up /\ step = "idle" /\ down' = "asked"
  /\ UNCHANGED <<timeout, step, reload, count, en, rstSys, mask, applied, since, starts>>

\* sys_reboot: the mask, then the trigger.
Reboot ==
  /\ Up /\ step = "idle" /\ mask' = "std" /\ step' = "trigger"
  /\ UNCHANGED <<timeout, reload, count, en, rstSys, down, applied, since, starts>>

Trigger ==
  /\ Up /\ step = "trigger" /\ down' = "asked"
  /\ UNCHANGED <<timeout, step, reload, count, en, rstSys, mask, applied, since, starts>>

Next ==
  \/ Tick \/ (\E t \in Timeouts : New(t)) \/ Start \/ Load \/ Enable \/ Feed \/ Stop \/ Reboot \/ Trigger

Spec == Init /\ [][Next]_wdtVars

-----------------------------------------------------------------------------
\* The chip is reset by the counter exactly when a running watchdog was not
\* reloaded for the timeout then in force, neither by the count or the reload
\* value of an earlier start nor later; by software only with the mask in place.
Punctual ==
  /\ en /\ Up => count + since = applied
  /\ down = "expired" => since = applied + 1 /\ rstSys
  /\ down = "asked" => mask = "std"
=============================================================================
