------------------------------ MODULE TickDriver ----------------------------
(***************************************************************************)
(* The SysTick time driver of the AST1060 and the AST2600 SSP: `now`,      *)
(* `schedule_wake` and `on_tick` (src/embassy-aspeed/src/time_driver.rs).  *)
(*                                                                         *)
(* There is no alarm: the handler counts the ticks and serves the queue at *)
(* each.  Every operation is one critical section.  A period that ends     *)
(* while the interrupt is still pending is not counted.                    *)
(***************************************************************************)
EXTENDS Naturals

CONSTANTS
  Sleepers,  \* tasks that sleep
  MaxTicks,  \* bound: the ticks counted
  MaxWake,   \* bound: the latest deadline
  Never      \* no deadline

TickDriverAssumption == MaxTicks \in Nat /\ MaxWake \in Nat /\ MaxWake <= MaxTicks /\ Never \notin Nat

VARIABLES
  ticks,   \* the tick count
  pend,    \* SysTick is pending
  masked,  \* the thread has interrupts disabled
  wake     \* wake[t]: the deadline of t in the embassy queue, or Never

tickVars == <<ticks, pend, masked, wake>>

TypeOK ==
  /\ ticks \in 0..MaxTicks /\ pend \in BOOLEAN /\ masked \in BOOLEAN
  /\ wake \in [Sleepers -> 0..MaxWake \cup {Never}]

Init ==
  /\ ticks = 0 /\ pend = FALSE /\ masked = FALSE
  /\ wake = [t \in Sleepers |-> Never]

\* Mutant: only who is due at this very tick is woken.
DueNow(q, now) == {t \in Sleepers : q[t] = now}

\* Mutant: who is due at the next tick is woken.
DueSoon(q, now) == {t \in Sleepers : q[t] # Never /\ q[t] <= now + 1}

\* Queue::next_expiration: who is due is woken.
Due(q, now) == {t \in Sleepers : q[t] # Never /\ q[t] <= now}

Expire(q, now) == wake' = [t \in Sleepers |-> IF t \in Due(q, now) THEN Never ELSE q[t]]

Period ==
  /\ ticks < MaxTicks
  /\ pend' = TRUE
  /\ UNCHANGED <<ticks, masked, wake>>

OnTick ==
  /\ pend /\ ~masked
  /\ pend' = FALSE /\ ticks' = ticks + 1
  /\ Expire(wake, ticks')
  /\ UNCHANGED masked

\* Critical sections of other code.
Mask == masked' = ~masked /\ UNCHANGED <<ticks, pend, wake>>

\* A deadline no later than the new one stays; a new one may be due already.
ScheduleWake(t, at) ==
  /\ ~masked
  /\ IF wake[t] # Never /\ wake[t] <= at
     THEN UNCHANGED wake
     ELSE Expire([wake EXCEPT ![t] = at], ticks)
  /\ UNCHANGED <<ticks, pend, masked>>

Next ==
  \/ Period \/ OnTick \/ Mask
  \/ \E t \in Sleepers, at \in 0..MaxWake : ScheduleWake(t, at)

Spec == Init /\ [][Next]_tickVars

\* The counter runs, critical sections end and a pending interrupt is taken
\* when interrupts are enabled.
Fairness == WF_tickVars(Period) /\ WF_tickVars(masked /\ Mask) /\ SF_tickVars(OnTick)

-----------------------------------------------------------------------------
(* Properties.                                                             *)

\* The handler wakes no task before its deadline.
NeverEarly ==
  [][ticks' # ticks => \A t \in Sleepers : wake[t] # Never /\ wake'[t] = Never => wake[t] <= ticks']_tickVars

\* Every deadline in the queue is served, also one that has passed when it is
\* entered, and whatever ticks were lost in critical sections.
Served == \A t \in Sleepers : wake[t] # Never ~> wake[t] = Never
=============================================================================
