-------------------------------- MODULE Timer -------------------------------
(***************************************************************************)
(* The countdown timers: `CountdownTimer::start`, `stop` and `wait`, the   *)
(* future `TimerWait` and the interrupt handlers                           *)
(* (src/embassy-aspeed/src/timer.rs).                                      *)
(*                                                                         *)
(* A running timer counts down from its reload value to zero, latches its  *)
(* bit of INT_STATUS and reloads.  It runs beside the core: it may tick    *)
(* between any two steps of a poll and of the handler.                     *)
(***************************************************************************)
EXTENDS Naturals, FiniteSets

CONSTANTS
  Timers,    \* the timers in use
  Tasks,     \* the tasks; each owns one CountdownTimer
  TimerOf,   \* TimerOf[t]: the timer of task t
  Periods,   \* the periods, in microseconds, the tasks ask for
  None       \* no task, no timer

\* What the modules that use this one assume of the constants.
TimerAssumption ==
  /\ TimerOf \in [Tasks -> Timers]
  /\ Periods \subseteq Nat \ {0}
  /\ None \notin Tasks \cup Timers

VARIABLES
  en, reload, cnt,  \* the control bit, T_RELOAD and the counter of each timer
  status,           \* INT_STATUS
  wakers,           \* TIMER_WAKERS
  pc,               \* pc[t]: where task t stands in start or in TimerWait
  ready, cur,       \* the run queue and the task being polled
  isrPc, isrNo,     \* the handler and its timer
  due               \* history: tasks whose timer overflowed while they waited

hwVars   == <<en, reload, cnt, status>>
taskVars == <<pc, ready, cur>>
isrVars  == <<isrPc, isrNo>>
vars == <<hwVars, wakers, taskVars, isrVars, due>>

WaitSteps == {"check", "take", "register", "recheck", "pending"}

TypeOK ==
  /\ en \in [Timers -> BOOLEAN]
  /\ reload \in [Timers -> Nat] /\ cnt \in [Timers -> Nat]
  /\ status \subseteq Timers
  /\ wakers \in [Timers -> Tasks \cup {None}]
  /\ pc \in [Tasks -> WaitSteps \cup {"idle", "enable"}]
  /\ ready \subseteq Tasks
  /\ cur \in Tasks \cup {None}
  /\ isrPc \in {"off", "clear", "wake"} /\ isrNo \in Timers \cup {None}
  /\ due \subseteq Tasks

Init ==
  /\ en = [n \in Timers |-> FALSE]
  /\ reload = [n \in Timers |-> 0] /\ cnt = [n \in Timers |-> 0]
  /\ status = {}
  /\ wakers = [n \in Timers |-> None]
  /\ pc = [t \in Tasks |-> "idle"]
  /\ ready = Tasks /\ cur = None
  /\ isrPc = "off" /\ isrNo = None
  /\ due = {}

-----------------------------------------------------------------------------
(* The timers and the handler.                                             *)

Waiting(t) == pc[t] \in WaitSteps

\* A microsecond passes for timer n.
Tick(n) ==
  /\ en[n]
  /\ IF cnt[n] = 0
     THEN /\ cnt' = [cnt EXCEPT ![n] = reload[n]]
          /\ status' = status \cup {n}
          /\ due' = due \cup {t \in Tasks : TimerOf[t] = n /\ pc[t] = "pending"}
     ELSE /\ cnt' = [cnt EXCEPT ![n] = @ - 1]
          /\ UNCHANGED <<status, due>>
  /\ UNCHANGED <<en, reload, wakers, taskVars, isrVars>>

IsrEnter(n) ==
  /\ isrPc = "off" /\ n \in status
  /\ isrPc' = "clear" /\ isrNo' = n
  /\ UNCHANGED <<hwVars, wakers, taskVars, due>>

\* Mutant: the status bits of all timers are cleared.
IsrClearAll ==
  /\ isrPc = "clear"
  /\ status' = {}
  /\ isrPc' = "wake"
  /\ UNCHANGED <<en, reload, cnt, wakers, taskVars, isrNo, due>>

\* on_interrupt clears the bit of its timer ...
IsrClear ==
  /\ isrPc = "clear"
  /\ status' = status \ {isrNo}
  /\ isrPc' = "wake"
  /\ UNCHANGED <<en, reload, cnt, wakers, taskVars, isrNo, due>>

\* Mutant: an unregistered waker is woken like any other.
IsrWakeUnregistered ==
  /\ isrPc = "wake"
  /\ ready' = ready \cup {wakers[isrNo]}
  /\ isrPc' = "off"
  /\ UNCHANGED <<hwVars, wakers, pc, cur, isrNo, due>>

\* ... and wakes the task registered for it.
IsrWake ==
  /\ isrPc = "wake"
  /\ ready' = ready \cup ({wakers[isrNo]} \ {None})
  /\ isrPc' = "off"
  /\ UNCHANGED <<hwVars, wakers, pc, cur, isrNo, due>>

Isr == (\E n \in Timers : IsrEnter(n)) \/ IsrClear \/ IsrWake

-----------------------------------------------------------------------------
(* The tasks.                                                              *)

Running(t) == isrPc = "off" /\ cur = t
Goto(t, l) == pc' = [pc EXCEPT ![t] = l]

\* The executor polls t; a pending TimerWait is polled from its start.
Poll(t) ==
  /\ isrPc = "off" /\ cur = None /\ t \in ready
  /\ cur' = t
  /\ ready' = ready \ {t}
  /\ IF pc[t] = "pending" THEN Goto(t, "check") ELSE UNCHANGED pc
  /\ UNCHANGED <<hwVars, wakers, isrVars, due>>

OtherWake(t) ==
  /\ t \notin ready
  /\ ready' = ready \cup {t}
  /\ UNCHANGED <<hwVars, wakers, pc, cur, isrVars, due>>

\* The poll drops a pending wait; nothing is undone.
Cancel(t) ==
  /\ isrPc = "off" /\ cur = None /\ t \in ready
  /\ pc[t] = "pending"
  /\ cur' = t
  /\ ready' = ready \ {t}
  /\ Goto(t, "idle")
  /\ due' = due \ {t}
  /\ UNCHANGED <<hwVars, wakers, isrVars>>

Yield(t) ==
  /\ Running(t) /\ pc[t] = "idle"
  /\ cur' = None
  /\ UNCHANGED <<hwVars, wakers, pc, ready, isrVars, due>>

\* start: the reload value is the period itself ...
StartReload(t, p) ==
  /\ Running(t) /\ pc[t] = "idle"
  /\ reload' = [reload EXCEPT ![TimerOf[t]] = p]
  /\ Goto(t, "enable")
  /\ UNCHANGED <<en, cnt, status, wakers, ready, cur, isrVars, due>>

\* ... and CTRL enables the timer; one that already runs goes on counting.
StartEnable(t) ==
  LET n == TimerOf[t] IN
  /\ Running(t) /\ pc[t] = "enable"
  /\ en' = [en EXCEPT ![n] = TRUE]
  /\ cnt' = IF en[n] THEN cnt ELSE [cnt EXCEPT ![n] = reload[n]]
  /\ Goto(t, "idle")
  /\ UNCHANGED <<reload, status, wakers, ready, cur, isrVars, due>>

Stop(t) ==
  /\ Running(t) /\ pc[t] = "idle"
  /\ en' = [en EXCEPT ![TimerOf[t]] = FALSE]
  /\ UNCHANGED <<reload, cnt, status, wakers, taskVars, isrVars, due>>

BeginWait(t) ==
  /\ Running(t) /\ pc[t] = "idle"
  /\ Goto(t, "check")
  /\ UNCHANGED <<hwVars, wakers, ready, cur, isrVars, due>>

Check(t) ==
  /\ Running(t) /\ pc[t] = "check"
  /\ Goto(t, IF TimerOf[t] \in status THEN "take" ELSE "register")
  /\ UNCHANGED <<hwVars, wakers, ready, cur, isrVars, due>>

\* The poll found the bit, clears it and returns Ready.
Take(t) ==
  /\ Running(t) /\ pc[t] = "take"
  /\ status' = status \ {TimerOf[t]}
  /\ Goto(t, "idle")
  /\ due' = due \ {t}
  /\ UNCHANGED <<en, reload, cnt, wakers, ready, cur, isrVars>>

\* Mutant: the poll goes on without registering its waker.
RegisterNothing(t) ==
  /\ Running(t) /\ pc[t] = "register"
  /\ Goto(t, "recheck")
  /\ UNCHANGED <<hwVars, wakers, ready, cur, isrVars, due>>

Register(t) ==
  /\ Running(t) /\ pc[t] = "register"
  /\ wakers' = [wakers EXCEPT ![TimerOf[t]] = t]
  /\ Goto(t, "recheck")
  /\ UNCHANGED <<hwVars, ready, cur, isrVars, due>>

Recheck(t) ==
  /\ Running(t) /\ pc[t] = "recheck"
  /\ \/ TimerOf[t] \in status /\ Goto(t, "take") /\ UNCHANGED <<cur, due>>
     \/ TimerOf[t] \notin status /\ Goto(t, "pending") /\ cur' = None /\ due' = due \ {t}
  /\ UNCHANGED <<hwVars, wakers, ready, isrVars>>

Inside(t) == StartEnable(t) \/ Check(t) \/ Take(t) \/ Register(t) \/ Recheck(t)

Next ==
  \/ \E n \in Timers : Tick(n)
  \/ Isr
  \/ \E t \in Tasks :
       \/ Poll(t) \/ OtherWake(t) \/ Cancel(t) \/ Yield(t) \/ Stop(t) \/ BeginWait(t)
       \/ \E p \in Periods : StartReload(t, p)
       \/ Inside(t)

Spec == Init /\ [][Next]_vars

\* Enabled timers count, the handler runs whenever it can, no task stays in
\* one poll for ever, and the executor polls what is in its run queue.  The
\* handler preempts thread code only finitely often between two of its steps.
Fairness ==
  /\ \A n \in Timers : WF_vars(Tick(n))
  /\ \A n \in Timers : SF_vars(IsrEnter(n))
  /\ WF_vars(IsrClear \/ IsrWake)
  /\ SF_vars(\E t \in Tasks : Inside(t)) /\ SF_vars(\E t \in Tasks : Yield(t))
  /\ \A t \in Tasks : SF_vars(Poll(t))

FairSpec == Spec /\ Fairness

-----------------------------------------------------------------------------
(* Properties.                                                             *)

Sole(t) == \A u \in Tasks : u # t => TimerOf[u] # TimerOf[t]

\* A task alone on its timer that returned Pending and whose timer then
\* overflowed has the overflow still ahead of the handler or is in the run
\* queue: registration, the second look at INT_STATUS and a handler that clears
\* it before it wakes lose no wake-up, also when other timers overflow.
NoLostWakeup ==
  \A t \in Tasks : t \in due /\ Sole(t) /\ pc[t] = "pending" =>
     TimerOf[t] \in status \/ (isrPc # "off" /\ isrNo = TimerOf[t]) \/ t \in ready

\* Such a task is polled again.
PolledAfterOverflow == \A t \in Tasks : (t \in due /\ Sole(t)) ~> t \notin due

\* What the module's doc says: the handler clears INT_STATUS and wakes, and
\* the future resolves on the next poll.
ResolvesOnNextPoll ==
  [][\A t \in Tasks : pc[t] = "recheck" /\ pc'[t] = "pending" => t \notin due]_vars
=============================================================================
