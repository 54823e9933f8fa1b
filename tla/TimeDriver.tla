----------------------------- MODULE TimeDriver -----------------------------
(***************************************************************************)
(* The time driver of the BootMCU: `now`, `schedule_wake` and the machine  *)
(* timer interrupt (src/embassy-aspeed/src/time_driver_rv.rs).             *)
(*                                                                         *)
(* The 64-bit counter and the 64-bit alarm are read and written in two     *)
(* halves of 32 bits while the counter runs; here a half is a digit below  *)
(* Base.  schedule_wake and the handler run with interrupts disabled, now  *)
(* does not.                                                               *)
(***************************************************************************)
EXTENDS Integers, FiniteSetsExt

CONSTANTS
  Tasks,     \* tasks that sleep
  Base,      \* stands for 2^32
  MaxCount,  \* bound: the counter stops there
  MaxAt,     \* bound: the latest deadline
  Level,     \* the alarm matches any count from its value on, not that value alone
  None       \* no deadline, no task

ASSUME TimeDriverAssumption ==
  /\ Base \in Nat \ {0, 1}
  /\ MaxAt \in Nat /\ MaxCount \in Nat
  /\ MaxAt < MaxCount /\ MaxCount < Base * Base - 1
  /\ Level \in BOOLEAN
  /\ None \notin Nat /\ None \notin Tasks

VARIABLES
  count,  \* the counter
  match,  \* MATCH_H and MATCH_L
  intr,   \* INTR_STS: the machine timer interrupt is pending
  queue,  \* queue[t]: the deadline of t in the embassy queue, or None
  who,    \* the task that calls schedule_wake, or None ...
  at,     \* ... and the deadline that it passes
  pc,     \* pc[c]: where the thread and the handler stand in the driver
  h, l,   \* h[c], l[c]: the halves of the counter that c has read
  next,   \* next[c]: the alarm that c is going to set
  start   \* history: start[c] is the counter when c began to read it

hwVars == <<count, match, intr>>
callVars == <<who, at>>
localVars == <<h, l, next, start>>
vars == <<hwVars, queue, callVars, pc, localVars>>

Contexts == {"thread", "isr"}
Max64 == Base * Base - 1
Alarm == match.h * Base + match.l

TypeOK ==
  /\ count \in 0..MaxCount
  /\ match \in [h : 0..Base - 1, l : 0..Base - 1]
  /\ intr \in BOOLEAN
  /\ queue \in [Tasks -> 0..MaxAt \cup {None}]
  /\ who \in Tasks \cup {None} /\ at \in 0..MaxAt
  /\ pc \in [Contexts -> {"out", "enqueue", "high", "low", "again", "got", "armh", "arml"}]
  /\ h \in [Contexts -> 0..Base - 1] /\ l \in [Contexts -> 0..Base - 1]
  /\ next \in [Contexts -> 0..Max64]
  /\ start \in [Contexts -> 0..MaxCount]

\* init has parked the alarm and started the counter.
Init ==
  /\ count = 0 /\ match = [h |-> Base - 1, l |-> Base - 1] /\ intr = FALSE
  /\ queue = [t \in Tasks |-> None]
  /\ who = None /\ at = 0
  /\ pc = [c \in Contexts |-> "out"]
  /\ h = [c \in Contexts |-> 0] /\ l = [c \in Contexts |-> 0]
  /\ next = [c \in Contexts |-> 0] /\ start = [c \in Contexts |-> 0]

-----------------------------------------------------------------------------
(* The timer.                                                              *)

Tick ==
  /\ count < MaxCount
  /\ count' = count + 1
  /\ intr' = (intr \/ (~Level /\ count' = Alarm))
  /\ UNCHANGED <<match, queue, callVars, pc, localVars>>

Match ==
  /\ Level /\ ~intr /\ count >= Alarm
  /\ intr' = TRUE
  /\ UNCHANGED <<count, match, queue, callVars, pc, localVars>>

-----------------------------------------------------------------------------
(* Who runs: the handler interrupts the thread outside schedule_wake.      *)

Masked == who # None

Runs(c) == c = "isr" \/ pc["isr"] = "out"
At(c, p) == Runs(c) /\ pc[c] = p
Goto(c, p) == pc' = [pc EXCEPT ![c] = p]

Forget(c) ==
  /\ Goto(c, "out")
  /\ h' = [h EXCEPT ![c] = 0] /\ l' = [l EXCEPT ![c] = 0]
  /\ next' = [next EXCEPT ![c] = 0] /\ start' = [start EXCEPT ![c] = 0]

IsrEnter ==
  /\ intr /\ ~Masked /\ pc["isr"] = "out"
  /\ Goto("isr", "high")
  /\ UNCHANGED <<hwVars, queue, callVars, localVars>>

CallNow ==
  /\ At("thread", "out")
  /\ Goto("thread", "high")
  /\ UNCHANGED <<hwVars, queue, callVars, localVars>>

CallScheduleWake(t, a) ==
  /\ At("thread", "out")
  /\ who' = t /\ at' = a
  /\ Goto("thread", "enqueue")
  /\ UNCHANGED <<hwVars, queue, localVars>>

\* Mutant: the deadline is rounded up by a tick.
EnqueueRounded ==
  /\ At("thread", "enqueue")
  /\ IF queue[who] # None /\ queue[who] <= at
     THEN /\ Goto("thread", "out") /\ who' = None /\ at' = 0
          /\ UNCHANGED queue
     ELSE /\ queue' = [queue EXCEPT ![who] = at + 1]
          /\ Goto("thread", "high")
          /\ UNCHANGED callVars
  /\ UNCHANGED <<hwVars, localVars>>

\* Queue::schedule_wake: a deadline no later than the new one stays.
Enqueue ==
  /\ At("thread", "enqueue")
  /\ IF queue[who] # None /\ queue[who] <= at
     THEN /\ Goto("thread", "out") /\ who' = None /\ at' = 0
          /\ UNCHANGED queue
     ELSE /\ queue' = [queue EXCEPT ![who] = at]
          /\ Goto("thread", "high")
          /\ UNCHANGED callVars
  /\ UNCHANGED <<hwVars, localVars>>

-----------------------------------------------------------------------------
(* read_count.                                                             *)

ReadHigh(c) ==
  /\ At(c, "high")
  /\ h' = [h EXCEPT ![c] = count \div Base]
  /\ start' = [start EXCEPT ![c] = count]
  /\ Goto(c, "low")
  /\ UNCHANGED <<hwVars, queue, callVars, l, next>>

ReadLow(c) ==
  /\ At(c, "low")
  /\ l' = [l EXCEPT ![c] = count % Base]
  /\ Goto(c, "again")
  /\ UNCHANGED <<hwVars, queue, callVars, h, next, start>>

\* Mutant: the second high half is not read.
ReadAgainSkipped(c) ==
  /\ At(c, "again")
  /\ Goto(c, "got")
  /\ UNCHANGED <<hwVars, queue, callVars, localVars>>

\* The low half counts only if the high half has not changed around it.
ReadAgain(c) ==
  /\ At(c, "again")
  /\ Goto(c, IF count \div Base = h[c] THEN "got" ELSE "high")
  /\ UNCHANGED <<hwVars, queue, callVars, localVars>>

Read(c) == h[c] * Base + l[c]

-----------------------------------------------------------------------------
(* The queue and the alarm.                                                *)

NowReturns ==
  /\ At("thread", "got") /\ who = None
  /\ Forget("thread")
  /\ UNCHANGED <<hwVars, queue, callVars>>

\* Mutant: a deadline of the next tick is due.
DueNextTick(c) == {t \in Tasks : queue[t] # None /\ queue[t] <= Read(c) + 1}

\* Queue::next_expiration: who is due is woken; the earliest deadline of the
\* others, or u64::MAX, is returned.
Due(c) == {t \in Tasks : queue[t] # None /\ queue[t] <= Read(c)}
Earliest(q) == Min({q[t] : t \in {u \in Tasks : q[u] # None}} \cup {Max64})

\* Mutant: the alarm is set to the deadline just passed.
ExpireOwn(c) ==
  /\ At(c, "got")
  /\ c = "isr" \/ who # None
  /\ queue' = [t \in Tasks |-> IF t \in Due(c) THEN None ELSE queue[t]]
  /\ next' = [next EXCEPT ![c] = IF c = "thread" THEN at ELSE Earliest(queue')]
  /\ Goto(c, "armh")
  /\ UNCHANGED <<hwVars, callVars, h, l, start>>

\* Mutant: the handler's loop goes on while the next deadline is to come.
ExpireLoops(c) ==
  /\ At(c, "got")
  /\ c = "isr" \/ who # None
  /\ queue' = [t \in Tasks |-> IF t \in Due(c) THEN None ELSE queue[t]]
  /\ next' = [next EXCEPT ![c] = Earliest(queue')]
  /\ Goto(c, IF c = "isr" /\ next'[c] > Read(c) THEN "got" ELSE "armh")
  /\ UNCHANGED <<hwVars, callVars, h, l, start>>

\* The handler's loop ends at once: what remains is later than the count read.
Expire(c) ==
  /\ At(c, "got")
  /\ c = "isr" \/ who # None
  /\ queue' = [t \in Tasks |-> IF t \in Due(c) THEN None ELSE queue[t]]
  /\ next' = [next EXCEPT ![c] = Earliest(queue')]
  /\ Goto(c, "armh")
  /\ UNCHANGED <<hwVars, callVars, h, l, start>>

\* set_alarm: the high half, then the low half; each write clears INTR_STS.
ArmHigh(c) ==
  /\ At(c, "armh")
  /\ match' = [match EXCEPT !.h = next[c] \div Base] /\ intr' = FALSE
  /\ Goto(c, "arml")
  /\ UNCHANGED <<count, queue, callVars, localVars>>

ArmLow(c) ==
  /\ At(c, "arml")
  /\ match' = [match EXCEPT !.l = next[c] % Base] /\ intr' = FALSE
  /\ Forget(c)
  /\ IF c = "thread" THEN who' = None /\ at' = 0 ELSE UNCHANGED callVars
  /\ UNCHANGED <<count, queue>>

Inside(c) ==
  \/ ReadHigh(c) \/ ReadLow(c) \/ ReadAgain(c) \/ Expire(c) \/ ArmHigh(c) \/ ArmLow(c)

Next ==
  \/ Tick \/ Match \/ IsrEnter
  \/ CallNow \/ NowReturns \/ Enqueue
  \/ \E t \in Tasks, a \in 0..MaxAt : CallScheduleWake(t, a)
  \/ \E c \in Contexts : Inside(c)

Spec == Init /\ [][Next]_vars

\* The counter counts, a pending interrupt is taken as soon as interrupts are
\* enabled, and the driver's code runs on.
Fairness ==
  /\ WF_vars(Tick) /\ WF_vars(Match) /\ SF_vars(IsrEnter)
  /\ SF_vars(Inside("thread") \/ Enqueue \/ NowReturns) /\ WF_vars(Inside("isr"))

FairSpec == Spec /\ Fairness

-----------------------------------------------------------------------------
(* Properties.                                                             *)

\* The value that read_count returns is one the counter had while it was read,
\* wherever a carry into the high half, or the handler, came in between.
ReadExact == \A c \in Contexts : pc[c] = "got" => start[c] <= Read(c) /\ Read(c) <= count

\* Whenever interrupts are enabled, the alarm is no later than any deadline in
\* the queue: no order of calls and interrupts leaves a sleeper uncovered.
AlarmCovers ==
  ~Masked /\ pc["isr"] = "out" => \A t \in Tasks : queue[t] # None => Alarm <= queue[t]

\* A task is never woken before its deadline.
NeverEarly ==
  [][\A t \in Tasks : queue[t] # None /\ queue'[t] = None => queue[t] <= count]_vars

\* Every deadline in the queue is served in the end, also one that passes while
\* the alarm is being set.
Served == \A t \in Tasks : queue[t] # None ~> queue[t] = None
=============================================================================
