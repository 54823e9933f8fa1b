-------------------------------- MODULE Gpio --------------------------------
(***************************************************************************)
(* Edge and level waits on GPIO inputs: `Input::wait_edge`, the            *)
(* `EdgeFuture` it awaits, the pool of waker slots and the GPIO interrupt  *)
(* handler (src/embassy-aspeed/src/gpio.rs).                               *)
(*                                                                         *)
(* One core runs everything.  The executor polls one task at a time; the   *)
(* interrupt handler may preempt a poll between any two of its steps, but  *)
(* not inside a critical section, which is therefore one action.  The pins *)
(* are driven from outside and change at any time, also while the handler  *)
(* runs.                                                                   *)
(***************************************************************************)
EXTENDS Naturals, FiniteSets

CONSTANTS
  Pins,       \* the pins some task waits on
  Tasks,      \* the tasks; each owns one Input
  PinOf,      \* PinOf[t]: the pin of the Input of task t
  GroupOf,    \* GroupOf[p]: the register group of pin p
  NumGroups,  \* the number of register groups
  MaxWaiting, \* the number of waker slots
  Senses,     \* the sensitivities the tasks wait for
  None,       \* an absent slot, waker, pin or task
  MaxToggles  \* bound on the level changes of all pins

Sense == {"falling", "rising", "low", "high", "both"}

ASSUME GpioAssumption ==
  /\ PinOf \in [Tasks -> Pins]
  /\ NumGroups \in Nat
  /\ GroupOf \in [Pins -> 0 .. NumGroups - 1]
  /\ MaxWaiting \in Nat
  /\ Senses \subseteq Sense
  /\ None \notin Tasks \cup Pins \cup Nat
  /\ "off" \notin Senses
  /\ MaxToggles \in Nat

Slots == 0 .. MaxWaiting - 1

VARIABLES
  \* the GPIO block
  level,      \* level[p]: the electrical level of pin p
  intr,       \* intr[p]: the armed sensitivity, or "off"
  status,     \* int_status of all groups: the latched pins
  \* statics of the driver
  wakerPins,  \* WAKER_PINS
  fired,      \* WAKER_SLOT_FIRED
  wakers,     \* GPIO_WAKERS
  \* the futures and their tasks
  pc,         \* pc[t]: where the wait of task t stands
  slot,       \* EdgeFuture.slot
  want,       \* the sensitivity the wait of task t asked for
  ready,      \* tasks in the executor's run queue
  cur,        \* the task being polled
  \* the interrupt handler
  isrPc, isrGroup, isrBits,
  \* history
  event,      \* event[t]: what happened at the pin since the wait began
  toggles     \* level changes so far

hwVars    == <<level, intr, status>>
poolVars  == <<wakerPins, fired, wakers>>
taskVars  == <<pc, slot, want, ready, cur>>
isrVars   == <<isrPc, isrGroup, isrBits>>
histVars  == <<event, toggles>>
vars == <<hwVars, poolVars, taskVars, isrVars, histVars>>

\* Where a poll of EdgeFuture may stand, and its drop.
PollSteps == {"alloc", "check", "register", "recheck", "fallback", "fbclear"}
DropSteps == {"disarm", "release"}
\* The wait has begun and has not yet resolved or been cancelled.
Waiting(t) == pc[t] \in PollSteps \cup {"pending"}
\* An EdgeFuture exists: also while it is being dropped.
HasFuture(t) == pc[t] # "idle"

TypeOK ==
  /\ level \in [Pins -> BOOLEAN]
  /\ intr \in [Pins -> Senses \cup {"off"}]
  /\ status \subseteq Pins
  /\ wakerPins \in [Slots -> Pins \cup {None}]
  /\ fired \subseteq Slots
  /\ wakers \in [Slots -> Tasks \cup {None}]
  /\ pc \in [Tasks -> PollSteps \cup DropSteps \cup {"idle", "pending"}]
  /\ slot \in [Tasks -> Slots \cup {None}]
  /\ want \in [Tasks -> Senses \cup {"off"}]
  /\ ready \subseteq Tasks
  /\ cur \in Tasks \cup {None}
  /\ isrPc \in {"off", "scan", "clear", "deliver"}
  /\ isrGroup \in Nat
  /\ isrBits \subseteq Pins
  /\ event \in [Tasks -> {"none", "early", "due"}]
  /\ toggles \in Nat

Init ==
  /\ level \in [Pins -> BOOLEAN]
  /\ intr = [p \in Pins |-> "off"]
  /\ status = {}
  /\ wakerPins = [s \in Slots |-> None]
  /\ fired = {}
  /\ wakers = [s \in Slots |-> None]
  /\ pc = [t \in Tasks |-> "idle"]
  /\ slot = [t \in Tasks |-> None]
  /\ want = [t \in Tasks |-> "off"]
  /\ ready = Tasks                    \* every spawned task is polled once
  /\ cur = None
  /\ isrPc = "off" /\ isrGroup = 0 /\ isrBits = {}
  /\ event = [t \in Tasks |-> "none"]
  /\ toggles = 0

-----------------------------------------------------------------------------
(* The pins.                                                               *)

\* A level change from `old` matches sensitivity s.
EdgeMatches(s, old) ==
  \/ s = "both"
  \/ s = "rising" /\ ~old
  \/ s = "falling" /\ old

LevelMatches(s, lv) == (s = "high" /\ lv) \/ (s = "low" /\ ~lv)

\* History: the waits on p that asked for what just happened there, namely for
\* one of the sensitivities in `matched`.
Note(p, matched) ==
  event' = [t \in Tasks |->
     IF PinOf[t] = p /\ Waiting(t) /\ want[t] \in matched
     THEN IF slot[t] # None \/ event[t] = "due" THEN "due" ELSE "early"
     ELSE event[t]]

\* The pin changes its level; an armed matching edge is latched.
Toggle(p) ==
  /\ toggles < MaxToggles
  /\ toggles' = toggles + 1
  /\ level' = [level EXCEPT ![p] = ~@]
  /\ status' = IF EdgeMatches(intr[p], level[p]) THEN status \cup {p} ELSE status
  /\ Note(p, {s \in Senses : EdgeMatches(s, level[p])})
  /\ UNCHANGED <<intr, poolVars, taskVars, isrVars>>

\* An armed level-sensitive pin keeps latching while its level holds.
LevelLatch(p) ==
  /\ p \notin status
  /\ LevelMatches(intr[p], level[p])
  /\ status' = status \cup {p}
  /\ Note(p, {s \in Senses : LevelMatches(s, level[p])})
  /\ UNCHANGED <<level, intr, poolVars, taskVars, isrVars, toggles>>

-----------------------------------------------------------------------------
(* The interrupt handler: on_interrupt.                                    *)

\* The interrupt is taken: the scan of the groups starts.
IsrEnter ==
  /\ isrPc = "off"
  /\ status # {}
  /\ isrPc' = "scan"
  /\ isrGroup' = 0
  /\ UNCHANGED <<hwVars, poolVars, taskVars, isrBits, histVars>>

\* int_status of the next group is read; a group with nothing is skipped.
IsrScan ==
  /\ isrPc = "scan"
  /\ isrGroup < NumGroups
  /\ isrBits' = {p \in status : GroupOf[p] = isrGroup}
  /\ IF isrBits' = {}
     THEN isrGroup' = isrGroup + 1 /\ UNCHANGED isrPc
     ELSE isrPc' = "clear" /\ UNCHANGED isrGroup
  /\ UNCHANGED <<hwVars, poolVars, taskVars, histVars>>

\* Mutant: every latched bit is cleared, not only those that were read.
IsrClearAll ==
  /\ isrPc = "clear"
  /\ status' = {}
  /\ isrPc' = "deliver"
  /\ UNCHANGED <<level, intr, poolVars, taskVars, isrGroup, isrBits, histVars>>

\* The bits that were read are cleared (RW1C), before anything is recorded.
IsrClear ==
  /\ isrPc = "clear"
  /\ status' = status \ isrBits
  /\ isrPc' = "deliver"
  /\ UNCHANGED <<level, intr, poolVars, taskVars, isrGroup, isrBits, histVars>>

\* The slots that wait for one of the pins.
Hit(bits) == {s \in Slots : wakerPins[s] \in bits}

\* Mutant: an unregistered waker is woken like any other.
IsrDeliverUnregistered ==
  /\ isrPc = "deliver"
  /\ fired' = fired \cup Hit(isrBits)
  /\ ready' = ready \cup {wakers[s] : s \in Hit(isrBits)}
  /\ isrBits' = {} /\ isrGroup' = isrGroup + 1 /\ isrPc' = "scan"
  /\ UNCHANGED <<hwVars, wakerPins, wakers, pc, slot, want, cur, histVars>>

\* Every bit: mark the slots of that pin fired and wake their tasks.  Only
\* the pins can move between two bits, and they touch none of this.
IsrDeliver ==
  /\ isrPc = "deliver"
  /\ fired' = fired \cup Hit(isrBits)
  /\ ready' = ready \cup ({wakers[s] : s \in Hit(isrBits)} \ {None})
  /\ isrBits' = {}
  /\ isrGroup' = isrGroup + 1
  /\ isrPc' = "scan"
  /\ UNCHANGED <<hwVars, wakerPins, wakers, pc, slot, want, cur, histVars>>

IsrExit ==
  /\ isrPc = "scan"
  /\ isrGroup = NumGroups
  /\ isrPc' = "off"
  /\ UNCHANGED <<hwVars, poolVars, taskVars, isrGroup, isrBits, histVars>>

Isr == IsrEnter \/ IsrScan \/ IsrClear \/ IsrDeliver \/ IsrExit

-----------------------------------------------------------------------------
(* The executor and the tasks.                                             *)

\* Thread code runs only while no handler does.
Running(t) == isrPc = "off" /\ cur = t

Goto(t, l) == pc' = [pc EXCEPT ![t] = l]

\* Something else the task also awaits (a timer, another future of a select
\* or a join) wakes it.
OtherWake(t) ==
  /\ t \notin ready
  /\ ready' = ready \cup {t}
  /\ UNCHANGED <<hwVars, poolVars, pc, slot, want, cur, isrVars, histVars>>

\* The executor takes t from the run queue and polls it; a pending
\* EdgeFuture is polled again: it allocates only while it has no slot.
Poll(t) ==
  /\ isrPc = "off" /\ cur = None /\ t \in ready
  /\ cur' = t
  /\ ready' = ready \ {t}
  /\ IF pc[t] = "pending"
     THEN Goto(t, IF slot[t] = None THEN "alloc" ELSE "check")
     ELSE UNCHANGED pc
  /\ UNCHANGED <<hwVars, poolVars, slot, want, isrVars, histVars>>

\* Mutant: a cancelled wait leaves its interrupt armed.
CancelKeepsArmed(t) ==
  /\ isrPc = "off" /\ cur = None /\ t \in ready
  /\ pc[t] = "pending"
  /\ cur' = t
  /\ ready' = ready \ {t}
  /\ Goto(t, IF slot[t] = None THEN "idle" ELSE "release")
  /\ UNCHANGED <<hwVars, poolVars, slot, want, isrVars, histVars>>

\* The poll drops the pending EdgeFuture: another branch of a select won.
Cancel(t) ==
  /\ isrPc = "off" /\ cur = None /\ t \in ready
  /\ pc[t] = "pending"
  /\ cur' = t
  /\ ready' = ready \ {t}
  /\ Goto(t, "disarm")
  /\ UNCHANGED <<hwVars, poolVars, slot, want, isrVars, histVars>>

\* A task outside a wait returns to the executor.
Yield(t) ==
  /\ Running(t) /\ pc[t] = "idle"
  /\ cur' = None
  /\ UNCHANGED <<hwVars, poolVars, pc, slot, want, ready, isrVars, histVars>>

\* wait_edge: the interrupt is armed, then EdgeFuture is made and polled.
BeginWait(t, s) ==
  /\ Running(t) /\ pc[t] = "idle"
  /\ intr' = [intr EXCEPT ![PinOf[t]] = s]
  /\ want' = [want EXCEPT ![t] = s]
  /\ event' = [event EXCEPT ![t] = "none"]
  /\ Goto(t, "alloc")
  /\ UNCHANGED <<level, status, poolVars, slot, ready, cur, isrVars, toggles>>

FirstFree(s) == wakerPins[s] = None /\ \A r \in Slots : r < s => wakerPins[r] # None

\* The wait gets slot s, or there is none left.
TakeSlot(t, s) ==
  /\ FirstFree(s)
  /\ wakerPins' = [wakerPins EXCEPT ![s] = PinOf[t]]
  /\ slot' = [slot EXCEPT ![t] = s]
  /\ Goto(t, "check")

PoolFull(t) ==
  /\ \A s \in Slots : wakerPins[s] # None
  /\ Goto(t, "fallback")
  /\ UNCHANGED <<wakerPins, slot>>

\* alloc_waker_slot: the first free slot, or the fallback if there is none.
Alloc(t) ==
  /\ Running(t) /\ pc[t] = "alloc"
  /\ PoolFull(t) \/ \E s \in Slots : TakeSlot(t, s)
  /\ UNCHANGED <<hwVars, fired, wakers, want, ready, cur, isrVars, histVars>>

\* The fired bit of the slot is taken: the future resolves.
TakeFired(t) ==
  /\ slot[t] \in fired
  /\ fired' = fired \ {slot[t]}
  /\ Goto(t, "disarm")

Check(t) ==
  /\ Running(t) /\ pc[t] = "check"
  /\ \/ TakeFired(t)
     \/ slot[t] \notin fired /\ Goto(t, "register") /\ UNCHANGED fired
  /\ UNCHANGED <<hwVars, wakerPins, wakers, slot, want, ready, cur, isrVars, histVars>>

\* Mutant: the poll goes on without registering its waker.
RegisterNothing(t) ==
  /\ Running(t) /\ pc[t] = "register"
  /\ Goto(t, "recheck")
  /\ UNCHANGED <<hwVars, poolVars, slot, want, ready, cur, isrVars, histVars>>

Register(t) ==
  /\ Running(t) /\ pc[t] = "register"
  /\ wakers' = [wakers EXCEPT ![slot[t]] = t]
  /\ Goto(t, "recheck")
  /\ UNCHANGED <<hwVars, wakerPins, fired, slot, want, ready, cur, isrVars, histVars>>

\* Mutant: the poll returns Pending without a second look.
RecheckSkipped(t) ==
  /\ Running(t) /\ pc[t] = "recheck"
  /\ Goto(t, "pending")
  /\ cur' = None
  /\ UNCHANGED <<hwVars, poolVars, slot, want, ready, isrVars, histVars>>

\* Second look at the fired bit; else the poll returns Pending.
Recheck(t) ==
  /\ Running(t) /\ pc[t] = "recheck"
  /\ \/ TakeFired(t) /\ UNCHANGED cur
     \/ slot[t] \notin fired /\ Goto(t, "pending") /\ cur' = None /\ UNCHANGED fired
  /\ UNCHANGED <<hwVars, wakerPins, wakers, slot, want, ready, isrVars, histVars>>

\* No slot: one look at int_status, and Pending without a registered waker.
Fallback(t) ==
  /\ Running(t) /\ pc[t] = "fallback"
  /\ \/ PinOf[t] \in status /\ Goto(t, "fbclear") /\ UNCHANGED cur
     \/ PinOf[t] \notin status /\ Goto(t, "pending") /\ cur' = None
  /\ UNCHANGED <<hwVars, poolVars, slot, want, ready, isrVars, histVars>>

FallbackClear(t) ==
  /\ Running(t) /\ pc[t] = "fbclear"
  /\ status' = status \ {PinOf[t]}
  /\ Goto(t, "disarm")
  /\ UNCHANGED <<level, intr, poolVars, slot, want, ready, cur, isrVars, histVars>>

\* drop: the interrupt of the pin is disabled (int_status is left alone) ...
Disarm(t) ==
  /\ Running(t) /\ pc[t] = "disarm"
  /\ intr' = [intr EXCEPT ![PinOf[t]] = "off"]
  /\ Goto(t, IF slot[t] = None THEN "idle" ELSE "release")
  /\ UNCHANGED <<level, status, poolVars, slot, want, ready, cur, isrVars, histVars>>

\* Mutant: only the slot is given back.
ReleaseKeepsFired(t) ==
  /\ Running(t) /\ pc[t] = "release"
  /\ wakerPins' = [wakerPins EXCEPT ![slot[t]] = None]
  /\ slot' = [slot EXCEPT ![t] = None]
  /\ Goto(t, "idle")
  /\ UNCHANGED <<hwVars, fired, wakers, want, ready, cur, isrVars, histVars>>

\* Mutant: the future goes away and its slot stays claimed.
ReleaseKeepsSlot(t) ==
  /\ Running(t) /\ pc[t] = "release"
  /\ fired' = fired \ {slot[t]}
  /\ slot' = [slot EXCEPT ![t] = None]
  /\ Goto(t, "idle")
  /\ UNCHANGED <<hwVars, wakerPins, wakers, want, ready, cur, isrVars, histVars>>

\* ... and the slot and its fired bit are given back.
Release(t) ==
  /\ Running(t) /\ pc[t] = "release"
  /\ wakerPins' = IF wakerPins[slot[t]] = PinOf[t]
                  THEN [wakerPins EXCEPT ![slot[t]] = None] ELSE wakerPins
  /\ fired' = fired \ {slot[t]}
  /\ slot' = [slot EXCEPT ![t] = None]
  /\ Goto(t, "idle")
  /\ UNCHANGED <<hwVars, wakers, want, ready, cur, isrVars, histVars>>

Step(t) ==
  \/ Alloc(t) \/ Check(t) \/ Register(t) \/ Recheck(t)
  \/ Fallback(t) \/ FallbackClear(t) \/ Disarm(t) \/ Release(t)

Task(t) ==
  \/ Poll(t) \/ Cancel(t) \/ Yield(t) \/ Step(t)
  \/ \E s \in Senses : BeginWait(t, s)

Next ==
  \/ \E p \in Pins : Toggle(p) \/ LevelLatch(p)
  \/ Isr
  \/ \E t \in Tasks : Task(t) \/ OtherWake(t)

Spec == Init /\ [][Next]_vars

\* A pending interrupt is taken and its handler returns; a task that is being
\* polled goes on and, outside a wait, comes back to the executor; a task in
\* the run queue is polled (the queue is drained in full before it is refilled,
\* so other tasks cannot keep the executor from it for ever).
Fairness ==
  /\ WF_vars(Isr)
  /\ WF_vars(\E t \in Tasks : Step(t)) /\ SF_vars(\E t \in Tasks : Yield(t))
  /\ \A t \in Tasks : SF_vars(Poll(t))

FairSpec == Spec /\ Fairness

-----------------------------------------------------------------------------
(* Properties.                                                             *)

\* No two waits hold the same slot.
SlotsExclusive ==
  \A t, u \in Tasks : t # u /\ slot[t] # None => slot[t] # slot[u]
\* A held slot carries the pin of the wait that holds it.
SlotsOwned == \A t \in Tasks : slot[t] # None => wakerPins[slot[t]] = PinOf[t]
\* Every claimed slot is held by some wait: none leaks.
SlotsReturned ==
  \A s \in Slots : wakerPins[s] # None => \E t \in Tasks : slot[t] = s

\* Two waits never alias a slot of the pool, also two waits on one pin, and
\* a cancelled or finished wait gives its slot back: the pool of 32 does not
\* shrink (alloc_waker_slot, Drop for EdgeFuture).
PoolConsistent == SlotsExclusive /\ SlotsOwned /\ SlotsReturned

\* A wait that claims a slot never finds the fired bit of the wait before it:
\* no edge of an old wait resolves a new one through the pool (Drop clears the
\* bit in the critical section that frees the slot).
FreeSlotsClean == \A s \in fired : wakerPins[s] # None

\* A pin never stays armed without a future to disarm it, whatever mix of
\* completion and cancellation came before (wait_edge, Drop for EdgeFuture).
ArmedHasFuture ==
  \A p \in Pins : intr[p] # "off" => \E t \in Tasks : PinOf[t] = p /\ HasFuture(t)

\* The pool and the pins stay clean in all these respects at once.
PoolSound == PoolConsistent /\ FreeSlotsClean /\ ArmedHasFuture

\* A wait that returned Pending with its fired bit set is in the run queue:
\* between the two looks at the bit, the registration of the waker and the
\* handler no wake-up is lost (EdgeFuture::poll, on_interrupt).
NoLostWakeup ==
  \A t \in Tasks : pc[t] = "pending" /\ slot[t] \in fired => t \in ready

SoleWaiter(t) == \A u \in Tasks : u # t => PinOf[u] # PinOf[t]

\* The matching event of the wait of t is still somewhere on its way.
OnItsWay(t) == PinOf[t] \in status \cup isrBits \/ slot[t] \in fired

\* The event of a wait that is alone on its pin and had its slot when the pin
\* changed is never dropped between int_status, the handler and the fired bit
\* (the handler clears int_status before it records the bits it had read).
NoLostEdge ==
  \A t \in Tasks : Waiting(t) /\ pc[t] # "fbclear" /\ SoleWaiter(t) /\ event[t] = "due"
                     => OnItsWay(t)

\* Such a wait resolves: it is polled again and the poll returns Ready.
EdgeDelivered ==
  \A t \in Tasks : (Waiting(t) /\ event[t] = "due") ~> ~Waiting(t)

\* What the comment on WAKER_SLOT_FIRED says: the software flag keeps the
\* event of a wait from being silently dropped by the handler.
EdgeNotDropped ==
  \A t \in Tasks : pc[t] = "pending" /\ slot[t] # None /\ event[t] # "none"
                     => OnItsWay(t)
=============================================================================
