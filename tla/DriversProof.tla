--------------------------- MODULE DriversProof ----------------------------
(***************************************************************************)
(* Each driver keeps its promises whatever its tasks, its handler and its  *)
(* hardware do in between, for any number of tasks, devices and channels,  *)
(* and so do the drivers side by side.                                     *)
(*                                                                         *)
(* For each driver there is an inductive invariant, which names what the   *)
(* code relies on without saying so: whose command the engine holds, whose *)
(* waker is registered, who can be inside a call.  `XKept` says that a     *)
(* step keeps it, `XRight` that it always holds.                           *)
(***************************************************************************)
EXTENDS MCDrivers, FiniteSetTheorems, SequenceTheorems, WellFoundedInduction, TLAPS

-----------------------------------------------------------------------------
(* The waits for GPIO pins, which the module of the drivers is built on.   *)
(* The program point of a poll tells whether its future holds a slot, only *)
(* the polled task is inside a poll, a future that has registered stays    *)
(* registered while it is pending, and the handler carries bits only       *)
(* between its read and its recording of int_status.                       *)

\* The program point of a wait determines whether it holds a slot.
SlotByPoint ==
  \A t \in Tasks :
    /\ pc[t] \in {"check", "register", "recheck", "release"} => slot[t] # None
    /\ pc[t] \in {"idle", "alloc", "fallback", "fbclear"} => slot[t] = None

\* A task inside a poll or a drop is the one the executor polls.
InsideIsCurrent == \A t \in Tasks : pc[t] \notin {"idle", "pending"} => cur = t

\* Past its registration, the waker of a slotted wait is the one in its slot.
Registered ==
  \A t \in Tasks : pc[t] \in {"recheck", "pending"} /\ slot[t] # None
                     => wakers[slot[t]] = t

\* An armed pin belongs to a future that has yet to disarm it.
ArmedByLive ==
  \A p \in Pins : intr[p] # "off"
     => \E t \in Tasks : PinOf[t] = p /\ pc[t] \notin {"idle", "release"}

\* The handler holds bits only between its read and its recording.
BitsInHand == isrPc \in {"off", "scan"} => isrBits = {}

\* A wait that is alone on its pin is armed with what it asked for.
SoleIsArmed ==
  \A t \in Tasks : Waiting(t) /\ SoleWaiter(t) => intr[PinOf[t]] = want[t]

\* An event is only ever due to a wait that has its slot.
DueHasSlot == \A t \in Tasks : Waiting(t) /\ event[t] = "due" => slot[t] # None

Control == SlotByPoint /\ InsideIsCurrent /\ BitsInHand
Wakeups == Registered /\ NoLostWakeup
Edges == SoleIsArmed /\ DueHasSlot /\ NoLostEdge

GpioInv == TypeOK /\ Control /\ PoolConsistent /\ FreeSlotsClean /\ ArmedByLive
          /\ Wakeups /\ Edges

-----------------------------------------------------------------------------
(* Steps.                                                                  *)

\* None is not the number of a slot.
LEMMA NoneNotSlot == None \notin Slots
  BY GpioAssumption DEF Slots

\* Every step keeps the types.
LEMMA TypeStep == (TypeOK /\ Control) /\ [Next]_vars => TypeOK'
<1> SUFFICES ASSUME (TypeOK /\ Control), [Next]_vars PROVE TypeOK'
  OBVIOUS
<1> USE GpioAssumption, NoneNotSlot DEF TypeOK, Control, SlotByPoint, Slots,
     Sense, PollSteps, DropSteps, hwVars, poolVars, taskVars, isrVars,
     histVars
<1>1. CASE \E p \in Pins : Toggle(p)
  BY <1>1 DEF Toggle, Note
<1>2. CASE \E p \in Pins : LevelLatch(p)
  BY <1>2 DEF LevelLatch, Note
<1>3. CASE IsrEnter
  BY <1>3 DEF IsrEnter
<1>4. CASE IsrScan
  BY <1>4 DEF IsrScan
<1>5. CASE IsrClear
  BY <1>5 DEF IsrClear
<1>6. CASE IsrDeliver
  BY <1>6 DEF IsrDeliver, Hit
<1>7. CASE IsrExit
  BY <1>7 DEF IsrExit
<1>8. ASSUME NEW t \in Tasks, Task(t) \/ OtherWake(t) PROVE TypeOK'
  <2>1. CASE \E s \in Senses : BeginWait(t, s)
    BY <2>1 DEF BeginWait, Running, Goto
  <2>2. CASE Alloc(t)
    <3>1. ASSUME NEW s \in Slots, TakeSlot(t, s) PROVE TypeOK'
      BY <2>2, <3>1 DEF Alloc, TakeSlot, FirstFree, Running, Goto
    <3>2. CASE PoolFull(t)
      BY <2>2, <3>2 DEF Alloc, PoolFull, Running, Goto
    <3> QED  BY <2>2, <3>1, <3>2 DEF Alloc
  <2>3. CASE Check(t)
    <3>1. CASE TakeFired(t)
      BY <2>3, <3>1 DEF Check, TakeFired, Running, Goto
    <3>2. CASE ~TakeFired(t)
      <4>1. pc' = [pc EXCEPT ![t] = "register"] /\ cur' \in {cur, None}
              /\ UNCHANGED <<hwVars, poolVars, slot, want, ready, isrVars,
                   histVars>>
        BY <2>3, <3>2 DEF Check, Running, Goto
      <4> QED  BY <4>1
    <3> QED  BY <3>1, <3>2
  <2>4. CASE Register(t)
    BY <2>4 DEF Register, Running, Goto
  <2>5. CASE Recheck(t)
    <3>1. CASE TakeFired(t)
      BY <2>5, <3>1 DEF Recheck, TakeFired, Running, Goto
    <3>2. CASE ~TakeFired(t)
      <4>1. pc' = [pc EXCEPT ![t] = "pending"] /\ cur' \in {cur, None}
              /\ UNCHANGED <<hwVars, poolVars, slot, want, ready, isrVars,
                   histVars>>
        BY <2>5, <3>2 DEF Recheck, Running, Goto
      <4> QED  BY <4>1
    <3> QED  BY <3>1, <3>2
  <2>6. CASE Fallback(t)
    <3>1. pc' \in {[pc EXCEPT ![t] = "fbclear"], [pc EXCEPT ![t] = "pending"]}
          /\ cur' \in {cur, None}
          /\ UNCHANGED <<hwVars, poolVars, slot, want, ready, isrVars, histVars>>
      BY <2>6 DEF Fallback, Running, Goto
    <3> QED  BY <3>1
  <2>7. CASE FallbackClear(t)
    BY <2>7 DEF FallbackClear, Running, Goto
  <2>8. CASE Disarm(t)
    BY <2>8 DEF Disarm, Running, Goto
  <2>9. CASE Release(t)
    BY <2>9 DEF Release, Running, Goto
  <2>10. CASE Poll(t)
    BY <2>10 DEF Poll, Goto
  <2>11. CASE Cancel(t)
    BY <2>11 DEF Cancel, Goto
  <2>12. CASE Yield(t)
    BY <2>12 DEF Yield, Running
  <2>13. CASE OtherWake(t)
    BY <2>13 DEF OtherWake
  <2> QED  BY <1>8, <2>1, <2>2, <2>3, <2>4, <2>5, <2>6, <2>7, <2>8, <2>9,
       <2>10, <2>11, <2>12, <2>13 DEF Task, Step
<1>9. CASE UNCHANGED vars
  BY <1>9 DEF vars
<1> QED  BY <1>1, <1>2, <1>3, <1>4, <1>5, <1>6, <1>7, <1>8, <1>9 DEF Next, Isr

\* Every step keeps program points, slots and the current task in line.
LEMMA ControlStep == (TypeOK /\ Control) /\ [Next]_vars => Control'
<1> SUFFICES ASSUME (TypeOK /\ Control), [Next]_vars PROVE Control'
  OBVIOUS
<1> USE GpioAssumption, NoneNotSlot DEF TypeOK, Control, SlotByPoint,
     InsideIsCurrent, BitsInHand, Slots, PollSteps, DropSteps, hwVars,
     poolVars, taskVars, isrVars, histVars
<1>1. CASE \E p \in Pins : Toggle(p)
  BY <1>1 DEF Toggle, Note
<1>2. CASE \E p \in Pins : LevelLatch(p)
  BY <1>2 DEF LevelLatch, Note
<1>3. CASE IsrEnter
  BY <1>3 DEF IsrEnter
<1>4. CASE IsrScan
  BY <1>4 DEF IsrScan
<1>5. CASE IsrClear
  BY <1>5 DEF IsrClear
<1>6. CASE IsrDeliver
  BY <1>6 DEF IsrDeliver, Hit
<1>7. CASE IsrExit
  BY <1>7 DEF IsrExit
<1>8. ASSUME NEW t \in Tasks, Task(t) \/ OtherWake(t) PROVE Control'
  <2>1. CASE \E s \in Senses : BeginWait(t, s)
    BY <2>1 DEF BeginWait, Running, Goto
  <2>2. CASE Alloc(t)
    <3>1. ASSUME NEW s \in Slots, TakeSlot(t, s) PROVE Control'
      BY <2>2, <3>1 DEF Alloc, TakeSlot, FirstFree, Running, Goto
    <3>2. CASE PoolFull(t)
      BY <2>2, <3>2 DEF Alloc, PoolFull, Running, Goto
    <3> QED  BY <2>2, <3>1, <3>2 DEF Alloc
  <2>3. CASE Check(t)
    <3>1. CASE TakeFired(t)
      BY <2>3, <3>1 DEF Check, TakeFired, Running, Goto
    <3>2. CASE ~TakeFired(t)
      BY <2>3, <3>2 DEF Check, Running, Goto
    <3> QED  BY <3>1, <3>2
  <2>4. CASE Register(t)
    BY <2>4 DEF Register, Running, Goto
  <2>5. CASE Recheck(t)
    <3>1. CASE TakeFired(t)
      BY <2>5, <3>1 DEF Recheck, TakeFired, Running, Goto
    <3>2. CASE ~TakeFired(t)
      BY <2>5, <3>2 DEF Recheck, Running, Goto
    <3> QED  BY <3>1, <3>2
  <2>6. CASE Fallback(t)
    <3>1. /\ pc[t] = "fallback" /\ cur = t /\ isrPc = "off"
          /\ pc' \in {[pc EXCEPT ![t] = "fbclear"], [pc EXCEPT ![t] = "pending"]}
          /\ pc'[t] = "pending" \/ cur' = cur
          /\ UNCHANGED <<slot, isrVars>>
      BY <2>6 DEF Fallback, Running, Goto
    <3>2. SlotByPoint'
      BY <3>1
    <3>3. InsideIsCurrent'
      BY <3>1
    <3> QED  BY <3>1, <3>2, <3>3
  <2>7. CASE FallbackClear(t)
    BY <2>7 DEF FallbackClear, Running, Goto
  <2>8. CASE Disarm(t)
    BY <2>8 DEF Disarm, Running, Goto
  <2>9. CASE Release(t)
    BY <2>9 DEF Release, Running, Goto
  <2>10. CASE Poll(t)
    BY <2>10 DEF Poll, Goto
  <2>11. CASE Cancel(t)
    BY <2>11 DEF Cancel, Goto
  <2>12. CASE Yield(t)
    BY <2>12 DEF Yield, Running
  <2>13. CASE OtherWake(t)
    BY <2>13 DEF OtherWake
  <2> QED  BY <1>8, <2>1, <2>2, <2>3, <2>4, <2>5, <2>6, <2>7, <2>8, <2>9,
       <2>10, <2>11, <2>12, <2>13 DEF Task, Step
<1>9. CASE UNCHANGED vars
  BY <1>9 DEF vars
<1> QED  BY <1>1, <1>2, <1>3, <1>4, <1>5, <1>6, <1>7, <1>8, <1>9 DEF Next, Isr

\* Every step keeps the pool consistent and its free slots clean.
LEMMA PoolStep == (TypeOK /\ Control /\ PoolConsistent /\ FreeSlotsClean) /\
     [Next]_vars => (PoolConsistent /\ FreeSlotsClean)'
<1> SUFFICES ASSUME (TypeOK /\ Control /\ PoolConsistent /\ FreeSlotsClean),
     [Next]_vars PROVE (PoolConsistent /\ FreeSlotsClean)'
  OBVIOUS
<1> USE GpioAssumption, NoneNotSlot DEF TypeOK, Control, SlotByPoint,
     PoolConsistent, SlotsExclusive, SlotsOwned, SlotsReturned,
     FreeSlotsClean, hwVars, poolVars, taskVars, isrVars, histVars
<1>1. CASE \E p \in Pins : Toggle(p)
  BY <1>1 DEF Toggle, Note
<1>2. CASE \E p \in Pins : LevelLatch(p)
  BY <1>2 DEF LevelLatch, Note
<1>3. CASE IsrEnter
  BY <1>3 DEF IsrEnter
<1>4. CASE IsrScan
  BY <1>4 DEF IsrScan
<1>5. CASE IsrClear
  BY <1>5 DEF IsrClear
<1>6. CASE IsrDeliver
  BY <1>6 DEF IsrDeliver, Hit
<1>7. CASE IsrExit
  BY <1>7 DEF IsrExit
<1>8. ASSUME NEW t \in Tasks, Task(t) \/ OtherWake(t) PROVE (PoolConsistent /\
     FreeSlotsClean)'
  <2>1. CASE \E s \in Senses : BeginWait(t, s)
    BY <2>1 DEF BeginWait, Running, Goto
  <2>2. CASE Alloc(t)
    <3>1. ASSUME NEW s \in Slots, TakeSlot(t, s) PROVE (PoolConsistent /\
         FreeSlotsClean)'
      BY <2>2, <3>1 DEF Alloc, TakeSlot, FirstFree, Running, Goto
    <3>2. CASE PoolFull(t)
      BY <2>2, <3>2 DEF Alloc, PoolFull, Running, Goto
    <3> QED  BY <2>2, <3>1, <3>2 DEF Alloc
  <2>3. CASE Check(t)
    <3>1. CASE TakeFired(t)
      BY <2>3, <3>1 DEF Check, TakeFired, Running, Goto
    <3>2. CASE ~TakeFired(t)
      BY <2>3, <3>2 DEF Check, Running, Goto
    <3> QED  BY <3>1, <3>2
  <2>4. CASE Register(t)
    BY <2>4 DEF Register, Running, Goto
  <2>5. CASE Recheck(t)
    <3>1. CASE TakeFired(t)
      BY <2>5, <3>1 DEF Recheck, TakeFired, Running, Goto
    <3>2. CASE ~TakeFired(t)
      BY <2>5, <3>2 DEF Recheck, Running, Goto
    <3> QED  BY <3>1, <3>2
  <2>6. CASE Fallback(t)
    BY <2>6 DEF Fallback, Running, Goto
  <2>7. CASE FallbackClear(t)
    BY <2>7 DEF FallbackClear, Running, Goto
  <2>8. CASE Disarm(t)
    BY <2>8 DEF Disarm, Running, Goto
  <2>9. CASE Release(t)
    BY <2>9 DEF Release, Running, Goto
  <2>10. CASE Poll(t)
    BY <2>10 DEF Poll, Goto
  <2>11. CASE Cancel(t)
    BY <2>11 DEF Cancel, Goto
  <2>12. CASE Yield(t)
    BY <2>12 DEF Yield, Running
  <2>13. CASE OtherWake(t)
    BY <2>13 DEF OtherWake
  <2> QED  BY <1>8, <2>1, <2>2, <2>3, <2>4, <2>5, <2>6, <2>7, <2>8, <2>9,
       <2>10, <2>11, <2>12, <2>13 DEF Task, Step
<1>9. CASE UNCHANGED vars
  BY <1>9 DEF vars
<1> QED  BY <1>1, <1>2, <1>3, <1>4, <1>5, <1>6, <1>7, <1>8, <1>9 DEF Next, Isr

\* Every step leaves every armed pin a future that will disarm it.
LEMMA ArmedStep == (TypeOK /\ Control /\ ArmedByLive) /\ [Next]_vars =>
     ArmedByLive'
<1> SUFFICES ASSUME (TypeOK /\ Control /\ ArmedByLive), [Next]_vars PROVE
     ArmedByLive'
  OBVIOUS
<1> USE GpioAssumption, NoneNotSlot DEF TypeOK, Control, SlotByPoint,
     ArmedByLive, PollSteps, DropSteps, hwVars, poolVars, taskVars, isrVars,
     histVars
<1>1. CASE \E p \in Pins : Toggle(p)
  BY <1>1 DEF Toggle, Note
<1>2. CASE \E p \in Pins : LevelLatch(p)
  BY <1>2 DEF LevelLatch, Note
<1>3. CASE IsrEnter
  BY <1>3 DEF IsrEnter
<1>4. CASE IsrScan
  BY <1>4 DEF IsrScan
<1>5. CASE IsrClear
  BY <1>5 DEF IsrClear
<1>6. CASE IsrDeliver
  BY <1>6 DEF IsrDeliver, Hit
<1>7. CASE IsrExit
  BY <1>7 DEF IsrExit
<1>8. ASSUME NEW t \in Tasks, Task(t) \/ OtherWake(t) PROVE ArmedByLive'
  <2>1. CASE \E s \in Senses : BeginWait(t, s)
    BY <2>1 DEF BeginWait, Running, Goto
  <2>2. CASE Alloc(t)
    <3>1. ASSUME NEW s \in Slots, TakeSlot(t, s) PROVE ArmedByLive'
      BY <2>2, <3>1 DEF Alloc, TakeSlot, FirstFree, Running, Goto
    <3>2. CASE PoolFull(t)
      BY <2>2, <3>2 DEF Alloc, PoolFull, Running, Goto
    <3> QED  BY <2>2, <3>1, <3>2 DEF Alloc
  <2>3. CASE Check(t)
    <3>1. CASE TakeFired(t)
      BY <2>3, <3>1 DEF Check, TakeFired, Running, Goto
    <3>2. CASE ~TakeFired(t)
      BY <2>3, <3>2 DEF Check, Running, Goto
    <3> QED  BY <3>1, <3>2
  <2>4. CASE Register(t)
    BY <2>4 DEF Register, Running, Goto
  <2>5. CASE Recheck(t)
    <3>1. CASE TakeFired(t)
      BY <2>5, <3>1 DEF Recheck, TakeFired, Running, Goto
    <3>2. CASE ~TakeFired(t)
      BY <2>5, <3>2 DEF Recheck, Running, Goto
    <3> QED  BY <3>1, <3>2
  <2>6. CASE Fallback(t)
    BY <2>6 DEF Fallback, Running, Goto
  <2>7. CASE FallbackClear(t)
    BY <2>7 DEF FallbackClear, Running, Goto
  <2>8. CASE Disarm(t)
    BY <2>8 DEF Disarm, Running, Goto
  <2>9. CASE Release(t)
    BY <2>9 DEF Release, Running, Goto
  <2>10. CASE Poll(t)
    BY <2>10 DEF Poll, Goto
  <2>11. CASE Cancel(t)
    BY <2>11 DEF Cancel, Goto
  <2>12. CASE Yield(t)
    BY <2>12 DEF Yield, Running
  <2>13. CASE OtherWake(t)
    BY <2>13 DEF OtherWake
  <2> QED  BY <1>8, <2>1, <2>2, <2>3, <2>4, <2>5, <2>6, <2>7, <2>8, <2>9,
       <2>10, <2>11, <2>12, <2>13 DEF Task, Step
<1>9. CASE UNCHANGED vars
  BY <1>9 DEF vars
<1> QED  BY <1>1, <1>2, <1>3, <1>4, <1>5, <1>6, <1>7, <1>8, <1>9 DEF Next, Isr

\* Every step keeps pending waits registered and loses no wake-up.
LEMMA WakeStep == (TypeOK /\ Control /\ PoolConsistent /\ Wakeups) /\
     [Next]_vars => Wakeups'
<1> SUFFICES ASSUME (TypeOK /\ Control /\ PoolConsistent /\ Wakeups),
     [Next]_vars PROVE Wakeups'
  OBVIOUS
<1> USE GpioAssumption, NoneNotSlot DEF TypeOK, Control, SlotByPoint,
     InsideIsCurrent, PoolConsistent, SlotsExclusive, SlotsOwned, Wakeups,
     Registered, NoLostWakeup, hwVars, poolVars, taskVars, isrVars, histVars
<1>1. CASE \E p \in Pins : Toggle(p)
  BY <1>1 DEF Toggle, Note
<1>2. CASE \E p \in Pins : LevelLatch(p)
  BY <1>2 DEF LevelLatch, Note
<1>3. CASE IsrEnter
  BY <1>3 DEF IsrEnter
<1>4. CASE IsrScan
  BY <1>4 DEF IsrScan
<1>5. CASE IsrClear
  BY <1>5 DEF IsrClear
<1>6. CASE IsrDeliver
  BY <1>6 DEF IsrDeliver, Hit
<1>7. CASE IsrExit
  BY <1>7 DEF IsrExit
<1>8. ASSUME NEW t \in Tasks, Task(t) \/ OtherWake(t) PROVE Wakeups'
  <2>1. CASE \E s \in Senses : BeginWait(t, s)
    BY <2>1 DEF BeginWait, Running, Goto
  <2>2. CASE Alloc(t)
    <3>1. ASSUME NEW s \in Slots, TakeSlot(t, s) PROVE Wakeups'
      BY <2>2, <3>1 DEF Alloc, TakeSlot, FirstFree, Running, Goto
    <3>2. CASE PoolFull(t)
      BY <2>2, <3>2 DEF Alloc, PoolFull, Running, Goto
    <3> QED  BY <2>2, <3>1, <3>2 DEF Alloc
  <2>3. CASE Check(t)
    <3>1. CASE TakeFired(t)
      BY <2>3, <3>1 DEF Check, TakeFired, Running, Goto
    <3>2. CASE ~TakeFired(t)
      BY <2>3, <3>2 DEF Check, Running, Goto
    <3> QED  BY <3>1, <3>2
  <2>4. CASE Register(t)
    BY <2>4 DEF Register, Running, Goto
  <2>5. CASE Recheck(t)
    <3>1. CASE TakeFired(t)
      BY <2>5, <3>1 DEF Recheck, TakeFired, Running, Goto
    <3>2. CASE ~TakeFired(t)
      BY <2>5, <3>2 DEF Recheck, Running, Goto
    <3> QED  BY <3>1, <3>2
  <2>6. CASE Fallback(t)
    BY <2>6 DEF Fallback, Running, Goto
  <2>7. CASE FallbackClear(t)
    BY <2>7 DEF FallbackClear, Running, Goto
  <2>8. CASE Disarm(t)
    BY <2>8 DEF Disarm, Running, Goto
  <2>9. CASE Release(t)
    BY <2>9 DEF Release, Running, Goto
  <2>10. CASE Poll(t)
    BY <2>10 DEF Poll, Goto
  <2>11. CASE Cancel(t)
    BY <2>11 DEF Cancel, Goto
  <2>12. CASE Yield(t)
    BY <2>12 DEF Yield, Running
  <2>13. CASE OtherWake(t)
    BY <2>13 DEF OtherWake
  <2> QED  BY <1>8, <2>1, <2>2, <2>3, <2>4, <2>5, <2>6, <2>7, <2>8, <2>9,
       <2>10, <2>11, <2>12, <2>13 DEF Task, Step
<1>9. CASE UNCHANGED vars
  BY <1>9 DEF vars
<1> QED  BY <1>1, <1>2, <1>3, <1>4, <1>5, <1>6, <1>7, <1>8, <1>9 DEF Next, Isr

\* Every step keeps a due event on its way.
LEMMA EdgeStep == (TypeOK /\ Control /\ PoolConsistent /\ Edges) /\
     [Next]_vars => Edges'
<1> SUFFICES ASSUME (TypeOK /\ Control /\ PoolConsistent /\ Edges),
     [Next]_vars PROVE Edges'
  OBVIOUS
<1> USE GpioAssumption, NoneNotSlot DEF TypeOK, Control, SlotByPoint,
     InsideIsCurrent, BitsInHand, PoolConsistent, SlotsExclusive, SlotsOwned,
     Edges, SoleIsArmed, DueHasSlot, NoLostEdge, OnItsWay, SoleWaiter,
     Waiting, PollSteps, hwVars, poolVars, taskVars, isrVars, histVars
<1>1. CASE \E p \in Pins : Toggle(p)
  BY <1>1 DEF Toggle, Note
<1>2. CASE \E p \in Pins : LevelLatch(p)
  BY <1>2 DEF LevelLatch, Note
<1>3. CASE IsrEnter
  BY <1>3 DEF IsrEnter
<1>4. CASE IsrScan
  BY <1>4 DEF IsrScan
<1>5. CASE IsrClear
  BY <1>5 DEF IsrClear
<1>6. CASE IsrDeliver
  BY <1>6 DEF IsrDeliver, Hit
<1>7. CASE IsrExit
  BY <1>7 DEF IsrExit
<1>8. ASSUME NEW t \in Tasks, Task(t) \/ OtherWake(t) PROVE Edges'
  <2>1. CASE \E s \in Senses : BeginWait(t, s)
    BY <2>1 DEF BeginWait, Running, Goto
  <2>2. CASE Alloc(t)
    <3>1. ASSUME NEW s \in Slots, TakeSlot(t, s) PROVE Edges'
      BY <2>2, <3>1 DEF Alloc, TakeSlot, FirstFree, Running, Goto
    <3>2. CASE PoolFull(t)
      BY <2>2, <3>2 DEF Alloc, PoolFull, Running, Goto
    <3> QED  BY <2>2, <3>1, <3>2 DEF Alloc
  <2>3. CASE Check(t)
    <3>1. CASE TakeFired(t)
      BY <2>3, <3>1 DEF Check, TakeFired, Running, Goto
    <3>2. CASE ~TakeFired(t)
      BY <2>3, <3>2 DEF Check, Running, Goto
    <3> QED  BY <3>1, <3>2
  <2>4. CASE Register(t)
    BY <2>4 DEF Register, Running, Goto
  <2>5. CASE Recheck(t)
    <3>1. CASE TakeFired(t)
      BY <2>5, <3>1 DEF Recheck, TakeFired, Running, Goto
    <3>2. CASE ~TakeFired(t)
      BY <2>5, <3>2 DEF Recheck, Running, Goto
    <3> QED  BY <3>1, <3>2
  <2>6. CASE Fallback(t)
    BY <2>6 DEF Fallback, Running, Goto
  <2>7. CASE FallbackClear(t)
    BY <2>7 DEF FallbackClear, Running, Goto
  <2>8. CASE Disarm(t)
    BY <2>8 DEF Disarm, Running, Goto
  <2>9. CASE Release(t)
    BY <2>9 DEF Release, Running, Goto
  <2>10. CASE Poll(t)
    BY <2>10 DEF Poll, Goto
  <2>11. CASE Cancel(t)
    BY <2>11 DEF Cancel, Goto
  <2>12. CASE Yield(t)
    BY <2>12 DEF Yield, Running
  <2>13. CASE OtherWake(t)
    BY <2>13 DEF OtherWake
  <2> QED  BY <1>8, <2>1, <2>2, <2>3, <2>4, <2>5, <2>6, <2>7, <2>8, <2>9,
       <2>10, <2>11, <2>12, <2>13 DEF Task, Step
<1>9. CASE UNCHANGED vars
  BY <1>9 DEF vars
<1> QED  BY <1>1, <1>2, <1>3, <1>4, <1>5, <1>6, <1>7, <1>8, <1>9 DEF Next, Isr

-----------------------------------------------------------------------------
LEMMA GpioStarts == Init => GpioInv
  BY GpioAssumption DEF Init, GpioInv, TypeOK, Control, SlotByPoint,
       InsideIsCurrent,
     BitsInHand, PoolConsistent, SlotsExclusive, SlotsOwned, SlotsReturned,
     FreeSlotsClean, ArmedByLive, Wakeups, Registered, NoLostWakeup, Edges,
     SoleIsArmed, DueHasSlot, NoLostEdge, Waiting, PollSteps, DropSteps,
          Slots, Sense

LEMMA GpioKept == GpioInv /\ [Next]_vars => GpioInv'
  BY TypeStep, ControlStep, PoolStep, ArmedStep, WakeStep, EdgeStep DEF GpioInv

\* GpioInv, and with it all it consists of, holds in every reachable state.
THEOREM GpioRight == Spec => []GpioInv
  BY GpioStarts, GpioKept, PTL DEF Spec

\* The statics, the futures and the handler's locals keep their types: in
\* particular the handler only ever wakes tasks, never an absent waker.
THEOREM GpioTypes == Spec => []TypeOK
<1>1. GpioInv => TypeOK
  BY DEF GpioInv
<1> QED  BY <1>1, GpioRight, PTL

\* However waits are started, completed and cancelled, no two of them share a
\* slot, and every claimed slot belongs to a wait (alloc_waker_slot, Drop).
THEOREM PoolSafe == Spec => []PoolConsistent
<1>1. GpioInv => PoolConsistent
  BY DEF GpioInv
<1> QED  BY <1>1, GpioRight, PTL

\* A wait that claims a slot finds its fired bit clear.
THEOREM SlotsClean == Spec => []FreeSlotsClean
<1>1. GpioInv => FreeSlotsClean
  BY DEF GpioInv
<1> QED  BY <1>1, GpioRight, PTL

\* An armed pin has a future whose drop will disarm it.
THEOREM ArmedSafe == Spec => []ArmedHasFuture
<1>1. GpioInv => ArmedHasFuture
  BY DEF GpioInv, ArmedByLive, ArmedHasFuture, HasFuture
<1> QED  BY <1>1, GpioRight, PTL

\* Pool, fired bits and armed pins stay clean together.
THEOREM PoolAllSafe == Spec => []PoolSound
<1>1. PoolConsistent /\ FreeSlotsClean /\ ArmedHasFuture => PoolSound
  BY DEF PoolSound
<1> QED  BY <1>1, PoolSafe, SlotsClean, ArmedSafe, PTL

\* A pending wait whose fired bit is set is in the run queue.
THEOREM WakeupSafe == Spec => []NoLostWakeup
<1>1. GpioInv => NoLostWakeup
  BY DEF GpioInv, Wakeups
<1> QED  BY <1>1, GpioRight, PTL

\* An event due to a wait alone on its pin is in int_status, in the handler's
\* hand or in the fired bit of the wait's slot until the wait resolves.
THEOREM EdgeSafe == Spec => []NoLostEdge
<1>1. GpioInv => NoLostEdge
  BY DEF GpioInv, Edges
<1> QED  BY <1>1, GpioRight, PTL

-----------------------------------------------------------------------------
(* The I2C channels.                                                       *)

I2cWaits == {"check", "register", "recheck", "pending"}

\* A transfer that is about to start a phase has one left.
PhaseLeft == \A t \in Masters : icPc[t] = "start" => icLeft[t] # <<>>

\* The buffer of the channel of t holds what t received, if the phase was a read.
Received(t) == dir[ChOf[t]] = "read" => pool[ChOf[t]] = [of |-> t, way |-> "rx"]

\* The channel of a task that has it to itself: while the task waits, either its
\* phase is on the bus and no status bit is set, or the bits tell of its phase.
OwnChannel(t) ==
  /\ bus[ChOf[t]] \in {None, t, Gone}
  /\ icPc[t] \in I2cWaits => \/ bus[ChOf[t]] = t /\ sts[ChOf[t]] = {}
                             \/ bus[ChOf[t]] = None /\ ended[ChOf[t]] = t /\ Received(t)
  /\ icPc[t] = "after" => bus[ChOf[t]] = None /\ got[t].of = t /\ Received(t)
  /\ icPc[t] \in {"recheck", "pending"} => icWakers[ChOf[t]] = t

OwnChannels == \A t \in Masters : Ic!Sole(t) => OwnChannel(t)

I2cInv == Ic!TypeOK /\ PhaseLeft /\ OwnChannels /\ Ic!NoLostWakeup

\* The sequences of bounded length are sequences.
LEMMA Phased == \A w \in Ic!SeqOf(Ic!Phases, MaxPhases) : w \in Seq(Ic!Phases)
  BY PartsAssumption DEF Ic!SeqOf, Ic!I2cAssumption

\* What a transfer that is over leaves behind.
LEMMA Disowned ==
  ASSUME Ic!TypeOK, NEW t \in Masters, Ic!Disown(t)
  PROVE  /\ bus' \in [Channels -> Ic!Owner] /\ ended' \in [Channels -> Ic!Owner]
         /\ pool' \in [Channels -> [of : Ic!Owner, way : {"tx", "rx"}]]
         /\ icLeft' \in [Masters -> Seq(Ic!Phases)]
         /\ got' \in [Masters -> [of : Ic!Owner, ok : BOOLEAN]]
         /\ icPc' \in [Masters -> {"idle", "start", "check", "register", "recheck", "pending", "after"}]
         /\ icPc'[t] = "idle"
         /\ \A u \in Masters \ {t} : icPc'[u] = icPc[u] /\ got'[u] = got[u] /\ icLeft'[u] = icLeft[u]
         /\ \A c \in Channels : /\ bus'[c] = IF bus[c] = t THEN Gone ELSE bus[c]
                                /\ ended'[c] = IF ended[c] = t THEN Gone ELSE ended[c]
                                /\ pool'[c].way = pool[c].way
                                /\ pool[c].of # t => pool'[c] = pool[c]
<1>1. \A c \in Channels : pool[c] = [of |-> pool[c].of, way |-> pool[c].way]
  BY DEF Ic!TypeOK
<1>2. /\ bus' = [c \in Channels |-> IF bus[c] = t THEN Gone ELSE bus[c]]
      /\ ended' = [c \in Channels |-> IF ended[c] = t THEN Gone ELSE ended[c]]
      /\ pool' = [c \in Channels |-> [pool[c] EXCEPT !.of = IF @ = t THEN Gone ELSE @]]
  BY DEF Ic!Disown
<1>3. \A c \in Channels : pool'[c] = [of |-> IF pool[c].of = t THEN Gone ELSE pool[c].of, way |-> pool[c].way]
  <2> SUFFICES ASSUME NEW c \in Channels
               PROVE  pool'[c] = [of |-> IF pool[c].of = t THEN Gone ELSE pool[c].of, way |-> pool[c].way]
    OBVIOUS
  <2>1. pool[c] \in [of : Ic!Owner, way : {"tx", "rx"}]
    BY DEF Ic!TypeOK
  <2>2. pool'[c] = [pool[c] EXCEPT !.of = IF pool[c].of = t THEN Gone ELSE pool[c].of]
    BY <1>2
  <2> QED  BY <2>1, <2>2
<1>4. pool' \in [Channels -> [of : Ic!Owner, way : {"tx", "rx"}]]
  <2>1. \A c \in Channels : pool'[c] \in [of : Ic!Owner, way : {"tx", "rx"}]
    <3> SUFFICES ASSUME NEW c \in Channels PROVE pool'[c] \in [of : Ic!Owner, way : {"tx", "rx"}]
      OBVIOUS
    <3>1. pool[c] \in [of : Ic!Owner, way : {"tx", "rx"}] /\ Gone \in Ic!Owner
      BY DEF Ic!TypeOK, Ic!Owner
    <3>2. pool[c].of \in Ic!Owner /\ pool[c].way \in {"tx", "rx"}
      BY <3>1
    <3>3. pool'[c] = [of |-> IF pool[c].of = t THEN Gone ELSE pool[c].of, way |-> pool[c].way]
      BY <1>3
    <3>4. (IF pool[c].of = t THEN Gone ELSE pool[c].of) \in Ic!Owner
      BY <3>1, <3>2
    <3> QED  BY ONLY <3>2, <3>3, <3>4
  <2> QED  BY ONLY <1>2, <2>1
<1>5. bus' \in [Channels -> Ic!Owner] /\ ended' \in [Channels -> Ic!Owner]
  BY <1>2 DEF Ic!TypeOK, Ic!Owner
<1>6. icLeft' \in [Masters -> Seq(Ic!Phases)] /\ \A u \in Masters \ {t} : icLeft'[u] = icLeft[u]
  BY DEF Ic!Disown, Ic!TypeOK
<1>7. got' \in [Masters -> [of : Ic!Owner, ok : BOOLEAN]] /\ \A u \in Masters \ {t} : got'[u] = got[u]
  BY DEF Ic!Disown, Ic!TypeOK, Ic!Owner
<1>8. /\ icPc' \in [Masters -> {"idle", "start", "check", "register", "recheck", "pending", "after"}]
      /\ icPc'[t] = "idle" /\ \A u \in Masters \ {t} : icPc'[u] = icPc[u]
  BY DEF Ic!Disown, Ic!Goto, Ic!TypeOK
<1>9. \A c \in Channels : pool'[c].way = pool[c].way /\ (pool[c].of # t => pool'[c] = pool[c])
  <2> SUFFICES ASSUME NEW c \in Channels
               PROVE  pool'[c].way = pool[c].way /\ (pool[c].of # t => pool'[c] = pool[c])
    OBVIOUS
  <2>1. pool'[c] = [of |-> IF pool[c].of = t THEN Gone ELSE pool[c].of, way |-> pool[c].way]
    BY <1>3
  <2>2. pool'[c].way = pool[c].way
    BY <2>1
  <2>3. ASSUME pool[c].of # t PROVE pool'[c] = pool[c]
    <3>1. pool'[c] = [of |-> pool[c].of, way |-> pool[c].way]
      BY <2>1, <2>3
    <3> QED  BY <1>1, <3>1
  <2> QED  BY <2>2, <2>3
<1>10. \A c \in Channels : /\ bus'[c] = IF bus[c] = t THEN Gone ELSE bus[c]
                           /\ ended'[c] = IF ended[c] = t THEN Gone ELSE ended[c]
  BY <1>2
<1> QED  BY <1>4, <1>5, <1>6, <1>7, <1>8, <1>9, <1>10

\* What one look at the status leaves.
LEMMA Looked ==
  ASSUME Ic!TypeOK, NEW t \in Masters, ChOf[t] \in Channels, NEW m \in {"register", "pending"}, Ic!Look(t, m)
  PROVE  /\ sts' \in [Channels -> SUBSET {"done", "fail", "arb"}]
         /\ got' \in [Masters -> [of : Ic!Owner, ok : BOOLEAN]]
         /\ icPc' \in [Masters -> {"idle", "start", "check", "register", "recheck", "pending", "after"}]
<1>1. \E b \in SUBSET {"done", "fail", "arb"} : sts' = [sts EXCEPT ![ChOf[t]] = b] \/ sts' = sts
  <2>1. /\ (sts[ChOf[t]] \ {"done"}) \in SUBSET {"done", "fail", "arb"}
        /\ {} \in SUBSET {"done", "fail", "arb"}
    BY DEF Ic!TypeOK
  <2> QED  BY <2>1 DEF Ic!Look
<1>2. \/ got' = got
      \/ \E o \in Ic!Owner, b \in BOOLEAN : got' = [got EXCEPT ![t] = [of |-> o, ok |-> b]]
  <2>1. ended[ChOf[t]] \in Ic!Owner
    BY DEF Ic!TypeOK
  <2>2. CASE got' = [got EXCEPT ![t] = [of |-> ended[ChOf[t]], ok |-> "fail" \notin sts[ChOf[t]]]]
    BY <2>1, <2>2, Zenon
  <2>3. CASE got' = [got EXCEPT ![t] = [of |-> ended[ChOf[t]], ok |-> FALSE]]
    BY <2>1, <2>3, Zenon
  <2> QED  BY <2>2, <2>3 DEF Ic!Look
<1>3. icPc' = [icPc EXCEPT ![t] = "after"] \/ icPc' = [icPc EXCEPT ![t] = m]
  BY DEF Ic!Look, Ic!Goto
<1>4. \A o \in Ic!Owner, b \in BOOLEAN : [of |-> o, ok |-> b] \in [of : Ic!Owner, ok : BOOLEAN]
  OBVIOUS
<1>5. got' \in [Masters -> [of : Ic!Owner, ok : BOOLEAN]]
  <2>1. got \in [Masters -> [of : Ic!Owner, ok : BOOLEAN]]
    BY DEF Ic!TypeOK
  <2>2. \A R : got \in [Masters -> R] => \A r \in R : [got EXCEPT ![t] = r] \in [Masters -> R]
    OBVIOUS
  <2> QED  BY ONLY <1>2, <1>4, <2>1, <2>2, Zenon
<1>6. sts' \in [Channels -> SUBSET {"done", "fail", "arb"}]
  BY <1>1 DEF Ic!TypeOK
<1>7. icPc' \in [Masters -> {"idle", "start", "check", "register", "recheck", "pending", "after"}]
  BY <1>3 DEF Ic!TypeOK
<1> QED  BY <1>5, <1>6, <1>7

\* A master that was set up has its channel free and no phase left over.
LEMMA I2cInit == Ic!Init => I2cInv
<1> SUFFICES ASSUME Ic!Init PROVE I2cInv
  OBVIOUS
<1> USE PartsAssumption DEF Ic!I2cAssumption
<1>1. Ic!TypeOK
  BY DEF Ic!Init, Ic!TypeOK, Ic!Owner, Ic!Phases
<1>2. PhaseLeft /\ OwnChannels /\ Ic!NoLostWakeup
  BY DEF Ic!Init, PhaseLeft, OwnChannels, OwnChannel, Received, I2cWaits, Ic!NoLostWakeup
<1> QED  BY <1>1, <1>2 DEF I2cInv

\* Every step of the controller, the handler and the tasks keeps the types.
LEMMA I2cType == Ic!TypeOK /\ PhaseLeft /\ [Ic!Next]_(Ic!vars) => Ic!TypeOK'
<1> SUFFICES ASSUME Ic!TypeOK /\ PhaseLeft, [Ic!Next]_(Ic!vars) PROVE Ic!TypeOK'
  OBVIOUS
<1> USE PartsAssumption DEF Ic!I2cAssumption, Ic!TypeOK, PhaseLeft, Ic!Owner
<1>1. ASSUME NEW c \in Channels, Ic!Complete(c) PROVE Ic!TypeOK'
  <2>1. bus' \in [Channels -> Ic!Owner] /\ ended' \in [Channels -> Ic!Owner]
    BY <1>1 DEF Ic!Complete
  <2>2. sts' \in [Channels -> SUBSET {"done", "fail", "arb"}] /\ irq' \subseteq Channels
    <3>1. \E b \in SUBSET {"done", "fail", "arb"} : sts' = [sts EXCEPT ![c] = sts[c] \cup b]
      BY <1>1 DEF Ic!Complete
    <3> QED  BY <1>1, <3>1 DEF Ic!Complete
  <2>3. pool' \in [Channels -> [of : Ic!Owner, way : {"tx", "rx"}]]
    BY <1>1 DEF Ic!Complete
  <2> QED  BY <1>1, <2>1, <2>2, <2>3 DEF Ic!Complete, Ic!taskVars
<1>2. ASSUME NEW c \in Channels, Ic!Alert(c) PROVE Ic!TypeOK'
  BY <1>2 DEF Ic!Alert, Ic!hwVars, Ic!taskVars
<1>3. ASSUME NEW c \in Channels, Ic!IsrEnter(c) PROVE Ic!TypeOK'
  BY <1>3 DEF Ic!IsrEnter, Ic!hwVars, Ic!taskVars
<1>4. CASE Ic!IsrWake
  BY <1>4 DEF Ic!IsrWake, Ic!hwVars
<1>5. ASSUME NEW t \in Masters, Ic!Poll(t) PROVE Ic!TypeOK'
  BY <1>5 DEF Ic!Poll, Ic!hwVars, Ic!Goto
<1>6. ASSUME NEW t \in Masters, Ic!OtherWake(t) PROVE Ic!TypeOK'
  BY <1>6 DEF Ic!OtherWake, Ic!hwVars
<1>7. ASSUME NEW t \in Masters, Ic!Cancel(t) PROVE Ic!TypeOK'
  <2>1. Ic!Disown(t) /\ UNCHANGED <<dir, sts, irq, icWakers, isr>>
        /\ icReady' \subseteq Masters /\ icCur' \in Masters \cup {None}
    BY <1>7 DEF Ic!Cancel, Ic!Running
  <2> QED  BY <2>1, Disowned
<1>8. ASSUME NEW t \in Masters, Ic!Yield(t) PROVE Ic!TypeOK'
  BY <1>8 DEF Ic!Yield, Ic!hwVars, Ic!Running
<1>9. ASSUME NEW t \in Masters, Ic!TooLong(t) PROVE Ic!TypeOK'
  <2>1. Ic!Disown(t) /\ UNCHANGED <<dir, sts, irq, icWakers, isr>>
        /\ icReady' \subseteq Masters /\ icCur' \in Masters \cup {None}
    BY <1>9 DEF Ic!TooLong, Ic!Running
  <2> QED  BY <2>1, Disowned
<1>10. ASSUME NEW t \in Masters, Ic!Start(t) PROVE Ic!TypeOK'
  <2>1. Head(icLeft[t]) \in {"read", "write"} /\ Tail(icLeft[t]) \in Seq(Ic!Phases)
    BY <1>10 DEF Ic!Start, Ic!Phases
  <2>2. bus' \in [Channels -> Ic!Owner] /\ ended' \in [Channels -> Ic!Owner]
    BY <1>10 DEF Ic!Start, Ic!Issue
  <2>3. sts' \in [Channels -> SUBSET {"done", "fail", "arb"}] /\ dir' \in [Channels -> {"read", "write"}]
    BY <1>10, <2>1 DEF Ic!Start, Ic!Issue
  <2>4. pool' \in [Channels -> [of : Ic!Owner, way : {"tx", "rx"}]]
    BY <1>10 DEF Ic!Start, Ic!Issue
  <2>5. icLeft' \in [Masters -> Seq(Ic!Phases)]
    BY <1>10, <2>1 DEF Ic!Start, Ic!Issue
  <2>6. icPc' \in [Masters -> {"idle", "start", "check", "register", "recheck", "pending", "after"}]
    BY <1>10 DEF Ic!Start, Ic!Issue, Ic!Goto
  <2> QED  BY <1>10, <2>2, <2>3, <2>4, <2>5, <2>6 DEF Ic!Start, Ic!Issue
<1>11. ASSUME NEW t \in Masters, Ic!Check(t) PROVE Ic!TypeOK'
  <2>1. Ic!Look(t, "register") /\ ChOf[t] \in Channels
    BY <1>11 DEF Ic!Check
  <2>2. icCur' \in Masters \cup {None}
    BY <1>11 DEF Ic!Check, Ic!Look
  <2>3. /\ sts' \in [Channels -> SUBSET {"done", "fail", "arb"}]
        /\ got' \in [Masters -> [of : Ic!Owner, ok : BOOLEAN]]
        /\ icPc' \in [Masters -> {"idle", "start", "check", "register", "recheck", "pending", "after"}]
    BY <2>1, Looked
  <2> QED  BY <1>11, <2>2, <2>3 DEF Ic!Check
<1>12. ASSUME NEW t \in Masters, Ic!Register(t) PROVE Ic!TypeOK'
  BY <1>12 DEF Ic!Register, Ic!hwVars, Ic!Running, Ic!Goto
<1>13. ASSUME NEW t \in Masters, Ic!Recheck(t) PROVE Ic!TypeOK'
  <2>1. Ic!Look(t, "pending") /\ ChOf[t] \in Channels
    BY <1>13 DEF Ic!Recheck
  <2>2. icCur' \in Masters \cup {None}
    BY <1>13 DEF Ic!Recheck, Ic!Look
  <2>3. /\ sts' \in [Channels -> SUBSET {"done", "fail", "arb"}]
        /\ got' \in [Masters -> [of : Ic!Owner, ok : BOOLEAN]]
        /\ icPc' \in [Masters -> {"idle", "start", "check", "register", "recheck", "pending", "after"}]
    BY <2>1, Looked
  <2> QED  BY <1>13, <2>2, <2>3 DEF Ic!Recheck
<1>14. ASSUME NEW t \in Masters, Ic!NextPhase(t) PROVE Ic!TypeOK'
  BY <1>14 DEF Ic!NextPhase, Ic!hwVars, Ic!Running, Ic!Goto
<1>15. ASSUME NEW t \in Masters, Ic!Finish(t) PROVE Ic!TypeOK'
  <2>1. Ic!Disown(t) /\ UNCHANGED <<dir, sts, irq, icWakers, isr>>
        /\ icReady' \subseteq Masters /\ icCur' \in Masters \cup {None}
    BY <1>15 DEF Ic!Finish, Ic!Running
  <2> QED  BY <2>1, Disowned
<1>16. ASSUME NEW t \in Masters, NEW w \in Seq(Ic!Phases) \ {<<>>}, Ic!Begin(t, w) PROVE
           Ic!TypeOK'
  BY <1>16 DEF Ic!Begin, Ic!hwVars, Ic!Running, Ic!Goto
<1>17. CASE UNCHANGED Ic!vars
  BY <1>17 DEF Ic!vars, Ic!hwVars, Ic!taskVars
<1> HIDE PartsAssumption DEF Ic!I2cAssumption, Ic!TypeOK, PhaseLeft, Ic!Owner
<1> QED
  BY Phased, <1>1, <1>2, <1>3, <1>4, <1>5, <1>6, <1>7, <1>8, <1>9, <1>10, <1>11, <1>12, <1>13,
     <1>14,
     <1>15, <1>16, <1>17 DEF Ic!Next, Ic!Inside

\* A transfer starts a phase only while it has one left.
LEMMA I2cPhase == Ic!TypeOK /\ PhaseLeft /\ [Ic!Next]_(Ic!vars) => PhaseLeft'
<1> SUFFICES ASSUME Ic!TypeOK /\ PhaseLeft, [Ic!Next]_(Ic!vars) PROVE PhaseLeft'
  OBVIOUS
<1> USE PartsAssumption DEF Ic!I2cAssumption, Ic!TypeOK, PhaseLeft, Ic!Owner
<1>1. ASSUME NEW c \in Channels, Ic!Complete(c) PROVE PhaseLeft'
  BY <1>1 DEF Ic!Complete, Ic!taskVars
<1>2. ASSUME NEW c \in Channels, Ic!Alert(c) PROVE PhaseLeft'
  BY <1>2 DEF Ic!Alert, Ic!hwVars, Ic!taskVars
<1>3. ASSUME NEW c \in Channels, Ic!IsrEnter(c) PROVE PhaseLeft'
  BY <1>3 DEF Ic!IsrEnter, Ic!hwVars, Ic!taskVars
<1>4. CASE Ic!IsrWake
  BY <1>4 DEF Ic!IsrWake, Ic!hwVars
<1>5. ASSUME NEW t \in Masters, Ic!Poll(t) PROVE PhaseLeft'
  BY <1>5 DEF Ic!Poll, Ic!hwVars, Ic!Goto
<1>6. ASSUME NEW t \in Masters, Ic!OtherWake(t) PROVE PhaseLeft'
  BY <1>6 DEF Ic!OtherWake, Ic!hwVars
<1>7. ASSUME NEW t \in Masters, Ic!Cancel(t) PROVE PhaseLeft'
  BY <1>7 DEF Ic!Cancel, Ic!Disown, Ic!Goto
<1>8. ASSUME NEW t \in Masters, Ic!Yield(t) PROVE PhaseLeft'
  BY <1>8 DEF Ic!Yield, Ic!hwVars, Ic!Running
<1>9. ASSUME NEW t \in Masters, Ic!TooLong(t) PROVE PhaseLeft'
  BY <1>9 DEF Ic!TooLong, Ic!Running, Ic!Disown, Ic!Goto
<1>10. ASSUME NEW t \in Masters, Ic!Start(t) PROVE PhaseLeft'
  BY <1>10 DEF Ic!Start, Ic!Running, Ic!Issue, Ic!Goto
<1>11. ASSUME NEW t \in Masters, Ic!Check(t) PROVE PhaseLeft'
  BY <1>11 DEF Ic!Check, Ic!Running, Ic!Look, Ic!Goto
<1>12. ASSUME NEW t \in Masters, Ic!Register(t) PROVE PhaseLeft'
  BY <1>12 DEF Ic!Register, Ic!hwVars, Ic!Running, Ic!Goto
<1>13. ASSUME NEW t \in Masters, Ic!Recheck(t) PROVE PhaseLeft'
  BY <1>13 DEF Ic!Recheck, Ic!Running, Ic!Look, Ic!Goto
<1>14. ASSUME NEW t \in Masters, Ic!NextPhase(t) PROVE PhaseLeft'
  BY <1>14 DEF Ic!NextPhase, Ic!hwVars, Ic!Running, Ic!Goto
<1>15. ASSUME NEW t \in Masters, Ic!Finish(t) PROVE PhaseLeft'
  BY <1>15 DEF Ic!Finish, Ic!Running, Ic!Disown, Ic!Goto
<1>16. ASSUME NEW t \in Masters, NEW w \in Seq(Ic!Phases) \ {<<>>}, Ic!Begin(t, w) PROVE
           PhaseLeft'
  BY <1>16 DEF Ic!Begin, Ic!hwVars, Ic!Running, Ic!Goto
<1>17. CASE UNCHANGED Ic!vars
  BY <1>17 DEF Ic!vars, Ic!hwVars, Ic!taskVars
<1> HIDE PartsAssumption DEF Ic!I2cAssumption, Ic!TypeOK, PhaseLeft, Ic!Owner
<1> QED
  BY Phased, <1>1, <1>2, <1>3, <1>4, <1>5, <1>6, <1>7, <1>8, <1>9, <1>10, <1>11, <1>12, <1>13,
     <1>14,
     <1>15, <1>16, <1>17 DEF Ic!Next, Ic!Inside

\* What a step does on one channel leaves a task alone on another as it was, and
\* moves one alone on its own channel to the next of its stages.
LEMMA I2cOwn == I2cInv /\ [Ic!Next]_(Ic!vars) => OwnChannels'
<1> SUFFICES ASSUME I2cInv, [Ic!Next]_(Ic!vars) PROVE OwnChannels'
  OBVIOUS
<1> USE PartsAssumption DEF Ic!I2cAssumption, I2cInv, Ic!TypeOK, Ic!Owner, OwnChannels,
       OwnChannel, I2cWaits, Received, Ic!Sole
<1>1. ASSUME NEW c \in Channels, Ic!Complete(c) PROVE OwnChannels'
  BY <1>1 DEF Ic!Complete, Ic!taskVars
<1>2. ASSUME NEW c \in Channels, Ic!Alert(c) PROVE OwnChannels'
  BY <1>2 DEF Ic!Alert, Ic!hwVars, Ic!taskVars
<1>3. ASSUME NEW c \in Channels, Ic!IsrEnter(c) PROVE OwnChannels'
  BY <1>3 DEF Ic!IsrEnter, Ic!hwVars, Ic!taskVars
<1>4. CASE Ic!IsrWake
  BY <1>4 DEF Ic!IsrWake, Ic!hwVars
<1>5. ASSUME NEW t \in Masters, Ic!Poll(t) PROVE OwnChannels'
  <2>1. /\ \A u \in Masters \ {t} : icPc'[u] = icPc[u]
        /\ icPc'[t] = icPc[t] \/ (icPc[t] = "pending" /\ icPc'[t] = "check")
    BY <1>5 DEF Ic!Poll, Ic!Goto
  <2>3. UNCHANGED <<bus, dir, sts, pool, ended, icWakers, got>>
    BY <1>5 DEF Ic!Poll, Ic!hwVars
  <2>2. ASSUME NEW u \in Masters, OwnChannel(u) PROVE OwnChannel(u)'
    BY <2>1, <2>2, <2>3
  <2> QED  BY <2>2
<1>6. ASSUME NEW t \in Masters, Ic!OtherWake(t) PROVE OwnChannels'
  BY <1>6 DEF Ic!OtherWake, Ic!hwVars
<1>7. ASSUME NEW t \in Masters, Ic!Cancel(t) PROVE OwnChannels'
  BY <1>7 DEF Ic!Cancel, Ic!Disown, Ic!Goto
<1>8. ASSUME NEW t \in Masters, Ic!Yield(t) PROVE OwnChannels'
  BY <1>8 DEF Ic!Yield, Ic!hwVars, Ic!Running
<1>9. ASSUME NEW t \in Masters, Ic!TooLong(t) PROVE OwnChannels'
  BY <1>9 DEF Ic!TooLong, Ic!Running, Ic!Disown, Ic!Goto
<1>10. ASSUME NEW t \in Masters, Ic!Start(t) PROVE OwnChannels'
  BY <1>10 DEF Ic!Start, Ic!Running, Ic!Issue, Ic!Goto
<1>11. ASSUME NEW t \in Masters, Ic!Check(t) PROVE OwnChannels'
  BY <1>11 DEF Ic!Check, Ic!Running, Ic!Look, Ic!Goto
<1>12. ASSUME NEW t \in Masters, Ic!Register(t) PROVE OwnChannels'
  BY <1>12 DEF Ic!Register, Ic!hwVars, Ic!Running, Ic!Goto
<1>13. ASSUME NEW t \in Masters, Ic!Recheck(t) PROVE OwnChannels'
  BY <1>13 DEF Ic!Recheck, Ic!Running, Ic!Look, Ic!Goto
<1>14. ASSUME NEW t \in Masters, Ic!NextPhase(t) PROVE OwnChannels'
  BY <1>14 DEF Ic!NextPhase, Ic!hwVars, Ic!Running, Ic!Goto
<1>15. ASSUME NEW t \in Masters, Ic!Finish(t) PROVE OwnChannels'
  BY <1>15 DEF Ic!Finish, Ic!Running, Ic!Disown, Ic!Goto
<1>16. ASSUME NEW t \in Masters, NEW w \in Seq(Ic!Phases) \ {<<>>}, Ic!Begin(t, w) PROVE
           OwnChannels'
  BY <1>16 DEF Ic!Begin, Ic!hwVars, Ic!Running, Ic!Goto
<1>17. CASE UNCHANGED Ic!vars
  BY <1>17 DEF Ic!vars, Ic!hwVars, Ic!taskVars
<1> HIDE PartsAssumption DEF Ic!I2cAssumption, I2cInv, Ic!TypeOK, Ic!Owner, OwnChannels,
       OwnChannel, I2cWaits, Received, Ic!Sole
<1> QED
  BY Phased, <1>1, <1>2, <1>3, <1>4, <1>5, <1>6, <1>7, <1>8, <1>9, <1>10, <1>11, <1>12, <1>13,
     <1>14,
     <1>15, <1>16, <1>17 DEF Ic!Next, Ic!Inside

\* No step leaves a task that is alone on its channel asleep beside a phase that
\* is done.
LEMMA I2cWaked == I2cInv /\ [Ic!Next]_(Ic!vars) => Ic!NoLostWakeup'
<1> SUFFICES ASSUME I2cInv, [Ic!Next]_(Ic!vars) PROVE Ic!NoLostWakeup'
  OBVIOUS
<1> USE PartsAssumption DEF Ic!I2cAssumption, I2cInv, Ic!TypeOK, Ic!Owner, OwnChannels,
       OwnChannel, I2cWaits, Ic!NoLostWakeup, Ic!Sole
<1>1. ASSUME NEW c \in Channels, Ic!Complete(c) PROVE Ic!NoLostWakeup'
  BY <1>1 DEF Ic!Complete, Ic!taskVars
<1>2. ASSUME NEW c \in Channels, Ic!Alert(c) PROVE Ic!NoLostWakeup'
  BY <1>2 DEF Ic!Alert, Ic!hwVars, Ic!taskVars
<1>3. ASSUME NEW c \in Channels, Ic!IsrEnter(c) PROVE Ic!NoLostWakeup'
  <2>1. irq' = irq \ {c} /\ isr' = c /\ isr = None /\ UNCHANGED <<sts, icPc, icReady>>
    BY <1>3 DEF Ic!IsrEnter, Ic!hwVars, Ic!taskVars
  <2> QED  BY <2>1, SMTT(30)
<1>4. CASE Ic!IsrWake
  BY <1>4 DEF Ic!IsrWake, Ic!hwVars
<1>5. ASSUME NEW t \in Masters, Ic!Poll(t) PROVE Ic!NoLostWakeup'
  BY <1>5 DEF Ic!Poll, Ic!hwVars, Ic!Goto
<1>6. ASSUME NEW t \in Masters, Ic!OtherWake(t) PROVE Ic!NoLostWakeup'
  BY <1>6 DEF Ic!OtherWake, Ic!hwVars
<1>7. ASSUME NEW t \in Masters, Ic!Cancel(t) PROVE Ic!NoLostWakeup'
  BY <1>7 DEF Ic!Cancel, Ic!Disown, Ic!Goto
<1>8. ASSUME NEW t \in Masters, Ic!Yield(t) PROVE Ic!NoLostWakeup'
  BY <1>8 DEF Ic!Yield, Ic!hwVars, Ic!Running
<1>9. ASSUME NEW t \in Masters, Ic!TooLong(t) PROVE Ic!NoLostWakeup'
  BY <1>9 DEF Ic!TooLong, Ic!Running, Ic!Disown, Ic!Goto
<1>10. ASSUME NEW t \in Masters, Ic!Start(t) PROVE Ic!NoLostWakeup'
  BY <1>10 DEF Ic!Start, Ic!Running, Ic!Issue, Ic!Goto
<1>11. ASSUME NEW t \in Masters, Ic!Check(t) PROVE Ic!NoLostWakeup'
  <2>1. /\ \A u \in Masters \ {t} : icPc'[u] = icPc[u]
        /\ icPc'[t] = "pending" => sts' = sts /\ "done" \notin sts[ChOf[t]]
        /\ \A c \in Channels \ {ChOf[t]} : sts'[c] = sts[c]
        /\ UNCHANGED <<irq, icReady, isr>>
    BY <1>11 DEF Ic!Check, Ic!Look, Ic!Goto
  <2> QED  BY <2>1
<1>12. ASSUME NEW t \in Masters, Ic!Register(t) PROVE Ic!NoLostWakeup'
  BY <1>12 DEF Ic!Register, Ic!hwVars, Ic!Running, Ic!Goto
<1>13. ASSUME NEW t \in Masters, Ic!Recheck(t) PROVE Ic!NoLostWakeup'
  <2>1. /\ \A u \in Masters \ {t} : icPc'[u] = icPc[u]
        /\ icPc'[t] = "pending" => sts' = sts /\ "done" \notin sts[ChOf[t]]
        /\ \A c \in Channels \ {ChOf[t]} : sts'[c] = sts[c]
        /\ UNCHANGED <<irq, icReady, isr>>
    BY <1>13 DEF Ic!Recheck, Ic!Look, Ic!Goto
  <2> QED  BY <2>1
<1>14. ASSUME NEW t \in Masters, Ic!NextPhase(t) PROVE Ic!NoLostWakeup'
  BY <1>14 DEF Ic!NextPhase, Ic!hwVars, Ic!Running, Ic!Goto
<1>15. ASSUME NEW t \in Masters, Ic!Finish(t) PROVE Ic!NoLostWakeup'
  BY <1>15 DEF Ic!Finish, Ic!Running, Ic!Disown, Ic!Goto
<1>16. ASSUME NEW t \in Masters, NEW w \in Seq(Ic!Phases) \ {<<>>}, Ic!Begin(t, w) PROVE
           Ic!NoLostWakeup'
  BY <1>16 DEF Ic!Begin, Ic!hwVars, Ic!Running, Ic!Goto
<1>17. CASE UNCHANGED Ic!vars
  BY <1>17 DEF Ic!vars, Ic!hwVars, Ic!taskVars
<1> HIDE PartsAssumption DEF Ic!I2cAssumption, I2cInv, Ic!TypeOK, Ic!Owner, OwnChannels,
       OwnChannel, I2cWaits, Ic!NoLostWakeup, Ic!Sole
<1> QED
  BY Phased, <1>1, <1>2, <1>3, <1>4, <1>5, <1>6, <1>7, <1>8, <1>9, <1>10, <1>11, <1>12, <1>13,
     <1>14,
     <1>15, <1>16, <1>17 DEF Ic!Next, Ic!Inside

\* Every step keeps the invariant.
LEMMA I2cKept == I2cInv /\ [Ic!Next]_(Ic!vars) => I2cInv'
  BY I2cType, I2cPhase, I2cOwn, I2cWaked DEF I2cInv

\* A task alone on its channel is told of its own phases, finds its own bytes
\* in the buffer and is woken.
THEOREM I2cRight == Ic!Spec => []I2cInv
  BY I2cKept, I2cInit, PTL DEF Ic!Spec

-----------------------------------------------------------------------------
(* The I3C master: its sequences and sets.                                 *)

I3cStates == {"idle", "check", "register", "recheck", "pending", "over", "done"}
I3cOwners == I3cTasks \cup {None}

\* What is assumed of the constants of the I3C master.
LEMMA I3cConstants ==
  /\ IsFiniteSet(I3cTasks) /\ IsFiniteSet(Devices)
  /\ MaxSlots \in Nat /\ MaxDrops \in Nat /\ MaxWords \in Nat
  /\ None \notin I3cTasks \cup Devices
  BY PartsAssumption DEF I3!I3cAssumption, I3!IsFiniteSet, IsFiniteSet

\* Where the modules of finite sets are instantiated twice they say the same.
LEMMA I3cCardinality == \A S : I3!Cardinality(S) = Cardinality(S)
  BY DEF I3!Cardinality, Cardinality

\* The order in which devices are found names each of them once.
LEMMA Ordered ==
  ASSUME NEW S, IsFiniteSet(S)
  PROVE  /\ Cardinality(S) \in Nat
         /\ I3!SetToSeq(S) \in [1..Cardinality(S) -> S]
         /\ \A i, j \in 1..Cardinality(S) : I3!SetToSeq(S)[i] = I3!SetToSeq(S)[j] => i = j
         /\ \A d \in S : \E i \in 1..Cardinality(S) : I3!SetToSeq(S)[i] = d
<1> DEFINE n == Cardinality(S)
           one(f) == \A a, b \in DOMAIN f : f[a] = f[b] => a = b
           order == CHOOSE f \in [1..n -> S] : one(f)
<1>1. n \in Nat /\ ExistsBijection(1..n, S)
  BY FS_CardinalityType
<1>2. PICK f \in [1..n -> S] : \A a, b \in 1..n : f[a] = f[b] => a = b
  BY <1>1 DEF ExistsBijection, Bijection, Injection, IsInjective
<1>3. one(f)
  BY <1>2
<1>4. order \in [1..n -> S] /\ one(order)
  <2> HIDE DEF one
  <2> QED  BY <1>3
<1>5. I3!SetToSeq(S) = order
  BY I3cCardinality DEF I3!SetToSeq, I3!IsInjective
<1>6. order \in Injection(1..n, S)
  BY <1>4 DEF Injection, IsInjective
<1>7. Cardinality(1..n) = n
  BY <1>1, FS_Interval
<1>8. order \in Surjection(1..n, S)
  <2> HIDE DEF order
  <2> QED  BY <1>6, <1>7, FS_Injection
<1>9. \A d \in S : \E i \in 1..n : order[i] = d
  BY <1>8 DEF Surjection
<1>10. \A i, j \in 1..n : order[i] = order[j] => i = j
  BY <1>4
<1> QED  BY <1>1, <1>4, <1>5, <1>9, <1>10

\* Words and commands that are disowned stay where they are in the queue.
LEMMA DisownedWords ==
  ASSUME NEW t \in I3cTasks, NEW q \in Seq(I3cOwners)
  PROVE  /\ I3!Disown(t, q) \in Seq(I3cOwners)
         /\ q = <<>> => I3!Disown(t, q) = <<>>
<1>1. Len(q) \in Nat /\ DOMAIN q = 1..Len(q) /\ \A i \in 1..Len(q) : q[i] \in I3cOwners
  BY LenProperties
<1>2. I3!Disown(t, q) \in [1..Len(q) -> I3cOwners]
  BY <1>1 DEF I3!Disown, I3cOwners
<1>3. I3!Disown(t, q) \in Seq(I3cOwners)
  BY <1>1, <1>2, SeqDef
<1>4. ASSUME q = <<>> PROVE I3!Disown(t, q) = <<>>
  <2>1. DOMAIN I3!Disown(t, q) = {}
    BY <1>1, <1>2, <1>4
  <2> QED  BY <1>3, <2>1
<1> QED  BY <1>3, <1>4

\* ... and keep everything but their owner.
LEMMA DisownedEntries ==
  ASSUME NEW t \in I3cTasks, NEW R, NEW q \in Seq(R),
         \A r \in R : [r EXCEPT !.of = None] \in R
  PROVE  /\ I3!DisownOf(t, q) \in Seq(R) /\ Len(I3!DisownOf(t, q)) = Len(q)
         /\ \A i \in 1..Len(q) : I3!DisownOf(t, q)[i] = IF q[i].of = t THEN [q[i] EXCEPT !.of = None] ELSE q[i]
<1>1. Len(q) \in Nat /\ DOMAIN q = 1..Len(q) /\ \A i \in 1..Len(q) : q[i] \in R
  BY LenProperties
<1>2. I3!DisownOf(t, q) = [i \in 1..Len(q) |-> IF q[i].of = t THEN [q[i] EXCEPT !.of = None] ELSE q[i]]
  BY <1>1 DEF I3!DisownOf
<1>3. I3!DisownOf(t, q) \in [1..Len(q) -> R]
  BY <1>1, <1>2
<1>4. I3!DisownOf(t, q) \in Seq(R)
  BY <1>1, <1>3, SeqDef
<1>5. Len(I3!DisownOf(t, q)) = Len(q)
  <2>1. 1..Len(I3!DisownOf(t, q)) = 1..Len(q) /\ Len(I3!DisownOf(t, q)) \in Nat
    BY <1>3, <1>4, LenProperties
  <2> QED  BY <1>1, <2>1
<1> QED  BY <1>2, <1>4, <1>5

\* A command or a response of nobody is still one.
LEMMA EntriesDisowned ==
  /\ \A r \in I3!Commands : [r EXCEPT !.of = None] \in I3!Commands
  /\ \A r \in I3!Responses : [r EXCEPT !.of = None] \in I3!Responses
<1>1. \A r \in I3!Commands : [r EXCEPT !.of = None] \in I3!Commands
  BY DEF I3!Commands
<1>2. \A r \in I3!Responses : [r EXCEPT !.of = None] \in I3!Responses
  BY DEF I3!Responses
<1> QED  BY <1>1, <1>2

-----------------------------------------------------------------------------
(* The types of the I3C master.                                            *)

\* A command that assigns addresses has a slot for each of them.
SlotsEnough == \A i \in 1..Len(cmds) : cmds[i].kind = "daa" => cmds[i].len <= MaxSlots

\* The controller takes the oldest command and appends the response to it.
LEMMA Responded ==
  ASSUME I3!TypeOK, NEW k \in BOOLEAN, NEW n \in Nat, I3!Respond(k, n)
  PROVE  /\ cmds' \in Seq(I3!Commands) /\ Len(cmds') = Len(cmds) - 1
         /\ \A i \in 1..Len(cmds') : cmds'[i] = cmds[i + 1]
         /\ Len(cmds) \in Nat \ {0} /\ Head(cmds) = cmds[1] /\ cmds[1] \in I3!Commands
         /\ resps' \in Seq(I3!Responses) /\ Len(resps') = Len(resps) + 1
         /\ resps = <<>> => resps'[1] = [of |-> cmds[1].of, kind |-> cmds[1].kind, ok |-> k, len |-> n]
         /\ irqI3c' = TRUE
<1> DEFINE r == [of |-> Head(cmds).of, kind |-> Head(cmds).kind, ok |-> k, len |-> n]
<1>1. cmds \in Seq(I3!Commands) /\ resps \in Seq(I3!Responses) /\ cmds # <<>>
  BY DEF I3!TypeOK, I3!Respond
<1>2. Head(cmds) \in I3!Commands /\ Head(cmds) = cmds[1] /\ Len(cmds) \in Nat \ {0}
  BY <1>1
<1>3. cmds' = Tail(cmds) /\ resps' = Append(resps, r) /\ irqI3c' = TRUE
  BY DEF I3!Respond
<1>4. Head(cmds).of \in I3cTasks \cup {None} /\ Head(cmds).kind \in I3!Kinds
  BY <1>2 DEF I3!Commands
<1>5. r \in I3!Responses
  BY <1>4 DEF I3!Responses
<1>6. /\ cmds' \in Seq(I3!Commands) /\ Len(cmds') = Len(cmds) - 1
      /\ \A i \in 1..Len(cmds') : cmds'[i] = cmds[i + 1]
  BY <1>1, <1>3, HeadTailProperties
<1>7. /\ resps' \in Seq(I3!Responses) /\ Len(resps') = Len(resps) + 1
      /\ resps'[Len(resps) + 1] = r
  <2> HIDE DEF r
  <2> QED  BY <1>1, <1>3, <1>5, AppendProperties
<1>8. resps = <<>> => resps'[1] = r
  <2> HIDE DEF r
  <2> QED  BY <1>7
<1> QED  BY <1>2, <1>3, <1>6, <1>7, <1>8

\* The devices that are found get the addresses of the first slots.
LEMMA Assigned ==
  ASSUME I3!TypeOK, SlotsEnough, NEW k \in BOOLEAN, I3!Assign(k)
  PROVE  /\ addr' \in [Devices -> I3!Addresses] /\ dct' \in [I3!Slots -> Devices \cup {None}]
         /\ cmds # <<>> /\ Head(cmds).kind = "daa"
         /\ \E n \in Nat : /\ n <= Head(cmds).len /\ I3!Respond(k, n)
                           /\ k => \A s \in 0..(n - 1) : addr'[dct'[s]] = i3Dat[s]
<1> DEFINE new == {d \in Devices : addr[d] = 0}
           n == IF Head(cmds).len < I3!Cardinality(new) THEN Head(cmds).len ELSE I3!Cardinality(new)
<1>1. /\ cmds # <<>> /\ Head(cmds).kind = "daa" /\ I3!Respond(k, IF k THEN n ELSE 0)
  BY DEF I3!Assign
<1>2. /\ Head(cmds) \in I3!Commands /\ Head(cmds).len \in Nat /\ Head(cmds).len <= MaxSlots
  <2>1. cmds \in Seq(I3!Commands) /\ Len(cmds) \in Nat \ {0} /\ Head(cmds) = cmds[1] /\ cmds[1] \in I3!Commands
    BY <1>1 DEF I3!TypeOK
  <2>2. Head(cmds).len \in Nat
    BY <2>1 DEF I3!Commands
  <2> QED  BY <1>1, <2>1, <2>2 DEF SlotsEnough
<1>3. IsFiniteSet(new) /\ I3!Cardinality(new) \in Nat
  <2>1. IsFiniteSet(new)
    BY I3cConstants, FS_Subset
  <2> QED  BY <2>1, FS_CardinalityType, I3cCardinality
<1>4. n \in Nat /\ n <= Head(cmds).len /\ n <= MaxSlots
  <2> HIDE DEF new
  <2> QED  BY <1>2, <1>3, I3cConstants
<1>5. CASE ~k
  <2>1. UNCHANGED <<addr, dct>> /\ I3!Respond(k, 0)
    BY <1>1, <1>5 DEF I3!Assign
  <2> QED  BY <1>1, <1>2, <1>5, <2>1 DEF I3!TypeOK
<1>6. CASE k
  <2>1. PICK found \in I3!kSubset(n, new) :
          /\ addr' = [d \in Devices |-> IF d \in found THEN i3Dat[CHOOSE s \in 0 .. n - 1 : I3!SetToSeq(found)[s + 1] = d] ELSE addr[d]]
          /\ dct' = [s \in I3!Slots |-> IF s < n THEN I3!SetToSeq(found)[s + 1] ELSE dct[s]]
    BY <1>6 DEF I3!Assign
  <2>2. found \subseteq Devices /\ Cardinality(found) = n /\ IsFiniteSet(found)
    <3>1. found \subseteq new /\ I3!Cardinality(found) = n
      BY <2>1 DEF I3!kSubset
    <3> HIDE DEF n
    <3>2. IsFiniteSet(found)
      BY <1>3, <3>1, FS_Subset
    <3> QED  BY <3>1, <3>2, I3cCardinality
  <2> DEFINE order == I3!SetToSeq(found)
             pos(d) == CHOOSE s \in 0 .. n - 1 : order[s + 1] = d
  <2>3. /\ order \in [1..n -> found] /\ \A i, j \in 1..n : order[i] = order[j] => i = j
        /\ \A d \in found : \E i \in 1..n : order[i] = d
    <3> HIDE DEF n
    <3> QED  BY <2>2, Ordered
  <2>4. addr' = [d \in Devices |-> IF d \in found THEN i3Dat[pos(d)] ELSE addr[d]]
    BY <2>1
  <2>5. dct' = [s \in I3!Slots |-> IF s < n THEN order[s + 1] ELSE dct[s]]
    BY <2>1
  <2> HIDE DEF order, n, new
  <2>6. \A d \in found : pos(d) \in 0..(n - 1) /\ order[pos(d) + 1] = d
    <3> SUFFICES ASSUME NEW d \in found PROVE pos(d) \in 0..(n - 1) /\ order[pos(d) + 1] = d
      OBVIOUS
    <3>1. PICK i \in 1..n : order[i] = d
      BY <2>3
    <3>2. i - 1 \in 0..(n - 1) /\ order[(i - 1) + 1] = d
      BY <1>4, <3>1
    <3> QED  BY <3>2
  <2> HIDE DEF pos
  <2>7. \A s \in 0..(n - 1) : s \in I3!Slots /\ s + 1 \in 1..n
    BY <1>4, I3cConstants DEF I3!Slots
  <2>8. addr' \in [Devices -> I3!Addresses]
    BY <2>4, <2>6, <2>7 DEF I3!TypeOK
  <2>9. dct' \in [I3!Slots -> Devices \cup {None}]
    <3>1. \A s \in I3!Slots : s < n => s + 1 \in 1..n
      BY <1>4, I3cConstants DEF I3!Slots
    <3> QED  BY <2>2, <2>3, <2>5, <3>1 DEF I3!TypeOK
  <2>10. \A s \in 0..(n - 1) : addr'[dct'[s]] = i3Dat[s]
    <3> SUFFICES ASSUME NEW s \in 0..(n - 1) PROVE addr'[dct'[s]] = i3Dat[s]
      OBVIOUS
    <3>1. dct'[s] = order[s + 1] /\ order[s + 1] \in found
      BY <1>4, <2>3, <2>5, <2>7
    <3>2. pos(order[s + 1]) \in 0..(n - 1) /\ order[pos(order[s + 1]) + 1] = order[s + 1]
      BY <2>6, <3>1
    <3>3. pos(order[s + 1]) + 1 = s + 1
      BY <1>4, <2>3, <2>7, <3>2
    <3>4. pos(order[s + 1]) = s
      BY <1>4, <3>2, <3>3
    <3> QED  BY <2>2, <2>4, <3>1, <3>4
  <2>11. I3!Respond(k, n)
    BY <1>1, <1>6
  <2> QED  BY <1>1, <1>4, <2>8, <2>9, <2>10, <2>11
<1> QED  BY <1>5, <1>6

\* A transfer appends its command to the queue and waits.
LEMMA Issued ==
  ASSUME I3!TypeOK, NEW t \in I3cTasks, NEW k \in I3!Kinds, NEW n \in Nat, I3!Issue(t, k, n)
  PROVE  /\ cmds' \in Seq(I3!Commands) /\ Len(cmds') = Len(cmds) + 1
         /\ \A i \in 1..Len(cmds) : cmds'[i] = cmds[i]
         /\ cmds'[Len(cmds) + 1] = [of |-> t, kind |-> k, len |-> n]
         /\ op'[t] = [of |-> t, kind |-> k, len |-> n] /\ op' \in [I3cTasks -> I3!Commands]
         /\ \A u \in I3cTasks \ {t} : op'[u] = op[u] /\ at'[u] = at[u]
         /\ at[t] = "idle" /\ at'[t] = "check" /\ at' \in [I3cTasks -> I3cStates]
         /\ tx' \in Seq(I3cOwners)
         /\ tx = <<>> => Len(tx') = IF k \in {"write", "ccc"} THEN n ELSE 0
<1> DEFINE c == [of |-> t, kind |-> k, len |-> n]
<1>1. cmds \in Seq(I3!Commands) /\ tx \in Seq(I3cOwners) /\ c \in I3!Commands
  BY DEF I3!TypeOK, I3cOwners, I3!Commands
<1>2. cmds' = Append(cmds, c) /\ op' = [op EXCEPT ![t] = c] /\ at' = [at EXCEPT ![t] = "check"] /\ at[t] = "idle"
  BY DEF I3!Issue, I3!Goto
<1>3. /\ cmds' \in Seq(I3!Commands) /\ Len(cmds') = Len(cmds) + 1
      /\ \A i \in 1..Len(cmds) : cmds'[i] = cmds[i]
      /\ cmds'[Len(cmds) + 1] = c
  <2> HIDE DEF c
  <2> QED  BY <1>1, <1>2, AppendProperties
<1>4. /\ op'[t] = c /\ op' \in [I3cTasks -> I3!Commands] /\ \A u \in I3cTasks \ {t} : op'[u] = op[u]
      /\ at'[t] = "check" /\ at' \in [I3cTasks -> I3cStates] /\ \A u \in I3cTasks \ {t} : at'[u] = at[u]
  <2> HIDE DEF c
  <2> QED  BY <1>1, <1>2 DEF I3!TypeOK, I3cStates
<1>5. tx' \in Seq(I3cOwners) /\ (tx = <<>> => Len(tx') = IF k \in {"write", "ccc"} THEN n ELSE 0)
  <2> DEFINE w == [i \in 1 .. n |-> t]
  <2>1. tx' = IF k \in {"write", "ccc"} THEN tx \o w ELSE tx
    BY DEF I3!Issue
  <2>2. w \in [1..n -> I3cOwners] /\ w \in Seq(I3cOwners)
    <3>1. w \in [1..n -> I3cOwners]
      BY DEF I3cOwners
    <3> HIDE DEF w
    <3> QED  BY <3>1, SeqDef
  <2>3. Len(w) = n
    OBVIOUS
  <2> HIDE DEF w
  <2>4. tx \o w \in Seq(I3cOwners) /\ Len(tx \o w) = Len(tx) + n
    BY <1>1, <2>2, <2>3, ConcatProperties
  <2> QED  BY <1>1, <2>1, <2>4
<1> QED  BY <1>2, <1>3, <1>4, <1>5

\* A transfer that is over leaves entries of nobody.
LEMMA Left ==
  ASSUME I3!TypeOK, NEW t \in I3cTasks, I3!Leave(t)
  PROVE  /\ cmds' \in Seq(I3!Commands) /\ Len(cmds') = Len(cmds)
         /\ \A i \in 1..Len(cmds) : cmds'[i].kind = cmds[i].kind /\ cmds'[i].len = cmds[i].len
         /\ resps' \in Seq(I3!Responses) /\ Len(resps') = Len(resps)
         /\ tx' \in Seq(I3cOwners) /\ rx' \in Seq(I3cOwners)
         /\ tx = <<>> => tx' = <<>>
         /\ rx = <<>> => rx' = <<>>
         /\ op' \in [I3cTasks -> I3!Commands] /\ \A u \in I3cTasks \ {t} : op'[u] = op[u]
         /\ i3Took' \in [I3cTasks -> [resp : I3!Responses, own : BOOLEAN]]
         /\ \A u \in I3cTasks \ {t} : i3Took'[u] = i3Took[u] /\ at'[u] = at[u]
         /\ at'[t] = "idle" /\ at' \in [I3cTasks -> I3cStates]
<1>1. /\ cmds \in Seq(I3!Commands) /\ resps \in Seq(I3!Responses)
      /\ tx \in Seq(I3cOwners) /\ rx \in Seq(I3cOwners)
  BY DEF I3!TypeOK, I3cOwners
<1>2. /\ cmds' = I3!DisownOf(t, cmds) /\ resps' = I3!DisownOf(t, resps)
      /\ tx' = I3!Disown(t, tx) /\ rx' = I3!Disown(t, rx)
      /\ op' = [op EXCEPT ![t] = I3!NoCommand] /\ at' = [at EXCEPT ![t] = "idle"]
      /\ i3Took' = [i3Took EXCEPT ![t] = [resp |-> I3!NoResponse, own |-> TRUE]]
  BY DEF I3!Leave, I3!Goto
<1>3. /\ cmds' \in Seq(I3!Commands) /\ Len(cmds') = Len(cmds)
      /\ \A i \in 1..Len(cmds) : cmds'[i] = IF cmds[i].of = t THEN [cmds[i] EXCEPT !.of = None] ELSE cmds[i]
  <2>1. \A r \in I3!Commands : [r EXCEPT !.of = None] \in I3!Commands
    BY EntriesDisowned
  <2>2. I3!DisownOf(t, cmds) \in Seq(I3!Commands) /\ Len(I3!DisownOf(t, cmds)) = Len(cmds)
    BY <1>1, <2>1, DisownedEntries
  <2>3. \A i \in 1..Len(cmds) : I3!DisownOf(t, cmds)[i] =
          IF cmds[i].of = t THEN [cmds[i] EXCEPT !.of = None] ELSE cmds[i]
    <3>1. DOMAIN cmds = 1..Len(cmds)
      BY <1>1
    <3> QED  BY <3>1 DEF I3!DisownOf
  <2> QED  BY <1>2, <2>2, <2>3
<1>4. \A i \in 1..Len(cmds) : cmds'[i].kind = cmds[i].kind /\ cmds'[i].len = cmds[i].len
  <2> SUFFICES ASSUME NEW i \in 1..Len(cmds)
               PROVE  cmds'[i].kind = cmds[i].kind /\ cmds'[i].len = cmds[i].len
    OBVIOUS
  <2>1. cmds[i] \in I3!Commands
    BY <1>1
  <2> QED  BY <1>3, <2>1 DEF I3!Commands
<1>5. resps' \in Seq(I3!Responses) /\ Len(resps') = Len(resps)
  BY <1>1, <1>2, EntriesDisowned, DisownedEntries
<1>6. /\ tx' \in Seq(I3cOwners) /\ rx' \in Seq(I3cOwners)
      /\ tx = <<>> => tx' = <<>>
      /\ rx = <<>> => rx' = <<>>
  BY <1>1, <1>2, DisownedWords
<1>7. I3!NoCommand \in I3!Commands /\ I3!NoResponse \in I3!Responses
  BY DEF I3!NoCommand, I3!NoResponse, I3!Commands, I3!Responses, I3!Kinds
<1>8. op' \in [I3cTasks -> I3!Commands] /\ \A u \in I3cTasks \ {t} : op'[u] = op[u]
  BY <1>2, <1>7 DEF I3!TypeOK
<1>9. at'[t] = "idle" /\ at' \in [I3cTasks -> I3cStates] /\ \A u \in I3cTasks \ {t} : at'[u] = at[u]
  BY <1>2 DEF I3!TypeOK, I3cStates
<1>10. /\ i3Took' \in [I3cTasks -> [resp : I3!Responses, own : BOOLEAN]]
       /\ \A u \in I3cTasks \ {t} : i3Took'[u] = i3Took[u]
  <2> DEFINE w == [resp |-> I3!NoResponse, own |-> TRUE]
  <2>1. w \in [resp : I3!Responses, own : BOOLEAN]
    BY <1>7
  <2> DEFINE R == [resp : I3!Responses, own : BOOLEAN]
  <2>2. i3Took \in [I3cTasks -> R]
    BY DEF I3!TypeOK
  <2>3. i3Took' = [i3Took EXCEPT ![t] = w]
    BY <1>2
  <2> HIDE DEF w, R
  <2>4. w \in R
    BY <2>1 DEF R
  <2>5. i3Took' \in [I3cTasks -> R] /\ \A u \in I3cTasks \ {t} : i3Took'[u] = i3Took[u]
    BY <2>2, <2>3, <2>4
  <2> QED  BY <2>5 DEF R
<1> QED  BY <1>3, <1>4, <1>5, <1>6, <1>8, <1>9, <1>10

\* The answer of a look at the response queue is the oldest response.
LEMMA Taken ==
  ASSUME I3!TypeOK, NEW t \in I3cTasks, I3!Take(t)
  PROVE  /\ resps' \in Seq(I3!Responses) /\ Len(resps') = Len(resps) - 1
         /\ Len(resps) \in Nat \ {0} /\ polled' = polled
         /\ i3Took' \in [I3cTasks -> [resp : I3!Responses, own : BOOLEAN]]
         /\ \A u \in I3cTasks \ {t} : i3Took'[u] = i3Took[u] /\ at'[u] = at[u]
         /\ i3Took'[t] = [resp |-> resps[1], own |-> TRUE]
         /\ at'[t] = "over" /\ at' \in [I3cTasks -> I3cStates]
<1> DEFINE w == [resp |-> Head(resps), own |-> TRUE]
           R == [resp : I3!Responses, own : BOOLEAN]
<1>1. resps \in Seq(I3!Responses) /\ resps # <<>>
  BY DEF I3!TypeOK, I3!Take
<1>2. /\ resps' = Tail(resps) /\ polled' = polled
      /\ i3Took' = [i3Took EXCEPT ![t] = w] /\ at' = [at EXCEPT ![t] = "over"]
  BY DEF I3!Take, I3!Goto
<1>3. Head(resps) = resps[1] /\ Head(resps) \in I3!Responses /\ Len(resps) \in Nat \ {0}
  BY <1>1
<1>4. resps' \in Seq(I3!Responses) /\ Len(resps') = Len(resps) - 1
  BY <1>1, <1>2, HeadTailProperties
<1>5. w \in R /\ w = [resp |-> resps[1], own |-> TRUE]
  BY <1>3
<1>6. i3Took \in [I3cTasks -> R]
  BY DEF I3!TypeOK
<1>7. i3Took' \in [I3cTasks -> R] /\ i3Took'[t] = w /\ \A u \in I3cTasks \ {t} : i3Took'[u] = i3Took[u]
  <2> HIDE DEF w, R
  <2> QED  BY <1>2, <1>5, <1>6
<1>8. at'[t] = "over" /\ at' \in [I3cTasks -> I3cStates] /\ \A u \in I3cTasks \ {t} : at'[u] = at[u]
  BY <1>2 DEF I3!TypeOK, I3cStates
<1> QED  BY <1>2, <1>3, <1>4, <1>5, <1>7, <1>8

\* A read pops the words of its response.
LEMMA Popped ==
  ASSUME I3!TypeOK, NEW t \in I3cTasks, I3!Pop(t)
  PROVE  /\ rx' \in Seq(I3cOwners)
         /\ I3!Words(t) \in Nat /\ rx' = SubSeq(rx, I3!Words(t) + 1, Len(rx))
         /\ i3Took' \in [I3cTasks -> [resp : I3!Responses, own : BOOLEAN]]
         /\ \A u \in I3cTasks \ {t} : i3Took'[u] = i3Took[u] /\ at'[u] = at[u]
         /\ i3Took'[t].resp = i3Took[t].resp
         /\ Len(rx) >= I3!Words(t) /\ (\A i \in 1 .. I3!Words(t) : rx[i] = t) => i3Took'[t].own
         /\ at[t] = "over" /\ at'[t] = "done" /\ at' \in [I3cTasks -> I3cStates]
<1> DEFINE b == Len(rx) >= I3!Words(t) /\ \A i \in 1 .. I3!Words(t) : rx[i] = t
           R == [resp : I3!Responses, own : BOOLEAN]
<1>1. rx \in Seq(I3cOwners) /\ i3Took[t] \in R /\ op[t] \in I3!Commands
  BY DEF I3!TypeOK, I3cOwners
<1>2. i3Took[t].resp \in I3!Responses
  BY <1>1
<1>3. i3Took[t].resp.len \in Nat /\ op[t].len \in Nat
  BY <1>1, <1>2 DEF I3!Responses, I3!Commands
<1>4. I3!Words(t) \in Nat
  BY <1>3 DEF I3!Words
<1>5. rx' = SubSeq(rx, I3!Words(t) + 1, Len(rx))
  BY DEF I3!Pop
<1>6. rx' \in Seq(I3cOwners)
  <2>1. Len(rx) \in Nat /\ \A i \in (I3!Words(t) + 1) .. Len(rx) : rx[i] \in I3cOwners
    BY <1>1, <1>4
  <2> QED  BY <1>4, <1>5, <2>1, SubSeqProperties
<1>7. i3Took' = [i3Took EXCEPT ![t].own = b]
  BY DEF I3!Pop
<1>8. b \in BOOLEAN
  OBVIOUS
<1>9. [i3Took[t] EXCEPT !.own = b] \in R /\ [i3Took[t] EXCEPT !.own = b].resp = i3Took[t].resp
  <2> HIDE DEF b
  <2> QED  BY <1>1, <1>8
<1>10. b => [i3Took[t] EXCEPT !.own = b].own
  <2>1. ASSUME b PROVE [i3Took[t] EXCEPT !.own = b].own = TRUE
    <3>1. b = TRUE
      BY <1>8, <2>1
    <3> HIDE DEF b
    <3> QED  BY <1>1, <3>1
  <2> QED  BY <2>1
<1>11. /\ i3Took' \in [I3cTasks -> R] /\ i3Took'[t] = [i3Took[t] EXCEPT !.own = b]
       /\ \A u \in I3cTasks \ {t} : i3Took'[u] = i3Took[u]
  <2>1. i3Took \in [I3cTasks -> R]
    BY DEF I3!TypeOK
  <2>2. i3Took' = [i3Took EXCEPT ![t] = [i3Took[t] EXCEPT !.own = b]]
    BY <1>7
  <2> DEFINE w == [i3Took[t] EXCEPT !.own = b]
  <2>3. w \in R /\ i3Took' = [i3Took EXCEPT ![t] = w]
    BY <1>9, <2>2
  <2>4. /\ i3Took' \in [I3cTasks -> R] /\ i3Took'[t] = w
        /\ \A u \in I3cTasks \ {t} : i3Took'[u] = i3Took[u]
    <3> HIDE DEF w, R, b
    <3> QED  BY <2>1, <2>3
  <2> QED  BY <2>4
<1>12. /\ at[t] = "over" /\ at'[t] = "done" /\ at' \in [I3cTasks -> I3cStates]
       /\ \A u \in I3cTasks \ {t} : at'[u] = at[u]
  BY DEF I3!Pop, I3!Goto, I3!TypeOK, I3cStates
<1>13. b => i3Took'[t].own
  BY <1>10, <1>11
<1> QED  BY <1>4, <1>5, <1>6, <1>9, <1>11, <1>12, <1>13

\* Every step of the controller, the handler and the tasks keeps the types.
LEMMA I3cType == I3!TypeOK /\ SlotsEnough /\ [I3!Next]_(I3!i3cVars) => I3!TypeOK'
<1> SUFFICES ASSUME I3!TypeOK /\ SlotsEnough, [I3!Next]_(I3!i3cVars) PROVE I3!TypeOK'
  OBVIOUS
<1>1. ASSUME NEW k \in BOOLEAN, I3!Send(k) PROVE I3!TypeOK'
  <2>1. PICK n \in Nat : I3!Respond(k, 0) /\ tx' = SubSeq(tx, n + 1, Len(tx))
    <3>1. cmds # <<>> /\ Head(cmds).len \in Nat
      <4>1. cmds # <<>>
        BY <1>1 DEF I3!Send
      <4>2. Head(cmds) \in I3!Commands
        BY <4>1 DEF I3!TypeOK
      <4> QED  BY <4>1, <4>2 DEF I3!Commands
    <3> QED  BY <1>1, <3>1 DEF I3!Send
  <2>2. cmds' \in Seq(I3!Commands) /\ resps' \in Seq(I3!Responses) /\ irqI3c' \in BOOLEAN
    BY <2>1, Responded
  <2>3. tx' \in Seq(I3cOwners)
    <3>1. tx \in Seq(I3cOwners)
      BY DEF I3!TypeOK, I3cOwners
    <3>2. \A i \in (n + 1)..Len(tx) : tx[i] \in I3cOwners
      BY <3>1
    <3> QED  BY <2>1, <3>1, <3>2, SubSeqProperties
  <2>4. addr' \in [Devices -> I3!Addresses]
    BY <1>1 DEF I3!Send, I3!TypeOK, I3!Addresses
  <2>5. clean' \in BOOLEAN
    BY <1>1 DEF I3!Send
  <2>6. UNCHANGED <<rx, i3Dat, dct, wakerI3c, at, op, i3Took, dropped, runq, polled, inIsr>>
    BY <1>1 DEF I3!Send, I3!Env, I3!runVars
  <2> QED  BY <2>2, <2>3, <2>4, <2>5, <2>6 DEF I3!TypeOK, I3cOwners
<1>2. ASSUME NEW k \in BOOLEAN, I3!Receive(k) PROVE I3!TypeOK'
  <2>1. PICK n \in Nat : I3!Respond(k, n) /\ rx' = rx \o [i \in 1 .. n |-> Head(cmds).of]
    <3>1. cmds # <<>> /\ Head(cmds).len \in Nat
      <4>1. cmds # <<>>
        BY <1>2 DEF I3!Receive
      <4>2. Head(cmds) \in I3!Commands
        BY <4>1 DEF I3!TypeOK
      <4> QED  BY <4>1, <4>2 DEF I3!Commands
    <3>2. PICK n \in 0..Head(cmds).len : I3!Respond(k, n) /\ rx' = rx \o [i \in 1 .. n |-> Head(cmds).of]
      BY <1>2 DEF I3!Receive
    <3>3. n \in Nat
      BY <3>1
    <3> QED  BY <3>2, <3>3
  <2>2. cmds' \in Seq(I3!Commands) /\ resps' \in Seq(I3!Responses) /\ irqI3c' \in BOOLEAN
    BY <2>1, Responded
  <2>3. rx' \in Seq(I3cOwners)
    <3>1. rx \in Seq(I3cOwners)
      BY DEF I3!TypeOK, I3cOwners
    <3>2. Head(cmds).of \in I3cOwners
      BY <2>1, Responded DEF I3!Commands, I3cOwners
    <3>3. [i \in 1 .. n |-> Head(cmds).of] \in Seq(I3cOwners)
      <4>1. [i \in 1 .. n |-> Head(cmds).of] \in [1 .. n -> I3cOwners]
        BY <3>2
      <4> QED  BY <4>1, SeqDef
    <3> QED  BY <2>1, <3>1, <3>3, ConcatProperties
  <2>5. clean' \in BOOLEAN
    BY <1>2 DEF I3!Receive
  <2>6. UNCHANGED <<tx, i3Dat, dct, addr, wakerI3c, at, op, i3Took, dropped, runq, polled, inIsr>>
    BY <1>2 DEF I3!Receive, I3!Env, I3!runVars, I3!busVars
  <2> QED  BY <2>2, <2>3, <2>5, <2>6 DEF I3!TypeOK, I3cOwners
<1>3. ASSUME NEW k \in BOOLEAN, I3!Assign(k) PROVE I3!TypeOK'
  <2>1. /\ addr' \in [Devices -> I3!Addresses] /\ dct' \in [I3!Slots -> Devices \cup {None}]
        /\ \E n \in Nat : I3!Respond(k, n)
    BY <1>3, Assigned
  <2>2. cmds' \in Seq(I3!Commands) /\ resps' \in Seq(I3!Responses) /\ irqI3c' \in BOOLEAN
    BY <2>1, Responded
  <2>5. clean' \in BOOLEAN
    BY <1>3 DEF I3!Assign
  <2>6. UNCHANGED <<tx, rx, i3Dat, wakerI3c, at, op, i3Took, dropped, runq, polled, inIsr>>
    BY <1>3 DEF I3!Assign, I3!Env, I3!runVars
  <2> QED  BY <2>1, <2>2, <2>5, <2>6 DEF I3!TypeOK
<1>4. CASE I3!IsrEnter
  BY <1>4 DEF I3!TypeOK, I3!IsrEnter, I3!queueVars, I3!busVars, I3!runVars, I3!Goto, I3!Running
<1>5. CASE I3!IsrWake
  BY <1>5 DEF I3!TypeOK, I3!IsrWake, I3!queueVars, I3!busVars, I3!runVars, I3!Goto, I3!Running
<1>6. ASSUME NEW t \in I3cTasks, I3!Poll(t) PROVE I3!TypeOK'
  BY <1>6 DEF I3!TypeOK, I3!Poll, I3!queueVars, I3!busVars, I3!runVars, I3!Goto, I3!Running
<1>7. ASSUME NEW t \in I3cTasks, I3!OtherWake(t) PROVE I3!TypeOK'
  BY <1>7 DEF I3!TypeOK, I3!OtherWake, I3!queueVars, I3!busVars, I3!runVars, I3!Goto, I3!Running
<1>8. ASSUME NEW t \in I3cTasks, I3!Cancel(t) PROVE I3!TypeOK'
  <2>1. I3!Leave(t)
    BY <1>8 DEF I3!Cancel
  <2>2. /\ cmds' \in Seq(I3!Commands) /\ resps' \in Seq(I3!Responses)
        /\ tx' \in Seq(I3cOwners) /\ rx' \in Seq(I3cOwners)
        /\ op' \in [I3cTasks -> I3!Commands]
        /\ i3Took' \in [I3cTasks -> [resp : I3!Responses, own : BOOLEAN]]
        /\ at' \in [I3cTasks -> I3cStates]
    BY <2>1, Left
  <2>3. dropped' \in 0..MaxDrops /\ clean' = FALSE /\ polled' = t /\ runq' = runq \ {t}
    BY <1>8, I3cConstants DEF I3!Cancel, I3!TypeOK
  <2>4. UNCHANGED <<i3Dat, dct, addr, irqI3c, wakerI3c, inIsr>>
    BY <1>8 DEF I3!Cancel, I3!busVars
  <2> QED  BY <2>2, <2>3, <2>4 DEF I3!TypeOK, I3cStates, I3cOwners
<1>9. ASSUME NEW t \in I3cTasks, I3!Yield(t) PROVE I3!TypeOK'
  BY <1>9 DEF I3!TypeOK, I3!Yield, I3!queueVars, I3!busVars, I3!runVars, I3!Goto, I3!Running
<1>10. ASSUME NEW t \in I3cTasks, I3!Check(t) PROVE I3!TypeOK'
  <2>1. UNCHANGED <<cmds, tx, rx, i3Dat, dct, addr, irqI3c, wakerI3c, op, dropped, clean, runq, inIsr>>
    BY <1>10 DEF I3!Check, I3!busVars
  <2>2. CASE I3!Take(t)
    <3>1. /\ resps' \in Seq(I3!Responses) /\ polled' = polled
          /\ i3Took' \in [I3cTasks -> [resp : I3!Responses, own : BOOLEAN]]
          /\ at' \in [I3cTasks -> I3cStates]
      BY <2>2, Taken
    <3> QED  BY <2>1, <3>1 DEF I3!TypeOK, I3cStates
  <2>3. CASE ~I3!Take(t)
    <3>1. /\ resps' = resps /\ i3Took' = i3Took /\ polled' \in {polled, None}
          /\ at' \in [I3cTasks -> I3cStates]
      BY <1>10, <2>3 DEF I3!Check, I3!Goto, I3!TypeOK, I3cStates
    <3> QED  BY <2>1, <3>1 DEF I3!TypeOK, I3cStates
  <2> QED  BY <2>2, <2>3
<1>11. ASSUME NEW t \in I3cTasks, I3!Register(t) PROVE I3!TypeOK'
  BY <1>11 DEF I3!TypeOK, I3!Register, I3!queueVars, I3!busVars, I3!runVars, I3!Goto, I3!Running
<1>12. ASSUME NEW t \in I3cTasks, I3!Recheck(t) PROVE I3!TypeOK'
  <2>1. UNCHANGED <<cmds, tx, rx, i3Dat, dct, addr, irqI3c, wakerI3c, op, dropped, clean, runq, inIsr>>
    BY <1>12 DEF I3!Recheck, I3!busVars
  <2>2. CASE I3!Take(t)
    <3>1. /\ resps' \in Seq(I3!Responses) /\ polled' = polled
          /\ i3Took' \in [I3cTasks -> [resp : I3!Responses, own : BOOLEAN]]
          /\ at' \in [I3cTasks -> I3cStates]
      BY <2>2, Taken
    <3> QED  BY <2>1, <3>1 DEF I3!TypeOK, I3cStates
  <2>3. CASE ~I3!Take(t)
    <3>1. /\ resps' = resps /\ i3Took' = i3Took /\ polled' \in {polled, None}
          /\ at' \in [I3cTasks -> I3cStates]
      BY <1>12, <2>3 DEF I3!Recheck, I3!Goto, I3!TypeOK, I3cStates
    <3> QED  BY <2>1, <3>1 DEF I3!TypeOK, I3cStates
  <2> QED  BY <2>2, <2>3
<1>13. ASSUME NEW t \in I3cTasks, I3!Pop(t) PROVE I3!TypeOK'
  <2>1. /\ rx' \in Seq(I3cOwners)
        /\ i3Took' \in [I3cTasks -> [resp : I3!Responses, own : BOOLEAN]]
        /\ at' \in [I3cTasks -> I3cStates]
    BY <1>13, Popped
  <2>2. UNCHANGED <<cmds, resps, tx, i3Dat, dct, addr, irqI3c, wakerI3c, op, dropped, clean, runq, polled, inIsr>>
    BY <1>13 DEF I3!Pop, I3!busVars, I3!runVars
  <2> QED  BY <2>1, <2>2 DEF I3!TypeOK, I3cStates, I3cOwners
<1>14. ASSUME NEW t \in I3cTasks, I3!Finish(t) PROVE I3!TypeOK'
  <2>1. I3!Leave(t)
    BY <1>14 DEF I3!Finish
  <2>2. /\ cmds' \in Seq(I3!Commands) /\ resps' \in Seq(I3!Responses)
        /\ tx' \in Seq(I3cOwners) /\ rx' \in Seq(I3cOwners)
        /\ op' \in [I3cTasks -> I3!Commands]
        /\ i3Took' \in [I3cTasks -> [resp : I3!Responses, own : BOOLEAN]]
        /\ at' \in [I3cTasks -> I3cStates]
    BY <2>1, Left
  <2>4. UNCHANGED <<i3Dat, dct, addr, irqI3c, wakerI3c, dropped, clean, runq, polled, inIsr>>
    BY <1>14 DEF I3!Finish, I3!busVars, I3!runVars
  <2> QED  BY <2>2, <2>4 DEF I3!TypeOK, I3cStates, I3cOwners
<1>15. ASSUME NEW t \in I3cTasks, NEW k \in {"write", "read", "ccc", "rstdaa"}, NEW n \in
           {0, 1}, I3!Transfer(t, k, n) PROVE I3!TypeOK'
  <2>1. I3!Issue(t, k, n) /\ k \in I3!Kinds /\ n \in Nat
    BY <1>15, I3cConstants DEF I3!Transfer, I3!Kinds
  <2>2. /\ cmds' \in Seq(I3!Commands) /\ tx' \in Seq(I3cOwners)
        /\ op' \in [I3cTasks -> I3!Commands] /\ at' \in [I3cTasks -> I3cStates]
    BY <2>1, Issued
  <2>3. clean' \in BOOLEAN
    BY <2>1 DEF I3!Issue
  <2>4. UNCHANGED <<resps, rx, dct, addr, irqI3c, wakerI3c, i3Took, dropped, runq, polled, inIsr>>
    BY <2>1 DEF I3!Issue, I3!runVars
  <2>5. i3Dat' \in [I3!Slots -> I3!Addresses]
    BY <1>15 DEF I3!Transfer, I3!TypeOK
  <2> QED  BY <2>2, <2>3, <2>4, <2>5 DEF I3!TypeOK, I3cStates, I3cOwners
<1>16. ASSUME NEW t \in I3cTasks, NEW n \in 1..MaxSlots, I3!Entdaa(t, n) PROVE I3!TypeOK'
  <2>1. I3!Issue(t, "daa", n) /\ "daa" \in I3!Kinds /\ n \in Nat
    BY <1>16, I3cConstants DEF I3!Entdaa, I3!Kinds
  <2>2. /\ cmds' \in Seq(I3!Commands) /\ tx' \in Seq(I3cOwners)
        /\ op' \in [I3cTasks -> I3!Commands] /\ at' \in [I3cTasks -> I3cStates]
    BY <2>1, Issued
  <2>3. clean' \in BOOLEAN
    BY <2>1 DEF I3!Issue
  <2>4. UNCHANGED <<resps, rx, dct, addr, irqI3c, wakerI3c, i3Took, dropped, runq, polled, inIsr>>
    BY <2>1 DEF I3!Issue, I3!runVars
  <2>5. i3Dat' \in [I3!Slots -> I3!Addresses]
    BY <1>16 DEF I3!Entdaa, I3!TypeOK, I3!Addresses
  <2> QED  BY <2>2, <2>3, <2>4, <2>5 DEF I3!TypeOK, I3cStates, I3cOwners
<1>17. ASSUME NEW t \in I3cTasks, NEW s \in 0..MaxSlots, NEW a \in {0, I3!Address(0)},
           I3!SetSlot(t, s, a) PROVE I3!TypeOK'
  <2>1. i3Dat' \in [I3!Slots -> I3!Addresses]
    <3>1. s \in I3!Slots => a \in I3!Addresses
      BY I3cConstants DEF I3!Slots, I3!Addresses
    <3> QED  BY <1>17, <3>1 DEF I3!SetSlot, I3!TypeOK
  <2>2. clean' \in BOOLEAN
    BY <1>17 DEF I3!SetSlot
  <2>3. UNCHANGED <<cmds, resps, tx, rx, dct, addr, irqI3c, wakerI3c, at, op, i3Took, dropped, runq, polled, inIsr>>
    BY <1>17 DEF I3!SetSlot, I3!runVars, I3!queueVars
  <2> QED  BY <2>1, <2>2, <2>3 DEF I3!TypeOK
<1>18. CASE UNCHANGED I3!i3cVars
  BY <1>18 DEF I3!i3cVars, I3!queueVars, I3!busVars, I3!runVars, I3!TypeOK
<1> QED
  BY <1>1, <1>2, <1>3, <1>4, <1>5, <1>6, <1>7, <1>8, <1>9, <1>10, <1>11, <1>12, <1>13, <1>14,
     <1>15, <1>16, <1>17, <1>18 DEF I3!Next, I3!Inside

-----------------------------------------------------------------------------
(* The polled task of the I3C master and the length of its queues.         *)

\* A task is inside its transfer only while it is polled, and has returned
\* Pending when it is not.
PolledRight ==
  \A t \in I3cTasks : /\ at[t] \in {"check", "register", "recheck", "over", "done"} => polled = t
                      /\ at[t] = "pending" => polled # t

I3cWaiters == {t \in I3cTasks : I3!Waiting(t)}

\* run_entdaa asks for no more addresses than the table has slots.
LEMMA I3cSlots == I3!TypeOK /\ SlotsEnough /\ [I3!Next]_(I3!i3cVars) => SlotsEnough'
<1> SUFFICES ASSUME I3!TypeOK /\ SlotsEnough, [I3!Next]_(I3!i3cVars) PROVE SlotsEnough'
  OBVIOUS
<1>1. ASSUME NEW k \in BOOLEAN, I3!Send(k) PROVE SlotsEnough'
  <2>1. I3!Respond(k, 0)
    BY <1>1 DEF I3!Send
  <2>2. /\ Len(cmds') = Len(cmds) - 1 /\ Len(cmds) \in Nat
        /\ \A i \in 1..Len(cmds') : cmds'[i] = cmds[i + 1]
    BY <2>1, Responded
  <2> QED  BY <2>2 DEF SlotsEnough
<1>2. ASSUME NEW k \in BOOLEAN, I3!Receive(k) PROVE SlotsEnough'
  <2>1. \E n \in Nat : I3!Respond(k, n)
    <3>1. cmds # <<>> /\ Head(cmds).len \in Nat
      <4>1. cmds # <<>>
        BY <1>2 DEF I3!Receive
      <4>2. Head(cmds) \in I3!Commands
        BY <4>1 DEF I3!TypeOK
      <4> QED  BY <4>1, <4>2 DEF I3!Commands
    <3> QED  BY <1>2, <3>1 DEF I3!Receive
  <2>2. /\ Len(cmds') = Len(cmds) - 1 /\ Len(cmds) \in Nat
        /\ \A i \in 1..Len(cmds') : cmds'[i] = cmds[i + 1]
    BY <2>1, Responded
  <2> QED  BY <2>2 DEF SlotsEnough
<1>3. ASSUME NEW k \in BOOLEAN, I3!Assign(k) PROVE SlotsEnough'
  <2>1. \E n \in Nat : I3!Respond(k, n)
    BY <1>3, Assigned
  <2>2. /\ Len(cmds') = Len(cmds) - 1 /\ Len(cmds) \in Nat
        /\ \A i \in 1..Len(cmds') : cmds'[i] = cmds[i + 1]
    BY <2>1, Responded
  <2> QED  BY <2>2 DEF SlotsEnough
<1>4. CASE I3!IsrEnter
  BY <1>4 DEF SlotsEnough, I3!IsrEnter, I3!queueVars
<1>5. CASE I3!IsrWake
  BY <1>5 DEF SlotsEnough, I3!IsrWake, I3!queueVars
<1>6. ASSUME NEW t \in I3cTasks, I3!Poll(t) PROVE SlotsEnough'
  BY <1>6 DEF SlotsEnough, I3!Poll, I3!queueVars
<1>7. ASSUME NEW t \in I3cTasks, I3!OtherWake(t) PROVE SlotsEnough'
  BY <1>7 DEF SlotsEnough, I3!OtherWake, I3!queueVars
<1>8. ASSUME NEW t \in I3cTasks, I3!Cancel(t) PROVE SlotsEnough'
  <2>1. I3!Leave(t)
    BY <1>8 DEF I3!Cancel
  <2>2. /\ Len(cmds') = Len(cmds)
        /\ \A i \in 1..Len(cmds) : cmds'[i].kind = cmds[i].kind /\ cmds'[i].len = cmds[i].len
    BY <2>1, Left
  <2> QED  BY <2>2 DEF SlotsEnough
<1>9. ASSUME NEW t \in I3cTasks, I3!Yield(t) PROVE SlotsEnough'
  BY <1>9 DEF SlotsEnough, I3!Yield, I3!queueVars
<1>10. ASSUME NEW t \in I3cTasks, I3!Check(t) PROVE SlotsEnough'
  BY <1>10 DEF SlotsEnough, I3!Check, I3!queueVars
<1>11. ASSUME NEW t \in I3cTasks, I3!Register(t) PROVE SlotsEnough'
  BY <1>11 DEF SlotsEnough, I3!Register, I3!queueVars
<1>12. ASSUME NEW t \in I3cTasks, I3!Recheck(t) PROVE SlotsEnough'
  BY <1>12 DEF SlotsEnough, I3!Recheck, I3!queueVars
<1>13. ASSUME NEW t \in I3cTasks, I3!Pop(t) PROVE SlotsEnough'
  BY <1>13 DEF SlotsEnough, I3!Pop, I3!queueVars
<1>14. ASSUME NEW t \in I3cTasks, I3!Finish(t) PROVE SlotsEnough'
  <2>1. I3!Leave(t)
    BY <1>14 DEF I3!Finish
  <2>2. /\ Len(cmds') = Len(cmds)
        /\ \A i \in 1..Len(cmds) : cmds'[i].kind = cmds[i].kind /\ cmds'[i].len = cmds[i].len
    BY <2>1, Left
  <2> QED  BY <2>2 DEF SlotsEnough
<1>15. ASSUME NEW t \in I3cTasks, NEW k \in {"write", "read", "ccc", "rstdaa"}, NEW n \in
           {0, 1}, I3!Transfer(t, k, n) PROVE SlotsEnough'
  <2>1. I3!Issue(t, k, n) /\ k \in I3!Kinds /\ n \in Nat
    BY <1>15, I3cConstants DEF I3!Transfer, I3!Kinds
  <2>2. /\ Len(cmds') = Len(cmds) + 1 /\ Len(cmds) \in Nat
        /\ \A i \in 1..Len(cmds) : cmds'[i] = cmds[i]
        /\ cmds'[Len(cmds) + 1] = [of |-> t, kind |-> k, len |-> n]
    <3>1. Len(cmds) \in Nat
      BY DEF I3!TypeOK
    <3> QED  BY <2>1, <3>1, Issued
  <2> QED  BY <2>2 DEF SlotsEnough
<1>16. ASSUME NEW t \in I3cTasks, NEW n \in 1..MaxSlots, I3!Entdaa(t, n) PROVE SlotsEnough'
  <2>1. I3!Issue(t, "daa", n) /\ "daa" \in I3!Kinds /\ n \in Nat
    BY <1>16, I3cConstants DEF I3!Entdaa, I3!Kinds
  <2>2. /\ Len(cmds') = Len(cmds) + 1 /\ Len(cmds) \in Nat
        /\ \A i \in 1..Len(cmds) : cmds'[i] = cmds[i]
        /\ cmds'[Len(cmds) + 1] = [of |-> t, kind |-> "daa", len |-> n]
    <3>1. Len(cmds) \in Nat
      BY DEF I3!TypeOK
    <3> QED  BY <2>1, <3>1, Issued
  <2> QED  BY <2>2 DEF SlotsEnough
<1>17. ASSUME NEW t \in I3cTasks, NEW s \in 0..MaxSlots, NEW a \in {0, I3!Address(0)},
           I3!SetSlot(t, s, a) PROVE SlotsEnough'
  BY <1>17 DEF SlotsEnough, I3!SetSlot, I3!queueVars
<1>18. CASE UNCHANGED I3!i3cVars
  BY <1>18 DEF I3!i3cVars, I3!queueVars, I3!busVars, I3!runVars, SlotsEnough
<1> QED
  BY <1>1, <1>2, <1>3, <1>4, <1>5, <1>6, <1>7, <1>8, <1>9, <1>10, <1>11, <1>12, <1>13, <1>14,
     <1>15, <1>16, <1>17, <1>18 DEF I3!Next, I3!Inside

\* A task enters and leaves its transfer while it is polled.
LEMMA I3cPolled == I3!TypeOK /\ PolledRight /\ [I3!Next]_(I3!i3cVars) => PolledRight'
<1> SUFFICES ASSUME I3!TypeOK /\ PolledRight, [I3!Next]_(I3!i3cVars) PROVE PolledRight'
  OBVIOUS
<1>1. ASSUME NEW k \in BOOLEAN, I3!Send(k) PROVE PolledRight'
  BY <1>1 DEF PolledRight, I3!Send, I3!Env, I3!runVars
<1>2. ASSUME NEW k \in BOOLEAN, I3!Receive(k) PROVE PolledRight'
  BY <1>2 DEF PolledRight, I3!Receive, I3!Env, I3!runVars
<1>3. ASSUME NEW k \in BOOLEAN, I3!Assign(k) PROVE PolledRight'
  BY <1>3 DEF PolledRight, I3!Assign, I3!Env, I3!runVars
<1>4. CASE I3!IsrEnter
  BY <1>4 DEF PolledRight, I3!IsrEnter, I3!runVars
<1>5. CASE I3!IsrWake
  BY <1>5 DEF PolledRight, I3!IsrWake, I3!runVars
<1>6. ASSUME NEW t \in I3cTasks, I3!Poll(t) PROVE PolledRight'
  BY <1>6, I3cConstants DEF PolledRight, I3!TypeOK, I3!Poll, I3!Goto, I3!Running, I3!runVars
<1>7. ASSUME NEW t \in I3cTasks, I3!OtherWake(t) PROVE PolledRight'
  BY <1>7 DEF PolledRight, I3!OtherWake, I3!runVars
<1>8. ASSUME NEW t \in I3cTasks, I3!Cancel(t) PROVE PolledRight'
  BY <1>8, I3cConstants DEF PolledRight, I3!TypeOK, I3!Cancel, I3!Leave, I3!Goto, I3!Running,
     I3!runVars
<1>9. ASSUME NEW t \in I3cTasks, I3!Yield(t) PROVE PolledRight'
  BY <1>9, I3cConstants DEF PolledRight, I3!TypeOK, I3!Yield, I3!Goto, I3!Running, I3!runVars
<1>10. ASSUME NEW t \in I3cTasks, I3!Check(t) PROVE PolledRight'
  BY <1>10, I3cConstants DEF PolledRight, I3!TypeOK, I3!Check, I3!Take, I3!Goto, I3!Running,
     I3!runVars
<1>11. ASSUME NEW t \in I3cTasks, I3!Register(t) PROVE PolledRight'
  BY <1>11, I3cConstants DEF PolledRight, I3!TypeOK, I3!Register, I3!Goto, I3!Running, I3!runVars
<1>12. ASSUME NEW t \in I3cTasks, I3!Recheck(t) PROVE PolledRight'
  BY <1>12, I3cConstants DEF PolledRight, I3!TypeOK, I3!Recheck, I3!Take, I3!Goto, I3!Running,
     I3!runVars
<1>13. ASSUME NEW t \in I3cTasks, I3!Pop(t) PROVE PolledRight'
  BY <1>13, I3cConstants DEF PolledRight, I3!TypeOK, I3!Pop, I3!Take, I3!Goto, I3!Running,
     I3!runVars
<1>14. ASSUME NEW t \in I3cTasks, I3!Finish(t) PROVE PolledRight'
  BY <1>14, I3cConstants DEF PolledRight, I3!TypeOK, I3!Finish, I3!Leave, I3!Goto, I3!Running,
     I3!runVars
<1>15. ASSUME NEW t \in I3cTasks, NEW k \in {"write", "read", "ccc", "rstdaa"}, NEW n \in
           {0, 1}, I3!Transfer(t, k, n) PROVE PolledRight'
  BY <1>15, I3cConstants DEF PolledRight, I3!TypeOK, I3!Transfer, I3!Issue, I3!Goto, I3!Running,
     I3!runVars
<1>16. ASSUME NEW t \in I3cTasks, NEW n \in 1..MaxSlots, I3!Entdaa(t, n) PROVE PolledRight'
  BY <1>16, I3cConstants DEF PolledRight, I3!TypeOK, I3!Entdaa, I3!Issue, I3!Goto, I3!Running,
     I3!runVars
<1>17. ASSUME NEW t \in I3cTasks, NEW s \in 0..MaxSlots, NEW a \in {0, I3!Address(0)},
           I3!SetSlot(t, s, a) PROVE PolledRight'
  BY <1>17 DEF PolledRight, I3!SetSlot, I3!runVars
<1>18. CASE UNCHANGED I3!i3cVars
  BY <1>18 DEF I3!i3cVars, I3!queueVars, I3!busVars, I3!runVars, PolledRight
<1> QED
  BY <1>1, <1>2, <1>3, <1>4, <1>5, <1>6, <1>7, <1>8, <1>9, <1>10, <1>11, <1>12, <1>13, <1>14,
     <1>15, <1>16, <1>17, <1>18 DEF I3!Next, I3!Inside

\* One waits more, or one less.
LEMMA Waiters ==
  /\ IsFiniteSet(I3cWaiters) /\ Cardinality(I3cWaiters) \in Nat
  /\ \A t \in I3cTasks : Cardinality(I3cWaiters \cup {t}) =
       IF t \in I3cWaiters THEN Cardinality(I3cWaiters) ELSE Cardinality(I3cWaiters) + 1
  /\ \A t \in I3cTasks : Cardinality(I3cWaiters \ {t}) =
       IF t \in I3cWaiters THEN Cardinality(I3cWaiters) - 1 ELSE Cardinality(I3cWaiters)
<1>1. I3cWaiters \in SUBSET I3cTasks
  BY DEF I3cWaiters
<1>2. IsFiniteSet(I3cWaiters)
  BY <1>1, I3cConstants, FS_Subset
<1> QED  BY <1>2, FS_CardinalityType, FS_AddElement, FS_RemoveElement

\* The lag, with the cardinality that the lemmas of the library speak of.
LEMMA LagIs == I3!Lag <=> Len(cmds) + Len(resps) = dropped + Cardinality(I3cWaiters)
<1>1. I3!Cardinality({t \in I3cTasks : I3!Waiting(t)}) = Cardinality({t \in I3cTasks : I3!Waiting(t)})
  BY I3cCardinality
<1> QED  BY <1>1 DEF I3!Lag, I3cWaiters

\* Whatever a step does to the queues it does to the number of waiting transfers
\* and of dropped ones.
LEMMA LagKept ==
  ASSUME I3!TypeOK, I3!Lag, I3!TypeOK',
         Len(cmds') + Len(resps') + (dropped + Cardinality(I3cWaiters))
           = Len(cmds) + Len(resps) + (dropped' + Cardinality(I3cWaiters')),
         Cardinality(I3cWaiters') \in Nat
  PROVE  I3!Lag'
<1>1. Len(cmds') + Len(resps') = dropped' + Cardinality(I3cWaiters')
  <2>1. Len(cmds) + Len(resps) = dropped + Cardinality(I3cWaiters)
    BY LagIs
  <2>2. Len(cmds) \in Nat /\ Len(resps) \in Nat /\ Len(cmds') \in Nat /\ Len(resps') \in Nat
    BY DEF I3!TypeOK
  <2>3. dropped \in Nat /\ dropped' \in Nat
    BY I3cConstants DEF I3!TypeOK
  <2>4. Cardinality(I3cWaiters) \in Nat
    BY Waiters
  <2>5. Len(cmds') + Len(resps') + (dropped + Cardinality(I3cWaiters))
          = Len(cmds) + Len(resps) + (dropped' + Cardinality(I3cWaiters'))
    OBVIOUS
  <2> QED  BY ONLY <2>1, <2>2, <2>3, <2>4, <2>5, Cardinality(I3cWaiters') \in Nat, SMTT(30)
<1>2. I3!Cardinality({t \in I3cTasks : I3!Waiting(t)})' = Cardinality(I3cWaiters)'
  BY I3cCardinality DEF I3cWaiters
<1> QED  BY <1>1, <1>2 DEF I3!Lag

I3cWaits == {"check", "register", "recheck", "pending"}

\* The set of the waiting transfers after a step of t.
LEMMA WaitersAfter ==
  ASSUME NEW t \in I3cTasks, \A u \in I3cTasks \ {t} : at'[u] = at[u]
  PROVE  /\ at'[t] \in I3cWaits => I3cWaiters' = I3cWaiters \cup {t}
         /\ at'[t] \notin I3cWaits => I3cWaiters' = I3cWaiters \ {t}
         /\ t \in I3cWaiters <=> at[t] \in I3cWaits
  BY DEF I3cWaiters, I3!Waiting, I3cWaits

\* A step that moves no task and only hands a command on keeps the lag.
LEMMA LagSame ==
  ASSUME I3!TypeOK, I3!TypeOK', I3!Lag, at' = at, dropped' = dropped,
         Len(cmds') + Len(resps') = Len(cmds) + Len(resps)
  PROVE  I3!Lag'
<1>1. I3cWaiters' = I3cWaiters
  BY DEF I3cWaiters, I3!Waiting
<1>2. Cardinality(I3cWaiters') \in Nat /\ Cardinality(I3cWaiters') = Cardinality(I3cWaiters)
  BY <1>1, Waiters
<1> QED  BY <1>2, LagKept

\* A step of one task that begins or ends its wait keeps the lag if the queues
\* grow or shrink by as much, a dropped transfer counting one.
LEMMA LagMoves ==
  ASSUME I3!TypeOK, I3!TypeOK', I3!Lag, NEW t \in I3cTasks, \A u \in I3cTasks \ {t} : at'[u] = at[u],
         NEW k \in {0, 1}, NEW l \in {0, 1}, NEW d \in {0, 1},
         k = (IF at[t] \in I3cWaits THEN 1 ELSE 0), l = (IF at'[t] \in I3cWaits THEN 1 ELSE 0),
         dropped' = dropped + d,
         Len(cmds') + Len(resps') + k = Len(cmds) + Len(resps) + l + d
  PROVE  I3!Lag'
<1>1. Cardinality(I3cWaiters') \in Nat /\ Cardinality(I3cWaiters') + k = Cardinality(I3cWaiters) + l
  <2>1. /\ at'[t] \in I3cWaits => I3cWaiters' = I3cWaiters \cup {t}
        /\ at'[t] \notin I3cWaits => I3cWaiters' = I3cWaiters \ {t}
        /\ t \in I3cWaiters <=> at[t] \in I3cWaits
    BY WaitersAfter
  <2>2. CASE at'[t] \in I3cWaits
    <3>1. Cardinality(I3cWaiters') = Cardinality(I3cWaiters \cup {t})
      BY <2>1, <2>2
    <3> QED  BY <2>1, <2>2, <3>1, Waiters
  <2>3. CASE at'[t] \notin I3cWaits
    <3>1. Cardinality(I3cWaiters') = Cardinality(I3cWaiters \ {t})
      BY <2>1, <2>3
    <3>2. t \in I3cWaiters => Cardinality(I3cWaiters) # 0
      BY Waiters, FS_EmptySet
    <3> QED  BY <2>1, <2>3, <3>1, <3>2, Waiters
  <2> QED  BY <2>2, <2>3
<1>2. Len(cmds) \in Nat /\ Len(resps) \in Nat /\ Len(cmds') \in Nat /\ Len(resps') \in Nat
      /\ dropped \in Nat /\ Cardinality(I3cWaiters) \in Nat
  BY I3cConstants, Waiters DEF I3!TypeOK
<1>3. Len(cmds') + Len(resps') + (dropped + Cardinality(I3cWaiters))
        = Len(cmds) + Len(resps) + (dropped' + Cardinality(I3cWaiters'))
  <2>1. dropped' = dropped + d /\ Len(cmds') + Len(resps') + k = Len(cmds) + Len(resps) + l + d
    OBVIOUS
  <2>2. k \in {0, 1} /\ l \in {0, 1} /\ d \in {0, 1}
    OBVIOUS
  <2> QED  BY ONLY <1>1, <1>2, <2>1, <2>2, SMTT(30)
<1> QED  BY <1>1, <1>3, LagKept

\* Issuing, taking and dropping are all the steps that change either side.
LEMMA I3cLag ==
  I3!TypeOK /\ I3!TypeOK' /\ SlotsEnough /\ I3!Lag /\ [I3!Next]_(I3!i3cVars)
    => I3!Lag'
<1> SUFFICES ASSUME I3!TypeOK /\ I3!TypeOK' /\ SlotsEnough /\ I3!Lag, [I3!Next]_(I3!i3cVars)
             PROVE I3!Lag'
  OBVIOUS
<1>1. ASSUME NEW k \in BOOLEAN, I3!Send(k) PROVE I3!Lag'
  <2>1. I3!Respond(k, 0)
    BY <1>1 DEF I3!Send
  <2>2. Len(cmds') = Len(cmds) - 1 /\ Len(resps') = Len(resps) + 1 /\ Len(cmds) \in Nat \ {0}
    BY <2>1, Responded
  <2>3. Len(resps) \in Nat
    BY DEF I3!TypeOK
  <2>4. Len(cmds') + Len(resps') = Len(cmds) + Len(resps)
    BY <2>2, <2>3
  <2>5. at' = at /\ dropped' = dropped
    BY <1>1 DEF I3!Send, I3!Env
  <2> QED  BY <2>4, <2>5, LagSame
<1>2. ASSUME NEW k \in BOOLEAN, I3!Receive(k) PROVE I3!Lag'
  <2>1. \E n \in Nat : I3!Respond(k, n)
    <3>1. cmds # <<>> /\ Head(cmds).len \in Nat
      <4>1. cmds # <<>>
        BY <1>2 DEF I3!Receive
      <4>2. Head(cmds) \in I3!Commands
        BY <4>1 DEF I3!TypeOK
      <4> QED  BY <4>1, <4>2 DEF I3!Commands
    <3> QED  BY <1>2, <3>1 DEF I3!Receive
  <2>2. Len(cmds') = Len(cmds) - 1 /\ Len(resps') = Len(resps) + 1 /\ Len(cmds) \in Nat \ {0}
    BY <2>1, Responded
  <2>3. Len(resps) \in Nat
    BY DEF I3!TypeOK
  <2>4. Len(cmds') + Len(resps') = Len(cmds) + Len(resps)
    BY <2>2, <2>3
  <2>5. at' = at /\ dropped' = dropped
    BY <1>2 DEF I3!Receive, I3!Env
  <2> QED  BY <2>4, <2>5, LagSame
<1>3. ASSUME NEW k \in BOOLEAN, I3!Assign(k) PROVE I3!Lag'
  <2>1. \E n \in Nat : I3!Respond(k, n)
    BY <1>3, Assigned
  <2>2. Len(cmds') = Len(cmds) - 1 /\ Len(resps') = Len(resps) + 1 /\ Len(cmds) \in Nat \ {0}
    BY <2>1, Responded
  <2>3. Len(resps) \in Nat
    BY DEF I3!TypeOK
  <2>4. Len(cmds') + Len(resps') = Len(cmds) + Len(resps)
    BY <2>2, <2>3
  <2>5. at' = at /\ dropped' = dropped
    BY <1>3 DEF I3!Assign, I3!Env
  <2> QED  BY <2>4, <2>5, LagSame
<1>4. CASE I3!IsrEnter
  <2>1. at' = at /\ dropped' = dropped /\ cmds' = cmds /\ resps' = resps
    BY <1>4 DEF I3!IsrEnter, I3!queueVars, I3!runVars
  <2> QED  BY <2>1, LagSame
<1>5. CASE I3!IsrWake
  <2>1. at' = at /\ dropped' = dropped /\ cmds' = cmds /\ resps' = resps
    BY <1>5 DEF I3!IsrWake, I3!queueVars, I3!runVars
  <2> QED  BY <2>1, LagSame
<1>6. ASSUME NEW t \in I3cTasks, I3!Poll(t) PROVE I3!Lag'
  <2>1. /\ cmds' = cmds /\ resps' = resps /\ dropped' = dropped + 0
        /\ \A u \in I3cTasks \ {t} : at'[u] = at[u]
        /\ at'[t] \in I3cWaits <=> at[t] \in I3cWaits
    BY <1>6, I3cConstants DEF I3!Poll, I3!Goto, I3!queueVars, I3!TypeOK, I3cWaits
  <2>2. Len(cmds) \in Nat /\ Len(resps) \in Nat
    BY DEF I3!TypeOK
  <2>3. CASE at[t] \in I3cWaits
    <3>1. Len(cmds') + Len(resps') + 1 = Len(cmds) + Len(resps) + 1 + 0
      BY <2>1, <2>2
    <3> QED  BY <2>1, <2>3, <3>1, LagMoves
  <2>4. CASE at[t] \notin I3cWaits
    <3>1. Len(cmds') + Len(resps') + 0 = Len(cmds) + Len(resps) + 0 + 0
      BY <2>1, <2>2
    <3> QED  BY <2>1, <2>4, <3>1, LagMoves
  <2> QED  BY <2>3, <2>4
<1>7. ASSUME NEW t \in I3cTasks, I3!OtherWake(t) PROVE I3!Lag'
  <2>1. at' = at /\ dropped' = dropped /\ cmds' = cmds /\ resps' = resps
    BY <1>7 DEF I3!OtherWake, I3!queueVars, I3!runVars
  <2> QED  BY <2>1, LagSame
<1>8. ASSUME NEW t \in I3cTasks, I3!Cancel(t) PROVE I3!Lag'
  <2>1. I3!Leave(t)
    BY <1>8 DEF I3!Cancel
  <2>2. /\ Len(cmds') = Len(cmds) /\ Len(resps') = Len(resps)
        /\ at'[t] = "idle" /\ \A u \in I3cTasks \ {t} : at'[u] = at[u]
    BY <2>1, Left
  <2>3. /\ at[t] \in I3cWaits
        /\ dropped' = dropped + 1
    BY <1>8, I3cConstants DEF I3!Cancel, I3!TypeOK, I3cWaits
  <2>4. Len(cmds) \in Nat /\ Len(resps) \in Nat
    BY DEF I3!TypeOK
  <2>5. at'[t] \notin I3cWaits
    BY <2>2 DEF I3cWaits
  <2>6. Len(cmds') + Len(resps') + 1 = Len(cmds) + Len(resps) + 0 + 1
    BY <2>2, <2>4
  <2> QED  BY <2>2, <2>3, <2>5, <2>6, LagMoves
<1>9. ASSUME NEW t \in I3cTasks, I3!Yield(t) PROVE I3!Lag'
  <2>1. at' = at /\ dropped' = dropped /\ cmds' = cmds /\ resps' = resps
    BY <1>9 DEF I3!Yield, I3!queueVars, I3!runVars
  <2> QED  BY <2>1, LagSame
<1>10. ASSUME NEW t \in I3cTasks, I3!Check(t) PROVE I3!Lag'
  <2>1. cmds' = cmds /\ dropped' = dropped + 0 /\ at[t] \in I3cWaits
    BY <1>10, I3cConstants DEF I3!Check, I3!TypeOK, I3cWaits
  <2>2. Len(cmds) \in Nat /\ Len(resps) \in Nat
    BY DEF I3!TypeOK
  <2>3. CASE I3!Take(t)
    <3>1. /\ Len(resps') = Len(resps) - 1 /\ Len(resps) \in Nat \ {0}
          /\ at'[t] = "over" /\ \A u \in I3cTasks \ {t} : at'[u] = at[u]
      BY <2>3, Taken
    <3>2. at'[t] \notin I3cWaits
      BY <3>1 DEF I3cWaits
    <3>3. Len(cmds') + Len(resps') + 1 = Len(cmds) + Len(resps) + 0 + 0
      BY <2>1, <2>2, <3>1
    <3> QED  BY <2>1, <3>1, <3>2, <3>3, LagMoves
  <2>4. CASE ~I3!Take(t)
    <3>1. resps' = resps /\ at'[t] \in I3cWaits /\ \A u \in I3cTasks \ {t} : at'[u] = at[u]
      BY <1>10, <2>4 DEF I3!Check, I3!Goto, I3!TypeOK, I3cWaits
    <3>2. Len(cmds') + Len(resps') + 1 = Len(cmds) + Len(resps) + 1 + 0
      BY <2>1, <2>2, <3>1
    <3> QED  BY <2>1, <3>1, <3>2, LagMoves
  <2> QED  BY <2>3, <2>4
<1>11. ASSUME NEW t \in I3cTasks, I3!Register(t) PROVE I3!Lag'
  <2>1. /\ cmds' = cmds /\ resps' = resps /\ dropped' = dropped + 0
        /\ \A u \in I3cTasks \ {t} : at'[u] = at[u]
        /\ at'[t] \in I3cWaits <=> at[t] \in I3cWaits
    BY <1>11, I3cConstants DEF I3!Register, I3!Goto, I3!queueVars, I3!TypeOK, I3cWaits
  <2>2. Len(cmds) \in Nat /\ Len(resps) \in Nat
    BY DEF I3!TypeOK
  <2>3. CASE at[t] \in I3cWaits
    <3>1. Len(cmds') + Len(resps') + 1 = Len(cmds) + Len(resps) + 1 + 0
      BY <2>1, <2>2
    <3> QED  BY <2>1, <2>3, <3>1, LagMoves
  <2>4. CASE at[t] \notin I3cWaits
    <3>1. Len(cmds') + Len(resps') + 0 = Len(cmds) + Len(resps) + 0 + 0
      BY <2>1, <2>2
    <3> QED  BY <2>1, <2>4, <3>1, LagMoves
  <2> QED  BY <2>3, <2>4
<1>12. ASSUME NEW t \in I3cTasks, I3!Recheck(t) PROVE I3!Lag'
  <2>1. cmds' = cmds /\ dropped' = dropped + 0 /\ at[t] \in I3cWaits
    BY <1>12, I3cConstants DEF I3!Recheck, I3!TypeOK, I3cWaits
  <2>2. Len(cmds) \in Nat /\ Len(resps) \in Nat
    BY DEF I3!TypeOK
  <2>3. CASE I3!Take(t)
    <3>1. /\ Len(resps') = Len(resps) - 1 /\ Len(resps) \in Nat \ {0}
          /\ at'[t] = "over" /\ \A u \in I3cTasks \ {t} : at'[u] = at[u]
      BY <2>3, Taken
    <3>2. at'[t] \notin I3cWaits
      BY <3>1 DEF I3cWaits
    <3>3. Len(cmds') + Len(resps') + 1 = Len(cmds) + Len(resps) + 0 + 0
      BY <2>1, <2>2, <3>1
    <3> QED  BY <2>1, <3>1, <3>2, <3>3, LagMoves
  <2>4. CASE ~I3!Take(t)
    <3>1. resps' = resps /\ at'[t] \in I3cWaits /\ \A u \in I3cTasks \ {t} : at'[u] = at[u]
      BY <1>12, <2>4 DEF I3!Recheck, I3!Goto, I3!TypeOK, I3cWaits
    <3>2. Len(cmds') + Len(resps') + 1 = Len(cmds) + Len(resps) + 1 + 0
      BY <2>1, <2>2, <3>1
    <3> QED  BY <2>1, <3>1, <3>2, LagMoves
  <2> QED  BY <2>3, <2>4
<1>13. ASSUME NEW t \in I3cTasks, I3!Pop(t) PROVE I3!Lag'
  <2>1. /\ cmds' = cmds /\ resps' = resps /\ dropped' = dropped + 0
        /\ \A u \in I3cTasks \ {t} : at'[u] = at[u]
        /\ at'[t] \in I3cWaits <=> at[t] \in I3cWaits
    BY <1>13, I3cConstants DEF I3!Pop, I3!Goto, I3!queueVars, I3!TypeOK, I3cWaits
  <2>2. Len(cmds) \in Nat /\ Len(resps) \in Nat
    BY DEF I3!TypeOK
  <2>3. CASE at[t] \in I3cWaits
    <3>1. Len(cmds') + Len(resps') + 1 = Len(cmds) + Len(resps) + 1 + 0
      BY <2>1, <2>2
    <3> QED  BY <2>1, <2>3, <3>1, LagMoves
  <2>4. CASE at[t] \notin I3cWaits
    <3>1. Len(cmds') + Len(resps') + 0 = Len(cmds) + Len(resps) + 0 + 0
      BY <2>1, <2>2
    <3> QED  BY <2>1, <2>4, <3>1, LagMoves
  <2> QED  BY <2>3, <2>4
<1>14. ASSUME NEW t \in I3cTasks, I3!Finish(t) PROVE I3!Lag'
  <2>1. I3!Leave(t)
    BY <1>14 DEF I3!Finish
  <2>2. /\ Len(cmds') = Len(cmds) /\ Len(resps') = Len(resps)
        /\ at'[t] = "idle" /\ \A u \in I3cTasks \ {t} : at'[u] = at[u]
    BY <2>1, Left
  <2>3. /\ at[t] \notin I3cWaits
        /\ dropped' = dropped + 0
    BY <1>14, I3cConstants DEF I3!Finish, I3!TypeOK, I3cWaits
  <2>4. Len(cmds) \in Nat /\ Len(resps) \in Nat
    BY DEF I3!TypeOK
  <2>5. at'[t] \notin I3cWaits
    BY <2>2 DEF I3cWaits
  <2>6. Len(cmds') + Len(resps') + 0 = Len(cmds) + Len(resps) + 0 + 0
    BY <2>2, <2>4
  <2> QED  BY <2>2, <2>3, <2>5, <2>6, LagMoves
<1>15. ASSUME NEW t \in I3cTasks, NEW k \in {"write", "read", "ccc", "rstdaa"}, NEW n \in
           {0, 1}, I3!Transfer(t, k, n) PROVE I3!Lag'
  <2>1. I3!Issue(t, k, n) /\ k \in I3!Kinds /\ n \in Nat
    BY <1>15, I3cConstants DEF I3!Transfer, I3!Kinds
  <2>2. /\ Len(cmds') = Len(cmds) + 1
        /\ at[t] = "idle" /\ at'[t] = "check" /\ \A u \in I3cTasks \ {t} : at'[u] = at[u]
    BY <2>1, Issued
  <2>3. resps' = resps /\ dropped' = dropped + 0
    BY <2>1, I3cConstants DEF I3!Issue, I3!TypeOK
  <2>4. Len(cmds) \in Nat /\ Len(resps) \in Nat
    BY DEF I3!TypeOK
  <2>5. at[t] \notin I3cWaits /\ at'[t] \in I3cWaits
    BY <2>2 DEF I3cWaits
  <2>6. Len(cmds') + Len(resps') + 0 = Len(cmds) + Len(resps) + 1 + 0
    BY <2>2, <2>3, <2>4
  <2> QED  BY <2>2, <2>3, <2>5, <2>6, LagMoves
<1>16. ASSUME NEW t \in I3cTasks, NEW n \in 1..MaxSlots, I3!Entdaa(t, n) PROVE I3!Lag'
  <2>1. I3!Issue(t, "daa", n) /\ "daa" \in I3!Kinds /\ n \in Nat
    BY <1>16, I3cConstants DEF I3!Entdaa, I3!Kinds
  <2>2. /\ Len(cmds') = Len(cmds) + 1
        /\ at[t] = "idle" /\ at'[t] = "check" /\ \A u \in I3cTasks \ {t} : at'[u] = at[u]
    BY <2>1, Issued
  <2>3. resps' = resps /\ dropped' = dropped + 0
    BY <2>1, I3cConstants DEF I3!Issue, I3!TypeOK
  <2>4. Len(cmds) \in Nat /\ Len(resps) \in Nat
    BY DEF I3!TypeOK
  <2>5. at[t] \notin I3cWaits /\ at'[t] \in I3cWaits
    BY <2>2 DEF I3cWaits
  <2>6. Len(cmds') + Len(resps') + 0 = Len(cmds) + Len(resps) + 1 + 0
    BY <2>2, <2>3, <2>4
  <2> QED  BY <2>2, <2>3, <2>5, <2>6, LagMoves
<1>17. ASSUME NEW t \in I3cTasks, NEW s \in 0..MaxSlots, NEW a \in {0, I3!Address(0)},
           I3!SetSlot(t, s, a) PROVE I3!Lag'
  <2>1. at' = at /\ dropped' = dropped /\ cmds' = cmds /\ resps' = resps
    BY <1>17 DEF I3!SetSlot, I3!queueVars, I3!runVars
  <2> QED  BY <2>1, LagSame
<1>18. CASE UNCHANGED I3!i3cVars
  <2>1. at' = at /\ dropped' = dropped /\ cmds' = cmds /\ resps' = resps
    BY <1>18 DEF I3!i3cVars, I3!queueVars, I3!runVars
  <2> QED  BY <2>1, LagSame
<1> QED
  BY <1>1, <1>2, <1>3, <1>4, <1>5, <1>6, <1>7, <1>8, <1>9, <1>10, <1>11, <1>12, <1>13, <1>14,
     <1>15, <1>16, <1>17, <1>18 DEF I3!Next, I3!Inside

-----------------------------------------------------------------------------
(* The I3C master while nothing was dropped, met another or failed.        *)

I3cEmpty == cmds = <<>> /\ resps = <<>> /\ tx = <<>> /\ rx = <<>>

\* The command of t is in the queue, with its words and its slots.
Asked(t) ==
  /\ op[t].of = t /\ Len(cmds) = 1 /\ cmds[1] = op[t] /\ resps = <<>> /\ rx = <<>>
  /\ Len(tx) = IF op[t].kind \in {"write", "ccc"} THEN op[t].len ELSE 0
  /\ op[t].kind = "daa" => \A s \in 0..(op[t].len - 1) : i3Dat[s] = I3!Address(s)

\* r answers the command of t, and the words it announces are those of t.
Answers(t, r) ==
  /\ r.of = t /\ r.kind = op[t].kind /\ r.ok
  /\ r.kind = "read" => r.len <= op[t].len /\ Len(rx) = r.len /\ \A i \in 1..r.len : rx[i] = t
  /\ r.kind # "read" => rx = <<>>
  /\ r.kind = "daa" => \A s \in 0..(r.len - 1) : addr[dct[s]] = I3!Address(s)

Answered(t) == cmds = <<>> /\ tx = <<>> /\ Len(resps) = 1 /\ Answers(t, resps[1])
Held(t) ==
  /\ cmds = <<>> /\ tx = <<>> /\ resps = <<>>
  /\ Answers(t, i3Took[t].resp) /\ i3Took[t].own
Done(t) == I3cEmpty /\ i3Took[t].resp.of = t /\ i3Took[t].own

\* Where the one transfer stands says what is in the queues.
I3cStage(t) ==
  /\ at[t] \in I3cWaits => Asked(t) \/ Answered(t)
  /\ at[t] = "over" => Held(t)
  /\ at[t] = "done" => Done(t)
  /\ at[t] = "idle" => I3cEmpty

I3cAlone(t) == \A u \in I3cTasks \ {t} : at[u] = "idle"
Undisturbed ==
  clean => /\ \A t \in I3cTasks : at[t] # "idle" => I3cAlone(t) /\ I3cStage(t)
           /\ (\A t \in I3cTasks : at[t] = "idle") => I3cEmpty

\* The step of a task that is alone leaves it alone.
LEMMA I3cStepped ==
  ASSUME NEW t \in I3cTasks, I3cAlone(t)', I3cStage(t)'
  PROVE  Undisturbed'
  BY DEF Undisturbed, I3cAlone, I3cStage

\* A task that is inside a transfer is alone, one that is polled and idle finds
\* all others idle if none of them waits.
LEMMA I3cSole ==
  ASSUME Undisturbed, clean, NEW t \in I3cTasks, at[t] # "idle"
  PROVE  I3cAlone(t) /\ I3cStage(t)
  BY DEF Undisturbed

\* ... and one that is polled and idle finds all others idle if none waits.
LEMMA I3cStill ==
  ASSUME I3!TypeOK, PolledRight, Undisturbed, clean, NEW t \in I3cTasks, polled = t, at[t] = "idle",
         \A u \in I3cTasks : ~I3!Waiting(u)
  PROVE  I3cAlone(t) /\ I3cEmpty
<1>1. \A u \in I3cTasks : at[u] = "idle"
  BY DEF I3!TypeOK, PolledRight, I3!Waiting
<1> QED  BY <1>1 DEF Undisturbed, I3cAlone

\* A command in the queue is that of the one task that waits.
LEMMA I3cAsked ==
  ASSUME I3!TypeOK, Undisturbed, clean, cmds # <<>>
  PROVE  \E t \in I3cTasks : at[t] \in I3cWaits /\ I3cAlone(t) /\ Asked(t) /\ op[t] = Head(cmds)
<1>1. PICK t \in I3cTasks : at[t] # "idle"
  BY DEF Undisturbed, I3cEmpty
<1>2. I3cAlone(t) /\ I3cStage(t)
  BY <1>1, I3cSole
<1>3. at[t] \in I3cWaits /\ Asked(t)
  BY <1>1, <1>2 DEF I3cStage, I3!TypeOK, I3cWaits, Answered, Held, Done, I3cEmpty
<1>4. Head(cmds) = cmds[1]
  BY DEF I3!TypeOK
<1> QED  BY <1>2, <1>3, <1>4 DEF Asked

\* Nothing is left of a sequence behind its last entry.
LEMMA AllTaken ==
  ASSUME NEW R, NEW q \in Seq(R), NEW n \in Nat, n = Len(q)
  PROVE  SubSeq(q, n + 1, Len(q)) = <<>>
<1>1. SubSeq(q, n + 1, Len(q)) \in Seq(R) /\ Len(SubSeq(q, n + 1, Len(q))) = 0
  BY SubSeqProperties
<1> QED  BY <1>1, EmptySeq

\* A step that touches neither queue, table nor task changes no stage.
LEMMA I3cSameStage ==
  ASSUME Undisturbed,
         UNCHANGED <<cmds, resps, tx, rx, i3Dat, dct, addr, at, op, i3Took, clean>>
  PROVE  Undisturbed'
  BY DEF Undisturbed, I3cAlone, I3cStage, Asked, Answered, Held, Done, Answers, I3cEmpty

\* A transfer that is alone goes through its stages: asked, answered, held, done.
LEMMA I3cUndisturbed ==
  I3!TypeOK /\ SlotsEnough /\ PolledRight /\ Undisturbed /\ [I3!Next]_(I3!i3cVars)
    => Undisturbed'
<1> SUFFICES ASSUME I3!TypeOK /\ SlotsEnough /\ PolledRight /\ Undisturbed,
             [I3!Next]_(I3!i3cVars) PROVE Undisturbed'
  OBVIOUS
<1>1. ASSUME NEW k \in BOOLEAN, I3!Send(k) PROVE Undisturbed'
  <2> SUFFICES ASSUME clean' PROVE Undisturbed'
    BY DEF Undisturbed
  <2>1. clean /\ k = TRUE /\ cmds # <<>> /\ UNCHANGED <<at, op, i3Took, i3Dat>>
    BY <1>1 DEF I3!Send, I3!Env, I3!busVars
  <2>2. PICK t \in I3cTasks : at[t] \in I3cWaits /\ I3cAlone(t) /\ Asked(t) /\ op[t] = Head(cmds)
    BY <2>1, I3cAsked
  <2>3. op[t] \in I3!Commands /\ op[t].len \in Nat /\ op[t].of = t
    <3>1. op[t] \in I3!Commands
      BY DEF I3!TypeOK
    <3> QED  BY <2>2, <3>1 DEF I3!Commands, Asked
  <2>4. /\ op[t].kind \in {"write", "ccc", "rstdaa"} /\ I3!Respond(k, 0) /\ rx' = rx /\ op[t].len <= Len(tx)
        /\ tx' = SubSeq(tx, op[t].len + 1, Len(tx))
    BY <1>1, <2>1, <2>2 DEF I3!Send
  <2>5. Len(tx) = op[t].len /\ rx = <<>>
    BY <2>2, <2>3, <2>4 DEF Asked
  <2>6. tx' = <<>>
    BY <2>3, <2>4, <2>5, AllTaken DEF I3!TypeOK
  <2>9. ASSUME NEW n \in Nat, I3!Respond(k, n),
               op[t].kind = "read" => n <= op[t].len /\ Len(rx') = n /\ \A i \in 1..n : rx'[i] = t,
               op[t].kind # "read" => rx' = <<>>, tx' = <<>>,
               op[t].kind = "daa" => \A s \in 0..(n - 1) : addr'[dct'[s]] = I3!Address(s)
        PROVE Undisturbed'
    <3>1. /\ Len(cmds') = Len(cmds) - 1 /\ cmds' \in Seq(I3!Commands)
          /\ Len(resps') = Len(resps) + 1
          /\ resps = <<>> => resps'[1] = [of |-> cmds[1].of, kind |-> cmds[1].kind, ok |-> k, len |-> n]
      BY <2>9, Responded
    <3>2. cmds' = <<>> /\ Len(resps') = 1 /\ resps'[1] = [of |-> t, kind |-> op[t].kind, ok |-> TRUE, len |-> n]
      BY <2>1, <2>2, <2>3, <3>1 DEF Asked
    <3>3. Answers(t, resps[1])'
      BY <2>1, <2>9, <3>2 DEF Answers
    <3>4. Answered(t)'
      BY <2>9, <3>2, <3>3 DEF Answered
    <3>5. I3cStage(t)' /\ I3cAlone(t)'
      BY <2>1, <2>2, <3>4 DEF I3cStage, I3cAlone, I3cWaits
    <3> QED  BY <3>5, I3cStepped
  <2> QED  BY <2>4, <2>5, <2>6, <2>9
<1>2. ASSUME NEW k \in BOOLEAN, I3!Receive(k) PROVE Undisturbed'
  <2> SUFFICES ASSUME clean' PROVE Undisturbed'
    BY DEF Undisturbed
  <2>1. clean /\ k = TRUE /\ cmds # <<>> /\ UNCHANGED <<at, op, i3Took, i3Dat>>
    BY <1>2 DEF I3!Receive, I3!Env, I3!busVars
  <2>2. PICK t \in I3cTasks : at[t] \in I3cWaits /\ I3cAlone(t) /\ Asked(t) /\ op[t] = Head(cmds)
    BY <2>1, I3cAsked
  <2>3. op[t] \in I3!Commands /\ op[t].len \in Nat /\ op[t].of = t
    <3>1. op[t] \in I3!Commands
      BY DEF I3!TypeOK
    <3> QED  BY <2>2, <3>1 DEF I3!Commands, Asked
  <2>4. PICK n \in 0..op[t].len :
          /\ I3!Respond(k, n) /\ op[t].kind = "read" /\ tx' = tx
          /\ rx' = rx \o [i \in 1..n |-> Head(cmds).of]
    BY <1>2, <2>1, <2>2 DEF I3!Receive
  <2>5. n \in Nat /\ n <= op[t].len /\ tx = <<>> /\ rx = <<>>
    <3>1. Len(tx) = 0 /\ tx \in Seq(I3cTasks \cup {None})
      BY <2>2, <2>4 DEF Asked, I3!TypeOK
    <3> QED  BY <2>2, <2>3, <3>1, EmptySeq DEF Asked
  <2>6. Len(rx') = n /\ \A i \in 1..n : rx'[i] = t
    <3> DEFINE w == [i \in 1..n |-> t]
    <3>1. w \in Seq(I3cOwners) /\ Len(w) = n
      <4>1. w \in [1..n -> I3cOwners]
        BY DEF I3cOwners
      <4>2. w \in Seq(I3cOwners)
        BY <2>5, <4>1, SeqDef
      <4> QED  BY <2>5, <4>2
    <3>2. rx' = <<>> \o w
      BY <2>2, <2>3, <2>4, <2>5
    <3>3. rx' = w
      <4> HIDE DEF w
      <4> QED  BY <3>1, <3>2, ConcatEmptySeq
    <3> QED  BY <3>1, <3>3
  <2>9. ASSUME NEW m \in Nat, I3!Respond(k, m),
               op[t].kind = "read" => m <= op[t].len /\ Len(rx') = m /\ \A i \in 1..m : rx'[i] = t,
               op[t].kind # "read" => rx' = <<>>, tx' = <<>>,
               op[t].kind = "daa" => \A s \in 0..(m - 1) : addr'[dct'[s]] = I3!Address(s)
        PROVE Undisturbed'
    <3>1. /\ Len(cmds') = Len(cmds) - 1 /\ cmds' \in Seq(I3!Commands)
          /\ Len(resps') = Len(resps) + 1
          /\ resps = <<>> => resps'[1] = [of |-> cmds[1].of, kind |-> cmds[1].kind, ok |-> k, len |-> m]
      BY <2>9, Responded
    <3>2. cmds' = <<>> /\ Len(resps') = 1 /\ resps'[1] = [of |-> t, kind |-> op[t].kind, ok |-> TRUE, len |-> m]
      BY <2>1, <2>2, <2>3, <3>1 DEF Asked
    <3>3. Answers(t, resps[1])'
      BY <2>1, <2>9, <3>2 DEF Answers
    <3>4. Answered(t)'
      BY <2>9, <3>2, <3>3 DEF Answered
    <3>5. I3cStage(t)' /\ I3cAlone(t)'
      BY <2>1, <2>2, <3>4 DEF I3cStage, I3cAlone, I3cWaits
    <3> QED  BY <3>5, I3cStepped
  <2> QED  BY <2>4, <2>5, <2>6, <2>9
<1>3. ASSUME NEW k \in BOOLEAN, I3!Assign(k) PROVE Undisturbed'
  <2> SUFFICES ASSUME clean' PROVE Undisturbed'
    BY DEF Undisturbed
  <2>1. clean /\ k = TRUE /\ cmds # <<>> /\ UNCHANGED <<at, op, i3Took, i3Dat>>
    BY <1>3 DEF I3!Assign, I3!Env, I3!busVars
  <2>2. PICK t \in I3cTasks : at[t] \in I3cWaits /\ I3cAlone(t) /\ Asked(t) /\ op[t] = Head(cmds)
    BY <2>1, I3cAsked
  <2>3. op[t] \in I3!Commands /\ op[t].len \in Nat /\ op[t].of = t
    <3>1. op[t] \in I3!Commands
      BY DEF I3!TypeOK
    <3> QED  BY <2>2, <3>1 DEF I3!Commands, Asked
  <2>4. PICK n \in Nat : /\ n <= Head(cmds).len /\ I3!Respond(k, n)
                         /\ k => \A s \in 0..(n - 1) : addr'[dct'[s]] = i3Dat[s]
    BY <1>3, Assigned
  <2>5. op[t].kind = "daa" /\ rx' = rx /\ tx' = tx
    BY <1>3, <2>2 DEF I3!Assign
  <2>6. rx = <<>> /\ tx = <<>>
    <3>1. Len(tx) = 0 /\ tx \in Seq(I3cTasks \cup {None})
      BY <2>2, <2>5 DEF Asked, I3!TypeOK
    <3> QED  BY <2>2, <3>1, EmptySeq DEF Asked
  <2>7. \A s \in 0..(n - 1) : addr'[dct'[s]] = I3!Address(s)
    <3>1. \A s \in 0..(n - 1) : s \in 0..(op[t].len - 1)
      BY <2>2, <2>3, <2>4
    <3> QED  BY <2>1, <2>2, <2>4, <2>5, <3>1 DEF Asked
  <2>9. ASSUME NEW m \in Nat, I3!Respond(k, m),
               op[t].kind = "read" => m <= op[t].len /\ Len(rx') = m /\ \A i \in 1..m : rx'[i] = t,
               op[t].kind # "read" => rx' = <<>>, tx' = <<>>,
               op[t].kind = "daa" => \A s \in 0..(m - 1) : addr'[dct'[s]] = I3!Address(s)
        PROVE Undisturbed'
    <3>1. /\ Len(cmds') = Len(cmds) - 1 /\ cmds' \in Seq(I3!Commands)
          /\ Len(resps') = Len(resps) + 1
          /\ resps = <<>> => resps'[1] = [of |-> cmds[1].of, kind |-> cmds[1].kind, ok |-> k, len |-> m]
      BY <2>9, Responded
    <3>2. cmds' = <<>> /\ Len(resps') = 1 /\ resps'[1] = [of |-> t, kind |-> op[t].kind, ok |-> TRUE, len |-> m]
      BY <2>1, <2>2, <2>3, <3>1 DEF Asked
    <3>3. Answers(t, resps[1])'
      BY <2>1, <2>9, <3>2 DEF Answers
    <3>4. Answered(t)'
      BY <2>9, <3>2, <3>3 DEF Answered
    <3>5. I3cStage(t)' /\ I3cAlone(t)'
      BY <2>1, <2>2, <3>4 DEF I3cStage, I3cAlone, I3cWaits
    <3> QED  BY <3>5, I3cStepped
  <2> QED  BY <2>4, <2>5, <2>6, <2>7, <2>9
<1>4. CASE I3!IsrEnter
  <2>1. UNCHANGED <<cmds, resps, tx, rx, i3Dat, dct, addr, at, op, i3Took, clean>>
    BY <1>4 DEF I3!IsrEnter, I3!queueVars, I3!busVars, I3!runVars
  <2> QED  BY <2>1, I3cSameStage
<1>5. CASE I3!IsrWake
  <2>1. UNCHANGED <<cmds, resps, tx, rx, i3Dat, dct, addr, at, op, i3Took, clean>>
    BY <1>5 DEF I3!IsrWake, I3!queueVars, I3!busVars, I3!runVars
  <2> QED  BY <2>1, I3cSameStage
<1>6. ASSUME NEW t \in I3cTasks, I3!Poll(t) PROVE Undisturbed'
  <2> SUFFICES ASSUME clean' PROVE Undisturbed'
    BY DEF Undisturbed
  <2>1. UNCHANGED <<cmds, resps, tx, rx, i3Dat, dct, addr, op, i3Took, clean>>
    BY <1>6 DEF I3!Poll, I3!queueVars, I3!busVars
  <2>2. CASE at[t] # "pending"
    <3>1. UNCHANGED at
      BY <1>6, <2>2 DEF I3!Poll
    <3> QED  BY <2>1, <3>1, I3cSameStage
  <2>3. CASE at[t] = "pending"
    <3>1. I3cAlone(t) /\ I3cStage(t)
      BY <2>1, <2>3, I3cSole
    <3>2. at'[t] = "check" /\ \A u \in I3cTasks \ {t} : at'[u] = at[u]
      BY <1>6, <2>3 DEF I3!Poll, I3!Goto, I3!TypeOK
    <3>3. I3cAlone(t)' /\ I3cStage(t)'
      BY <2>1, <2>3, <3>1, <3>2 DEF I3cAlone, I3cStage, I3cWaits, Asked, Answered, Answers
    <3> QED  BY <3>3, I3cStepped
  <2> QED  BY <2>2, <2>3
<1>7. ASSUME NEW t \in I3cTasks, I3!OtherWake(t) PROVE Undisturbed'
  <2>1. UNCHANGED <<cmds, resps, tx, rx, i3Dat, dct, addr, at, op, i3Took, clean>>
    BY <1>7 DEF I3!OtherWake, I3!queueVars, I3!busVars, I3!runVars
  <2> QED  BY <2>1, I3cSameStage
<1>8. ASSUME NEW t \in I3cTasks, I3!Cancel(t) PROVE Undisturbed'
  BY <1>8 DEF I3!Cancel, Undisturbed
<1>9. ASSUME NEW t \in I3cTasks, I3!Yield(t) PROVE Undisturbed'
  <2>1. UNCHANGED <<cmds, resps, tx, rx, i3Dat, dct, addr, at, op, i3Took, clean>>
    BY <1>9 DEF I3!Yield, I3!queueVars, I3!busVars, I3!runVars
  <2> QED  BY <2>1, I3cSameStage
<1>10. ASSUME NEW t \in I3cTasks, I3!Check(t) PROVE Undisturbed'
  <2> SUFFICES ASSUME clean' PROVE Undisturbed'
    BY DEF Undisturbed
  <2>1. UNCHANGED <<cmds, tx, rx, i3Dat, dct, addr, op, clean>> /\ at[t] \in I3cWaits
    BY <1>10 DEF I3!Check, I3!busVars, I3cWaits
  <2>2. I3cAlone(t) /\ I3cStage(t)
    BY <2>1, I3cSole DEF I3cWaits
  <2>3. CASE I3!Take(t)
    <3>1. /\ Len(resps') = Len(resps) - 1 /\ Len(resps) \in Nat \ {0}
          /\ resps' \in Seq(I3!Responses)
          /\ \A u \in I3cTasks \ {t} : i3Took'[u] = i3Took[u] /\ at'[u] = at[u]
          /\ i3Took'[t] = [resp |-> resps[1], own |-> TRUE]
          /\ at'[t] = "over"
      BY <2>3, Taken
    <3>2. Answered(t)
      BY <2>1, <2>2, <3>1 DEF I3cStage, Asked
    <3>3. resps' = <<>> /\ i3Took'[t].resp = resps[1] /\ i3Took'[t].own
      BY <3>1, <3>2, EmptySeq DEF Answered
    <3>4. Answers(t, i3Took[t].resp)'
      BY <2>1, <3>2, <3>3 DEF Answered, Answers
    <3>5. Held(t)'
      BY <2>1, <3>2, <3>3, <3>4 DEF Held, Answered
    <3>6. I3cAlone(t)' /\ I3cStage(t)'
      BY <2>2, <3>1, <3>5 DEF I3cAlone, I3cStage, I3cWaits
    <3> QED  BY <3>6, I3cStepped
  <2>4. CASE ~I3!Take(t)
    <3>1. /\ UNCHANGED <<resps, i3Took>> /\ at'[t] \in I3cWaits
          /\ \A u \in I3cTasks \ {t} : at'[u] = at[u]
      BY <1>10, <2>4 DEF I3!Check, I3!Goto, I3!TypeOK, I3cWaits
    <3>2. I3cAlone(t)' /\ I3cStage(t)'
      BY <2>1, <2>2, <3>1 DEF I3cAlone, I3cStage, I3cWaits, Asked, Answered, Answers
    <3> QED  BY <3>2, I3cStepped
  <2> QED  BY <2>3, <2>4
<1>11. ASSUME NEW t \in I3cTasks, I3!Register(t) PROVE Undisturbed'
  <2> SUFFICES ASSUME clean' PROVE Undisturbed'
    BY DEF Undisturbed
  <2>1. UNCHANGED <<cmds, resps, tx, rx, i3Dat, dct, addr, op, i3Took, clean>> /\ at[t] = "register"
    BY <1>11 DEF I3!Register, I3!queueVars, I3!busVars
  <2>2. I3cAlone(t) /\ I3cStage(t)
    BY <2>1, I3cSole
  <2>3. at'[t] = "recheck" /\ \A u \in I3cTasks \ {t} : at'[u] = at[u]
    BY <1>11 DEF I3!Register, I3!Goto, I3!TypeOK
  <2>4. I3cAlone(t)' /\ I3cStage(t)'
    BY <2>1, <2>2, <2>3 DEF I3cAlone, I3cStage, I3cWaits, Asked, Answered, Answers
  <2> QED  BY <2>4, I3cStepped
<1>12. ASSUME NEW t \in I3cTasks, I3!Recheck(t) PROVE Undisturbed'
  <2> SUFFICES ASSUME clean' PROVE Undisturbed'
    BY DEF Undisturbed
  <2>1. UNCHANGED <<cmds, tx, rx, i3Dat, dct, addr, op, clean>> /\ at[t] \in I3cWaits
    BY <1>12 DEF I3!Recheck, I3!busVars, I3cWaits
  <2>2. I3cAlone(t) /\ I3cStage(t)
    BY <2>1, I3cSole DEF I3cWaits
  <2>3. CASE I3!Take(t)
    <3>1. /\ Len(resps') = Len(resps) - 1 /\ Len(resps) \in Nat \ {0}
          /\ resps' \in Seq(I3!Responses)
          /\ \A u \in I3cTasks \ {t} : i3Took'[u] = i3Took[u] /\ at'[u] = at[u]
          /\ i3Took'[t] = [resp |-> resps[1], own |-> TRUE]
          /\ at'[t] = "over"
      BY <2>3, Taken
    <3>2. Answered(t)
      BY <2>1, <2>2, <3>1 DEF I3cStage, Asked
    <3>3. resps' = <<>> /\ i3Took'[t].resp = resps[1] /\ i3Took'[t].own
      BY <3>1, <3>2, EmptySeq DEF Answered
    <3>4. Answers(t, i3Took[t].resp)'
      BY <2>1, <3>2, <3>3 DEF Answered, Answers
    <3>5. Held(t)'
      BY <2>1, <3>2, <3>3, <3>4 DEF Held, Answered
    <3>6. I3cAlone(t)' /\ I3cStage(t)'
      BY <2>2, <3>1, <3>5 DEF I3cAlone, I3cStage, I3cWaits
    <3> QED  BY <3>6, I3cStepped
  <2>4. CASE ~I3!Take(t)
    <3>1. /\ UNCHANGED <<resps, i3Took>> /\ at'[t] \in I3cWaits
          /\ \A u \in I3cTasks \ {t} : at'[u] = at[u]
      BY <1>12, <2>4 DEF I3!Recheck, I3!Goto, I3!TypeOK, I3cWaits
    <3>2. I3cAlone(t)' /\ I3cStage(t)'
      BY <2>1, <2>2, <3>1 DEF I3cAlone, I3cStage, I3cWaits, Asked, Answered, Answers
    <3> QED  BY <3>2, I3cStepped
  <2> QED  BY <2>3, <2>4
<1>13. ASSUME NEW t \in I3cTasks, I3!Pop(t) PROVE Undisturbed'
  <2> SUFFICES ASSUME clean' PROVE Undisturbed'
    BY DEF Undisturbed
  <2>1. UNCHANGED <<cmds, resps, tx, clean>> /\ at[t] = "over" /\ I3!Reads(t)
    BY <1>13 DEF I3!Pop
  <2>2. I3cAlone(t) /\ Held(t)
    BY <2>1, I3cSole DEF I3cStage
  <2>3. /\ I3!Words(t) \in Nat /\ rx' = SubSeq(rx, I3!Words(t) + 1, Len(rx))
        /\ \A u \in I3cTasks \ {t} : at'[u] = at[u]
        /\ i3Took'[t].resp = i3Took[t].resp /\ at'[t] = "done"
        /\ Len(rx) >= I3!Words(t) /\ (\A i \in 1 .. I3!Words(t) : rx[i] = t) => i3Took'[t].own
    BY <1>13, Popped
  <2>4. i3Took[t].resp.kind = "read" /\ i3Took[t].resp.len <= op[t].len /\ Len(rx) = i3Took[t].resp.len
        /\ (\A i \in 1..i3Took[t].resp.len : rx[i] = t) /\ i3Took[t].resp.of = t
    BY <2>1, <2>2 DEF Held, Answers, I3!Reads
  <2>5. I3!Words(t) = Len(rx)
    <3>1. i3Took[t].resp.len \in Nat /\ op[t].len \in Nat
      <4>1. i3Took[t] \in [resp : I3!Responses, own : BOOLEAN] /\ op[t] \in I3!Commands
        BY DEF I3!TypeOK
      <4>2. i3Took[t].resp \in I3!Responses
        BY <4>1
      <4> QED  BY <4>1, <4>2 DEF I3!Responses, I3!Commands
    <3> QED  BY <2>4, <3>1 DEF I3!Words
  <2>6. rx' = <<>>
    BY <2>3, <2>5, AllTaken DEF I3!TypeOK
  <2>7. i3Took'[t].own
    BY <2>3, <2>4, <2>5
  <2>8. Done(t)'
    BY <2>1, <2>2, <2>3, <2>4, <2>6, <2>7 DEF Done, I3cEmpty, Held
  <2>9. I3cAlone(t)' /\ I3cStage(t)'
    BY <2>2, <2>3, <2>8 DEF I3cAlone, I3cStage, I3cWaits
  <2> QED  BY <2>9, I3cStepped
<1>14. ASSUME NEW t \in I3cTasks, I3!Finish(t) PROVE Undisturbed'
  <2> SUFFICES ASSUME clean' PROVE Undisturbed'
    BY DEF Undisturbed
  <2>1. clean /\ I3!Leave(t) /\ (at[t] = "done" \/ (at[t] = "over" /\ ~I3!Reads(t)))
    BY <1>14 DEF I3!Finish
  <2>2. I3cAlone(t) /\ I3cStage(t)
    BY <2>1, I3cSole
  <2>3. I3cEmpty
    BY <2>1, <2>2 DEF I3cStage, Done, Held, Answers, I3!Reads, I3cEmpty
  <2>4. /\ cmds' \in Seq(I3!Commands) /\ Len(cmds') = Len(cmds)
        /\ resps' \in Seq(I3!Responses) /\ Len(resps') = Len(resps)
        /\ (tx = <<>> => tx' = <<>>) /\ (rx = <<>> => rx' = <<>>)
        /\ at'[t] = "idle" /\ \A u \in I3cTasks \ {t} : at'[u] = at[u]
    BY <2>1, Left
  <2>5. I3cEmpty'
    BY <2>3, <2>4, EmptySeq DEF I3cEmpty
  <2>6. I3cAlone(t)' /\ I3cStage(t)'
    BY <2>2, <2>4, <2>5 DEF I3cAlone, I3cStage, I3cWaits
  <2> QED  BY <2>6, I3cStepped
<1>15. ASSUME NEW t \in I3cTasks, NEW k \in {"write", "read", "ccc", "rstdaa"}, NEW n \in
           {0, 1}, I3!Transfer(t, k, n) PROVE Undisturbed'
  <2> SUFFICES ASSUME clean' PROVE Undisturbed'
    BY DEF Undisturbed
  <2>1. I3!Issue(t, k, n) /\ k \in I3!Kinds /\ n \in Nat
    BY <1>15, I3cConstants DEF I3!Transfer, I3!Kinds
  <2>2. /\ clean /\ polled = t /\ at[t] = "idle" /\ \A u \in I3cTasks : ~I3!Waiting(u)
        /\ UNCHANGED <<resps, rx>>
    BY <2>1 DEF I3!Issue, I3!Running
  <2>3. I3cAlone(t) /\ I3cEmpty
    BY <2>2, I3cStill
  <2>4. /\ Len(cmds') = Len(cmds) + 1 /\ cmds'[Len(cmds) + 1] = [of |-> t, kind |-> k, len |-> n]
        /\ op'[t] = [of |-> t, kind |-> k, len |-> n]
        /\ \A u \in I3cTasks \ {t} : at'[u] = at[u]
        /\ at'[t] = "check"
        /\ tx = <<>> => Len(tx') = IF k \in {"write", "ccc"} THEN n ELSE 0
    BY <2>1, Issued
  <2>5. Len(cmds') = 1 /\ cmds'[1] = op'[t]
    BY <2>3, <2>4 DEF I3cEmpty
  <2>6. k = "daa" => \A s \in 0..(n - 1) : i3Dat'[s] = I3!Address(s)
    BY <1>15
  <2>7. Asked(t)'
    BY <2>2, <2>3, <2>4, <2>5, <2>6 DEF Asked, I3cEmpty
  <2>8. I3cAlone(t)' /\ I3cStage(t)'
    BY <2>3, <2>4, <2>7 DEF I3cAlone, I3cStage, I3cWaits
  <2> QED  BY <2>8, I3cStepped
<1>16. ASSUME NEW t \in I3cTasks, NEW n \in 1..MaxSlots, I3!Entdaa(t, n) PROVE Undisturbed'
  <2> SUFFICES ASSUME clean' PROVE Undisturbed'
    BY DEF Undisturbed
  <2>1. I3!Issue(t, "daa", n) /\ "daa" \in I3!Kinds /\ n \in Nat
    BY <1>16, I3cConstants DEF I3!Entdaa, I3!Kinds
  <2>2. /\ clean /\ polled = t /\ at[t] = "idle" /\ \A u \in I3cTasks : ~I3!Waiting(u)
        /\ UNCHANGED <<resps, rx>>
    BY <2>1 DEF I3!Issue, I3!Running
  <2>3. I3cAlone(t) /\ I3cEmpty
    BY <2>2, I3cStill
  <2>4. /\ Len(cmds') = Len(cmds) + 1 /\ cmds'[Len(cmds) + 1] = [of |-> t, kind |-> "daa", len |-> n]
        /\ op'[t] = [of |-> t, kind |-> "daa", len |-> n]
        /\ \A u \in I3cTasks \ {t} : at'[u] = at[u]
        /\ at'[t] = "check"
        /\ tx = <<>> => Len(tx') = IF "daa" \in {"write", "ccc"} THEN n ELSE 0
    BY <2>1, Issued
  <2>5. Len(cmds') = 1 /\ cmds'[1] = op'[t]
    BY <2>3, <2>4 DEF I3cEmpty
  <2>6. "daa" = "daa" => \A s \in 0..(n - 1) : i3Dat'[s] = I3!Address(s)
    <3>1. \A s \in 0..(n - 1) : s \in I3!Slots /\ s < n
      BY I3cConstants, <1>16 DEF I3!Slots
    <3> QED  BY <1>16, <3>1 DEF I3!Entdaa
  <2>7. Asked(t)'
    BY <2>2, <2>3, <2>4, <2>5, <2>6 DEF Asked, I3cEmpty
  <2>8. I3cAlone(t)' /\ I3cStage(t)'
    BY <2>3, <2>4, <2>7 DEF I3cAlone, I3cStage, I3cWaits
  <2> QED  BY <2>8, I3cStepped
<1>17. ASSUME NEW t \in I3cTasks, NEW s \in 0..MaxSlots, NEW a \in {0, I3!Address(0)},
           I3!SetSlot(t, s, a) PROVE Undisturbed'
  <2> SUFFICES ASSUME clean' PROVE Undisturbed'
    BY DEF Undisturbed
  <2>1. /\ clean /\ polled = t /\ at[t] = "idle" /\ \A u \in I3cTasks : ~I3!Waiting(u)
        /\ UNCHANGED <<cmds, resps, tx, rx, at>>
    BY <1>17 DEF I3!SetSlot, I3!Running, I3!queueVars
  <2>2. I3cAlone(t) /\ I3cEmpty
    BY <2>1, I3cStill
  <2>3. I3cAlone(t)' /\ I3cStage(t)'
    BY <2>1, <2>2 DEF I3cAlone, I3cStage, I3cWaits, I3cEmpty
  <2> QED  BY <2>3, I3cStepped
<1>18. CASE UNCHANGED I3!i3cVars
  <2>1. UNCHANGED <<cmds, resps, tx, rx, i3Dat, dct, addr, at, op, i3Took, clean>>
    BY <1>18 DEF I3!i3cVars, I3!queueVars, I3!busVars, I3!runVars
  <2> QED  BY <2>1, I3cSameStage
<1> QED
  BY <1>1, <1>2, <1>3, <1>4, <1>5, <1>6, <1>7, <1>8, <1>9, <1>10, <1>11, <1>12, <1>13, <1>14,
     <1>15, <1>16, <1>17, <1>18 DEF I3!Next, I3!Inside

-----------------------------------------------------------------------------
(* The wake-ups of the I3C master.                                         *)

\* The waker of the one task that waits is the registered one, and a response
\* that it has not looked at is about to wake it.
I3cWaked ==
  /\ \A t \in I3cTasks : clean /\ at[t] \in {"recheck", "pending"} => wakerI3c = t
  /\ I3!NoLostWakeup

\* A step that takes no waiting task out of the run queue loses no wake-up.
LEMMA I3cSameWaits ==
  ASSUME I3cWaked, UNCHANGED <<resps, irqI3c, wakerI3c, at, clean, inIsr>>,
         \A t \in I3cTasks : at[t] = "pending" /\ t \in runq => t \in runq'
  PROVE  I3cWaked'
  BY DEF I3cWaked, I3!NoLostWakeup

\* The waker is registered before the queue is looked at again, and nobody else
\* registers meanwhile.
LEMMA I3cWakes ==
  I3!TypeOK /\ Undisturbed /\ I3cWaked /\ [I3!Next]_(I3!i3cVars)
    => I3cWaked'
<1> SUFFICES ASSUME I3!TypeOK /\ Undisturbed /\ I3cWaked, [I3!Next]_(I3!i3cVars) PROVE
             I3cWaked'
  OBVIOUS
<1>1. ASSUME NEW k \in BOOLEAN, I3!Send(k) PROVE I3cWaked'
  <2>1. irqI3c' = TRUE /\ (clean' => clean) /\ UNCHANGED <<at, wakerI3c>>
    BY <1>1 DEF I3!Send, I3!Respond, I3!Env
  <2> QED  BY <2>1 DEF I3cWaked, I3!NoLostWakeup
<1>2. ASSUME NEW k \in BOOLEAN, I3!Receive(k) PROVE I3cWaked'
  <2>1. irqI3c' = TRUE /\ (clean' => clean) /\ UNCHANGED <<at, wakerI3c>>
    BY <1>2 DEF I3!Receive, I3!Respond, I3!Env
  <2> QED  BY <2>1 DEF I3cWaked, I3!NoLostWakeup
<1>3. ASSUME NEW k \in BOOLEAN, I3!Assign(k) PROVE I3cWaked'
  <2>1. irqI3c' = TRUE /\ (clean' => clean) /\ UNCHANGED <<at, wakerI3c>>
    BY <1>3 DEF I3!Assign, I3!Respond, I3!Env
  <2> QED  BY <2>1 DEF I3cWaked, I3!NoLostWakeup
<1>4. CASE I3!IsrEnter
  BY <1>4 DEF I3cWaked, I3!NoLostWakeup, I3!IsrEnter, I3!queueVars, I3!runVars
<1>5. CASE I3!IsrWake
  <2>1. UNCHANGED <<resps, irqI3c, wakerI3c, at, clean>> /\ runq' = runq \cup ({wakerI3c} \ {None})
    BY <1>5 DEF I3!IsrWake, I3!queueVars
  <2>2. \A t \in I3cTasks : clean /\ at[t] = "pending" => t \in runq'
    BY <2>1, I3cConstants DEF I3cWaked
  <2> QED  BY <2>1, <2>2 DEF I3cWaked, I3!NoLostWakeup
<1>6. ASSUME NEW t \in I3cTasks, I3!Poll(t) PROVE I3cWaked'
  <2>1. /\ UNCHANGED <<resps, irqI3c, wakerI3c, clean, inIsr>> /\ runq' = runq \ {t}
        /\ at'[t] # "pending" /\ \A u \in I3cTasks \ {t} : at'[u] = at[u]
        /\ at'[t] = "recheck" => at[t] = "recheck"
    BY <1>6 DEF I3!Poll, I3!Goto, I3!TypeOK, I3!queueVars
  <2> QED  BY <2>1 DEF I3cWaked, I3!NoLostWakeup
<1>7. ASSUME NEW t \in I3cTasks, I3!OtherWake(t) PROVE I3cWaked'
  BY <1>7, I3cSameWaits DEF I3!OtherWake, I3!queueVars, I3!busVars, I3!runVars
<1>8. ASSUME NEW t \in I3cTasks, I3!Cancel(t) PROVE I3cWaked'
  BY <1>8 DEF I3!Cancel, I3cWaked, I3!NoLostWakeup
<1>9. ASSUME NEW t \in I3cTasks, I3!Yield(t) PROVE I3cWaked'
  BY <1>9, I3cSameWaits DEF I3!Yield, I3!queueVars, I3!busVars, I3!runVars
<1>10. ASSUME NEW t \in I3cTasks, I3!Check(t) PROVE I3cWaked'
  <2> SUFFICES ASSUME clean' PROVE I3cWaked'
    BY DEF I3cWaked, I3!NoLostWakeup
  <2>1. UNCHANGED <<irqI3c, wakerI3c, clean, runq, inIsr>> /\ at[t] \in {"check", "recheck"}
    BY <1>10 DEF I3!Check
  <2>2. I3cAlone(t)
    BY <2>1, I3cSole
  <2>3. /\ \A u \in I3cTasks \ {t} : at'[u] = at[u]
        /\ at'[t] \in {"over", "register", "pending"}
        /\ at'[t] = "pending" => resps' = <<>> /\ at[t] = "recheck"
    BY <1>10 DEF I3!Check, I3!Take, I3!Goto, I3!TypeOK
  <2> QED  BY <2>1, <2>2, <2>3 DEF I3cWaked, I3!NoLostWakeup, I3cAlone
<1>11. ASSUME NEW t \in I3cTasks, I3!Register(t) PROVE I3cWaked'
  <2> SUFFICES ASSUME clean' PROVE I3cWaked'
    BY DEF I3cWaked, I3!NoLostWakeup
  <2>1. /\ UNCHANGED <<resps, irqI3c, clean, runq, inIsr>> /\ at[t] = "register" /\ wakerI3c' = t
        /\ at'[t] = "recheck" /\ \A u \in I3cTasks \ {t} : at'[u] = at[u]
    BY <1>11 DEF I3!Register, I3!Goto, I3!TypeOK, I3!runVars, I3!queueVars
  <2>2. I3cAlone(t)
    BY <2>1, I3cSole
  <2> QED  BY <2>1, <2>2 DEF I3cWaked, I3!NoLostWakeup, I3cAlone
<1>12. ASSUME NEW t \in I3cTasks, I3!Recheck(t) PROVE I3cWaked'
  <2> SUFFICES ASSUME clean' PROVE I3cWaked'
    BY DEF I3cWaked, I3!NoLostWakeup
  <2>1. UNCHANGED <<irqI3c, wakerI3c, clean, runq, inIsr>> /\ at[t] \in {"check", "recheck"}
    BY <1>12 DEF I3!Recheck
  <2>2. I3cAlone(t)
    BY <2>1, I3cSole
  <2>3. /\ \A u \in I3cTasks \ {t} : at'[u] = at[u]
        /\ at'[t] \in {"over", "register", "pending"}
        /\ at'[t] = "pending" => resps' = <<>> /\ at[t] = "recheck"
    BY <1>12 DEF I3!Recheck, I3!Take, I3!Goto, I3!TypeOK
  <2> QED  BY <2>1, <2>2, <2>3 DEF I3cWaked, I3!NoLostWakeup, I3cAlone
<1>13. ASSUME NEW t \in I3cTasks, I3!Pop(t) PROVE I3cWaked'
  <2>1. /\ UNCHANGED <<resps, irqI3c, wakerI3c, clean, runq, inIsr>>
        /\ at'[t] = "done" /\ \A u \in I3cTasks \ {t} : at'[u] = at[u]
    BY <1>13 DEF I3!Pop, I3!Goto, I3!TypeOK, I3!runVars
  <2> QED  BY <2>1 DEF I3cWaked, I3!NoLostWakeup
<1>14. ASSUME NEW t \in I3cTasks, I3!Finish(t) PROVE I3cWaked'
  <2> SUFFICES ASSUME clean' PROVE I3cWaked'
    BY DEF I3cWaked, I3!NoLostWakeup
  <2>1. /\ UNCHANGED <<irqI3c, wakerI3c, clean, runq, inIsr>> /\ at[t] # "idle"
    BY <1>14 DEF I3!Finish, I3!runVars
  <2>2. I3cAlone(t)
    BY <2>1, I3cSole
  <2>3. at'[t] = "idle" /\ \A u \in I3cTasks \ {t} : at'[u] = at[u]
    BY <1>14, Left DEF I3!Finish
  <2> QED  BY <2>2, <2>3 DEF I3cWaked, I3!NoLostWakeup, I3cAlone
<1>15. ASSUME NEW t \in I3cTasks, NEW k \in {"write", "read", "ccc", "rstdaa"}, NEW n \in
           {0, 1}, I3!Transfer(t, k, n) PROVE I3cWaked'
  <2>1. I3!Issue(t, k, n) /\ k \in I3!Kinds /\ n \in Nat
    BY <1>15, I3cConstants DEF I3!Transfer, I3!Kinds
  <2>2. (clean' => clean) /\ UNCHANGED <<resps, irqI3c, wakerI3c, runq, inIsr>>
    BY <2>1 DEF I3!Issue, I3!runVars
  <2>3. at'[t] = "check" /\ \A u \in I3cTasks \ {t} : at'[u] = at[u]
    BY <2>1, Issued
  <2> QED  BY <2>2, <2>3 DEF I3cWaked, I3!NoLostWakeup
<1>16. ASSUME NEW t \in I3cTasks, NEW n \in 1..MaxSlots, I3!Entdaa(t, n) PROVE I3cWaked'
  <2>1. I3!Issue(t, "daa", n) /\ "daa" \in I3!Kinds /\ n \in Nat
    BY <1>16, I3cConstants DEF I3!Entdaa, I3!Kinds
  <2>2. (clean' => clean) /\ UNCHANGED <<resps, irqI3c, wakerI3c, runq, inIsr>>
    BY <2>1 DEF I3!Issue, I3!runVars
  <2>3. at'[t] = "check" /\ \A u \in I3cTasks \ {t} : at'[u] = at[u]
    BY <2>1, Issued
  <2> QED  BY <2>2, <2>3 DEF I3cWaked, I3!NoLostWakeup
<1>17. ASSUME NEW t \in I3cTasks, NEW s \in 0..MaxSlots, NEW a \in {0, I3!Address(0)},
           I3!SetSlot(t, s, a) PROVE I3cWaked'
  <2>1. (clean' => clean) /\ UNCHANGED <<resps, irqI3c, wakerI3c, at, inIsr, runq>>
    BY <1>17 DEF I3!SetSlot, I3!queueVars, I3!runVars
  <2> QED  BY <2>1 DEF I3cWaked, I3!NoLostWakeup
<1>18. CASE UNCHANGED I3!i3cVars
  BY <1>18, I3cSameWaits DEF I3!i3cVars, I3!queueVars, I3!busVars, I3!runVars
<1> QED
  BY <1>1, <1>2, <1>3, <1>4, <1>5, <1>6, <1>7, <1>8, <1>9, <1>10, <1>11, <1>12, <1>13, <1>14,
     <1>15, <1>16, <1>17, <1>18 DEF I3!Next, I3!Inside

I3cInv == I3!TypeOK /\ SlotsEnough /\ PolledRight /\ I3!Lag /\ Undisturbed /\ I3cWaked

\* I3cMaster::new resets the queues.
LEMMA I3cInit == I3!Init => I3cInv
<1> SUFFICES ASSUME I3!Init PROVE I3cInv
  OBVIOUS
<1>1. I3!TypeOK
  <2>1. <<>> \in Seq(I3!Commands) /\ <<>> \in Seq(I3!Responses) /\ <<>> \in Seq(I3cTasks \cup {None})
    OBVIOUS
  <2>2. I3!NoCommand \in I3!Commands /\ I3!NoResponse \in I3!Responses
    BY DEF I3!NoCommand, I3!NoResponse, I3!Commands, I3!Responses, I3!Kinds
  <2>3. [resp |-> I3!NoResponse, own |-> TRUE] \in [resp : I3!Responses, own : BOOLEAN]
    BY <2>2
  <2>4. /\ op \in [I3cTasks -> I3!Commands] /\ i3Took \in [I3cTasks -> [resp : I3!Responses, own : BOOLEAN]]
        /\ dropped \in 0..MaxDrops /\ i3Dat \in [I3!Slots -> I3!Addresses] /\ addr \in [Devices -> I3!Addresses]
    BY <2>2, <2>3, I3cConstants DEF I3!Init, I3!Addresses
  <2>5. /\ dct \in [I3!Slots -> Devices \cup {None}] /\ at \in [I3cTasks -> I3cStates]
        /\ irqI3c \in BOOLEAN /\ wakerI3c \in I3cTasks \cup {None} /\ clean \in BOOLEAN
        /\ runq \subseteq I3cTasks /\ polled \in I3cTasks \cup {None} /\ inIsr \in BOOLEAN
    BY DEF I3!Init, I3cStates
  <2>6. /\ cmds \in Seq(I3!Commands) /\ resps \in Seq(I3!Responses)
        /\ tx \in Seq(I3cTasks \cup {None}) /\ rx \in Seq(I3cTasks \cup {None})
    BY <2>1 DEF I3!Init
  <2> QED  BY <2>4, <2>5, <2>6 DEF I3!TypeOK, I3cStates
<1>2. at = [t \in I3cTasks |-> "idle"] /\ cmds = <<>> /\ resps = <<>> /\ tx = <<>> /\ rx = <<>> /\ dropped = 0
  BY DEF I3!Init
<1>3. SlotsEnough
  BY <1>2 DEF SlotsEnough
<1>4. PolledRight /\ Undisturbed /\ I3cWaked
  BY <1>2 DEF PolledRight, Undisturbed, I3cEmpty, I3cWaked, I3!NoLostWakeup
<1>5. I3!Lag
  <2>1. I3cWaiters = {}
    BY <1>2 DEF I3cWaiters, I3!Waiting
  <2>2. Cardinality(I3cWaiters) = 0
    BY <2>1, FS_EmptySet
  <2>3. Len(cmds) + Len(resps) = dropped + Cardinality(I3cWaiters)
    BY <1>2, <2>2
  <2> QED  BY <2>3, LagIs
<1> QED  BY <1>1, <1>3, <1>4, <1>5 DEF I3cInv

\* What the inductive invariant says of the responses.
LEMMA I3cImplies == I3cInv => I3!TypeOK /\ I3!Lag /\ I3!OwnResponse /\ I3!DaaResults /\ I3!NoLostWakeup
<1> SUFFICES ASSUME I3cInv PROVE I3!OwnResponse /\ I3!DaaResults
  BY DEF I3cInv, I3cWaked
<1>1. ASSUME NEW t \in I3cTasks, clean, at[t] \in {"over", "done"}
      PROVE  i3Took[t].resp.of = t /\ i3Took[t].own
  BY <1>1 DEF I3cInv, Undisturbed, I3cStage, Held, Done, Answers
<1>2. ASSUME clean, \A t \in I3cTasks : at[t] = "idle" PROVE rx = <<>> /\ tx = <<>>
  BY <1>2 DEF I3cInv, Undisturbed, I3cEmpty
<1>3. ASSUME NEW t \in I3cTasks, clean, at[t] = "over", op[t].kind = "daa"
      PROVE  \A s \in 0..(i3Took[t].resp.len - 1) : addr[dct[s]] = I3!Address(s)
  BY <1>3 DEF I3cInv, Undisturbed, I3cStage, Held, Answers
<1> QED  BY <1>1, <1>2, <1>3 DEF I3!OwnResponse, I3!DaaResults

\* Every step keeps the invariant.
LEMMA I3cKept == I3cInv /\ [I3!Next]_(I3!i3cVars) => I3cInv'
<1> SUFFICES ASSUME I3cInv, [I3!Next]_(I3!i3cVars) PROVE I3cInv'
  OBVIOUS
<1>1. I3!TypeOK /\ SlotsEnough /\ PolledRight /\ I3!Lag /\ Undisturbed /\ I3cWaked
  BY DEF I3cInv
<1>2. I3!TypeOK' /\ SlotsEnough' /\ PolledRight' /\ Undisturbed' /\ I3cWaked'
  BY <1>1, I3cType, I3cSlots, I3cPolled, I3cUndisturbed, I3cWakes
<1>3. I3!Lag'
  BY <1>1, <1>2, I3cLag
<1> QED  BY <1>2, <1>3 DEF I3cInv

\* Every transfer takes one response; while nothing was dropped, met another or
\* failed, it is the own one, with the own words and addresses, and wakes.
THEOREM I3cRight == I3!Spec => []I3cInv
  BY I3cKept, I3cInit, PTL DEF I3!Spec

-----------------------------------------------------------------------------
(* The countdown timers.                                                   *)

\* The handler serves one of the timers, and the waker of a timer that one task
\* uses is that of the wait that was the last to register.
TimerHandler == tmIsrPc # "off" => isrNo \in Timers

TimerRegistered ==
  \A t \in Sleepers : Tm!Sole(t) /\ tmPc[t] \in {"recheck", "pending"} =>
     tmWakers[TimerOf[t]] = t

TimerInv == Tm!TypeOK /\ TimerHandler /\ TimerRegistered /\ Tm!NoLostWakeup

\* All timers are off.
LEMMA TimerInit == Tm!Init => TimerInv
<1> SUFFICES ASSUME Tm!Init PROVE TimerInv
  OBVIOUS
<1>1. Tm!TypeOK
  <2>1. en \in [Timers -> BOOLEAN]
    BY DEF Tm!Init
  <2>2. tmPc \in [Sleepers -> Tm!WaitSteps \cup {"idle", "enable"}]
    BY DEF Tm!Init
  <2>3. reload \in [Timers -> Nat] /\ cnt \in [Timers -> Nat]
        /\ tmWakers \in [Timers -> Sleepers \cup {None}]
    BY DEF Tm!Init
  <2>4. tmStatus = {} /\ due = {} /\ tmReady = Sleepers /\ tmCur = None /\ isrNo = None
        /\ tmIsrPc = "off"
    BY DEF Tm!Init
  <2> QED  BY <2>1, <2>2, <2>3, <2>4 DEF Tm!TypeOK
<1>2. TimerHandler /\ TimerRegistered /\ Tm!NoLostWakeup
  BY DEF Tm!Init, TimerHandler, TimerRegistered, Tm!NoLostWakeup
<1> QED  BY <1>1, <1>2 DEF TimerInv

\* Every step keeps the types.
LEMMA TimerType ==
  Tm!TypeOK /\ TimerHandler /\ [Tm!Next]_(Tm!vars)
    => (Tm!TypeOK /\ TimerHandler)'
<1> SUFFICES ASSUME Tm!TypeOK /\ TimerHandler, [Tm!Next]_(Tm!vars) PROVE (Tm!TypeOK /\
             TimerHandler)'
  OBVIOUS
<1> USE PartsAssumption DEF Tm!TimerAssumption, Tm!TypeOK, Tm!WaitSteps, TimerHandler,
       Tm!hwVars, Tm!taskVars, Tm!isrVars
<1>1. ASSUME NEW n \in Timers, Tm!Tick(n) PROVE (Tm!TypeOK /\ TimerHandler)'
  BY <1>1 DEF Tm!Tick
<1>2. ASSUME NEW n \in Timers, Tm!IsrEnter(n) PROVE (Tm!TypeOK /\ TimerHandler)'
  BY <1>2 DEF Tm!IsrEnter
<1>3. CASE Tm!IsrClear
  BY <1>3 DEF Tm!IsrClear
<1>4. CASE Tm!IsrWake
  BY <1>4 DEF Tm!IsrWake
<1>5. ASSUME NEW t \in Sleepers, Tm!Poll(t) PROVE (Tm!TypeOK /\ TimerHandler)'
  BY <1>5 DEF Tm!Poll, Tm!Goto
<1>6. ASSUME NEW t \in Sleepers, Tm!OtherWake(t) PROVE (Tm!TypeOK /\ TimerHandler)'
  BY <1>6 DEF Tm!OtherWake
<1>7. ASSUME NEW t \in Sleepers, Tm!Cancel(t) PROVE (Tm!TypeOK /\ TimerHandler)'
  BY <1>7 DEF Tm!Cancel, Tm!Goto
<1>8. ASSUME NEW t \in Sleepers, Tm!Yield(t) PROVE (Tm!TypeOK /\ TimerHandler)'
  BY <1>8 DEF Tm!Yield, Tm!Running
<1>9. ASSUME NEW t \in Sleepers, Tm!Stop(t) PROVE (Tm!TypeOK /\ TimerHandler)'
  BY <1>9 DEF Tm!Stop, Tm!Running
<1>10. ASSUME NEW t \in Sleepers, Tm!BeginWait(t) PROVE (Tm!TypeOK /\ TimerHandler)'
  BY <1>10 DEF Tm!BeginWait, Tm!Running, Tm!Goto
<1>11. ASSUME NEW t \in Sleepers, NEW p \in Periods, Tm!StartReload(t, p) PROVE (Tm!TypeOK
           /\ TimerHandler)'
  BY <1>11 DEF Tm!StartReload, Tm!Running, Tm!Goto
<1>12. ASSUME NEW t \in Sleepers, Tm!StartEnable(t) PROVE (Tm!TypeOK /\ TimerHandler)'
  BY <1>12 DEF Tm!StartEnable, Tm!Running, Tm!Goto
<1>13. ASSUME NEW t \in Sleepers, Tm!Check(t) PROVE (Tm!TypeOK /\ TimerHandler)'
  BY <1>13 DEF Tm!Check, Tm!Running, Tm!Goto
<1>14. ASSUME NEW t \in Sleepers, Tm!Take(t) PROVE (Tm!TypeOK /\ TimerHandler)'
  BY <1>14 DEF Tm!Take, Tm!Running, Tm!Goto
<1>15. ASSUME NEW t \in Sleepers, Tm!Register(t) PROVE (Tm!TypeOK /\ TimerHandler)'
  BY <1>15 DEF Tm!Register, Tm!Running, Tm!Goto
<1>16. ASSUME NEW t \in Sleepers, Tm!Recheck(t) PROVE (Tm!TypeOK /\ TimerHandler)'
  BY <1>16 DEF Tm!Recheck, Tm!Running, Tm!Goto
<1>17. CASE UNCHANGED Tm!vars
  BY <1>17 DEF Tm!vars
<1> QED
  BY <1>1, <1>2, <1>3, <1>4, <1>5, <1>6, <1>7, <1>8, <1>9, <1>10, <1>11, <1>12, <1>13, <1>14,
     <1>15, <1>16, <1>17 DEF Tm!Next, Tm!Isr, Tm!Inside

\* A waiting task stays registered, and an expiry that it has not seen is on its
\* way to it.
LEMMA TimerStep == TimerInv /\ [Tm!Next]_(Tm!vars) => (TimerRegistered /\ Tm!NoLostWakeup)'
<1> SUFFICES ASSUME TimerInv, [Tm!Next]_(Tm!vars) PROVE (TimerRegistered /\
             Tm!NoLostWakeup)'
  OBVIOUS
<1> USE PartsAssumption DEF Tm!TimerAssumption, TimerInv, Tm!TypeOK, Tm!WaitSteps,
       TimerHandler, TimerRegistered, Tm!NoLostWakeup, Tm!Sole, Tm!hwVars, Tm!taskVars,
       Tm!isrVars
<1>1. ASSUME NEW n \in Timers, Tm!Tick(n) PROVE (TimerRegistered /\ Tm!NoLostWakeup)'
  BY <1>1 DEF Tm!Tick
<1>2. ASSUME NEW n \in Timers, Tm!IsrEnter(n) PROVE (TimerRegistered /\ Tm!NoLostWakeup)'
  BY <1>2 DEF Tm!IsrEnter
<1>3. CASE Tm!IsrClear
  BY <1>3 DEF Tm!IsrClear
<1>4. CASE Tm!IsrWake
  BY <1>4 DEF Tm!IsrWake
<1>5. ASSUME NEW t \in Sleepers, Tm!Poll(t) PROVE (TimerRegistered /\ Tm!NoLostWakeup)'
  BY <1>5 DEF Tm!Poll, Tm!Goto
<1>6. ASSUME NEW t \in Sleepers, Tm!OtherWake(t) PROVE (TimerRegistered /\ Tm!NoLostWakeup)'
  BY <1>6 DEF Tm!OtherWake
<1>7. ASSUME NEW t \in Sleepers, Tm!Cancel(t) PROVE (TimerRegistered /\ Tm!NoLostWakeup)'
  BY <1>7 DEF Tm!Cancel, Tm!Goto
<1>8. ASSUME NEW t \in Sleepers, Tm!Yield(t) PROVE (TimerRegistered /\ Tm!NoLostWakeup)'
  BY <1>8 DEF Tm!Yield, Tm!Running
<1>9. ASSUME NEW t \in Sleepers, Tm!Stop(t) PROVE (TimerRegistered /\ Tm!NoLostWakeup)'
  BY <1>9 DEF Tm!Stop, Tm!Running
<1>10. ASSUME NEW t \in Sleepers, Tm!BeginWait(t) PROVE (TimerRegistered /\
           Tm!NoLostWakeup)'
  BY <1>10 DEF Tm!BeginWait, Tm!Running, Tm!Goto
<1>11. ASSUME NEW t \in Sleepers, NEW p \in Periods, Tm!StartReload(t, p) PROVE
           (TimerRegistered /\ Tm!NoLostWakeup)'
  BY <1>11 DEF Tm!StartReload, Tm!Running, Tm!Goto
<1>12. ASSUME NEW t \in Sleepers, Tm!StartEnable(t) PROVE (TimerRegistered /\
           Tm!NoLostWakeup)'
  BY <1>12 DEF Tm!StartEnable, Tm!Running, Tm!Goto
<1>13. ASSUME NEW t \in Sleepers, Tm!Check(t) PROVE (TimerRegistered /\ Tm!NoLostWakeup)'
  BY <1>13 DEF Tm!Check, Tm!Running, Tm!Goto
<1>14. ASSUME NEW t \in Sleepers, Tm!Take(t) PROVE (TimerRegistered /\ Tm!NoLostWakeup)'
  BY <1>14 DEF Tm!Take, Tm!Running, Tm!Goto
<1>15. ASSUME NEW t \in Sleepers, Tm!Register(t) PROVE (TimerRegistered /\ Tm!NoLostWakeup)'
  BY <1>15 DEF Tm!Register, Tm!Running, Tm!Goto
<1>16. ASSUME NEW t \in Sleepers, Tm!Recheck(t) PROVE (TimerRegistered /\ Tm!NoLostWakeup)'
  BY <1>16 DEF Tm!Recheck, Tm!Running, Tm!Goto
<1>17. CASE UNCHANGED Tm!vars
  BY <1>17 DEF Tm!vars
<1> QED
  BY <1>1, <1>2, <1>3, <1>4, <1>5, <1>6, <1>7, <1>8, <1>9, <1>10, <1>11, <1>12, <1>13, <1>14,
     <1>15, <1>16, <1>17 DEF Tm!Next, Tm!Isr, Tm!Inside

\* Every step keeps the invariant.
LEMMA TimerKept == TimerInv /\ [Tm!Next]_(Tm!vars) => TimerInv'
  BY TimerType, TimerStep DEF TimerInv

\* A wait that is alone on its timer is woken by every overflow it waits for.
THEOREM TimerRight == Tm!Spec => []TimerInv
  BY TimerKept, TimerInit, PTL DEF Tm!Spec

-----------------------------------------------------------------------------
(* The hash engine.                                                        *)

\* An operation is still to be started whenever one is about to be.
HashSteps == \A t \in Hashers : hpc[t] = "start" => steps[t] > 0

\* An operation that was started and is awaited is under way or has ended.
HashWritten ==
  \A t \in Hashers :
     /\ hpc[t] \in {"check", "register", "recheck", "pending"} => engine = t \/ written[t]
     /\ hpc[t] = "over" => written[t]

\* While a hash counts as having met no other there is no other, so that its
\* waker stays registered.
HashAlone ==
  \A t \in Hashers : alone[t] /\ hpc[t] # "idle" =>
     /\ \A u \in Hashers \ {t} : hpc[u] = "idle"
     /\ hpc[t] \in {"recheck", "pending"} => wakerHace = t

HashInv == Ha!TypeOK /\ HashSteps /\ HashWritten /\ HashAlone /\ Ha!NoLostWakeup

\* The engine is idle.
LEMMA HashInit == Ha!Init => HashInv
<1> SUFFICES ASSUME Ha!Init PROVE HashInv
  OBVIOUS
<1>1. Ha!TypeOK
  <2>1. written \in [Hashers -> BOOLEAN] /\ alone \in [Hashers -> BOOLEAN]
    BY DEF Ha!Init
  <2>2. hpc \in [Hashers -> {"idle", "start", "check", "register", "recheck", "pending", "over"}]
    BY DEF Ha!Init
  <2>3. steps \in [Hashers -> 0..2]
    BY DEF Ha!Init
  <2>4. hisr \in BOOLEAN /\ irqHace \in BOOLEAN
    BY DEF Ha!Init
  <2>5. engine = None /\ wakerHace = None /\ hcur = None /\ hready = Hashers
    BY DEF Ha!Init
  <2> QED  BY <2>1, <2>2, <2>3, <2>4, <2>5 DEF Ha!TypeOK
<1>2. HashSteps /\ HashWritten /\ HashAlone /\ Ha!NoLostWakeup
  BY DEF Ha!Init, HashSteps, HashWritten, HashAlone, Ha!NoLostWakeup
<1> QED  BY <1>1, <1>2 DEF HashInv

\* Every step keeps the types.
LEMMA HashType == Ha!TypeOK /\ HashSteps /\ [Ha!Next]_(Ha!haceVars) => Ha!TypeOK'
<1> SUFFICES ASSUME Ha!TypeOK /\ HashSteps, [Ha!Next]_(Ha!haceVars) PROVE Ha!TypeOK'
  OBVIOUS
<1> USE DEF Ha!TypeOK, HashSteps
<1>1. ASSUME NEW d \in BOOLEAN, Ha!Complete(d) PROVE Ha!TypeOK'
  BY <1>1 DEF Ha!Complete
<1>2. CASE Ha!IsrEnter
  BY <1>2 DEF Ha!IsrEnter
<1>3. CASE Ha!IsrWake
  BY <1>3 DEF Ha!IsrWake
<1>4. ASSUME NEW t \in Hashers, Ha!Poll(t) PROVE Ha!TypeOK'
  BY <1>4 DEF Ha!Poll, Ha!Goto
<1>5. ASSUME NEW t \in Hashers, Ha!OtherWake(t) PROVE Ha!TypeOK'
  BY <1>5 DEF Ha!OtherWake
<1>6. ASSUME NEW t \in Hashers, Ha!Cancel(t) PROVE Ha!TypeOK'
  BY <1>6 DEF Ha!Cancel, Ha!Goto
<1>7. ASSUME NEW t \in Hashers, Ha!Yield(t) PROVE Ha!TypeOK'
  BY <1>7 DEF Ha!Yield, Ha!Running
<1>8. ASSUME NEW t \in Hashers, NEW n \in 1..2, Ha!Begin(t, n) PROVE Ha!TypeOK'
  <2>1. alone' \in [Hashers -> BOOLEAN]
    BY <1>8 DEF Ha!Begin
  <2>2. steps' \in [Hashers -> 0..2] /\ hpc' \in [Hashers ->
          {"idle", "start", "check", "register", "recheck", "pending", "over"}]
    BY <1>8 DEF Ha!Begin, Ha!Goto
  <2> QED  BY <1>8, <2>1, <2>2 DEF Ha!Begin
<1>9. ASSUME NEW t \in Hashers, Ha!Start(t) PROVE Ha!TypeOK'
  <2>1. steps[t] - 1 \in 0..2
    BY <1>9 DEF Ha!Start
  <2>2. steps' \in [Hashers -> 0..2]
    BY <1>9, <2>1 DEF Ha!Start, Ha!Load
  <2> QED  BY <1>9, <2>2 DEF Ha!Start, Ha!Load, Ha!Goto
<1>10. ASSUME NEW t \in Hashers, Ha!Check(t) PROVE Ha!TypeOK'
  BY <1>10 DEF Ha!Check, Ha!Running, Ha!Look, Ha!Goto
<1>11. ASSUME NEW t \in Hashers, Ha!Register(t) PROVE Ha!TypeOK'
  BY <1>11 DEF Ha!Register, Ha!Running, Ha!Goto
<1>12. ASSUME NEW t \in Hashers, Ha!Recheck(t) PROVE Ha!TypeOK'
  BY <1>12 DEF Ha!Recheck, Ha!Running, Ha!Look, Ha!Goto
<1>13. ASSUME NEW t \in Hashers, Ha!Return(t) PROVE Ha!TypeOK'
  BY <1>13 DEF Ha!Return, Ha!Running, Ha!Goto
<1>14. CASE UNCHANGED Ha!haceVars
  BY <1>14 DEF Ha!haceVars
<1> QED
  BY <1>1, <1>2, <1>3, <1>4, <1>5, <1>6, <1>7, <1>8, <1>9, <1>10, <1>11, <1>12, <1>13, <1>14
     DEF Ha!Next

\* An operation is given up for another only after it has been written.
LEMMA HashStep ==
  HashInv /\ [Ha!Next]_(Ha!haceVars)
    => (HashSteps /\ HashWritten /\ HashAlone /\ Ha!NoLostWakeup)'
<1> SUFFICES ASSUME HashInv, [Ha!Next]_(Ha!haceVars) PROVE (HashSteps /\ HashWritten /\
             HashAlone /\ Ha!NoLostWakeup)'
  OBVIOUS
<1> USE PartsAssumption DEF HashInv, Ha!HaceAssumption, Ha!TypeOK, HashSteps, HashWritten,
       HashAlone, Ha!NoLostWakeup
<1>1. ASSUME NEW d \in BOOLEAN, Ha!Complete(d) PROVE (HashSteps /\ HashWritten /\ HashAlone
           /\ Ha!NoLostWakeup)'
  <2>1. engine \in Hashers /\ UNCHANGED <<hpc, alone, steps, wakerHace, hready, hisr>>
    BY <1>1 DEF Ha!Complete
  <2>2. /\ d = (hpc[engine] = "idle") /\ irqHace'
        /\ written' = [written EXCEPT ![engine] = ~d]
    BY <1>1 DEF Ha!Complete
  <2>3. HashSteps' /\ HashAlone' /\ (Ha!NoLostWakeup)'
    BY <2>1, <2>2
  <2>4. ASSUME NEW t \in Hashers
        PROVE  /\ hpc'[t] \in {"check", "register", "recheck", "pending"} => written'[t]
               /\ hpc'[t] = "over" => written'[t]
    <3>1. CASE t = engine
      BY <2>1, <2>2, <3>1
    <3>2. CASE t # engine
      BY <2>1, <2>2, <3>2
    <3> QED  BY <3>1, <3>2
  <2> QED  BY <2>3, <2>4
<1>2. CASE Ha!IsrEnter
  BY <1>2 DEF Ha!IsrEnter
<1>3. CASE Ha!IsrWake
  BY <1>3 DEF Ha!IsrWake
<1>4. ASSUME NEW t \in Hashers, Ha!Poll(t) PROVE (HashSteps /\ HashWritten /\ HashAlone /\
           Ha!NoLostWakeup)'
  BY <1>4 DEF Ha!Poll, Ha!Goto
<1>5. ASSUME NEW t \in Hashers, Ha!OtherWake(t) PROVE (HashSteps /\ HashWritten /\ HashAlone
           /\ Ha!NoLostWakeup)'
  BY <1>5 DEF Ha!OtherWake
<1>6. ASSUME NEW t \in Hashers, Ha!Cancel(t) PROVE (HashSteps /\ HashWritten /\ HashAlone /\
           Ha!NoLostWakeup)'
  BY <1>6 DEF Ha!Cancel, Ha!Goto
<1>7. ASSUME NEW t \in Hashers, Ha!Yield(t) PROVE (HashSteps /\ HashWritten /\ HashAlone /\
           Ha!NoLostWakeup)'
  BY <1>7 DEF Ha!Yield, Ha!Running
<1>8. ASSUME NEW t \in Hashers, NEW n \in 1..2, Ha!Begin(t, n) PROVE (HashSteps /\
           HashWritten /\ HashAlone /\ Ha!NoLostWakeup)'
  BY <1>8 DEF Ha!Begin, Ha!Running, Ha!Goto
<1>9. ASSUME NEW t \in Hashers, Ha!Start(t) PROVE (HashSteps /\ HashWritten /\ HashAlone /\
           Ha!NoLostWakeup)'
  BY <1>9 DEF Ha!Start, Ha!Running, Ha!Load, Ha!Goto
<1>10. ASSUME NEW t \in Hashers, Ha!Check(t) PROVE (HashSteps /\ HashWritten /\ HashAlone /\
           Ha!NoLostWakeup)'
  BY <1>10 DEF Ha!Check, Ha!Running, Ha!Look, Ha!Goto
<1>11. ASSUME NEW t \in Hashers, Ha!Register(t) PROVE (HashSteps /\ HashWritten /\ HashAlone
           /\ Ha!NoLostWakeup)'
  BY <1>11 DEF Ha!Register, Ha!Running, Ha!Goto
<1>12. ASSUME NEW t \in Hashers, Ha!Recheck(t) PROVE (HashSteps /\ HashWritten /\ HashAlone
           /\ Ha!NoLostWakeup)'
  BY <1>12 DEF Ha!Recheck, Ha!Running, Ha!Look, Ha!Goto
<1>13. ASSUME NEW t \in Hashers, Ha!Return(t) PROVE (HashSteps /\ HashWritten /\ HashAlone
           /\ Ha!NoLostWakeup)'
  BY <1>13 DEF Ha!Return, Ha!Running, Ha!Goto
<1>14. CASE UNCHANGED Ha!haceVars
  BY <1>14 DEF Ha!haceVars
<1> QED
  BY <1>1, <1>2, <1>3, <1>4, <1>5, <1>6, <1>7, <1>8, <1>9, <1>10, <1>11, <1>12, <1>13, <1>14
     DEF Ha!Next

\* Every step keeps the invariant.
LEMMA HashKept == HashInv /\ [Ha!Next]_(Ha!haceVars) => HashInv'
  BY HashType, HashStep DEF HashInv

\* A wait ends only after the engine has written what its own operation was to
\* write.
THEOREM HashRight == Ha!Spec => []HashInv
  BY HashKept, HashInit, PTL DEF Ha!Spec

-----------------------------------------------------------------------------
(* The RSA and the ECDSA engine.                                           *)

\* While a call has its engine to itself no other call uses it, the engine works
\* on its operands alone, and what is ready is its result.
RsaAlone ==
  \A t \in Signers : whole[t] /\ seRpc[t] = "polling" =>
     /\ \A u \in Signers \ {t} : seRpc[u] = "idle"
     /\ rsaRun \in {t, None}
     /\ rsaReady => rsaRun = None /\ sram.result = t

EccAlone ==
  \A t \in Verifiers : whole[t] /\ seRpc[t] \in {"enabled", "triggered", "polling"} =>
     /\ \A u \in Verifiers \ {t} : seRpc[u] = "idle"
     /\ eccRun \in {t, None} /\ eccDone \in {t, None}
     /\ seRpc[t] = "enabled" => eccRun = None

SecureInv == Se!TypeOK /\ RsaAlone /\ EccAlone /\ Se!OwnResult /\ Se!Wiped

\* Both engines are idle and the SRAM holds no key.
LEMMA SecureInit == Se!Init => SecureInv
<1> SUFFICES ASSUME Se!Init PROVE SecureInv
  OBVIOUS
<1>1. Se!TypeOK
  <2>1. seRpc \in [Se!Calls -> {"idle", "enabled", "triggered", "polling", "read", "late"}]
    BY DEF Se!Init
  <2>2. answer \in [Se!Calls -> Se!Values] /\ sram \in [operands : Se!Values, result : Se!Values]
    BY DEF Se!Init, Se!Values
  <2>3. whole \in [Se!Calls -> BOOLEAN]
    BY DEF Se!Init
  <2>4. /\ rsaRun = None /\ rsaReady = FALSE /\ scalars = None /\ eccOn = FALSE
        /\ eccRun = None /\ eccDone = None /\ trig = {}
    BY DEF Se!Init
  <2> QED  BY <2>1, <2>2, <2>3, <2>4 DEF Se!TypeOK, Se!Values
<1>2. RsaAlone /\ EccAlone /\ Se!OwnResult /\ Se!Wiped
  BY DEF Se!Init, RsaAlone, EccAlone, Se!OwnResult, Se!Wiped, Se!Calls
<1> QED  BY <1>1, <1>2 DEF SecureInv

\* Every step keeps the types.
LEMMA SecureType == Se!TypeOK /\ [Se!Next]_(Se!secureVars) => Se!TypeOK'
<1> SUFFICES ASSUME Se!TypeOK, [Se!Next]_(Se!secureVars) PROVE Se!TypeOK'
  OBVIOUS
<1> USE DEF Se!TypeOK, Se!Calls, Se!Values, Se!rsaVars, Se!eccVars, Se!callVars
<1>1. CASE Se!RsaComplete
  BY <1>1 DEF Se!RsaComplete
<1>2. CASE Se!EccComplete
  BY <1>2 DEF Se!EccComplete
<1>3. ASSUME NEW t \in Signers, Se!RsaStart(t) PROVE Se!TypeOK'
  BY <1>3 DEF Se!RsaStart, Se!Takes, Se!Goto
<1>4. ASSUME NEW t \in Signers, Se!RsaRead(t) PROVE Se!TypeOK'
  BY <1>4 DEF Se!RsaRead, Se!Wipe, Se!Mixed, Se!Goto
<1>5. ASSUME NEW t \in Signers, Se!RsaTimeout(t) PROVE Se!TypeOK'
  BY <1>5 DEF Se!RsaTimeout, Se!Wipe, Se!Mixed, Se!Goto
<1>6. ASSUME NEW t \in Verifiers, Se!EccEnable(t) PROVE Se!TypeOK'
  BY <1>6 DEF Se!EccEnable, Se!Takes, Se!Goto
<1>7. ASSUME NEW t \in Verifiers, Se!EccTrigger(t) PROVE Se!TypeOK'
  BY <1>7 DEF Se!EccTrigger, Se!Goto
<1>8. ASSUME NEW t \in Verifiers, Se!EccUntrigger(t) PROVE Se!TypeOK'
  BY <1>8 DEF Se!EccUntrigger, Se!Goto
<1>9. ASSUME NEW t \in Verifiers, Se!EccRead(t) PROVE Se!TypeOK'
  BY <1>9 DEF Se!EccRead, Se!Goto
<1>10. ASSUME NEW t \in Verifiers, Se!EccTimeout(t) PROVE Se!TypeOK'
  BY <1>10 DEF Se!EccTimeout, Se!Goto
<1>11. ASSUME NEW t \in Se!Calls, Se!Return(t) PROVE Se!TypeOK'
  BY <1>11 DEF Se!Return, Se!Goto
<1>12. ASSUME NEW t \in Se!Calls, Se!Cancel(t) PROVE Se!TypeOK'
  BY <1>12 DEF Se!Cancel, Se!Goto
<1>13. CASE UNCHANGED Se!secureVars
  BY <1>13 DEF Se!secureVars
<1> QED
  BY <1>1, <1>2, <1>3, <1>4, <1>5, <1>6, <1>7, <1>8, <1>9, <1>10, <1>11, <1>12, <1>13 DEF
     Se!Next

\* Each engine serves the one task that holds it.
LEMMA SecureStep ==
  SecureInv /\ [Se!Next]_(Se!secureVars)
    => (RsaAlone /\ EccAlone /\ Se!OwnResult /\ Se!Wiped)'
<1> SUFFICES ASSUME SecureInv, [Se!Next]_(Se!secureVars) PROVE (RsaAlone /\ EccAlone /\
             Se!OwnResult /\ Se!Wiped)'
  OBVIOUS
<1> USE PartsAssumption DEF Se!SecureAssumption, SecureInv, Se!TypeOK, RsaAlone, EccAlone,
       Se!OwnResult, Se!Wiped, Se!Calls, Se!Values, Se!rsaVars, Se!eccVars, Se!callVars
<1>1. CASE Se!RsaComplete
  BY <1>1 DEF Se!RsaComplete
<1>2. CASE Se!EccComplete
  BY <1>2 DEF Se!EccComplete
<1>3. ASSUME NEW t \in Signers, Se!RsaStart(t) PROVE (RsaAlone /\ EccAlone /\ Se!OwnResult
           /\ Se!Wiped)'
  <2>1. /\ whole'[t] => rsaRun = None /\ \A u \in Signers \ {t} : seRpc[u] = "idle"
        /\ \A u \in Signers \ {t} : ~whole'[u]
        /\ \A u \in Verifiers : whole'[u] => whole[u]
    <3>1. \A u \in Se!Calls \ {t} : whole'[u] = (whole[u] /\ u \notin Signers)
      BY <1>3 DEF Se!RsaStart, Se!Takes
    <3>2. whole'[t] = (rsaRun = None /\ \A u \in Signers \ {t} : seRpc[u] = "idle")
      BY <1>3 DEF Se!RsaStart, Se!Takes
    <3>3. \A u \in Verifiers : u \in Se!Calls \ {t}
      BY PartsAssumption DEF Se!SecureAssumption
    <3> QED  BY <3>1, <3>2, <3>3
  <2>2. /\ seRpc'[t] = "polling" /\ \A u \in Se!Calls \ {t} : seRpc'[u] = seRpc[u]
        /\ \A u \in Se!Calls \ {t} : answer'[u] = answer[u]
    BY <1>3 DEF Se!RsaStart, Se!Goto
  <2>3. sram'.operands = t /\ rsaReady' = FALSE /\ eccRun' \in {eccRun, None}
        /\ eccDone' = eccDone /\ (rsaRun = None => rsaRun' = t)
    BY <1>3 DEF Se!RsaStart
  <2>4. RsaAlone'
    BY <2>1, <2>2, <2>3
  <2>5. EccAlone'
    BY <2>1, <2>2, <2>3
  <2>6. Se!OwnResult' /\ Se!Wiped'
    BY <2>1, <2>2, <2>3
  <2> QED  BY <2>4, <2>5, <2>6
<1>4. ASSUME NEW t \in Signers, Se!RsaRead(t) PROVE (RsaAlone /\ EccAlone /\ Se!OwnResult /\
           Se!Wiped)'
  BY <1>4 DEF Se!RsaRead, Se!Wipe, Se!Mixed, Se!Goto
<1>5. ASSUME NEW t \in Signers, Se!RsaTimeout(t) PROVE (RsaAlone /\ EccAlone /\ Se!OwnResult
           /\ Se!Wiped)'
  BY <1>5 DEF Se!RsaTimeout, Se!Wipe, Se!Mixed, Se!Goto
<1>6. ASSUME NEW t \in Verifiers, Se!EccEnable(t) PROVE (RsaAlone /\ EccAlone /\
           Se!OwnResult /\ Se!Wiped)'
  <2>1. /\ whole'[t] => \A u \in Verifiers \ {t} : seRpc[u] = "idle"
        /\ \A u \in Verifiers \ {t} : ~whole'[u]
        /\ \A u \in Signers : whole'[u] => whole[u]
    <3>1. \A u \in Se!Calls \ {t} : whole'[u] = (whole[u] /\ u \notin Verifiers)
      BY <1>6 DEF Se!EccEnable, Se!Takes
    <3>2. whole'[t] = (TRUE /\ \A u \in Verifiers \ {t} : seRpc[u] = "idle")
      BY <1>6 DEF Se!EccEnable, Se!Takes
    <3>3. \A u \in Signers : u \in Se!Calls \ {t}
      BY PartsAssumption DEF Se!SecureAssumption
    <3> QED  BY <3>1, <3>2, <3>3
  <2>2. /\ seRpc'[t] = "enabled" /\ \A u \in Se!Calls \ {t} : seRpc'[u] = seRpc[u]
        /\ \A u \in Se!Calls \ {t} : answer'[u] = answer[u]
    BY <1>6 DEF Se!EccEnable, Se!Goto
  <2>3. eccRun' = None /\ eccDone' = None /\ UNCHANGED <<sram, rsaRun, rsaReady>>
    BY <1>6 DEF Se!EccEnable
  <2>4. RsaAlone'
    BY <2>1, <2>2, <2>3
  <2>5. EccAlone'
    BY <2>1, <2>2, <2>3
  <2>6. Se!OwnResult' /\ Se!Wiped'
    BY <2>1, <2>2, <2>3
  <2> QED  BY <2>4, <2>5, <2>6
<1>7. ASSUME NEW t \in Verifiers, Se!EccTrigger(t) PROVE (RsaAlone /\ EccAlone /\
           Se!OwnResult /\ Se!Wiped)'
  BY <1>7 DEF Se!EccTrigger, Se!Goto
<1>8. ASSUME NEW t \in Verifiers, Se!EccUntrigger(t) PROVE (RsaAlone /\ EccAlone /\
           Se!OwnResult /\ Se!Wiped)'
  BY <1>8 DEF Se!EccUntrigger, Se!Goto
<1>9. ASSUME NEW t \in Verifiers, Se!EccRead(t) PROVE (RsaAlone /\ EccAlone /\ Se!OwnResult
           /\ Se!Wiped)'
  BY <1>9 DEF Se!EccRead, Se!Goto
<1>10. ASSUME NEW t \in Verifiers, Se!EccTimeout(t) PROVE (RsaAlone /\ EccAlone /\
           Se!OwnResult /\ Se!Wiped)'
  BY <1>10 DEF Se!EccTimeout, Se!Goto
<1>11. ASSUME NEW t \in Se!Calls, Se!Return(t) PROVE (RsaAlone /\ EccAlone /\ Se!OwnResult
           /\ Se!Wiped)'
  BY <1>11 DEF Se!Return, Se!Goto
<1>12. ASSUME NEW t \in Se!Calls, Se!Cancel(t) PROVE (RsaAlone /\ EccAlone /\ Se!OwnResult
           /\ Se!Wiped)'
  BY <1>12 DEF Se!Cancel, Se!Goto
<1>13. CASE UNCHANGED Se!secureVars
  BY <1>13 DEF Se!secureVars
<1> QED
  BY <1>1, <1>2, <1>3, <1>4, <1>5, <1>6, <1>7, <1>8, <1>9, <1>10, <1>11, <1>12, <1>13 DEF
     Se!Next

\* Every step keeps the invariant.
LEMMA SecureKept == SecureInv /\ [Se!Next]_(Se!secureVars) => SecureInv'
  BY SecureType, SecureStep DEF SecureInv

\* A call that has its engine to itself returns its own result, and an RSA call
\* that has returned has left no key.
THEOREM SecureRight == Se!Spec => []SecureInv
  BY SecureKept, SecureInit, PTL DEF Se!Spec

-----------------------------------------------------------------------------
(* The OTP controller.                                                     *)

\* A command that met no other is under way or has ended, and a read then holds
\* the word of this command if it did not fail.
OtpWaits ==
  \A t \in Handles : sole[t] =>
     /\ opc[t] \in {"wait", "done", "error"}
     /\ opc[t] = "wait" => otBusy \in {Ot!Command(t), Ot!Idle}
     /\ opc[t] = "wait" /\ otBusy = Ot!Idle /\ ~failed /\ ocall[t].kind = "read" =>
          rdata = Ot!Command(t)

\* An operation that is under way has a kind and an address.
OtpCalls ==
  \A t \in Handles : opc[t] \in {"issue", "wait", "done"} =>
     ocall[t].kind \in {"read", "program"} /\ ocall[t].addr \in OtpWords /\ ocall[t].left > 0

OtpInv == Ot!TypeOK /\ OtpCalls /\ OtpWaits /\ Ot!OwnWord

\* The controller is idle.
LEMMA OtpInit == Ot!Init => OtpInv
<1> SUFFICES ASSUME Ot!Init PROVE OtpInv
  OBVIOUS
<1> USE PartsAssumption DEF Ot!OtpAssumption, Ot!Init
<1>1. Ot!TypeOK
  <2>1. Ot!Idle \in Ot!Commands
    BY DEF Ot!Idle, Ot!Commands, Ot!Kinds
  <2>2. Ot!NoCall \in [kind : Ot!Kinds, addr : OtpWords \cup {Gone}, left : 0..MaxBatch]
    BY DEF Ot!NoCall, Ot!Kinds
  <2>3. sole \in [Handles -> BOOLEAN] /\ failed \in BOOLEAN
    OBVIOUS
  <2> QED  BY <2>1, <2>2, <2>3 DEF Ot!TypeOK
<1>2. OtpCalls /\ OtpWaits /\ Ot!OwnWord
  BY DEF OtpCalls, OtpWaits, Ot!OwnWord
<1> QED  BY <1>1, <1>2 DEF OtpInv

\* Every step keeps the types.
LEMMA OtpType == Ot!TypeOK /\ OtpCalls /\ [Ot!Next]_(Ot!otpVars) => (Ot!TypeOK /\ OtpCalls)'
<1> SUFFICES ASSUME Ot!TypeOK /\ OtpCalls, [Ot!Next]_(Ot!otpVars) PROVE (Ot!TypeOK /\
             OtpCalls)'
  OBVIOUS
<1> USE PartsAssumption DEF Ot!OtpAssumption, OtpCalls, Ot!TypeOK, Ot!Commands, Ot!Kinds,
       Ot!Idle, Ot!NoCall
<1>1. ASSUME NEW bad \in BOOLEAN, Ot!Complete(bad) PROVE (Ot!TypeOK /\ OtpCalls)'
  BY <1>1 DEF Ot!Complete
<1>2. ASSUME NEW t \in Handles, NEW k \in {"read", "program"}, NEW a \in OtpWords, NEW n \in
           1..MaxBatch \cup {1}, Ot!Begin(t, k, a, n) PROVE (Ot!TypeOK /\ OtpCalls)'
  BY <1>2 DEF Ot!Begin, Ot!Goto
<1>3. ASSUME NEW t \in Handles, Ot!BadLength(t) PROVE (Ot!TypeOK /\ OtpCalls)'
  BY <1>3 DEF Ot!BadLength, Ot!Goto
<1>4. ASSUME NEW t \in Handles, Ot!Issue(t) PROVE (Ot!TypeOK /\ OtpCalls)'
  BY <1>4 DEF Ot!Issue, Ot!Command, Ot!Goto
<1>5. ASSUME NEW t \in Handles, Ot!Finish(t) PROVE (Ot!TypeOK /\ OtpCalls)'
  BY <1>5 DEF Ot!Finish, Ot!Goto
<1>6. ASSUME NEW t \in Handles, Ot!Timeout(t) PROVE (Ot!TypeOK /\ OtpCalls)'
  BY <1>6 DEF Ot!Timeout, Ot!Goto
<1>7. ASSUME NEW t \in Handles, Ot!Return(t) PROVE (Ot!TypeOK /\ OtpCalls)'
  <2>1. opc' \in [Handles -> {"idle", "issue", "wait", "done", "error"}]
    BY <1>7 DEF Ot!Return, Ot!Goto
  <2>2. CASE Ot!More(t)
    <3>1. ocall[t].addr + 1 \in OtpWords /\ ocall[t].left - 1 \in 1..MaxBatch
      BY <2>2 DEF Ot!More
    <3>2. ocall' = [ocall EXCEPT ![t].addr = ocall[t].addr + 1, ![t].left = ocall[t].left - 1]
      BY <1>7, <2>2 DEF Ot!Return
    <3>3. ocall[t].kind \in {"read", "program"}
      BY <2>2 DEF Ot!More
    <3>4. ocall'[t] = [kind |-> ocall[t].kind, addr |-> ocall[t].addr + 1,
                      left |-> ocall[t].left - 1]
      BY <3>2
    <3>5. \A u \in Handles \ {t} : ocall'[u] = ocall[u] /\ opc'[u] = opc[u]
      BY <1>7, <3>2 DEF Ot!Return, Ot!Goto
    <3>6. ocall' \in [Handles -> [kind : Ot!Kinds, addr : OtpWords \cup {Gone}, left : 0..MaxBatch]]
      BY <3>1, <3>2, <3>3
    <3>7. OtpCalls'
      BY <3>1, <3>3, <3>4, <3>5
    <3> QED  BY <1>7, <2>1, <3>6, <3>7 DEF Ot!Return
  <2>3. CASE ~Ot!More(t)
    <3>1. opc' = [opc EXCEPT ![t] = "idle"] /\ ocall' = [ocall EXCEPT ![t] = Ot!NoCall]
      BY <1>7, <2>3 DEF Ot!Return, Ot!Goto
    <3>2. Ot!NoCall \in [kind : Ot!Kinds, addr : OtpWords \cup {Gone}, left : 0..MaxBatch]
      OBVIOUS
    <3>3. OtpCalls'
      BY <3>1
    <3> QED  BY <1>7, <2>1, <3>1, <3>2, <3>3 DEF Ot!Return
  <2> QED  BY <2>2, <2>3
<1>8. ASSUME NEW t \in Handles, Ot!Cancel(t) PROVE (Ot!TypeOK /\ OtpCalls)'
  BY <1>8 DEF Ot!Cancel, Ot!Goto
<1>9. CASE UNCHANGED Ot!otpVars
  BY <1>9 DEF Ot!otpVars
<1> QED
  BY <1>1, <1>2, <1>3, <1>4, <1>5, <1>6, <1>7, <1>8, <1>9 DEF Ot!Next

\* A call that met no other reads the word its own command fetched.
LEMMA OtpStep == OtpInv /\ [Ot!Next]_(Ot!otpVars) => (OtpWaits /\ Ot!OwnWord)'
<1> SUFFICES ASSUME OtpInv, [Ot!Next]_(Ot!otpVars) PROVE (OtpWaits /\ Ot!OwnWord)'
  OBVIOUS
<1> USE PartsAssumption DEF Ot!OtpAssumption, OtpInv, OtpCalls, OtpWaits, Ot!OwnWord,
       Ot!TypeOK, Ot!Commands, Ot!Kinds, Ot!Idle, Ot!NoCall, Ot!Command
<1>1. ASSUME NEW bad \in BOOLEAN, Ot!Complete(bad) PROVE (OtpWaits /\ Ot!OwnWord)'
  BY <1>1 DEF Ot!Complete
<1>2. ASSUME NEW t \in Handles, NEW k \in {"read", "program"}, NEW a \in OtpWords, NEW n \in
           1..MaxBatch \cup {1}, Ot!Begin(t, k, a, n) PROVE (OtpWaits /\ Ot!OwnWord)'
  BY <1>2 DEF Ot!Begin, Ot!Goto
<1>3. ASSUME NEW t \in Handles, Ot!BadLength(t) PROVE (OtpWaits /\ Ot!OwnWord)'
  BY <1>3 DEF Ot!BadLength, Ot!Goto
<1>4. ASSUME NEW t \in Handles, Ot!Issue(t) PROVE (OtpWaits /\ Ot!OwnWord)'
  BY <1>4 DEF Ot!Issue, Ot!Command, Ot!Goto
<1>5. ASSUME NEW t \in Handles, Ot!Finish(t) PROVE (OtpWaits /\ Ot!OwnWord)'
  BY <1>5 DEF Ot!Finish, Ot!Goto
<1>6. ASSUME NEW t \in Handles, Ot!Timeout(t) PROVE (OtpWaits /\ Ot!OwnWord)'
  BY <1>6 DEF Ot!Timeout, Ot!Goto
<1>7. ASSUME NEW t \in Handles, Ot!Return(t) PROVE (OtpWaits /\ Ot!OwnWord)'
  <2>1. sole'[t] = FALSE /\ \A u \in Handles \ {t} : sole'[u] = sole[u] /\ opc'[u] = opc[u]
            /\ ocall'[u] = ocall[u] /\ word'[u] = word[u]
    BY <1>7 DEF Ot!Return, Ot!Goto
  <2>2. UNCHANGED <<otBusy, failed, rdata>>
    BY <1>7 DEF Ot!Return
  <2> QED  BY <2>1, <2>2
<1>8. ASSUME NEW t \in Handles, Ot!Cancel(t) PROVE (OtpWaits /\ Ot!OwnWord)'
  BY <1>8 DEF Ot!Cancel, Ot!Goto
<1>9. CASE UNCHANGED Ot!otpVars
  BY <1>9 DEF Ot!otpVars
<1> QED
  BY <1>1, <1>2, <1>3, <1>4, <1>5, <1>6, <1>7, <1>8, <1>9 DEF Ot!Next

\* Every step keeps the invariant.
LEMMA OtpKept == OtpInv /\ [Ot!Next]_(Ot!otpVars) => OtpInv'
  BY OtpType, OtpStep DEF OtpInv

\* A read whose command met no other returns the word of its own address.
THEOREM OtpRight == Ot!Spec => []OtpInv
  BY OtpKept, OtpInit, PTL DEF Ot!Spec

-----------------------------------------------------------------------------
(* The serial GPIO inputs.                                                 *)

SgpioWaits == {"check", "register", "recheck", "pending"}

\* A call holds bits only between reading and returning them.
SgpioTook == \A t \in Watchers : spc[t] \notin {"clear", "over"} => sgTook[t] = {}

\* While a wait counts as alone no other waits for its group, so that its waker
\* stays registered.
SgpioAlone ==
  \A t \in Watchers : lone[t] /\ spc[t] \in SgpioWaits =>
     /\ \A u \in Watchers \ {t} : group[u] = group[t] => spc[u] \notin SgpioWaits
     /\ spc[t] \in {"recheck", "pending"} => sgWakers[group[t]] = t

\* Together with that, no event is lost.
SgpioKeeps == SgpioTook /\ Sg!NothingMissed

SgpioInv == Sg!TypeOK /\ SgpioTook /\ SgpioAlone /\ Sg!NothingMissed /\ Sg!NoLostWakeup

\* The handler looks at one group after the other and leaves after the last.
LEMMA LooksOn ==
  ASSUME look \in 1..Len(Groups), Len(Groups) \in Nat, Sg!LookOn
  PROVE  look' = IF look = Len(Groups) THEN 0 ELSE look + 1
  BY DEF Sg!LookOn

\* The groups are a sequence that names each group.
LEMMA GroupsSound ==
  /\ Len(Groups) \in Nat \ {0} /\ \A i \in 1..Len(Groups) : Groups[i] \in Sg!GroupSet
  /\ \A g \in Sg!GroupSet : \E i \in 1..Len(Groups) : Groups[i] = g
  BY PartsAssumption DEF Sg!SgpioAssumption, Sg!GroupSet

\* Nothing is latched.
LEMMA SgpioInit == Sg!Init => SgpioInv
<1> SUFFICES ASSUME Sg!Init PROVE SgpioInv
  OBVIOUS
<1>1. Sg!TypeOK
  <2>1. /\ latched \in [Sg!GroupSet -> SUBSET Bits] /\ enabled \in [Sg!GroupSet -> SUBSET Bits]
        /\ unseen \in [Sg!GroupSet -> SUBSET Bits]
    BY DEF Sg!Init
  <2>2. /\ sgWakers \in [Sg!GroupSet -> Watchers \cup {None}]
        /\ sgTook \in [Watchers -> SUBSET Bits] /\ group \in [Watchers -> Sg!GroupSet]
    BY GroupsSound DEF Sg!Init
  <2>3. spc \in [Watchers -> {"idle", "take", "check", "register", "recheck", "clear", "pending", "over"}]
    BY DEF Sg!Init
  <2>4. lone \in [Watchers -> BOOLEAN]
    BY DEF Sg!Init
  <2>5. irqSgpio = FALSE /\ look = 0 /\ sready = Watchers /\ scur = None
    BY DEF Sg!Init
  <2>6. look \in 0..Len(Groups) /\ irqSgpio \in BOOLEAN
    <3>1. look \in 0..Len(Groups)
      BY ONLY <2>5, GroupsSound
    <3> QED  BY <3>1, <2>5
  <2>7. sready \subseteq Watchers /\ scur \in Watchers \cup {None}
    BY <2>5
  <2> QED  BY ONLY <2>1, <2>2, <2>3, <2>4, <2>6, <2>7 DEF Sg!TypeOK
<1>2. SgpioTook /\ SgpioAlone /\ Sg!NothingMissed /\ Sg!NoLostWakeup
  BY DEF Sg!Init, SgpioTook, SgpioAlone, SgpioWaits, Sg!NothingMissed, Sg!NoLostWakeup
<1> QED  BY <1>1, <1>2 DEF SgpioInv

\* Every step keeps the types.
LEMMA SgpioType == Sg!TypeOK /\ [Sg!Next]_(Sg!sgpioVars) => Sg!TypeOK'
<1> SUFFICES ASSUME Sg!TypeOK, [Sg!Next]_(Sg!sgpioVars) PROVE Sg!TypeOK'
  OBVIOUS
<1> USE GroupsSound DEF Sg!TypeOK
<1>1. CASE Sg!IsrEnter
  <2>1. look' \in 0..Len(Groups)
    BY <1>1 DEF Sg!IsrEnter
  <2> QED  BY <1>1, <2>1 DEF Sg!IsrEnter
<1>2. CASE Sg!IsrLook
  <2>1. look' \in 0..Len(Groups)
    BY <1>2, LooksOn DEF Sg!IsrLook
  <2>2. Groups[look] \in Sg!GroupSet
    BY <1>2 DEF Sg!IsrLook
  <2> QED  BY <1>2, <2>1, <2>2 DEF Sg!IsrLook, Sg!Wake
<1>3. ASSUME NEW g \in Sg!GroupSet, NEW p \in Bits, Sg!Event(g, p) PROVE Sg!TypeOK'
  BY <1>3 DEF Sg!Event
<1>4. ASSUME NEW t \in Watchers, Sg!Poll(t) PROVE Sg!TypeOK'
  BY <1>4 DEF Sg!Poll, Sg!Goto
<1>5. ASSUME NEW t \in Watchers, Sg!OtherWake(t) PROVE Sg!TypeOK'
  BY <1>5 DEF Sg!OtherWake
<1>6. ASSUME NEW t \in Watchers, Sg!Cancel(t) PROVE Sg!TypeOK'
  BY <1>6 DEF Sg!Cancel, Sg!Goto
<1>7. ASSUME NEW t \in Watchers, Sg!Yield(t) PROVE Sg!TypeOK'
  BY <1>7 DEF Sg!Yield, Sg!Running
<1>8. ASSUME NEW t \in Watchers, NEW g \in Sg!GroupSet, NEW b \in SUBSET Bits, Sg!Enable(t,
           g, b) PROVE Sg!TypeOK'
  BY <1>8 DEF Sg!Enable, Sg!Running
<1>9. ASSUME NEW t \in Watchers, NEW g \in Sg!GroupSet, NEW b \in SUBSET Bits, Sg!Disable(t,
           g, b) PROVE Sg!TypeOK'
  BY <1>9 DEF Sg!Disable, Sg!Running
<1>10. ASSUME NEW t \in Watchers, NEW g \in Sg!GroupSet, NEW f \in {"take", "check"},
           Sg!Begin(t, g, f) PROVE Sg!TypeOK'
  <2>1. spc' \in [Watchers -> {"idle", "take", "check", "register", "recheck", "clear", "pending", "over"}]
    BY <1>10 DEF Sg!Begin, Sg!Goto
  <2>2. lone' \in [Watchers -> BOOLEAN]
    BY <1>10 DEF Sg!Begin, Sg!Waits
  <2>3. group' \in [Watchers -> Sg!GroupSet]
    BY <1>10 DEF Sg!Begin
  <2>4. UNCHANGED <<latched, enabled, irqSgpio, look, sgWakers, sgTook, sready, scur, unseen>>
    BY <1>10 DEF Sg!Begin
  <2> QED  BY <2>1, <2>2, <2>3, <2>4
<1>11. ASSUME NEW t \in Watchers, Sg!Take(t) PROVE Sg!TypeOK'
  BY <1>11 DEF Sg!Take, Sg!Running, Sg!Goto
<1>12. ASSUME NEW t \in Watchers, Sg!Check(t) PROVE Sg!TypeOK'
  BY <1>12 DEF Sg!Check, Sg!Running, Sg!Goto, Sg!Read
<1>13. ASSUME NEW t \in Watchers, Sg!Register(t) PROVE Sg!TypeOK'
  BY <1>13 DEF Sg!Register, Sg!Running, Sg!Goto
<1>14. ASSUME NEW t \in Watchers, Sg!Recheck(t) PROVE Sg!TypeOK'
  BY <1>14 DEF Sg!Recheck, Sg!Running, Sg!Goto, Sg!Read
<1>15. ASSUME NEW t \in Watchers, Sg!Clear(t) PROVE Sg!TypeOK'
  BY <1>15 DEF Sg!Clear, Sg!Running, Sg!Goto
<1>16. ASSUME NEW t \in Watchers, Sg!Return(t) PROVE Sg!TypeOK'
  BY <1>16 DEF Sg!Return, Sg!Running, Sg!Goto
<1>17. CASE UNCHANGED Sg!sgpioVars
  BY <1>17 DEF Sg!sgpioVars
<1> HIDE GroupsSound DEF Sg!TypeOK
<1> QED
  BY <1>1, <1>2, <1>3, <1>4, <1>5, <1>6, <1>7, <1>8, <1>9, <1>10, <1>11, <1>12, <1>13, <1>14,
     <1>15, <1>16, <1>17 DEF Sg!Next

\* What a task takes it reports, and what nobody has taken stays latched.
LEMMA SgpioKept == Sg!TypeOK /\ SgpioKeeps /\ [Sg!Next]_(Sg!sgpioVars) => SgpioKeeps'
<1> SUFFICES ASSUME Sg!TypeOK /\ SgpioKeeps, [Sg!Next]_(Sg!sgpioVars) PROVE SgpioKeeps'
  OBVIOUS
<1> USE GroupsSound DEF Sg!TypeOK, SgpioKeeps, SgpioTook, Sg!NothingMissed
<1>1. CASE Sg!IsrEnter
  BY <1>1 DEF Sg!IsrEnter
<1>2. CASE Sg!IsrLook
  BY <1>2 DEF Sg!IsrLook
<1>3. ASSUME NEW g \in Sg!GroupSet, NEW p \in Bits, Sg!Event(g, p) PROVE SgpioKeeps'
  <2>1. /\ \A h \in Sg!GroupSet : latched[h] \subseteq latched'[h]
        /\ \A h \in Sg!GroupSet : unseen'[h] \subseteq unseen[h] \cup latched'[h]
        /\ UNCHANGED <<spc, group, sgTook>>
    BY <1>3 DEF Sg!Event
  <2> QED  BY <2>1
<1>4. ASSUME NEW t \in Watchers, Sg!Poll(t) PROVE SgpioKeeps'
  <2>1. /\ \A u \in Watchers : spc[u] \notin {"clear", "over"} <=> spc'[u] \notin {"clear", "over"}
        /\ UNCHANGED <<latched, group, sgTook, unseen>>
    BY <1>4 DEF Sg!Poll, Sg!Goto
  <2> QED  BY <2>1
<1>5. ASSUME NEW t \in Watchers, Sg!OtherWake(t) PROVE SgpioKeeps'
  BY <1>5 DEF Sg!OtherWake
<1>6. ASSUME NEW t \in Watchers, Sg!Cancel(t) PROVE SgpioKeeps'
  BY <1>6 DEF Sg!Cancel, Sg!Goto
<1>7. ASSUME NEW t \in Watchers, Sg!Yield(t) PROVE SgpioKeeps'
  BY <1>7 DEF Sg!Yield, Sg!Running
<1>8. ASSUME NEW t \in Watchers, NEW g \in Sg!GroupSet, NEW b \in SUBSET Bits, Sg!Enable(t,
           g, b) PROVE SgpioKeeps'
  BY <1>8 DEF Sg!Enable, Sg!Running
<1>9. ASSUME NEW t \in Watchers, NEW g \in Sg!GroupSet, NEW b \in SUBSET Bits, Sg!Disable(t,
           g, b) PROVE SgpioKeeps'
  BY <1>9 DEF Sg!Disable, Sg!Running
<1>10. ASSUME NEW t \in Watchers, NEW g \in Sg!GroupSet, NEW f \in {"take", "check"},
           Sg!Begin(t, g, f) PROVE SgpioKeeps'
  <2>1. /\ \A u \in Watchers \ {t} : spc'[u] = spc[u] /\ group'[u] = group[u]
        /\ spc'[t] = f /\ spc[t] = "idle" /\ group'[t] = g
    BY <1>10 DEF Sg!Begin, Sg!Running, Sg!Goto
  <2>2. UNCHANGED <<latched, irqSgpio, look, sgWakers, sgTook, sready, unseen>>
    BY <1>10 DEF Sg!Begin
  <2>7. SgpioTook'
    BY <2>1, <2>2
  <2>8. ASSUME NEW h \in Sg!GroupSet, NEW q \in unseen'[h], q \notin latched'[h]
        PROVE  \E u \in Watchers : group'[u] = h /\ q \in sgTook'[u]
    <3>1. CASE q \in latched[h] \/ q \notin unseen[h]
      BY <2>1, <2>2, <2>8, <3>1
    <3>2. CASE q \notin latched[h] /\ q \in unseen[h]
      <4>1. PICK u \in Watchers : group[u] = h /\ q \in sgTook[u]
        BY <3>2
      <4> QED  BY <2>1, <2>2, <2>8, <3>2, <4>1
    <3> QED  BY <3>1, <3>2
  <2>9. Sg!NothingMissed'
    BY <2>8
  <2> QED  BY <2>7, <2>9
<1>11. ASSUME NEW t \in Watchers, Sg!Take(t) PROVE SgpioKeeps'
  <2>1. /\ \A u \in Watchers \ {t} : spc'[u] = spc[u] /\ sgTook'[u] = sgTook[u]
        /\ spc[t] \in {"take", "check", "recheck"}
        /\ spc'[t] \in {"clear", "register", "pending"} /\ sgTook'[t] = latched[group[t]]
        /\ spc'[t] # "clear" => sgTook'[t] = {}
        /\ UNCHANGED <<latched, group, unseen>>
    BY <1>11 DEF Sg!Take, Sg!Running, Sg!Goto, Sg!Read
  <2>7. SgpioTook'
    BY <2>1, ZenonT(30)
  <2>8. ASSUME NEW h \in Sg!GroupSet, NEW q \in unseen'[h], q \notin latched'[h]
        PROVE  \E u \in Watchers : group'[u] = h /\ q \in sgTook'[u]
    <3>1. CASE q \in latched[h] \/ q \notin unseen[h]
      BY <2>1, <2>8, <3>1
    <3>2. CASE q \notin latched[h] /\ q \in unseen[h]
      <4>1. PICK u \in Watchers : group[u] = h /\ q \in sgTook[u]
        BY <3>2
      <4> QED  BY <2>1, <2>8, <3>2, <4>1
    <3> QED  BY <3>1, <3>2
  <2>9. Sg!NothingMissed'
    BY <2>8
  <2> QED  BY <2>7, <2>9
<1>12. ASSUME NEW t \in Watchers, Sg!Check(t) PROVE SgpioKeeps'
  <2>1. /\ \A u \in Watchers \ {t} : spc'[u] = spc[u] /\ sgTook'[u] = sgTook[u]
        /\ spc[t] \in {"take", "check", "recheck"}
        /\ spc'[t] \in {"clear", "register", "pending"} /\ sgTook'[t] = latched[group[t]]
        /\ spc'[t] # "clear" => sgTook'[t] = {}
        /\ UNCHANGED <<latched, group, unseen>>
    BY <1>12 DEF Sg!Check, Sg!Running, Sg!Goto, Sg!Read
  <2>7. SgpioTook'
    BY <2>1, ZenonT(30)
  <2>8. ASSUME NEW h \in Sg!GroupSet, NEW q \in unseen'[h], q \notin latched'[h]
        PROVE  \E u \in Watchers : group'[u] = h /\ q \in sgTook'[u]
    <3>1. CASE q \in latched[h] \/ q \notin unseen[h]
      BY <2>1, <2>8, <3>1
    <3>2. CASE q \notin latched[h] /\ q \in unseen[h]
      <4>1. PICK u \in Watchers : group[u] = h /\ q \in sgTook[u]
        BY <3>2
      <4> QED  BY <2>1, <2>8, <3>2, <4>1
    <3> QED  BY <3>1, <3>2
  <2>9. Sg!NothingMissed'
    BY <2>8
  <2> QED  BY <2>7, <2>9
<1>13. ASSUME NEW t \in Watchers, Sg!Register(t) PROVE SgpioKeeps'
  BY <1>13 DEF Sg!Register, Sg!Running, Sg!Goto
<1>14. ASSUME NEW t \in Watchers, Sg!Recheck(t) PROVE SgpioKeeps'
  <2>1. /\ \A u \in Watchers \ {t} : spc'[u] = spc[u] /\ sgTook'[u] = sgTook[u]
        /\ spc[t] \in {"take", "check", "recheck"}
        /\ spc'[t] \in {"clear", "register", "pending"} /\ sgTook'[t] = latched[group[t]]
        /\ spc'[t] # "clear" => sgTook'[t] = {}
        /\ UNCHANGED <<latched, group, unseen>>
    BY <1>14 DEF Sg!Recheck, Sg!Running, Sg!Goto, Sg!Read
  <2>7. SgpioTook'
    BY <2>1, ZenonT(30)
  <2>8. ASSUME NEW h \in Sg!GroupSet, NEW q \in unseen'[h], q \notin latched'[h]
        PROVE  \E u \in Watchers : group'[u] = h /\ q \in sgTook'[u]
    <3>1. CASE q \in latched[h] \/ q \notin unseen[h]
      BY <2>1, <2>8, <3>1
    <3>2. CASE q \notin latched[h] /\ q \in unseen[h]
      <4>1. PICK u \in Watchers : group[u] = h /\ q \in sgTook[u]
        BY <3>2
      <4> QED  BY <2>1, <2>8, <3>2, <4>1
    <3> QED  BY <3>1, <3>2
  <2>9. Sg!NothingMissed'
    BY <2>8
  <2> QED  BY <2>7, <2>9
<1>15. ASSUME NEW t \in Watchers, Sg!Clear(t) PROVE SgpioKeeps'
  <2>1. /\ \A u \in Watchers \ {t} : spc'[u] = spc[u]
        /\ spc'[t] = "over" /\ spc[t] = "clear"
        /\ \A h \in Sg!GroupSet : latched'[h] = IF h = group[t] THEN latched[h] \ sgTook[t] ELSE latched[h]
        /\ UNCHANGED <<group, sgTook, unseen>>
    BY <1>15 DEF Sg!Clear, Sg!Running, Sg!Goto
  <2>7. SgpioTook'
    BY <2>1
  <2>8. ASSUME NEW h \in Sg!GroupSet, NEW q \in unseen'[h], q \notin latched'[h]
        PROVE  \E u \in Watchers : group'[u] = h /\ q \in sgTook'[u]
    <3>1. CASE q \in latched[h] \/ q \notin unseen[h]
      <4>1. q \in unseen[h] /\ q \in latched[h]
        BY <2>1, <2>8, <3>1
      <4>2. latched'[h] = IF h = group[t] THEN latched[h] \ sgTook[t] ELSE latched[h]
        BY <2>1
      <4>3. h = group[t] /\ q \in sgTook[t]
        BY ONLY <2>8, <4>1, <4>2
      <4> QED  BY <2>1, <4>3
    <3>2. CASE q \notin latched[h] /\ q \in unseen[h]
      <4>1. PICK u \in Watchers : group[u] = h /\ q \in sgTook[u]
        BY <3>2
      <4> QED  BY <2>1, <2>8, <3>2, <4>1
    <3> QED  BY <3>1, <3>2
  <2>9. Sg!NothingMissed'
    BY <2>8
  <2> QED  BY <2>7, <2>9
<1>16. ASSUME NEW t \in Watchers, Sg!Return(t) PROVE SgpioKeeps'
  <2>1. /\ \A u \in Watchers \ {t} : spc'[u] = spc[u] /\ sgTook'[u] = sgTook[u]
        /\ spc'[t] = "idle" /\ sgTook'[t] = {}
        /\ \A h \in Sg!GroupSet : unseen'[h] = IF h = group[t] THEN unseen[h] \ sgTook[t] ELSE unseen[h]
        /\ UNCHANGED <<latched, group>>
    BY <1>16, ZenonT(30) DEF Sg!Return, Sg!Running, Sg!Goto
  <2>7. SgpioTook'
    BY <2>1
  <2>8. ASSUME NEW h \in Sg!GroupSet, NEW q \in unseen'[h], q \notin latched'[h]
        PROVE  \E u \in Watchers : group'[u] = h /\ q \in sgTook'[u]
    <3>1. CASE q \in latched[h] \/ q \notin unseen[h]
      <4>1. unseen'[h] = IF h = group[t] THEN unseen[h] \ sgTook[t] ELSE unseen[h]
        BY <2>1
      <4>2. latched'[h] = latched[h]
        BY <2>1
      <4>3. q \in unseen[h] /\ q \notin latched[h]
        BY ONLY <2>8, <4>1, <4>2
      <4> QED  BY <3>1, <4>3
    <3>2. CASE q \notin latched[h] /\ q \in unseen[h]
      <4>1. PICK u \in Watchers : group[u] = h /\ q \in sgTook[u]
        BY <3>2
      <4>2. u # t
        <5>1. group[t] = h => unseen'[h] = unseen[h] \ sgTook[t]
          BY <2>1
        <5> QED  BY <2>8, <4>1, <5>1
      <4> QED  BY <2>1, <4>1, <4>2
    <3> QED  BY <3>1, <3>2
  <2>9. Sg!NothingMissed'
    BY <2>8
  <2> QED  BY <2>7, <2>9
<1>17. CASE UNCHANGED Sg!sgpioVars
  BY <1>17 DEF Sg!sgpioVars
<1> QED
  BY <1>1, <1>2, <1>3, <1>4, <1>5, <1>6, <1>7, <1>8, <1>9, <1>10, <1>11, <1>12, <1>13, <1>14,
     <1>15, <1>16, <1>17 DEF Sg!Next

\* A step of one task that neither enters a wait nor registers, and returns
\* Pending only with its group clear, loses no wake-up.
LEMMA SgpioMoves ==
  ASSUME Sg!TypeOK, SgpioAlone, Sg!NoLostWakeup, NEW t \in Watchers,
         \A u \in Watchers \ {t} : spc'[u] = spc[u],
         spc'[t] \in SgpioWaits => spc[t] \in SgpioWaits,
         spc'[t] \in {"recheck", "pending"} => spc[t] \in {"recheck", "pending"},
         spc'[t] = "pending" => latched'[group[t]] = {},
         \A g \in Sg!GroupSet : latched'[g] \subseteq latched[g],
         sready \ {t} \subseteq sready',
         UNCHANGED <<irqSgpio, look, sgWakers, group, lone>>
  PROVE  (SgpioAlone /\ Sg!NoLostWakeup)'
<1>1. SgpioAlone'
  BY DEF SgpioAlone
<1>2. ASSUME NEW u \in Watchers, spc'[u] = "pending", lone'[u], latched'[group'[u]] # {}
      PROVE  \/ u \in sready' \/ irqSgpio'
             \/ look' # 0 /\ \E i \in look'..Len(Groups) : Groups[i] = group'[u]
  <2>1. u # t /\ spc[u] = "pending" /\ lone[u]
    BY <1>2
  <2>2. group[u] \in Sg!GroupSet /\ latched[group[u]] # {}
    BY <1>2 DEF Sg!TypeOK
  <2> QED  BY <2>1, <2>2 DEF Sg!NoLostWakeup
<1> QED  BY <1>1, <1>2 DEF Sg!NoLostWakeup

\* A task that watches its group alone stays registered there and is woken.
LEMMA SgpioWaked ==
  Sg!TypeOK /\ SgpioAlone /\ Sg!NoLostWakeup /\ [Sg!Next]_(Sg!sgpioVars)
    => (SgpioAlone /\ Sg!NoLostWakeup)'
<1> SUFFICES ASSUME Sg!TypeOK /\ SgpioAlone /\ Sg!NoLostWakeup, [Sg!Next]_(Sg!sgpioVars)
             PROVE (SgpioAlone /\ Sg!NoLostWakeup)'
  OBVIOUS
<1> USE PartsAssumption, GroupsSound DEF Sg!SgpioAssumption, Sg!TypeOK, SgpioAlone,
       SgpioWaits, Sg!NoLostWakeup
<1>1. CASE Sg!IsrEnter
  <2>1. look' = 1 /\ UNCHANGED <<latched, sgWakers, spc, group, sready, lone>>
    BY <1>1 DEF Sg!IsrEnter
  <2>2. \A t \in Watchers : \E i \in look'..Len(Groups) : Groups[i] = group[t]
    BY <2>1
  <2>3. Sg!NoLostWakeup'
    BY <2>1, <2>2
  <2> QED  BY <2>1, <2>3
<1>2. CASE Sg!IsrLook
  <2>0. look # 0 /\ look' = IF look = Len(Groups) THEN 0 ELSE look + 1
    <3>1. look # 0 /\ Sg!LookOn
      BY <1>2 DEF Sg!IsrLook
    <3>2. look \in 1..Len(Groups) /\ Len(Groups) \in Nat
      BY <3>1
    <3> QED  BY <3>1, <3>2, LooksOn
  <2>1. /\ look # 0 /\ look' = IF look = Len(Groups) THEN 0 ELSE look + 1
        /\ sready' = IF latched[Groups[look]] # {}
                     THEN sready \cup ({sgWakers[Groups[look]]} \ {None}) ELSE sready
        /\ UNCHANGED <<latched, irqSgpio, sgWakers, spc, group, lone>>
    BY <1>2, <2>0 DEF Sg!IsrLook, Sg!Wake
  <2>2. SgpioAlone'
    BY <2>1
  <2>3. ASSUME NEW t \in Watchers, spc[t] = "pending", lone[t], latched[group[t]] # {}, t \notin sready, ~irqSgpio
        PROVE  t \in sready' \/ (look' # 0 /\ \E i \in look'..Len(Groups) : Groups[i] = group[t])
    <3>1. sgWakers[group[t]] = t
      BY <2>3
    <3>2. PICK i \in look..Len(Groups) : Groups[i] = group[t]
      BY <2>3
    <3>3. CASE i = look
      BY <2>1, <2>3, <3>1, <3>2, <3>3
    <3>4. CASE i # look
      <4>1. look' # 0 /\ i \in look'..Len(Groups)
        BY <2>1, <3>2, <3>4
      <4> QED  BY <4>1, <3>2
    <3> QED  BY <3>3, <3>4
  <2>4. Sg!NoLostWakeup'
    BY <2>1, <2>3
  <2> QED  BY <2>2, <2>4
<1>3. ASSUME NEW g \in Sg!GroupSet, NEW p \in Bits, Sg!Event(g, p) PROVE (SgpioAlone /\
           Sg!NoLostWakeup)'
  <2>1. irqSgpio' /\ UNCHANGED <<sgWakers, spc, group, lone>>
    BY <1>3 DEF Sg!Event
  <2> QED  BY <2>1
<1>4. ASSUME NEW t \in Watchers, Sg!Poll(t) PROVE (SgpioAlone /\ Sg!NoLostWakeup)'
  <2>1. /\ \A u \in Watchers \ {t} : spc'[u] = spc[u]
        /\ spc'[t] = (IF spc[t] = "pending" THEN "check" ELSE spc[t]) /\ sready' = sready \ {t}
        /\ UNCHANGED <<latched, irqSgpio, look, sgWakers, group, lone>>
    BY <1>4 DEF Sg!Poll, Sg!Goto
  <2> QED  BY <2>1, SgpioMoves DEF SgpioWaits
<1>5. ASSUME NEW t \in Watchers, Sg!OtherWake(t) PROVE (SgpioAlone /\ Sg!NoLostWakeup)'
  BY <1>5 DEF Sg!OtherWake
<1>6. ASSUME NEW t \in Watchers, Sg!Cancel(t) PROVE (SgpioAlone /\ Sg!NoLostWakeup)'
  <2>1. /\ \A u \in Watchers \ {t} : spc'[u] = spc[u]
        /\ spc'[t] = "idle" /\ sready' = sready \ {t}
        /\ UNCHANGED latched
        /\ UNCHANGED <<irqSgpio, look, sgWakers, group, lone>>
    BY <1>6 DEF Sg!Cancel, Sg!Goto
  <2> QED  BY <2>1, SgpioMoves DEF SgpioWaits
<1>7. ASSUME NEW t \in Watchers, Sg!Yield(t) PROVE (SgpioAlone /\ Sg!NoLostWakeup)'
  BY <1>7 DEF Sg!Yield, Sg!Running
<1>8. ASSUME NEW t \in Watchers, NEW g \in Sg!GroupSet, NEW b \in SUBSET Bits, Sg!Enable(t,
           g, b) PROVE (SgpioAlone /\ Sg!NoLostWakeup)'
  BY <1>8 DEF Sg!Enable, Sg!Running
<1>9. ASSUME NEW t \in Watchers, NEW g \in Sg!GroupSet, NEW b \in SUBSET Bits, Sg!Disable(t,
           g, b) PROVE (SgpioAlone /\ Sg!NoLostWakeup)'
  BY <1>9 DEF Sg!Disable, Sg!Running
<1>10. ASSUME NEW t \in Watchers, NEW g \in Sg!GroupSet, NEW f \in {"take", "check"},
           Sg!Begin(t, g, f) PROVE (SgpioAlone /\ Sg!NoLostWakeup)'
  <2>1. /\ \A u \in Watchers \ {t} : spc'[u] = spc[u] /\ group'[u] = group[u]
        /\ spc'[t] = f /\ spc[t] = "idle" /\ group'[t] = g
    BY <1>10 DEF Sg!Begin, Sg!Running, Sg!Goto
  <2>2. UNCHANGED <<latched, irqSgpio, look, sgWakers, sgTook, sready, unseen>>
    BY <1>10 DEF Sg!Begin
  <2>3. lone'[t] => \A v \in Watchers \ {t} : ~(spc[v] \notin {"idle", "take"} /\ group[v] = g)
    BY <1>10 DEF Sg!Begin, Sg!Waits
  <2>4. \A u \in Watchers \ {t} : lone'[u] => lone[u] /\ ~(spc[u] \notin {"idle", "take"} /\ group[u] = g /\ f = "check")
    BY <1>10 DEF Sg!Begin, Sg!Waits
  <2>5. SgpioAlone'
    <3>1. ASSUME NEW w \in Watchers, lone'[w], spc'[w] \in SgpioWaits,
                 NEW u \in Watchers \ {w}, group'[u] = group'[w], spc'[u] \in SgpioWaits
          PROVE  FALSE
      <4>1. CASE w = t
        <5>1. spc'[u] = spc[u] /\ group'[u] = group[u] /\ group'[t] = g
          BY <2>1, <3>1, <4>1
        <5> QED  BY <2>3, <3>1, <4>1, <5>1
      <4>2. CASE u = t
        <5>1. spc'[w] = spc[w] /\ group'[w] = group[w] /\ group'[t] = g /\ f = "check"
          BY <2>1, <3>1, <4>2
        <5> QED  BY <2>4, <3>1, <4>2, <5>1
      <4>3. CASE w # t /\ u # t
        <5>1. /\ spc'[w] = spc[w] /\ group'[w] = group[w]
              /\ spc'[u] = spc[u] /\ group'[u] = group[u] /\ lone[w]
          BY <2>1, <2>4, <3>1, <4>3
        <5> QED  BY <3>1, <4>3, <5>1
      <4> QED  BY <4>1, <4>2, <4>3
    <3>2. ASSUME NEW w \in Watchers, lone'[w], spc'[w] \in {"recheck", "pending"}
          PROVE  sgWakers'[group'[w]] = w
      BY <2>1, <2>2, <2>4, <3>2
    <3> QED  BY <3>1, <3>2
  <2>6. Sg!NoLostWakeup'
    <3>1. ASSUME NEW w \in Watchers, lone'[w], spc'[w] = "pending", latched'[group'[w]] # {}
          PROVE  \/ w \in sready' \/ irqSgpio'
                 \/ look' # 0 /\ \E i \in look'..Len(Groups) : Groups[i] = group'[w]
      <4>1. lone[w] /\ spc[w] = "pending" /\ group'[w] = group[w]
        BY <2>1, <2>4, <3>1
      <4> QED  BY <2>2, <3>1, <4>1, SMTT(30)
    <3> QED  BY <3>1
  <2> QED  BY <2>5, <2>6
<1>11. ASSUME NEW t \in Watchers, Sg!Take(t) PROVE (SgpioAlone /\ Sg!NoLostWakeup)'
  <2>1. /\ \A u \in Watchers \ {t} : spc'[u] = spc[u]
        /\ spc'[t] = "clear"
        /\ UNCHANGED <<latched, sready>>
        /\ UNCHANGED <<irqSgpio, look, sgWakers, group, lone>>
    BY <1>11 DEF Sg!Take, Sg!Goto
  <2> QED  BY <2>1, SgpioMoves DEF SgpioWaits
<1>12. ASSUME NEW t \in Watchers, Sg!Check(t) PROVE (SgpioAlone /\ Sg!NoLostWakeup)'
  <2>1. /\ \A u \in Watchers \ {t} : spc'[u] = spc[u]
        /\ spc[t] = "check" /\ spc'[t] \in {"clear", "register"}
        /\ UNCHANGED <<latched, sready>>
        /\ UNCHANGED <<irqSgpio, look, sgWakers, group, lone>>
    BY <1>12 DEF Sg!Check, Sg!Goto, Sg!Read
  <2> QED  BY <2>1, SgpioMoves DEF SgpioWaits
<1>13. ASSUME NEW t \in Watchers, Sg!Register(t) PROVE (SgpioAlone /\ Sg!NoLostWakeup)'
  <2>1. /\ \A u \in Watchers \ {t} : spc'[u] = spc[u]
        /\ spc[t] = "register" /\ spc'[t] = "recheck"
        /\ \A h \in Sg!GroupSet : sgWakers'[h] = IF h = group[t] THEN t ELSE sgWakers[h]
        /\ UNCHANGED <<latched, irqSgpio, look, group, sready, lone>>
    BY <1>13 DEF Sg!Register, Sg!Running, Sg!Goto
  <2>2. SgpioAlone'
    BY <2>1, ZenonT(30)
  <2>3. Sg!NoLostWakeup'
    BY <2>1, ZenonT(30)
  <2> QED  BY <2>2, <2>3
<1>14. ASSUME NEW t \in Watchers, Sg!Recheck(t) PROVE (SgpioAlone /\ Sg!NoLostWakeup)'
  <2>1. /\ \A u \in Watchers \ {t} : spc'[u] = spc[u]
        /\ spc[t] = "recheck" /\ spc'[t] \in {"clear", "pending"}
        /\ (spc'[t] = "pending" => latched[group[t]] = {}) /\ UNCHANGED <<latched, sready>>
        /\ UNCHANGED <<irqSgpio, look, sgWakers, group, lone>>
    BY <1>14 DEF Sg!Recheck, Sg!Goto, Sg!Read
  <2> QED  BY <2>1, SgpioMoves DEF SgpioWaits
<1>15. ASSUME NEW t \in Watchers, Sg!Clear(t) PROVE (SgpioAlone /\ Sg!NoLostWakeup)'
  <2>1. /\ \A u \in Watchers \ {t} : spc'[u] = spc[u]
        /\ spc'[t] = "over" /\ UNCHANGED sready
        /\ \A h \in Sg!GroupSet : latched'[h] \subseteq latched[h]
        /\ UNCHANGED <<irqSgpio, look, sgWakers, group, lone>>
    BY <1>15 DEF Sg!Clear, Sg!Goto
  <2> QED  BY <2>1, SgpioMoves DEF SgpioWaits
<1>16. ASSUME NEW t \in Watchers, Sg!Return(t) PROVE (SgpioAlone /\ Sg!NoLostWakeup)'
  <2>1. /\ \A u \in Watchers \ {t} : spc'[u] = spc[u]
        /\ spc'[t] = "idle"
        /\ UNCHANGED <<latched, sready>>
        /\ UNCHANGED <<irqSgpio, look, sgWakers, group, lone>>
    BY <1>16 DEF Sg!Return, Sg!Goto
  <2> QED  BY <2>1, SgpioMoves DEF SgpioWaits
<1>17. CASE UNCHANGED Sg!sgpioVars
  BY <1>17 DEF Sg!sgpioVars
<1> HIDE PartsAssumption, GroupsSound DEF Sg!SgpioAssumption, Sg!TypeOK, SgpioAlone,
       SgpioWaits, Sg!NoLostWakeup
<1> QED
  BY <1>1, <1>2, <1>3, <1>4, <1>5, <1>6, <1>7, <1>8, <1>9, <1>10, <1>11, <1>12, <1>13, <1>14,
     <1>15, <1>16, <1>17 DEF Sg!Next

\* Every step keeps the invariant.
LEMMA SgpioStep == SgpioInv /\ [Sg!Next]_(Sg!sgpioVars) => SgpioInv'
  BY SgpioType, SgpioKept, SgpioWaked DEF SgpioInv, SgpioKeeps

\* No event is cleared that a call has not returned, and a wait that is alone on
\* its group is woken.
THEOREM SgpioRight == Sg!Spec => []SgpioInv
  BY SgpioStep, SgpioInit, PTL DEF Sg!Spec

-----------------------------------------------------------------------------
(* The flash controllers.                                                  *)

\* A command that met no reset is executed or has been.
FlashSent ==
  \A t \in Flashers : calm[t] /\ npc[t] = "after" =>
     effect[t] = "whole" \/ (wip = t /\ effect[t] = "started")

\* A transfer that met no other runs, has ended or was stopped, and it alone
\* sets the done bit.
FlashReads ==
  \A t \in DmaReaders : quiet[t] =>
     /\ noRpc[t] = "wait" => dma \in {t, None} /\ (dmaDone => filled[t])
     /\ noRpc[t] = "over" => dma = None

FlashInv == No!TypeOK /\ FlashSent /\ FlashReads /\ No!Performed /\ No!OwnData

\* The chip is idle.
LEMMA FlashInit == No!Init => FlashInv
<1> SUFFICES ASSUME No!Init PROVE FlashInv
  OBVIOUS
<1>1. No!TypeOK
  <2>1. /\ calm \in [Flashers -> BOOLEAN]
        /\ filled \in [DmaReaders -> BOOLEAN] /\ quiet \in [DmaReaders -> BOOLEAN]
    BY DEF No!Init
  <2>2. /\ npc \in [Flashers -> {"idle", "before", "after", "reset", "settle", "over", "bad"}]
        /\ effect \in [Flashers -> {"none", "started", "whole"}]
        /\ noRpc \in [DmaReaders -> {"idle", "start", "wait", "over", "bad"}]
    BY DEF No!Init
  <2>3. wip = None /\ wel = FALSE /\ dma = None /\ dmaDone = FALSE
    BY DEF No!Init
  <2> QED  BY <2>1, <2>2, <2>3 DEF No!TypeOK
<1>2. FlashSent /\ FlashReads /\ No!Performed /\ No!OwnData
  BY DEF No!Init, FlashSent, FlashReads, No!Performed, No!OwnData
<1> QED  BY <1>1, <1>2 DEF FlashInv

\* Every step keeps the types.
LEMMA FlashType == No!TypeOK /\ [No!Next]_(No!norVars) => No!TypeOK'
<1> SUFFICES ASSUME No!TypeOK, [No!Next]_(No!norVars) PROVE No!TypeOK'
  OBVIOUS
<1> USE DEF No!TypeOK, No!chipVars, No!dmaVars
<1>1. CASE No!ChipDone
  BY <1>1 DEF No!ChipDone
<1>2. CASE No!DmaEnd
  BY <1>2 DEF No!DmaEnd
<1>3. ASSUME NEW t \in Flashers, NEW f \in {"before", "reset", "bad"}, No!Begin(t, f) PROVE
           No!TypeOK'
  BY <1>3 DEF No!Begin, No!Goto
<1>4. ASSUME NEW t \in Flashers, No!Command(t) PROVE No!TypeOK'
  BY <1>4 DEF No!Command, No!Send, No!Goto
<1>5. ASSUME NEW t \in Flashers, No!After(t) PROVE No!TypeOK'
  BY <1>5 DEF No!After, No!Goto
<1>6. ASSUME NEW t \in Flashers, No!Reset(t) PROVE No!TypeOK'
  BY <1>6 DEF No!Reset, No!Goto
<1>7. ASSUME NEW t \in Flashers, No!Return(t) PROVE No!TypeOK'
  BY <1>7 DEF No!Return, No!Goto
<1>8. ASSUME NEW t \in Flashers, No!Cancel(t) PROVE No!TypeOK'
  BY <1>8 DEF No!Cancel, No!Goto
<1>9. ASSUME NEW t \in DmaReaders, NEW f \in {"start", "bad"}, No!BeginRead(t, f) PROVE
           No!TypeOK'
  BY <1>9 DEF No!BeginRead, No!GotoR
<1>10. ASSUME NEW t \in DmaReaders, No!DmaStart(t) PROVE No!TypeOK'
  BY <1>10 DEF No!DmaStart, No!Launch, No!GotoR
<1>11. ASSUME NEW t \in DmaReaders, No!DmaSeen(t) PROVE No!TypeOK'
  BY <1>11 DEF No!DmaSeen, No!GotoR
<1>12. ASSUME NEW t \in DmaReaders, No!DmaTimeout(t) PROVE No!TypeOK'
  BY <1>12 DEF No!DmaTimeout, No!GotoR
<1>13. ASSUME NEW t \in DmaReaders, No!CancelRead(t) PROVE No!TypeOK'
  BY <1>13 DEF No!CancelRead, No!GotoR
<1>14. ASSUME NEW t \in DmaReaders, No!ReturnRead(t) PROVE No!TypeOK'
  BY <1>14 DEF No!ReturnRead, No!GotoR
<1>15. CASE UNCHANGED No!norVars
  BY <1>15 DEF No!norVars
<1> QED
  BY <1>1, <1>2, <1>3, <1>4, <1>5, <1>6, <1>7, <1>8, <1>9, <1>10, <1>11, <1>12, <1>13, <1>14,
     <1>15 DEF No!Next

\* A command is sent to a chip that listens, and a DMA read ends with its data.
LEMMA FlashStep ==
  FlashInv /\ [No!Next]_(No!norVars)
    => (FlashSent /\ FlashReads /\ No!Performed /\ No!OwnData)'
<1> SUFFICES ASSUME FlashInv, [No!Next]_(No!norVars) PROVE (FlashSent /\ FlashReads /\
             No!Performed /\ No!OwnData)'
  OBVIOUS
<1> USE PartsAssumption DEF No!NorAssumption, FlashInv, No!TypeOK, FlashSent, FlashReads,
       No!Performed, No!OwnData, No!chipVars, No!dmaVars
<1>1. CASE No!ChipDone
  BY <1>1 DEF No!ChipDone
<1>2. CASE No!DmaEnd
  BY <1>2 DEF No!DmaEnd
<1>3. ASSUME NEW t \in Flashers, NEW f \in {"before", "reset", "bad"}, No!Begin(t, f) PROVE
           (FlashSent /\ FlashReads /\ No!Performed /\ No!OwnData)'
  BY <1>3 DEF No!Begin, No!Goto
<1>4. ASSUME NEW t \in Flashers, No!Command(t) PROVE (FlashSent /\ FlashReads /\
           No!Performed /\ No!OwnData)'
  BY <1>4 DEF No!Command, No!Send, No!Goto
<1>5. ASSUME NEW t \in Flashers, No!After(t) PROVE (FlashSent /\ FlashReads /\ No!Performed
           /\ No!OwnData)'
  BY <1>5 DEF No!After, No!Goto
<1>6. ASSUME NEW t \in Flashers, No!Reset(t) PROVE (FlashSent /\ FlashReads /\ No!Performed
           /\ No!OwnData)'
  BY <1>6 DEF No!Reset, No!Goto
<1>7. ASSUME NEW t \in Flashers, No!Return(t) PROVE (FlashSent /\ FlashReads /\ No!Performed
           /\ No!OwnData)'
  BY <1>7 DEF No!Return, No!Goto
<1>8. ASSUME NEW t \in Flashers, No!Cancel(t) PROVE (FlashSent /\ FlashReads /\ No!Performed
           /\ No!OwnData)'
  BY <1>8 DEF No!Cancel, No!Goto
<1>9. ASSUME NEW t \in DmaReaders, NEW f \in {"start", "bad"}, No!BeginRead(t, f) PROVE
           (FlashSent /\ FlashReads /\ No!Performed /\ No!OwnData)'
  BY <1>9 DEF No!BeginRead, No!GotoR
<1>10. ASSUME NEW t \in DmaReaders, No!DmaStart(t) PROVE (FlashSent /\ FlashReads /\
           No!Performed /\ No!OwnData)'
  BY <1>10 DEF No!DmaStart, No!Launch, No!GotoR
<1>11. ASSUME NEW t \in DmaReaders, No!DmaSeen(t) PROVE (FlashSent /\ FlashReads /\
           No!Performed /\ No!OwnData)'
  BY <1>11 DEF No!DmaSeen, No!GotoR
<1>12. ASSUME NEW t \in DmaReaders, No!DmaTimeout(t) PROVE (FlashSent /\ FlashReads /\
           No!Performed /\ No!OwnData)'
  BY <1>12 DEF No!DmaTimeout, No!GotoR
<1>13. ASSUME NEW t \in DmaReaders, No!CancelRead(t) PROVE (FlashSent /\ FlashReads /\
           No!Performed /\ No!OwnData)'
  BY <1>13 DEF No!CancelRead, No!GotoR
<1>14. ASSUME NEW t \in DmaReaders, No!ReturnRead(t) PROVE (FlashSent /\ FlashReads /\
           No!Performed /\ No!OwnData)'
  BY <1>14 DEF No!ReturnRead, No!GotoR
<1>15. CASE UNCHANGED No!norVars
  BY <1>15 DEF No!norVars
<1> QED
  BY <1>1, <1>2, <1>3, <1>4, <1>5, <1>6, <1>7, <1>8, <1>9, <1>10, <1>11, <1>12, <1>13, <1>14,
     <1>15 DEF No!Next

\* Every step keeps the invariant.
LEMMA FlashKept == FlashInv /\ [No!Next]_(No!norVars) => FlashInv'
  BY FlashType, FlashStep DEF FlashInv

\* A command that is answered was executed, and a transfer that is has its data.
THEOREM FlashRight == No!Spec => []FlashInv
  BY FlashKept, FlashInit, PTL DEF No!Spec

-----------------------------------------------------------------------------
(* IPC1.                                                                   *)

\* Whoever is at work has an identifier, and what the receiver reads is pending.
IpcIds ==
  /\ sending.at # "idle" => sending.id \in Ids
  /\ sending.at = "wait" => sending.word = 0
  /\ taking.at # "idle" => taking.id \in Ids
  /\ taking.at = "read" => taking.id \in pending

\* A pending payload is whole, and one that is being written is not pending.
IpcSlots ==
  \A i \in Ids \ forced :
     /\ i \in pending => \A w \in 1..NumWords : ipSlot[i][w] = lastSent[i]
     /\ sending.at = "write" /\ sending.id = i =>
          i \notin pending /\ \A w \in 1..sending.word : ipSlot[i][w] = sending.no

IpcInv == Ip!TypeOK /\ IpcIds /\ IpcSlots /\ Ip!Delivered

Below == {p \in Nat \X Nat : p[1] < p[2]}

\* The identifier that try_recv takes is pending.
LEMMA MinIsIn ==
  ASSUME NEW S \in SUBSET Nat, S # {}
  PROVE  Ip!Min(S) \in S
<1>1. IsWellFoundedOn(Below, Nat)
  BY NatLessThanWellFounded DEF Below, OpToRel
<1>2. PICK x \in S : \A y \in S : <<y, x>> \notin Below
  BY <1>1, WFMin
<1>3. \A y \in S : <<y, x>> \in Nat \X Nat /\ <<y, x>>[1] = y /\ <<y, x>>[2] = x
  OBVIOUS
<1>4. \A y \in S : ~(y < x)
  BY <1>2, <1>3 DEF Below
<1>5. \A y \in S : x <= y
  BY <1>4
<1> QED  BY <1>5 DEF Ip!Min

\* No message is under way.
LEMMA IpcInit == Ip!Init => IpcInv
<1> SUFFICES ASSUME Ip!Init PROVE IpcInv
  OBVIOUS
<1> USE PartsAssumption DEF Ip!Ipc1Assumption, Ip!Init
<1>1. Ip!TypeOK
  BY DEF Ip!TypeOK, Ip!Payload, Ip!Msgs
<1>2. IpcIds /\ IpcSlots /\ Ip!Delivered
  BY DEF IpcIds, IpcSlots, Ip!Delivered
<1> QED  BY <1>1, <1>2 DEF IpcInv

\* Every step keeps the types.
LEMMA IpcType == Ip!TypeOK /\ IpcIds /\ [Ip!Next]_(Ip!ipc1Vars) => (Ip!TypeOK /\ IpcIds)'
<1> SUFFICES ASSUME Ip!TypeOK /\ IpcIds, [Ip!Next]_(Ip!ipc1Vars) PROVE (Ip!TypeOK /\
             IpcIds)'
  OBVIOUS
<1> USE PartsAssumption DEF Ip!Ipc1Assumption, IpcIds, Ip!TypeOK, Ip!Payload, Ip!Msgs
<1>1. ASSUME NEW i \in Ids, Ip!Send(i) PROVE (Ip!TypeOK /\ IpcIds)'
  <2>1. sending.no + 1 \in 0..MaxSends
    BY <1>1 DEF Ip!Send
  <2>2. sending' \in [at : {"idle", "wait", "write"}, id : Ids \cup {None}, no : 0..MaxSends,
                     word : 0..NumWords]
    BY <1>1, <2>1 DEF Ip!Send
  <2> QED  BY <1>1, <2>2 DEF Ip!Send
<1>2. CASE Ip!Seen
  BY <1>2 DEF Ip!Seen
<1>3. CASE Ip!GiveUp
  BY <1>3 DEF Ip!GiveUp
<1>4. CASE Ip!Drop
  BY <1>4 DEF Ip!Drop
<1>5. CASE Ip!WriteWord
  <2>1. sending.id \in Ids /\ sending.word + 1 \in 1..NumWords /\ sending.no \in 0..MaxSends
    BY <1>5 DEF Ip!WriteWord
  <2>2. sending' \in [at : {"idle", "wait", "write"}, id : Ids \cup {None}, no : 0..MaxSends,
                     word : 0..NumWords]
    <3>1. sending' = [sending EXCEPT !.word = sending.word + 1] /\ sending.word + 1 \in 0..NumWords
      BY <1>5, <2>1 DEF Ip!WriteWord
    <3> QED  BY <3>1
  <2>3. [ipSlot[sending.id] EXCEPT ![sending.word + 1] = sending.no] \in [1..NumWords -> 0..MaxSends]
    BY <2>1
  <2>4. ipSlot' = [ipSlot EXCEPT ![sending.id] =
                    [ipSlot[sending.id] EXCEPT ![sending.word + 1] = sending.no]]
    BY <1>5, <2>1 DEF Ip!WriteWord
  <2>5. ipSlot' \in [Ids -> [1..NumWords -> 0..MaxSends]]
    BY <2>1, <2>3, <2>4
  <2> QED  BY <1>5, <2>2, <2>5 DEF Ip!WriteWord
<1>6. CASE Ip!Trigger
  BY <1>6 DEF Ip!Trigger
<1>7. CASE Ip!TryRecv
  <2>1. Ip!Min(pending) \in pending /\ Ip!Min(pending) \in Ids
    BY <1>7, MinIsIn DEF Ip!TryRecv
  <2>2. taking' \in [at : {"idle", "read", "ack"}, id : Ids \cup {None}, word : 0..NumWords]
    BY <1>7, <2>1 DEF Ip!TryRecv
  <2> QED  BY <1>7, <2>1, <2>2 DEF Ip!TryRecv
<1>8. CASE Ip!ReadWord
  <2>1. taking.id \in Ids /\ taking.word + 1 \in 1..NumWords
    BY <1>8 DEF Ip!ReadWord
  <2>2. taking' \in [at : {"idle", "read", "ack"}, id : Ids \cup {None}, word : 0..NumWords]
    <3>1. taking' = [taking EXCEPT !.word = taking.word + 1] /\ taking.word + 1 \in 0..NumWords
      BY <1>8, <2>1 DEF Ip!ReadWord
    <3> QED  BY <3>1
  <2>3. buffer' \in [1..NumWords -> 0..MaxSends]
    BY <1>8, <2>1 DEF Ip!ReadWord
  <2> QED  BY <1>8, <2>2, <2>3 DEF Ip!ReadWord
<1>9. CASE Ip!Ack
  <2>1. taking.id \in Ids /\ buffer[1] \in 0..MaxSends
    BY <1>9 DEF Ip!Ack
  <2>2. taking' \in [at : {"idle", "read", "ack"}, id : Ids \cup {None}, word : 0..NumWords]
    BY <1>9, <2>1 DEF Ip!Ack
  <2>3. lastTaken' \in [Ids -> 0..MaxSends] /\ pending' \subseteq Ids
    BY <1>9, <2>1 DEF Ip!Ack
  <2> QED  BY <1>9, <2>2, <2>3 DEF Ip!Ack
<1>10. CASE UNCHANGED Ip!ipc1Vars
  BY <1>10 DEF Ip!ipc1Vars
<1> QED
  BY <1>1, <1>2, <1>3, <1>4, <1>5, <1>6, <1>7, <1>8, <1>9, <1>10 DEF Ip!Next

\* A slot that is full is written by nobody before it has been read.
LEMMA IpcStep == IpcInv /\ [Ip!Next]_(Ip!ipc1Vars) => (IpcSlots /\ Ip!Delivered)'
<1> SUFFICES ASSUME IpcInv, [Ip!Next]_(Ip!ipc1Vars) PROVE (IpcSlots /\ Ip!Delivered)'
  OBVIOUS
<1> USE PartsAssumption DEF Ip!Ipc1Assumption, IpcInv, IpcIds, IpcSlots, Ip!Delivered,
       Ip!TypeOK, Ip!Payload, Ip!Msgs
<1>1. ASSUME NEW i \in Ids, Ip!Send(i) PROVE (IpcSlots /\ Ip!Delivered)'
  <2>1. UNCHANGED <<pending, ipSlot, taking, buffer, lastSent, lastTaken, forced>>
    BY <1>1 DEF Ip!Send
  <2>2. sending'.at = "wait"
    BY <1>1 DEF Ip!Send
  <2> QED  BY <2>1, <2>2
<1>2. CASE Ip!Seen
  BY <1>2 DEF Ip!Seen
<1>3. CASE Ip!GiveUp
  BY <1>3 DEF Ip!GiveUp
<1>4. CASE Ip!Drop
  BY <1>4 DEF Ip!Drop
<1>5. CASE Ip!WriteWord
  BY <1>5 DEF Ip!WriteWord
<1>6. CASE Ip!Trigger
  <2>1. sending.id \in Ids /\ sending.no \in 0..MaxSends /\ sending'.at = "idle"
    BY <1>6 DEF Ip!Trigger
  <2>2. /\ pending' = pending \cup {sending.id} /\ UNCHANGED <<ipSlot, taking, buffer, lastTaken, forced>>
        /\ lastSent'[sending.id] = sending.no
        /\ \A i \in Ids \ {sending.id} : lastSent'[i] = lastSent[i]
    BY <1>6 DEF Ip!Trigger
  <2>3. sending.id \notin forced =>
          sending.id \notin pending /\ \A w \in 1..NumWords : ipSlot[sending.id][w] = sending.no
    BY <1>6, <2>1 DEF Ip!Trigger
  <2>4. IpcSlots'
    BY <2>1, <2>2, <2>3
  <2>5. Ip!Delivered'
    BY <2>1, <2>2, <2>3
  <2> QED  BY <2>4, <2>5
<1>7. CASE Ip!TryRecv
  BY <1>7 DEF Ip!TryRecv
<1>8. CASE Ip!ReadWord
  BY <1>8 DEF Ip!ReadWord
<1>9. CASE Ip!Ack
  <2>1. taking.id \in Ids /\ taking.word = NumWords /\ taking'.at = "idle"
    BY <1>9 DEF Ip!Ack
  <2>2. /\ pending' = pending \ {taking.id} /\ UNCHANGED <<ipSlot, sending, buffer, lastSent, forced>>
        /\ lastTaken'[taking.id] = buffer[1]
        /\ \A i \in Ids \ {taking.id} : lastTaken'[i] = lastTaken[i]
    BY <1>9 DEF Ip!Ack
  <2>3. taking.id \notin forced => buffer[1] = lastSent[taking.id]
    BY <1>9, <2>1 DEF Ip!Ack
  <2>4. IpcSlots'
    BY <2>1, <2>2
  <2>5. Ip!Delivered'
    BY <2>1, <2>2, <2>3
  <2> QED  BY <2>4, <2>5
<1>10. CASE UNCHANGED Ip!ipc1Vars
  BY <1>10 DEF Ip!ipc1Vars
<1> QED
  BY <1>1, <1>2, <1>3, <1>4, <1>5, <1>6, <1>7, <1>8, <1>9, <1>10 DEF Ip!Next

\* Every step keeps the invariant.
LEMMA IpcKept == IpcInv /\ [Ip!Next]_(Ip!ipc1Vars) => IpcInv'
  BY IpcType, IpcStep DEF IpcInv

\* Unless a send gave up, every message is received whole before the next is sent.
THEOREM IpcRight == Ip!Spec => []IpcInv
  BY IpcKept, IpcInit, PTL DEF Ip!Spec

-----------------------------------------------------------------------------
(* The random number generator.                                            *)

\* The history of the words, the Boolean of the register and the lengths.
RandomTypes ==
  /\ trReady \in BOOLEAN /\ handed \in [0..MaxRandoms -> Nat]
  /\ len \in [Randoms -> 0..MaxLen]
  /\ trRpc \in [Randoms -> {"idle", "poll", "sleep", "spin", "ok", "bad"}]

\* A word that has yet to be generated, or that is ready, was handed out to nobody.
RandomFresh ==
  \A w \in 0..MaxRandoms :
     /\ handed[w] <= 1
     /\ w > data \/ (w = data /\ trReady) => handed[w] = 0

\* A read goes on until its buffer is full, and does not go beyond its end; while
\* it goes on it has attempts left.
RandomFill ==
  \A t \in Randoms :
     /\ fill[t] <= len[t]
     /\ trRpc[t] = "ok" => fill[t] = len[t]
     /\ trRpc[t] \in {"poll", "spin"} => polls[t] > 0

RandomInv == Tr!TypeOK /\ RandomTypes /\ RandomFresh /\ RandomFill

\* The source has handed out nothing.
LEMMA RandomInit == Tr!Init => RandomInv
<1> SUFFICES ASSUME Tr!Init PROVE RandomInv
  OBVIOUS
<1> USE PartsAssumption DEF Tr!TrngAssumption, Tr!Init
<1>1. Tr!TypeOK
  BY DEF Tr!TypeOK
<1>2. RandomTypes
  <2>1. trReady \in BOOLEAN /\ handed \in [0..MaxRandoms -> Nat]
    OBVIOUS
  <2>2. len \in [Randoms -> 0..MaxLen]
    OBVIOUS
  <2>3. trRpc \in [Randoms -> {"idle", "poll", "sleep", "spin", "ok", "bad"}]
    OBVIOUS
  <2> QED  BY <2>1, <2>2, <2>3 DEF RandomTypes
<1>3. RandomFresh /\ RandomFill
  BY DEF RandomFresh, RandomFill
<1> QED  BY <1>1, <1>2, <1>3 DEF RandomInv

\* Every step keeps the types.
LEMMA RandomType ==
  Tr!TypeOK /\ RandomTypes /\ RandomFill /\ [Tr!Next]_(Tr!trngVars)
    => (Tr!TypeOK /\ RandomTypes)'
<1> SUFFICES ASSUME Tr!TypeOK /\ RandomTypes /\ RandomFill, [Tr!Next]_(Tr!trngVars) PROVE
             (Tr!TypeOK /\ RandomTypes)'
  OBVIOUS
<1> USE PartsAssumption DEF Tr!TrngAssumption, Tr!TypeOK, RandomTypes, RandomFill
<1>1. CASE Tr!Enable
  BY <1>1 DEF Tr!Enable
<1>2. CASE Tr!Generate
  BY <1>2 DEF Tr!Generate
<1>3. ASSUME NEW t \in Randoms, NEW n \in 0..MaxLen, NEW how \in {"poll", "spin"},
           Tr!Begin(t, n, how) PROVE (Tr!TypeOK /\ RandomTypes)'
  BY <1>3 DEF Tr!Begin
<1>4. ASSUME NEW t \in Randoms, Tr!Take(t) PROVE (Tr!TypeOK /\ RandomTypes)'
  <2>1. fill[t] + Tr!Chunk(t) \in 0..MaxLen
    BY <1>4 DEF Tr!Chunk
  <2>2. trRpc' \in [Randoms -> {"idle", "poll", "sleep", "spin", "ok", "bad"}]
    BY <1>4 DEF Tr!Take, Tr!Store
  <2>3. polls' \in [Randoms -> 0..MaxPolls] /\ fill' \in [Randoms -> 0..MaxLen]
    BY <1>4, <2>1 DEF Tr!Take, Tr!Store
  <2>4. handed' \in [0..MaxRandoms -> Nat]
    BY <1>4 DEF Tr!Take, Tr!Store
  <2>5. trReady' = FALSE
    BY <1>4 DEF Tr!Take, Tr!Store
  <2> QED  BY <1>4, <2>2, <2>3, <2>4, <2>5 DEF Tr!Take
<1>5. ASSUME NEW t \in Randoms, Tr!Miss(t) PROVE (Tr!TypeOK /\ RandomTypes)'
  BY <1>5 DEF Tr!Miss
<1>6. ASSUME NEW t \in Randoms, Tr!Wake(t) PROVE (Tr!TypeOK /\ RandomTypes)'
  BY <1>6 DEF Tr!Wake
<1>7. ASSUME NEW t \in Randoms, Tr!Leave(t) PROVE (Tr!TypeOK /\ RandomTypes)'
  BY <1>7 DEF Tr!Leave
<1>8. CASE UNCHANGED Tr!trngVars
  BY <1>8 DEF Tr!trngVars
<1> QED
  BY <1>1, <1>2, <1>3, <1>4, <1>5, <1>6, <1>7, <1>8 DEF Tr!Next

\* A word that is handed out is new, and a read goes on to the end of its buffer.
LEMMA RandomStep == RandomInv /\ [Tr!Next]_(Tr!trngVars) => (RandomFresh /\ RandomFill)'
<1> SUFFICES ASSUME RandomInv, [Tr!Next]_(Tr!trngVars) PROVE (RandomFresh /\ RandomFill)'
  OBVIOUS
<1> USE PartsAssumption DEF Tr!TrngAssumption, RandomInv, Tr!TypeOK, RandomTypes,
       RandomFresh, RandomFill
<1>1. CASE Tr!Enable
  BY <1>1 DEF Tr!Enable
<1>2. CASE Tr!Generate
  BY <1>2 DEF Tr!Generate
<1>3. ASSUME NEW t \in Randoms, NEW n \in 0..MaxLen, NEW how \in {"poll", "spin"},
           Tr!Begin(t, n, how) PROVE (RandomFresh /\ RandomFill)'
  BY <1>3 DEF Tr!Begin
<1>4. ASSUME NEW t \in Randoms, Tr!Take(t) PROVE (RandomFresh /\ RandomFill)'
  BY <1>4 DEF Tr!Take, Tr!Store, Tr!Chunk
<1>5. ASSUME NEW t \in Randoms, Tr!Miss(t) PROVE (RandomFresh /\ RandomFill)'
  BY <1>5 DEF Tr!Miss
<1>6. ASSUME NEW t \in Randoms, Tr!Wake(t) PROVE (RandomFresh /\ RandomFill)'
  BY <1>6 DEF Tr!Wake
<1>7. ASSUME NEW t \in Randoms, Tr!Leave(t) PROVE (RandomFresh /\ RandomFill)'
  BY <1>7 DEF Tr!Leave
<1>8. CASE UNCHANGED Tr!trngVars
  BY <1>8 DEF Tr!trngVars
<1> QED
  BY <1>1, <1>2, <1>3, <1>4, <1>5, <1>6, <1>7, <1>8 DEF Tr!Next

\* Every step keeps the invariant.
LEMMA RandomKept == RandomInv /\ [Tr!Next]_(Tr!trngVars) => RandomInv'
  BY RandomType, RandomStep DEF RandomInv

\* No word is handed out twice, and a buffer that is returned is full.
THEOREM RandomRight == Tr!Spec => []RandomInv
  BY RandomKept, RandomInit, PTL DEF Tr!Spec

-----------------------------------------------------------------------------
(* The eMMC host, with one copying task.                                   *)

\* Initialisation and copies do not meet.
OneCaller == epc[Starter] = "idle" \/ epc[Copier] = "idle"

\* While a block is read the controller works for this copy alone: the command,
\* the data lines and the status are at one point of the transfer, unless an
\* error is shown, and the block is the one the copy needs next.
Reading ==
  epc[Copier] \in {"cmd", "buf", "xfer"} =>
    /\ block = src[Copier] \div Bytes
    /\ \/ "error" \in emStatus
       \/ epc[Copier] = "cmd" /\ emDat = "asked" /\ emBusy /\ emStatus = {}
       \/ /\ epc[Copier] \in {"cmd", "buf"} /\ ~emBusy
          /\ \/ emDat = "loading" /\ emStatus \subseteq {"cmd"}
             \/ emDat = "full" /\ emStatus \subseteq {"cmd", "buf"}
       \/ /\ epc[Copier] = "xfer" /\ ~emBusy /\ scratch[Copier] = block
          /\ \/ emDat = "drained" /\ "xfer" \notin emStatus
             \/ emDat = "free"

\* A copy that has not failed has stored what it was asked for up to here, and
\* stays within the range it was given.
Copying ==
  /\ src[Copier] + emLeft[Copier] <= 2 * MaxBytes
  /\ epc[Copier] \in {"inhibit", "cmd", "buf", "xfer", "over"} => good[Copier]

\* The command that is under way is the one that identify waits for, and its
\* completion is shown once the card has carried it out.
Identifying ==
  /\ epc[Starter] \in {"inhibit", "cmd"} /\ step = 1 => tries = 0
  /\ epc[Starter] = "inhibit" /\ step = 2 => tries < Tries
  /\ epc[Starter] = "cmd" => /\ cmd.idx = Em!Identify[step]
                             /\ "cmd" \in emStatus => ~emBusy /\ (step = 6 => card = "sized")
  /\ epc[Starter] = "over" => ~emBusy /\ card = "sized"

EmmcInv == Em!TypeOK /\ OneCaller /\ Reading /\ Copying /\ Identifying /\ Em!CopiedRight

\* The six commands of the identification.
LEMMA IdentifySix ==
  /\ Len(Em!Identify) = 6 /\ \A i \in 1..6 : Em!Identify[i] \in {0, 1, 2, 3, 7, 16}
  /\ \A i \in 1..6 : (Em!Identify[i] = 1 <=> i = 2) /\ (Em!Identify[i] = 16 <=> i = 6)
  BY DEF Em!Identify

\* Division does not change the order.
LEMMA DivIsMonotonic ==
  ASSUME NEW d \in Nat \ {0}, NEW x \in Nat, NEW y \in Nat, x <= y
  PROVE  x \div d \in Nat /\ x \div d <= y \div d
<1>1. x \div d \in Nat /\ y \div d \in Nat
  OBVIOUS
<1>2. d * (x \div d) <= x /\ y < d * (y \div d) + d
  OBVIOUS
<1>3. ASSUME NEW p \in Nat, NEW q \in Nat, q < p PROVE d * p >= d * q + d
  <2>1. d * p = d * (p - 1 - q) + d * q + d
    BY <1>3
  <2>2. p - 1 - q \in Nat
    BY <1>3
  <2>3. d * p \in Nat /\ d * q \in Nat /\ d * (p - 1 - q) \in Nat
    BY <2>2
  <2> QED  BY <2>1, <2>2, <2>3
<1> QED
  <2> SUFFICES ASSUME y \div d < x \div d PROVE FALSE
    BY <1>1
  <2>1. d * (x \div d) >= d * (y \div d) + d
    BY <1>1, <1>3
  <2>2. d * (x \div d) \in Nat /\ d * (y \div d) \in Nat
    BY <1>1
  <2> QED  BY <1>2, <2>1, <2>2

\* A piece is neither longer than what is left nor than what the block holds.
LEMMA PieceFits ==
  ASSUME Em!TypeOK
  PROVE  /\ Em!Piece(Copier) \in Nat /\ Em!Piece(Copier) <= emLeft[Copier]
         /\ (src[Copier] % Bytes) + Em!Piece(Copier) <= Bytes
<1>1. Bytes \in Nat \ {0} /\ src[Copier] \in Nat /\ emLeft[Copier] \in Nat
  BY PartsAssumption DEF Em!EmmcAssumption, Em!TypeOK
<1>2. src[Copier] % Bytes \in Nat /\ src[Copier] % Bytes < Bytes
  BY <1>1
<1> QED  BY <1>1, <1>2 DEF Em!Piece

\* The host has done nothing yet.
LEMMA EmmcInit == Em!Init => EmmcInv
<1> SUFFICES ASSUME Em!Init PROVE EmmcInv
  OBVIOUS
<1> USE PartsAssumption DEF Em!EmmcAssumption
<1>1. Em!TypeOK
  <2>1. /\ cmd \in [by : Em!Callers, idx : {0, 1, 2, 3, 7, 16, 17}]
        /\ epc \in [Em!Callers -> {"idle", "reset", "inhibit", "cmd", "buf", "xfer", "over", "bad"}]
    BY DEF Em!Init, Em!Callers
  <2>2. /\ src \in [{Copier} -> 0..(2 * MaxBytes)] /\ emLeft \in [{Copier} -> 0..MaxBytes]
        /\ scratch \in [{Copier} -> Em!Blocks \cup {None}]
    BY DEF Em!Init
  <2>3. good \in [{Copier} -> BOOLEAN]
    BY DEF Em!Init
  <2>4. step \in 1..Len(Em!Identify) /\ tries \in 0..Tries
    BY IdentifySix DEF Em!Init
  <2>5. /\ emDat = "free" /\ block = None /\ emStatus = {} /\ card = "off"
        /\ emBusy = FALSE /\ ocr = FALSE /\ flags = FALSE /\ rca = TRUE
    BY DEF Em!Init
  <2> QED  BY <2>1, <2>2, <2>3, <2>4, <2>5 DEF Em!TypeOK
<1>2. OneCaller /\ Reading /\ Copying /\ Identifying /\ Em!CopiedRight
  BY IdentifySix DEF Em!Init, Em!Callers, OneCaller, Reading, Copying, Identifying, Em!CopiedRight
<1> QED  BY <1>1, <1>2 DEF EmmcInv

\* Every step keeps the types.
LEMMA EmmcType ==
  Em!TypeOK /\ Copying /\ Identifying /\ [Em!Next]_(Em!emmcVars)
    => Em!TypeOK'
<1> SUFFICES ASSUME Em!TypeOK /\ Copying /\ Identifying, [Em!Next]_(Em!emmcVars) PROVE
             Em!TypeOK'
  OBVIOUS
<1> USE PartsAssumption, IdentifySix DEF Em!EmmcAssumption, Em!Callers, Em!TypeOK, Copying,
       Identifying
<1>1. CASE Em!Respond
  <2>1. card' \in {"off", "idle", "ready", "ident", "stby", "tran", "sized"}
    BY <1>1 DEF Em!Respond, Em!After
  <2>2. ocr' \in BOOLEAN
    BY <1>1 DEF Em!Respond
  <2>3. flags' \in BOOLEAN
    BY <1>1 DEF Em!Respond
  <2>4. emBusy' = FALSE /\ emStatus' = emStatus \cup {"cmd"} /\ emDat' \in {emDat, "loading"}
    BY <1>1 DEF Em!Respond
  <2>5. UNCHANGED <<cmd, block, epc, step, tries, rca, src, emLeft, scratch, good>>
    BY <1>1 DEF Em!Respond, Em!copyVars
  <2> QED  BY <2>1, <2>2, <2>3, <2>4, <2>5
<1>2. CASE Em!Refuse
  BY <1>2, ZenonT(30) DEF Em!Refuse, Em!hostVars, Em!copyVars, Em!Goto
<1>3. CASE Em!Load
  <2>1. emDat' \in {"full", "free"} /\ emStatus' \in {emStatus \cup {"buf"}, emStatus \cup {"error"}}
    BY <1>3 DEF Em!Load
  <2>2. UNCHANGED <<cmd, emBusy, block, card, ocr, flags, epc, step, tries, rca, src, emLeft, scratch, good>>
    BY <1>3 DEF Em!Load, Em!copyVars
  <2> QED  BY <2>1, <2>2
<1>4. CASE Em!Finish
  BY <1>4 DEF Em!Finish, Em!hostVars, Em!copyVars, Em!Goto
<1>5. CASE Em!Start(Starter)
  BY <1>5 DEF Em!Start, Em!hostVars, Em!copyVars, Em!Goto
<1>6. CASE Em!PowerOn(Starter)
  BY <1>6 DEF Em!PowerOn, Em!hostVars, Em!copyVars, Em!Goto
<1>7. CASE Em!Command(Starter)
  BY <1>7 DEF Em!Command, Em!hostVars, Em!copyVars, Em!Goto, Em!Send
<1>8. CASE Em!Completed(Starter)
  <2>1. rca' \in BOOLEAN
    BY <1>8 DEF Em!Completed, Em!Advance
  <2>2. step' \in 1..Len(Em!Identify)
    BY <1>8 DEF Em!Completed, Em!Advance
  <2>3. epc' \in [Em!Callers -> {"idle", "reset", "inhibit", "cmd", "buf", "xfer", "over", "bad"}]
    BY <1>8 DEF Em!Completed, Em!Advance, Em!Goto
  <2>4. /\ emStatus' = emStatus \ {"cmd"}
        /\ UNCHANGED <<cmd, emBusy, emDat, block, card, ocr, flags, tries, src, emLeft, scratch, good>>
    BY <1>8 DEF Em!Completed, Em!Advance, Em!copyVars
  <2> QED  BY <2>1, <2>2, <2>3, <2>4
<1>9. ASSUME NEW t \in Em!Callers, Em!Failed(t) PROVE Em!TypeOK'
  BY <1>9 DEF Em!Failed, Em!hostVars, Em!copyVars, Em!Goto
<1>10. ASSUME NEW t \in Em!Callers, Em!Timeout(t) PROVE Em!TypeOK'
  BY <1>10 DEF Em!Timeout, Em!hostVars, Em!copyVars, Em!Goto
<1>11. ASSUME NEW t \in Em!Callers, Em!Cancel(t) PROVE Em!TypeOK'
  BY <1>11 DEF Em!Cancel, Em!hostVars, Em!copyVars, Em!Goto
<1>12. ASSUME NEW t \in Em!Callers, Em!Return(t) PROVE Em!TypeOK'
  BY <1>12 DEF Em!Return, Em!hostVars, Em!copyVars, Em!Goto
<1>13. ASSUME NEW a \in 0..(MaxBytes - 1), NEW n \in 1..MaxBytes, Em!Copy(Copier, a, n)
           PROVE Em!TypeOK'
  BY <1>13 DEF Em!Copy, Em!hostVars, Em!copyVars, Em!Goto
<1>14. CASE Em!ReadBlock(Copier)
  <2>1. block' \in Em!Blocks \cup {None}
    <3>1. src[Copier] \div Bytes \in 0..((2 * MaxBytes) \div Bytes)
      <4>1. /\ Bytes \in Nat \ {0} /\ src[Copier] \in Nat /\ 2 * MaxBytes \in Nat
            /\ src[Copier] <= 2 * MaxBytes
        OBVIOUS
      <4>2. src[Copier] \div Bytes \in Nat /\ src[Copier] \div Bytes <= (2 * MaxBytes) \div Bytes
        BY ONLY <4>1, DivIsMonotonic
      <4>3. (2 * MaxBytes) \div Bytes \in Nat
        BY ONLY <4>1
      <4> QED  BY <4>2, <4>3
    <3> QED  BY <1>14, <3>1 DEF Em!ReadBlock, Em!Read, Em!Blocks
  <2>2. /\ emDat' \in {emDat, "asked"} /\ emStatus' = {} /\ emBusy' = TRUE
        /\ cmd' = [by |-> Copier, idx |-> 17]
    BY <1>14 DEF Em!ReadBlock, Em!Read, Em!Send
  <2>3. epc' \in [Em!Callers -> {"idle", "reset", "inhibit", "cmd", "buf", "xfer", "over", "bad"}]
    BY <1>14 DEF Em!ReadBlock, Em!Read, Em!Goto
  <2>4. UNCHANGED <<card, ocr, flags, step, tries, rca, src, emLeft, scratch, good>>
    BY <1>14 DEF Em!ReadBlock, Em!Read, Em!copyVars
  <2> QED  BY <2>1, <2>2, <2>3, <2>4
<1>15. CASE Em!ReadSent(Copier)
  BY <1>15 DEF Em!ReadSent, Em!hostVars, Em!copyVars, Em!Goto
<1>16. CASE Em!Drain(Copier)
  BY <1>16 DEF Em!Drain, Em!hostVars, Em!copyVars, Em!Goto
<1>17. CASE Em!Store(Copier)
  <2> DEFINE n == Em!Piece(Copier)
  <2>1. n \in Nat /\ n <= emLeft[Copier]
    BY PieceFits
  <2>2. src' = [src EXCEPT ![Copier] = src[Copier] + n] /\ emLeft' = [emLeft EXCEPT ![Copier] = emLeft[Copier] - n]
    BY <1>17 DEF Em!Store
  <2>3. src' \in [{Copier} -> 0..(2 * MaxBytes)] /\ emLeft' \in [{Copier} -> 0..MaxBytes]
    <3>1. src[Copier] \in 0..(2 * MaxBytes) /\ emLeft[Copier] \in 0..MaxBytes
      OBVIOUS
    <3>2. src[Copier] + n \in 0..(2 * MaxBytes) /\ emLeft[Copier] - n \in 0..MaxBytes
      <4> HIDE DEF n
      <4> QED  BY <2>1, <3>1
    <3> HIDE DEF n
    <3> QED  BY <2>2, <3>2
  <2>4. \E b \in BOOLEAN : good' = [good EXCEPT ![Copier] = b]
    <3>1. good' = [good EXCEPT ![Copier] = good[Copier] /\ scratch[Copier] = src[Copier] \div Bytes
                                             /\ (src[Copier] % Bytes) + n <= Bytes]
      BY <1>17 DEF Em!Store
    <3> HIDE DEF n
    <3> QED  BY ONLY <3>1, Zenon
  <2>5. good' \in [{Copier} -> BOOLEAN]
    BY ONLY <2>4, Em!TypeOK DEF Em!TypeOK
  <2>6. epc' \in [Em!Callers -> {"idle", "reset", "inhibit", "cmd", "buf", "xfer", "over", "bad"}]
    BY <1>17 DEF Em!Store, Em!Goto
  <2>7. /\ emStatus' = emStatus \ {"xfer"}
        /\ UNCHANGED <<cmd, emBusy, emDat, block, card, ocr, flags, step, tries, rca, scratch>>
    BY <1>17 DEF Em!Store
  <2> QED  BY <2>3, <2>5, <2>6, <2>7
<1>18. CASE UNCHANGED Em!emmcVars
  BY <1>18 DEF Em!emmcVars, Em!hostVars, Em!copyVars
<1> HIDE PartsAssumption, IdentifySix DEF Em!EmmcAssumption, Em!Callers, Em!TypeOK, Copying,
       Identifying
<1> QED
  BY <1>1, <1>2, <1>3, <1>4, <1>5, <1>6, <1>7, <1>8, <1>9, <1>10, <1>11, <1>12, <1>13, <1>14,
     <1>15, <1>16, <1>17, <1>18 DEF Em!Next

\* The host is borrowed by one call at a time.
LEMMA EmmcOne == Em!TypeOK /\ OneCaller /\ [Em!Next]_(Em!emmcVars) => OneCaller'
<1> SUFFICES ASSUME Em!TypeOK /\ OneCaller, [Em!Next]_(Em!emmcVars) PROVE OneCaller'
  OBVIOUS
<1> USE PartsAssumption, IdentifySix DEF Em!EmmcAssumption, Em!Callers, Em!TypeOK, OneCaller
<1>1. CASE Em!Respond
  BY <1>1 DEF Em!Respond, Em!hostVars, Em!copyVars, Em!Goto
<1>2. CASE Em!Refuse
  BY <1>2, SMTT(30) DEF Em!Refuse, Em!hostVars, Em!copyVars, Em!Goto
<1>3. CASE Em!Load
  BY <1>3 DEF Em!Load, Em!hostVars, Em!copyVars, Em!Goto
<1>4. CASE Em!Finish
  BY <1>4 DEF Em!Finish, Em!hostVars, Em!copyVars, Em!Goto
<1>5. CASE Em!Start(Starter)
  BY <1>5 DEF Em!Start, Em!hostVars, Em!copyVars, Em!Goto
<1>6. CASE Em!PowerOn(Starter)
  BY <1>6 DEF Em!PowerOn, Em!hostVars, Em!copyVars, Em!Goto
<1>7. CASE Em!Command(Starter)
  BY <1>7 DEF Em!Command, Em!hostVars, Em!copyVars, Em!Goto, Em!Send
<1>8. CASE Em!Completed(Starter)
  BY <1>8 DEF Em!Completed, Em!hostVars, Em!copyVars, Em!Goto, Em!Advance
<1>9. ASSUME NEW t \in Em!Callers, Em!Failed(t) PROVE OneCaller'
  BY <1>9 DEF Em!Failed, Em!hostVars, Em!copyVars, Em!Goto
<1>10. ASSUME NEW t \in Em!Callers, Em!Timeout(t) PROVE OneCaller'
  BY <1>10 DEF Em!Timeout, Em!hostVars, Em!copyVars, Em!Goto
<1>11. ASSUME NEW t \in Em!Callers, Em!Cancel(t) PROVE OneCaller'
  BY <1>11 DEF Em!Cancel, Em!hostVars, Em!copyVars, Em!Goto
<1>12. ASSUME NEW t \in Em!Callers, Em!Return(t) PROVE OneCaller'
  BY <1>12 DEF Em!Return, Em!hostVars, Em!copyVars, Em!Goto
<1>13. ASSUME NEW a \in 0..(MaxBytes - 1), NEW n \in 1..MaxBytes, Em!Copy(Copier, a, n)
           PROVE OneCaller'
  BY <1>13 DEF Em!Copy, Em!hostVars, Em!copyVars, Em!Goto
<1>14. CASE Em!ReadBlock(Copier)
  BY <1>14 DEF Em!ReadBlock, Em!hostVars, Em!copyVars, Em!Goto, Em!Read, Em!Send
<1>15. CASE Em!ReadSent(Copier)
  BY <1>15 DEF Em!ReadSent, Em!hostVars, Em!copyVars, Em!Goto
<1>16. CASE Em!Drain(Copier)
  BY <1>16 DEF Em!Drain, Em!hostVars, Em!copyVars, Em!Goto
<1>17. CASE Em!Store(Copier)
  BY <1>17 DEF Em!Store, Em!hostVars, Em!copyVars, Em!Goto
<1>18. CASE UNCHANGED Em!emmcVars
  BY <1>18 DEF Em!emmcVars, Em!hostVars, Em!copyVars
<1> HIDE PartsAssumption, IdentifySix DEF Em!EmmcAssumption, Em!Callers, Em!TypeOK,
       OneCaller
<1> QED
  BY <1>1, <1>2, <1>3, <1>4, <1>5, <1>6, <1>7, <1>8, <1>9, <1>10, <1>11, <1>12, <1>13, <1>14,
     <1>15, <1>16, <1>17, <1>18 DEF Em!Next

\* Once the command of a block is accepted, no earlier block is in the FIFO.
LEMMA EmmcReading ==
  Em!TypeOK /\ OneCaller /\ Reading /\ [Em!Next]_(Em!emmcVars)
    => Reading'
<1> SUFFICES ASSUME Em!TypeOK /\ OneCaller /\ Reading, [Em!Next]_(Em!emmcVars) PROVE
             Reading'
  OBVIOUS
<1> USE PartsAssumption, IdentifySix DEF Em!EmmcAssumption, Em!Callers, Em!TypeOK,
       OneCaller, Reading
<1>1. CASE Em!Respond
  BY <1>1 DEF Em!Respond, Em!hostVars, Em!copyVars, Em!Goto
<1>2. CASE Em!Refuse
  BY <1>2, SMTT(30) DEF Em!Refuse, Em!hostVars, Em!copyVars, Em!Goto
<1>3. CASE Em!Load
  BY <1>3 DEF Em!Load, Em!hostVars, Em!copyVars, Em!Goto
<1>4. CASE Em!Finish
  BY <1>4 DEF Em!Finish, Em!hostVars, Em!copyVars, Em!Goto
<1>5. CASE Em!Start(Starter)
  BY <1>5 DEF Em!Start, Em!hostVars, Em!copyVars, Em!Goto
<1>6. CASE Em!PowerOn(Starter)
  BY <1>6 DEF Em!PowerOn, Em!hostVars, Em!copyVars, Em!Goto
<1>7. CASE Em!Command(Starter)
  BY <1>7 DEF Em!Command, Em!hostVars, Em!copyVars, Em!Goto, Em!Send
<1>8. CASE Em!Completed(Starter)
  BY <1>8 DEF Em!Completed, Em!hostVars, Em!copyVars, Em!Goto, Em!Advance
<1>9. ASSUME NEW t \in Em!Callers, Em!Failed(t) PROVE Reading'
  BY <1>9 DEF Em!Failed, Em!hostVars, Em!copyVars, Em!Goto
<1>10. ASSUME NEW t \in Em!Callers, Em!Timeout(t) PROVE Reading'
  BY <1>10 DEF Em!Timeout, Em!hostVars, Em!copyVars, Em!Goto
<1>11. ASSUME NEW t \in Em!Callers, Em!Cancel(t) PROVE Reading'
  BY <1>11 DEF Em!Cancel, Em!hostVars, Em!copyVars, Em!Goto
<1>12. ASSUME NEW t \in Em!Callers, Em!Return(t) PROVE Reading'
  BY <1>12 DEF Em!Return, Em!hostVars, Em!copyVars, Em!Goto
<1>13. ASSUME NEW a \in 0..(MaxBytes - 1), NEW n \in 1..MaxBytes, Em!Copy(Copier, a, n)
           PROVE Reading'
  BY <1>13 DEF Em!Copy, Em!hostVars, Em!copyVars, Em!Goto
<1>14. CASE Em!ReadBlock(Copier)
  BY <1>14 DEF Em!ReadBlock, Em!hostVars, Em!copyVars, Em!Goto, Em!Read, Em!Send
<1>15. CASE Em!ReadSent(Copier)
  BY <1>15 DEF Em!ReadSent, Em!hostVars, Em!copyVars, Em!Goto
<1>16. CASE Em!Drain(Copier)
  BY <1>16 DEF Em!Drain, Em!hostVars, Em!copyVars, Em!Goto
<1>17. CASE Em!Store(Copier)
  BY <1>17 DEF Em!Store, Em!hostVars, Em!copyVars, Em!Goto
<1>18. CASE UNCHANGED Em!emmcVars
  BY <1>18 DEF Em!emmcVars, Em!hostVars, Em!copyVars
<1> HIDE PartsAssumption, IdentifySix DEF Em!EmmcAssumption, Em!Callers, Em!TypeOK,
       OneCaller, Reading
<1> QED
  BY <1>1, <1>2, <1>3, <1>4, <1>5, <1>6, <1>7, <1>8, <1>9, <1>10, <1>11, <1>12, <1>13, <1>14,
     <1>15, <1>16, <1>17, <1>18 DEF Em!Next

\* A copy advances by what it has copied.
LEMMA EmmcCopying == Em!TypeOK /\ Reading /\ Copying /\ [Em!Next]_(Em!emmcVars) => Copying'
<1> SUFFICES ASSUME Em!TypeOK /\ Reading /\ Copying, [Em!Next]_(Em!emmcVars) PROVE Copying'
  OBVIOUS
<1> USE PartsAssumption, IdentifySix DEF Em!EmmcAssumption, Em!Callers, Em!TypeOK, Reading,
       Copying
<1>1. CASE Em!Respond
  BY <1>1 DEF Em!Respond, Em!hostVars, Em!copyVars, Em!Goto
<1>2. CASE Em!Refuse
  BY <1>2, SMTT(30) DEF Em!Refuse, Em!hostVars, Em!copyVars, Em!Goto
<1>3. CASE Em!Load
  BY <1>3 DEF Em!Load, Em!hostVars, Em!copyVars, Em!Goto
<1>4. CASE Em!Finish
  BY <1>4 DEF Em!Finish, Em!hostVars, Em!copyVars, Em!Goto
<1>5. CASE Em!Start(Starter)
  BY <1>5 DEF Em!Start, Em!hostVars, Em!copyVars, Em!Goto
<1>6. CASE Em!PowerOn(Starter)
  BY <1>6 DEF Em!PowerOn, Em!hostVars, Em!copyVars, Em!Goto
<1>7. CASE Em!Command(Starter)
  BY <1>7 DEF Em!Command, Em!hostVars, Em!copyVars, Em!Goto, Em!Send
<1>8. CASE Em!Completed(Starter)
  BY <1>8 DEF Em!Completed, Em!hostVars, Em!copyVars, Em!Goto, Em!Advance
<1>9. ASSUME NEW t \in Em!Callers, Em!Failed(t) PROVE Copying'
  BY <1>9 DEF Em!Failed, Em!hostVars, Em!copyVars, Em!Goto
<1>10. ASSUME NEW t \in Em!Callers, Em!Timeout(t) PROVE Copying'
  BY <1>10 DEF Em!Timeout, Em!hostVars, Em!copyVars, Em!Goto
<1>11. ASSUME NEW t \in Em!Callers, Em!Cancel(t) PROVE Copying'
  BY <1>11 DEF Em!Cancel, Em!hostVars, Em!copyVars, Em!Goto
<1>12. ASSUME NEW t \in Em!Callers, Em!Return(t) PROVE Copying'
  BY <1>12 DEF Em!Return, Em!hostVars, Em!copyVars, Em!Goto
<1>13. ASSUME NEW a \in 0..(MaxBytes - 1), NEW n \in 1..MaxBytes, Em!Copy(Copier, a, n)
           PROVE Copying'
  BY <1>13 DEF Em!Copy, Em!hostVars, Em!copyVars, Em!Goto
<1>14. CASE Em!ReadBlock(Copier)
  BY <1>14 DEF Em!ReadBlock, Em!hostVars, Em!copyVars, Em!Goto, Em!Read, Em!Send
<1>15. CASE Em!ReadSent(Copier)
  BY <1>15 DEF Em!ReadSent, Em!hostVars, Em!copyVars, Em!Goto
<1>16. CASE Em!Drain(Copier)
  BY <1>16 DEF Em!Drain, Em!hostVars, Em!copyVars, Em!Goto
<1>17. CASE Em!Store(Copier)
  <2> DEFINE n == Em!Piece(Copier)
  <2>1. n \in Nat /\ n <= emLeft[Copier] /\ (src[Copier] % Bytes) + n <= Bytes
    BY PieceFits
  <2>2. src'[Copier] = src[Copier] + n /\ emLeft'[Copier] = emLeft[Copier] - n
    BY <1>17 DEF Em!Store
  <2>3. src[Copier] \in Nat /\ emLeft[Copier] \in Nat
    OBVIOUS
  <2>4. good'[Copier] = (good[Copier] /\ scratch[Copier] = src[Copier] \div Bytes
                         /\ (src[Copier] % Bytes) + n <= Bytes)
    BY <1>17 DEF Em!Store
  <2>5. scratch[Copier] = src[Copier] \div Bytes /\ good[Copier]
    BY <1>17 DEF Em!Store
  <2>6. src'[Copier] + emLeft'[Copier] <= 2 * MaxBytes
    <3> HIDE DEF n
    <3> QED  BY <2>1, <2>2, <2>3
  <2>7. good'[Copier]
    BY <2>1, <2>4, <2>5
  <2> QED  BY <2>6, <2>7
<1>18. CASE UNCHANGED Em!emmcVars
  BY <1>18 DEF Em!emmcVars, Em!hostVars, Em!copyVars
<1> HIDE PartsAssumption, IdentifySix DEF Em!EmmcAssumption, Em!Callers, Em!TypeOK, Reading,
       Copying
<1> QED
  BY <1>1, <1>2, <1>3, <1>4, <1>5, <1>6, <1>7, <1>8, <1>9, <1>10, <1>11, <1>12, <1>13, <1>14,
     <1>15, <1>16, <1>17, <1>18 DEF Em!Next

\* Each command of the identification finds the card where the one before left it.
LEMMA EmmcIdentifying ==
  Em!TypeOK /\ OneCaller /\ Identifying /\ [Em!Next]_(Em!emmcVars)
    => Identifying'
<1> SUFFICES ASSUME Em!TypeOK /\ OneCaller /\ Identifying, [Em!Next]_(Em!emmcVars) PROVE
             Identifying'
  OBVIOUS
<1> USE PartsAssumption, IdentifySix DEF Em!EmmcAssumption, Em!Callers, Em!TypeOK,
       OneCaller, Identifying
<1>1. CASE Em!Respond
  <2>1. /\ emBusy /\ emBusy' = FALSE /\ emStatus' = emStatus \cup {"cmd"}
        /\ cmd.idx = 16 => card' = "sized"
        /\ UNCHANGED <<cmd, epc, step, tries>>
    BY <1>1 DEF Em!Respond, Em!After
  <2> QED  BY <2>1
<1>2. CASE Em!Refuse
  BY <1>2, SMTT(30) DEF Em!Refuse, Em!hostVars, Em!copyVars, Em!Goto
<1>3. CASE Em!Load
  BY <1>3 DEF Em!Load, Em!hostVars, Em!copyVars, Em!Goto
<1>4. CASE Em!Finish
  BY <1>4 DEF Em!Finish, Em!hostVars, Em!copyVars, Em!Goto
<1>5. CASE Em!Start(Starter)
  BY <1>5 DEF Em!Start, Em!hostVars, Em!copyVars, Em!Goto
<1>6. CASE Em!PowerOn(Starter)
  BY <1>6 DEF Em!PowerOn, Em!hostVars, Em!copyVars, Em!Goto
<1>7. CASE Em!Command(Starter)
  BY <1>7 DEF Em!Command, Em!hostVars, Em!copyVars, Em!Goto, Em!Send
<1>8. CASE Em!Completed(Starter)
  BY <1>8 DEF Em!Completed, Em!hostVars, Em!copyVars, Em!Goto, Em!Advance
<1>9. ASSUME NEW t \in Em!Callers, Em!Failed(t) PROVE Identifying'
  BY <1>9 DEF Em!Failed, Em!hostVars, Em!copyVars, Em!Goto
<1>10. ASSUME NEW t \in Em!Callers, Em!Timeout(t) PROVE Identifying'
  BY <1>10 DEF Em!Timeout, Em!hostVars, Em!copyVars, Em!Goto
<1>11. ASSUME NEW t \in Em!Callers, Em!Cancel(t) PROVE Identifying'
  BY <1>11 DEF Em!Cancel, Em!hostVars, Em!copyVars, Em!Goto
<1>12. ASSUME NEW t \in Em!Callers, Em!Return(t) PROVE Identifying'
  BY <1>12 DEF Em!Return, Em!hostVars, Em!copyVars, Em!Goto
<1>13. ASSUME NEW a \in 0..(MaxBytes - 1), NEW n \in 1..MaxBytes, Em!Copy(Copier, a, n)
           PROVE Identifying'
  BY <1>13 DEF Em!Copy, Em!hostVars, Em!copyVars, Em!Goto
<1>14. CASE Em!ReadBlock(Copier)
  BY <1>14 DEF Em!ReadBlock, Em!hostVars, Em!copyVars, Em!Goto, Em!Read, Em!Send
<1>15. CASE Em!ReadSent(Copier)
  BY <1>15 DEF Em!ReadSent, Em!hostVars, Em!copyVars, Em!Goto
<1>16. CASE Em!Drain(Copier)
  BY <1>16 DEF Em!Drain, Em!hostVars, Em!copyVars, Em!Goto
<1>17. CASE Em!Store(Copier)
  BY <1>17 DEF Em!Store, Em!hostVars, Em!copyVars, Em!Goto
<1>18. CASE UNCHANGED Em!emmcVars
  BY <1>18 DEF Em!emmcVars, Em!hostVars, Em!copyVars
<1> HIDE PartsAssumption, IdentifySix DEF Em!EmmcAssumption, Em!Callers, Em!TypeOK,
       OneCaller, Identifying
<1> QED
  BY <1>1, <1>2, <1>3, <1>4, <1>5, <1>6, <1>7, <1>8, <1>9, <1>10, <1>11, <1>12, <1>13, <1>14,
     <1>15, <1>16, <1>17, <1>18 DEF Em!Next

\* What a copy has reported it has copied.
LEMMA EmmcCopied == EmmcInv /\ [Em!Next]_(Em!emmcVars) => Em!CopiedRight'
<1> SUFFICES ASSUME EmmcInv, [Em!Next]_(Em!emmcVars) PROVE Em!CopiedRight'
  OBVIOUS
<1> USE PartsAssumption, IdentifySix DEF Em!EmmcAssumption, Em!Callers, Em!TypeOK, EmmcInv,
       Reading, Copying, Em!CopiedRight
<1>1. CASE Em!Respond
  BY <1>1 DEF Em!Respond, Em!hostVars, Em!copyVars, Em!Goto
<1>2. CASE Em!Refuse
  BY <1>2, SMTT(30) DEF Em!Refuse, Em!hostVars, Em!copyVars, Em!Goto
<1>3. CASE Em!Load
  BY <1>3 DEF Em!Load, Em!hostVars, Em!copyVars, Em!Goto
<1>4. CASE Em!Finish
  BY <1>4 DEF Em!Finish, Em!hostVars, Em!copyVars, Em!Goto
<1>5. CASE Em!Start(Starter)
  BY <1>5 DEF Em!Start, Em!hostVars, Em!copyVars, Em!Goto
<1>6. CASE Em!PowerOn(Starter)
  BY <1>6 DEF Em!PowerOn, Em!hostVars, Em!copyVars, Em!Goto
<1>7. CASE Em!Command(Starter)
  BY <1>7 DEF Em!Command, Em!hostVars, Em!copyVars, Em!Goto, Em!Send
<1>8. CASE Em!Completed(Starter)
  BY <1>8 DEF Em!Completed, Em!hostVars, Em!copyVars, Em!Goto, Em!Advance
<1>9. ASSUME NEW t \in Em!Callers, Em!Failed(t) PROVE Em!CopiedRight'
  BY <1>9 DEF Em!Failed, Em!hostVars, Em!copyVars, Em!Goto
<1>10. ASSUME NEW t \in Em!Callers, Em!Timeout(t) PROVE Em!CopiedRight'
  BY <1>10 DEF Em!Timeout, Em!hostVars, Em!copyVars, Em!Goto
<1>11. ASSUME NEW t \in Em!Callers, Em!Cancel(t) PROVE Em!CopiedRight'
  BY <1>11 DEF Em!Cancel, Em!hostVars, Em!copyVars, Em!Goto
<1>12. ASSUME NEW t \in Em!Callers, Em!Return(t) PROVE Em!CopiedRight'
  BY <1>12 DEF Em!Return, Em!hostVars, Em!copyVars, Em!Goto
<1>13. ASSUME NEW a \in 0..(MaxBytes - 1), NEW n \in 1..MaxBytes, Em!Copy(Copier, a, n)
           PROVE Em!CopiedRight'
  BY <1>13 DEF Em!Copy, Em!hostVars, Em!copyVars, Em!Goto
<1>14. CASE Em!ReadBlock(Copier)
  BY <1>14 DEF Em!ReadBlock, Em!hostVars, Em!copyVars, Em!Goto, Em!Read, Em!Send
<1>15. CASE Em!ReadSent(Copier)
  BY <1>15 DEF Em!ReadSent, Em!hostVars, Em!copyVars, Em!Goto
<1>16. CASE Em!Drain(Copier)
  BY <1>16 DEF Em!Drain, Em!hostVars, Em!copyVars, Em!Goto
<1>17. CASE Em!Store(Copier)
  <2> DEFINE n == Em!Piece(Copier)
  <2>1. n \in Nat /\ n <= emLeft[Copier] /\ (src[Copier] % Bytes) + n <= Bytes
    BY PieceFits
  <2>2. src'[Copier] = src[Copier] + n /\ emLeft'[Copier] = emLeft[Copier] - n
    BY <1>17 DEF Em!Store
  <2>3. src[Copier] \in Nat /\ emLeft[Copier] \in Nat
    OBVIOUS
  <2>4. good'[Copier] = (good[Copier] /\ scratch[Copier] = src[Copier] \div Bytes
                         /\ (src[Copier] % Bytes) + n <= Bytes)
    BY <1>17 DEF Em!Store
  <2>5. scratch[Copier] = src[Copier] \div Bytes /\ good[Copier]
    BY <1>17 DEF Em!Store
  <2>6. epc'[Copier] = "over" => emLeft[Copier] = n
    BY <1>17 DEF Em!Store, Em!Goto
  <2>7. epc'[Copier] = "over" => emLeft'[Copier] = 0
    BY <2>2, <2>3, <2>6
  <2> QED  BY <2>1, <2>4, <2>5, <2>7
<1>18. CASE UNCHANGED Em!emmcVars
  BY <1>18 DEF Em!emmcVars, Em!hostVars, Em!copyVars
<1> HIDE PartsAssumption, IdentifySix DEF Em!EmmcAssumption, Em!Callers, Em!TypeOK, EmmcInv,
       Reading, Copying, Em!CopiedRight
<1> QED
  BY <1>1, <1>2, <1>3, <1>4, <1>5, <1>6, <1>7, <1>8, <1>9, <1>10, <1>11, <1>12, <1>13, <1>14,
     <1>15, <1>16, <1>17, <1>18 DEF Em!Next

\* Every step keeps the invariant.
LEMMA EmmcKept == EmmcInv /\ [Em!Next]_(Em!emmcVars) => EmmcInv'
  BY EmmcType, EmmcOne, EmmcReading, EmmcCopying, EmmcIdentifying, EmmcCopied DEF EmmcInv

\* A card that init_card has identified is in the state that reads need.
LEMMA IdentifiedRight == EmmcInv => Em!Identified
  BY DEF EmmcInv, Identifying, Em!Identified

\* A copy that returns Ok has stored what it was asked for, and a card that was
\* initialised is selected and has its block length.
THEOREM EmmcRight == Em!Spec => [](EmmcInv /\ Em!Identified)
  BY EmmcKept, EmmcInit, IdentifiedRight, PTL DEF Em!Spec

-----------------------------------------------------------------------------
(* The drivers side by side.                                               *)

\* A step of the composition is one of the driver that runs, or leaves it alone.
LEMMA OnlyItsOwn ==
  ASSUME [MCNext]_all
  PROVE  /\ part' = part
         /\ part = "i2c" => [Ic!Next]_(Ic!vars)
         /\ part = "i3c" => [I3!Next]_(I3!i3cVars)
         /\ part = "timer" => [Tm!Next]_(Tm!vars)
         /\ part = "hace" => [Ha!Next]_(Ha!haceVars)
         /\ part = "secure" => [Se!Next]_(Se!secureVars)
         /\ part = "otp" => [Ot!Next]_(Ot!otpVars)
         /\ part = "sgpio" => [Sg!Next]_(Sg!sgpioVars)
         /\ part = "nor" => [No!Next]_(No!norVars)
         /\ part = "ipc1" => [Ip!Next]_(Ip!ipc1Vars)
         /\ part = "trng" => [Tr!Next]_(Tr!trngVars)
         /\ part = "emmc" => [Em!Next]_(Em!emmcVars)
<1>1. CASE UNCHANGED all
BY <1>1 DEF all, icV, i3V, tmV, haV, seV, otV, sgV, noV, ipV, trV, emV, Ic!vars, Ic!hwVars,
     Ic!taskVars, I3!i3cVars, I3!queueVars, I3!busVars, I3!runVars, Tm!vars, Tm!hwVars,
     Tm!taskVars, Tm!isrVars, Ha!haceVars, Se!secureVars, Se!rsaVars, Se!eccVars,
     Se!callVars, Ot!otpVars, Sg!sgpioVars, No!norVars, No!chipVars, No!dmaVars,
     Ip!ipc1Vars, Tr!trngVars, Em!emmcVars, Em!hostVars, Em!copyVars
<1>2. CASE MCNext
  BY <1>2 DEF MCNext, Only
<1> QED  BY <1>1, <1>2

\* The driver that runs is right.
DriversInv ==
  /\ part = "i2c" => I2cInv
  /\ part = "i3c" => I3cInv
  /\ part = "timer" => TimerInv
  /\ part = "hace" => HashInv
  /\ part = "secure" => SecureInv
  /\ part = "otp" => OtpInv
  /\ part = "sgpio" => SgpioInv
  /\ part = "nor" => FlashInv
  /\ part = "ipc1" => IpcInv
  /\ part = "trng" => RandomInv
  /\ part = "emmc" => EmmcInv

\* The drivers share no state, so each keeps its own invariant.
THEOREM DriversRight == MCSpec => []DriversInv
<1>1. MCInit => DriversInv
BY I2cInit, I3cInit, TimerInit, HashInit, SecureInit, OtpInit, SgpioInit, FlashInit,
     IpcInit, RandomInit, EmmcInit DEF MCInit, DriversInv, IcInit, I3Init, TmInit, HaInit,
     SeInit, OtInit, SgInit, NoInit, IpInit, TrInit, EmInit
<1>2. DriversInv /\ [MCNext]_all => DriversInv'
  <2> SUFFICES ASSUME DriversInv, [MCNext]_all PROVE DriversInv'
    OBVIOUS
  <2>1. part' = "i2c" => I2cInv'
    BY OnlyItsOwn, I2cKept DEF DriversInv
  <2>2. part' = "i3c" => I3cInv'
    BY OnlyItsOwn, I3cKept DEF DriversInv
  <2>3. part' = "timer" => TimerInv'
    BY OnlyItsOwn, TimerKept DEF DriversInv
  <2>4. part' = "hace" => HashInv'
    BY OnlyItsOwn, HashKept DEF DriversInv
  <2>5. part' = "secure" => SecureInv'
    BY OnlyItsOwn, SecureKept DEF DriversInv
  <2>6. part' = "otp" => OtpInv'
    BY OnlyItsOwn, OtpKept DEF DriversInv
  <2>7. part' = "sgpio" => SgpioInv'
    BY OnlyItsOwn, SgpioStep DEF DriversInv
  <2>8. part' = "nor" => FlashInv'
    BY OnlyItsOwn, FlashKept DEF DriversInv
  <2>9. part' = "ipc1" => IpcInv'
    BY OnlyItsOwn, IpcKept DEF DriversInv
  <2>10. part' = "trng" => RandomInv'
    BY OnlyItsOwn, RandomKept DEF DriversInv
  <2>11. part' = "emmc" => EmmcInv'
    BY OnlyItsOwn, EmmcKept DEF DriversInv
  <2> QED
BY <2>1, <2>2, <2>3, <2>4, <2>5, <2>6, <2>7, <2>8, <2>9, <2>10, <2>11 DEF DriversInv
<1> QED  BY <1>1, <1>2, PTL DEF MCSpec

\* Every driver keeps its types.
THEOREM TypesCorrect == MCSpec => []TypesOK
<1>1. DriversInv => TypesOK
  BY DEF DriversInv, TypesOK, I2cInv, I3cInv, TimerInv, HashInv, SecureInv, OtpInv, SgpioInv,
     FlashInv, IpcInv, RandomInv, EmmcInv
<1> QED  BY <1>1, DriversRight, PTL

\* No driver that looks, registers its waker and looks again loses a wake-up, for
\* any number of tasks, channels, timers and groups.
THEOREM WakeupsKept == MCSpec => []NoLostWakeups
<1>1. DriversInv => NoLostWakeups
  BY DEF DriversInv, NoLostWakeups, I2cInv, I3cInv, I3cWaked, TimerInv, HashInv, SgpioInv
<1> QED  BY <1>1, DriversRight, PTL

\* What the invariant of I2C says of the phase that a task is told of.
LEMMA OwnPhases == I2cInv => Ic!OwnCompletion /\ Ic!OwnBytes
  BY DEF I2cInv, OwnChannels, OwnChannel, Received, Ic!OwnCompletion, Ic!OwnBytes

\* The answer that a task is given is that of its own operation, whatever other
\* tasks do with the device and whatever dropped operations left in it.
THEOREM AnswersKept == MCSpec => []OwnAnswers
<1>1. HashInv => Ha!OwnDigest
  BY DEF HashInv, HashWritten, Ha!OwnDigest
<1>2. RandomInv => Tr!FreshWords
  BY DEF RandomInv, RandomFresh, RandomFill, Tr!FreshWords
<1>3. DriversInv => OwnAnswers
  BY <1>1, <1>2, OwnPhases, I3cImplies DEF DriversInv, OwnAnswers, SecureInv, OtpInv, FlashInv
<1> QED  BY <1>3, DriversRight, PTL

\* Commands reach the chip while it listens, messages and events arrive, copies
\* are complete and keys are wiped.
THEOREM WorkDone == MCSpec => []NothingLost
<1>1. DriversInv => NothingLost
  BY IdentifiedRight DEF DriversInv, NothingLost, FlashInv, SgpioInv, IpcInv, EmmcInv, SecureInv
<1> QED  BY <1>1, DriversRight, PTL
=============================================================================
