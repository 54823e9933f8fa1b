----------------------------- MODULE UartProof -----------------------------
(***************************************************************************)
(* The UART driver loses neither a wake-up nor a byte, for any two tasks   *)
(* (or one that writes and reads), any buffers and any depth of the FIFO.  *)
(*                                                                         *)
(* A waker slot belongs to one direction and a direction to one task, so   *)
(* that a registration stays until the operation has its answer; and an    *)
(* operation that waits has moved nothing, so that dropping it loses none. *)
(***************************************************************************)
EXTENDS Uart, SequenceTheorems, TLAPS

\* The writer alone writes, the reader alone reads.
Sides ==
  \A t \in Tasks :
     /\ pc[t] \in TxPcs => t = Writer
     /\ pc[t] \in RxPcs => t = Reader

\* Between its second look at the flag and its next poll an operation is the
\* one registered for its direction.
Registered ==
  /\ pc[Writer] \in {<<"tx", "recheck">>, <<"tx", "pending">>} => txWaker = Writer
  /\ pc[Reader] \in {<<"rx", "recheck">>, <<"rx", "pending">>} => rxWaker = Reader

\* An operation that awaits its flag has moved no byte.
Untouched ==
  \A t \in Tasks : pc[t][2] \in AwaitSteps \cup {"lower", "rearm", "spin"} => done[t] = 0

IInv == TypeOK /\ Sides /\ Registered /\ Untouched /\ NoLostWakeup /\ NoByteLost

-----------------------------------------------------------------------------
(* Where a task stands.                                                    *)

\* A place in the code is a direction and a step of that direction.
LEMMA Places ==
  /\ \A s : <<"tx", s>> \in TxPcs <=> s \in AwaitSteps \cup MoveSteps \cup {"send", "drain"}
  /\ \A s : <<"rx", s>> \in RxPcs <=> s \in AwaitSteps \cup MoveSteps \cup {"spin"}
  /\ \A p \in TxPcs : p[1] = "tx" /\ p \notin RxPcs /\ p # Idle
  /\ \A p \in RxPcs : p[1] = "rx" /\ p \notin TxPcs /\ p # Idle
  /\ Idle[1] = "idle" /\ Idle[2] = "idle"
  BY DEF TxPcs, RxPcs, Idle

\* The types in three parts: the Booleans, the counts, and what the tasks and
\* the handler hold.
Flags ==
  /\ tsr \in BOOLEAN /\ irq \in BOOLEAN /\ txReady \in BOOLEAN /\ rxReady \in BOOLEAN
  /\ lsr \in [thre : BOOLEAN, dr : BOOLEAN]

Counts ==
  /\ thr \in Nat /\ fifo \in Seq(Nat) /\ Len(fifo) <= Depth
  /\ arrived \in Nat /\ reported \in Nat /\ put \in Nat /\ claimed \in Nat

Control ==
  /\ txWaker \in {Writer, None} /\ rxWaker \in {Reader, None}
  /\ pc \in [Tasks -> TxPcs \cup RxPcs \cup {Idle}]
  /\ len \in [Tasks -> Nat] /\ done \in [Tasks -> Nat]
  /\ ready \subseteq Tasks /\ cur \in Tasks \cup {None}
  /\ isrPc \in {"off", "txset", "txwake", "rxset", "rxwake"}

\* A task that goes to a place of either direction, or returns, is at a place.
LEMMA Goes ==
  ASSUME NEW t \in Tasks, NEW p \in TxPcs \cup RxPcs \cup {Idle},
         pc \in [Tasks -> TxPcs \cup RxPcs \cup {Idle}], pc' = [pc EXCEPT ![t] = p]
  PROVE  pc' \in [Tasks -> TxPcs \cup RxPcs \cup {Idle}]
  OBVIOUS

LEMMA InitInv == Init => IInv
<1> SUFFICES ASSUME Init PROVE IInv
  OBVIOUS
<1> USE UartAssumption, Places DEF Init
<1>1. TypeOK
  <2>1. Flags
    BY DEF Flags
  <2>2. Counts
    BY DEF Counts
  <2>3. Control
    BY DEF Control
  <2> QED  BY <2>1, <2>2, <2>3 DEF TypeOK, Flags, Counts, Control
<1>2. Sides /\ Registered /\ Untouched
  <2>1. \A t \in Tasks : pc[t] = Idle /\ done[t] = 0
    OBVIOUS
  <2>2. Writer \in Tasks /\ Reader \in Tasks
    BY DEF Tasks
  <2>3. Idle \notin {<<"tx", "recheck">>, <<"tx", "pending">>, <<"rx", "recheck">>, <<"rx",
         "pending">>}
    BY DEF Idle
  <2> QED  BY <2>1, <2>2, <2>3 DEF Sides, Registered, Untouched
<1>3. NoLostWakeup /\ NoByteLost
  BY DEF NoLostWakeup, NoByteLost, Moved, Tasks
<1> QED  BY <1>1, <1>2, <1>3 DEF IInv

\* Nobody changes sides.
LEMMA SidesStep == TypeOK /\ Sides /\ [Next]_vars => Sides'
<1> SUFFICES ASSUME TypeOK /\ Sides, [Next]_vars PROVE Sides'
  OBVIOUS
<1> USE Places DEF TypeOK, Sides, AwaitSteps, MoveSteps, hwVars, flagVars, taskVars, isrVars,
       histVars
<1>1. CASE Arrive
  BY <1>1 DEF Arrive
<1>2. CASE Shift
  BY <1>2 DEF Shift
<1>3. CASE Shifted
  BY <1>3 DEF Shifted
<1>4. CASE IsrEnter
  BY <1>4 DEF IsrEnter, THRE, DR
<1>5. CASE IsrTxSet
  BY <1>5 DEF IsrTxSet
<1>6. CASE IsrTxWake
  BY <1>6 DEF IsrTxWake, Woken
<1>7. CASE IsrRxSet
  BY <1>7 DEF IsrRxSet
<1>8. CASE IsrRxWake
  BY <1>8 DEF IsrRxWake, Woken
<1>9. ASSUME NEW t \in Tasks, Poll(t) PROVE Sides'
  BY <1>9 DEF Poll, Pending, Goto
<1>10. ASSUME NEW t \in Tasks, Cancel(t) PROVE Sides'
  BY <1>10 DEF Cancel, Pending, Stop
<1>11. ASSUME NEW t \in Tasks, Yield(t) PROVE Sides'
  BY <1>11 DEF Yield, Running
<1>12. ASSUME NEW t \in Tasks, OtherWake(t) PROVE Sides'
  BY <1>12 DEF OtherWake
<1>13. ASSUME NEW t \in Tasks, BeginWrite(t) PROVE Sides'
  BY <1>13 DEF BeginWrite, Begin, Running, Goto
<1>14. ASSUME NEW t \in Tasks, BeginFlush(t) PROVE Sides'
  BY <1>14 DEF BeginFlush, Begin, Running, Goto
<1>15. ASSUME NEW t \in Tasks, BeginRead(t) PROVE Sides'
  BY <1>15 DEF BeginRead, Begin, Running, Goto
<1>16. ASSUME NEW t \in Tasks, Check(t) PROVE Sides'
  BY <1>16 DEF Check, Dirs, At, Running, Goto
<1>17. ASSUME NEW t \in Tasks, Register(t) PROVE Sides'
  BY <1>17 DEF Register, Dirs, At, Running, Goto
<1>18. ASSUME NEW t \in Tasks, Recheck(t) PROVE Sides'
  BY <1>18 DEF Recheck, Dirs, At, Running, Goto, Flag
<1>19. ASSUME NEW t \in Tasks, Lower(t) PROVE Sides'
  BY <1>19 DEF Lower, Dirs, At, Running, Goto, SetFlag
<1>20. ASSUME NEW t \in Tasks, Rearm(t) PROVE Sides'
  BY <1>20 DEF Rearm, Dirs, At, Running, Goto, SetFlag
<1>21. ASSUME NEW t \in Tasks, MoveOut(t) PROVE Sides'
  BY <1>21 DEF MoveOut, At, Running, Goto, Transmit, WriteReturns, Stop
<1>22. ASSUME NEW t \in Tasks, SendByte(t) PROVE Sides'
  BY <1>22 DEF SendByte, At, Running, Goto, Transmit
<1>23. ASSUME NEW t \in Tasks, Drain(t) PROVE Sides'
  BY <1>23 DEF Drain, At, Running, WriteReturns, Stop
<1>24. ASSUME NEW t \in Tasks, MoveIn(t) PROVE Sides'
  BY <1>24 DEF MoveIn, At, Running, Goto, Receive, ReadReturns, Stop
<1>25. ASSUME NEW t \in Tasks, SpinIn(t) PROVE Sides'
  BY <1>25 DEF SpinIn, At, Running, Receive, ReadReturns, Stop
<1>26. CASE UNCHANGED vars
  BY <1>26 DEF vars
<1> QED
  BY <1>1, <1>2, <1>3, <1>4, <1>5, <1>6, <1>7, <1>8, <1>9, <1>10, <1>11, <1>12, <1>13,
     <1>14, <1>15, <1>16, <1>17, <1>18, <1>19, <1>20, <1>21, <1>22, <1>23, <1>24, <1>25, <1>26
  DEF Next, Isr, Inside

\* The Booleans stay Booleans.
LEMMA FlagsStep == TypeOK /\ [Next]_vars => Flags'
<1> SUFFICES ASSUME TypeOK, [Next]_vars PROVE Flags'
  OBVIOUS
<1> USE DEF TypeOK, Flags, hwVars, flagVars, taskVars, isrVars, histVars
<1>1. CASE Arrive
  BY <1>1 DEF Arrive
<1>2. CASE Shift
  BY <1>2 DEF Shift
<1>3. CASE Shifted
  BY <1>3 DEF Shifted
<1>4. CASE IsrEnter
  BY <1>4 DEF IsrEnter, THRE, DR
<1>5. CASE IsrTxSet
  BY <1>5 DEF IsrTxSet
<1>6. CASE IsrTxWake
  BY <1>6 DEF IsrTxWake, Woken
<1>7. CASE IsrRxSet
  BY <1>7 DEF IsrRxSet
<1>8. CASE IsrRxWake
  BY <1>8 DEF IsrRxWake, Woken
<1>9. ASSUME NEW t \in Tasks, Poll(t) PROVE Flags'
  BY <1>9 DEF Poll, Pending, Goto
<1>10. ASSUME NEW t \in Tasks, Cancel(t) PROVE Flags'
  BY <1>10 DEF Cancel, Pending, Stop
<1>11. ASSUME NEW t \in Tasks, Yield(t) PROVE Flags'
  BY <1>11 DEF Yield, Running
<1>12. ASSUME NEW t \in Tasks, OtherWake(t) PROVE Flags'
  BY <1>12 DEF OtherWake
<1>13. ASSUME NEW t \in Tasks, BeginWrite(t) PROVE Flags'
  BY <1>13 DEF BeginWrite, Begin, Running, Goto
<1>14. ASSUME NEW t \in Tasks, BeginFlush(t) PROVE Flags'
  BY <1>14 DEF BeginFlush, Begin, Running, Goto
<1>15. ASSUME NEW t \in Tasks, BeginRead(t) PROVE Flags'
  BY <1>15 DEF BeginRead, Begin, Running, Goto
<1>16. ASSUME NEW t \in Tasks, Check(t) PROVE Flags'
  BY <1>16 DEF Check, Dirs, At, Running, Goto
<1>17. ASSUME NEW t \in Tasks, Register(t) PROVE Flags'
  BY <1>17 DEF Register, Dirs, At, Running, Goto
<1>18. ASSUME NEW t \in Tasks, Recheck(t) PROVE Flags'
  BY <1>18 DEF Recheck, Dirs, At, Running, Goto, Flag
<1>19. ASSUME NEW t \in Tasks, Lower(t) PROVE Flags'
  BY <1>19 DEF Lower, Dirs, At, Running, Goto, SetFlag
<1>20. ASSUME NEW t \in Tasks, Rearm(t) PROVE Flags'
  BY <1>20 DEF Rearm, Dirs, At, Running, Goto, SetFlag
<1>21. ASSUME NEW t \in Tasks, MoveOut(t) PROVE Flags'
  BY <1>21 DEF MoveOut, At, Running, Goto, Transmit, WriteReturns, Stop
<1>22. ASSUME NEW t \in Tasks, SendByte(t) PROVE Flags'
  BY <1>22 DEF SendByte, At, Running, Goto, Transmit
<1>23. ASSUME NEW t \in Tasks, Drain(t) PROVE Flags'
  BY <1>23 DEF Drain, At, Running, WriteReturns, Stop
<1>24. ASSUME NEW t \in Tasks, MoveIn(t) PROVE Flags'
  BY <1>24 DEF MoveIn, At, Running, Goto, Receive, ReadReturns, Stop
<1>25. ASSUME NEW t \in Tasks, SpinIn(t) PROVE Flags'
  BY <1>25 DEF SpinIn, At, Running, Receive, ReadReturns, Stop
<1>26. CASE UNCHANGED vars
  BY <1>26 DEF vars
<1> QED
  BY <1>1, <1>2, <1>3, <1>4, <1>5, <1>6, <1>7, <1>8, <1>9, <1>10, <1>11, <1>12, <1>13,
     <1>14, <1>15, <1>16, <1>17, <1>18, <1>19, <1>20, <1>21, <1>22, <1>23, <1>24, <1>25, <1>26
  DEF Next, Isr, Inside

\* The FIFO and the counts keep their types.
LEMMA CountsStep == TypeOK /\ [Next]_vars => Counts'
<1> SUFFICES ASSUME TypeOK, [Next]_vars PROVE Counts'
  OBVIOUS
<1> USE UartAssumption, AppendProperties, HeadTailProperties DEF TypeOK, Counts, hwVars,
       flagVars, taskVars, isrVars, histVars
<1>1. CASE Arrive
  BY <1>1 DEF Arrive
<1>2. CASE Shift
  BY <1>2 DEF Shift
<1>3. CASE Shifted
  BY <1>3 DEF Shifted
<1>4. CASE IsrEnter
  BY <1>4 DEF IsrEnter, THRE, DR
<1>5. CASE IsrTxSet
  BY <1>5 DEF IsrTxSet
<1>6. CASE IsrTxWake
  BY <1>6 DEF IsrTxWake, Woken
<1>7. CASE IsrRxSet
  BY <1>7 DEF IsrRxSet
<1>8. CASE IsrRxWake
  BY <1>8 DEF IsrRxWake, Woken
<1>9. ASSUME NEW t \in Tasks, Poll(t) PROVE Counts'
  BY <1>9 DEF Poll, Pending, Goto
<1>10. ASSUME NEW t \in Tasks, Cancel(t) PROVE Counts'
  BY <1>10 DEF Cancel, Pending, Stop
<1>11. ASSUME NEW t \in Tasks, Yield(t) PROVE Counts'
  BY <1>11 DEF Yield, Running
<1>12. ASSUME NEW t \in Tasks, OtherWake(t) PROVE Counts'
  BY <1>12 DEF OtherWake
<1>13. ASSUME NEW t \in Tasks, BeginWrite(t) PROVE Counts'
  BY <1>13 DEF BeginWrite, Begin, Running, Goto
<1>14. ASSUME NEW t \in Tasks, BeginFlush(t) PROVE Counts'
  BY <1>14 DEF BeginFlush, Begin, Running, Goto
<1>15. ASSUME NEW t \in Tasks, BeginRead(t) PROVE Counts'
  BY <1>15 DEF BeginRead, Begin, Running, Goto
<1>16. ASSUME NEW t \in Tasks, Check(t) PROVE Counts'
  BY <1>16 DEF Check, Dirs, At, Running, Goto
<1>17. ASSUME NEW t \in Tasks, Register(t) PROVE Counts'
  BY <1>17 DEF Register, Dirs, At, Running, Goto
<1>18. ASSUME NEW t \in Tasks, Recheck(t) PROVE Counts'
  BY <1>18 DEF Recheck, Dirs, At, Running, Goto, Flag
<1>19. ASSUME NEW t \in Tasks, Lower(t) PROVE Counts'
  BY <1>19 DEF Lower, Dirs, At, Running, Goto, SetFlag
<1>20. ASSUME NEW t \in Tasks, Rearm(t) PROVE Counts'
  BY <1>20 DEF Rearm, Dirs, At, Running, Goto, SetFlag
<1>21. ASSUME NEW t \in Tasks, MoveOut(t) PROVE Counts'
  BY <1>21 DEF MoveOut, At, Running, Goto, Transmit, WriteReturns, Stop
<1>22. ASSUME NEW t \in Tasks, SendByte(t) PROVE Counts'
  BY <1>22 DEF SendByte, At, Running, Goto, Transmit
<1>23. ASSUME NEW t \in Tasks, Drain(t) PROVE Counts'
  BY <1>23 DEF Drain, At, Running, WriteReturns, Stop
<1>24. ASSUME NEW t \in Tasks, MoveIn(t) PROVE Counts'
  <2>1. \/ fifo # <<>> /\ fifo' = Tail(fifo) /\ reported' = reported
        \/ fifo' = fifo /\ reported' \in {reported, reported + done[t]}
    BY <1>24 DEF MoveIn, DR, Receive, ReadReturns
  <2>2. UNCHANGED <<thr, arrived, put, claimed>> /\ done[t] \in Nat
    BY <1>24 DEF MoveIn
  <2>3. fifo' \in Seq(Nat) /\ Len(fifo') <= Depth
    <3>1. CASE fifo # <<>> /\ fifo' = Tail(fifo)
      BY <3>1, HeadTailProperties
    <3>2. CASE fifo' = fifo
      BY <3>2
    <3> QED  BY <2>1, <3>1, <3>2
  <2>4. reported' \in Nat
    BY <2>1, <2>2
  <2> QED  BY <2>2, <2>3, <2>4
<1>25. ASSUME NEW t \in Tasks, SpinIn(t) PROVE Counts'
  <2>1. fifo # <<>> /\ fifo' = Tail(fifo) /\ reported' = reported + 1 /\ UNCHANGED <<thr,
         arrived, put, claimed>>
    BY <1>25 DEF SpinIn, DR, Receive, ReadReturns
  <2> QED  BY <2>1
<1>26. CASE UNCHANGED vars
  BY <1>26 DEF vars
<1> QED
  BY <1>1, <1>2, <1>3, <1>4, <1>5, <1>6, <1>7, <1>8, <1>9, <1>10, <1>11, <1>12, <1>13,
     <1>14, <1>15, <1>16, <1>17, <1>18, <1>19, <1>20, <1>21, <1>22, <1>23, <1>24, <1>25, <1>26
  DEF Next, Isr, Inside

\* So does what the tasks and the handler hold.
LEMMA ControlStep == TypeOK /\ Sides /\ [Next]_vars => Control'
<1> SUFFICES ASSUME TypeOK /\ Sides, [Next]_vars PROVE Control'
  OBVIOUS
<1> USE UartAssumption, Places DEF TypeOK, Sides, Control, AwaitSteps, MoveSteps, hwVars,
       flagVars, taskVars, isrVars, histVars
<1>1. CASE Arrive
  BY <1>1 DEF Arrive
<1>2. CASE Shift
  BY <1>2 DEF Shift
<1>3. CASE Shifted
  BY <1>3 DEF Shifted
<1>4. CASE IsrEnter
  BY <1>4 DEF IsrEnter, THRE, DR
<1>5. CASE IsrTxSet
  BY <1>5 DEF IsrTxSet
<1>6. CASE IsrTxWake
  BY <1>6 DEF IsrTxWake, Woken, Tasks
<1>7. CASE IsrRxSet
  BY <1>7 DEF IsrRxSet
<1>8. CASE IsrRxWake
  BY <1>8 DEF IsrRxWake, Woken, Tasks
<1>9. ASSUME NEW t \in Tasks, Poll(t) PROVE Control'
  <2>1. pc' = pc \/ \E p \in {p \in {<<"tx", "check">>, <<"rx", "check">>} : Pending(t)} :
         pc' = [pc EXCEPT ![t] = p]
    BY <1>9 DEF Poll, Pending, Goto
  <2>2. {p \in {<<"tx", "check">>, <<"rx", "check">>} : Pending(t)} \subseteq TxPcs \cup
         RxPcs \cup {Idle}
    BY DEF Pending
  <2>3. pc' \in [Tasks -> TxPcs \cup RxPcs \cup {Idle}]
    <3>1. CASE pc' = pc
      BY <3>1 DEF TypeOK
    <3>2. CASE \E p \in TxPcs \cup RxPcs \cup {Idle} : pc' = [pc EXCEPT ![t] = p]
      BY <3>2, Goes DEF TypeOK
    <3> QED  BY <2>1, <2>2, <3>1, <3>2
  <2>4. UNCHANGED <<txWaker, rxWaker, isrPc>> /\ len' \in [Tasks -> Nat]
    BY <1>9 DEF Poll, Pending, Goto
  <2>5. done' \in [Tasks -> Nat]
    BY <1>9 DEF Poll, Pending, Goto
  <2>6. ready' \subseteq Tasks /\ cur' \in Tasks \cup {None}
    BY <1>9 DEF Poll, Pending, Goto
  <2> QED  BY <2>3, <2>4, <2>5, <2>6
<1>10. ASSUME NEW t \in Tasks, Cancel(t) PROVE Control'
  BY <1>10 DEF Cancel, Pending, Stop
<1>11. ASSUME NEW t \in Tasks, Yield(t) PROVE Control'
  BY <1>11 DEF Yield, Running
<1>12. ASSUME NEW t \in Tasks, OtherWake(t) PROVE Control'
  BY <1>12 DEF OtherWake
<1>13. ASSUME NEW t \in Tasks, BeginWrite(t) PROVE Control'
  <2>1. pc' = pc \/ \E p \in {<<"tx", "check">>, <<"tx", "send">>} : pc' = [pc EXCEPT ![t] = p]
    BY <1>13 DEF BeginWrite, Begin, Running, Goto
  <2>2. {<<"tx", "check">>, <<"tx", "send">>} \subseteq TxPcs \cup RxPcs \cup {Idle}
    BY DEF Pending
  <2>3. pc' \in [Tasks -> TxPcs \cup RxPcs \cup {Idle}]
    <3>1. CASE pc' = pc
      BY <3>1 DEF TypeOK
    <3>2. CASE \E p \in TxPcs \cup RxPcs \cup {Idle} : pc' = [pc EXCEPT ![t] = p]
      BY <3>2, Goes DEF TypeOK
    <3> QED  BY <2>1, <2>2, <3>1, <3>2
  <2>4. UNCHANGED <<txWaker, rxWaker, isrPc>> /\ len' \in [Tasks -> Nat]
    BY <1>13 DEF BeginWrite, Begin, Running, Goto
  <2>5. done' \in [Tasks -> Nat]
    BY <1>13 DEF BeginWrite, Begin, Running, Goto
  <2>6. ready' \subseteq Tasks /\ cur' \in Tasks \cup {None}
    BY <1>13 DEF BeginWrite, Begin, Running, Goto
  <2> QED  BY <2>3, <2>4, <2>5, <2>6
<1>14. ASSUME NEW t \in Tasks, BeginFlush(t) PROVE Control'
  BY <1>14 DEF BeginFlush, Begin, Running, Goto
<1>15. ASSUME NEW t \in Tasks, BeginRead(t) PROVE Control'
  <2>1. pc' = pc \/ \E p \in {<<"rx", "spin">>, <<"rx", "check">>} : pc' = [pc EXCEPT ![t] = p]
    BY <1>15 DEF BeginRead, Begin, Running, Goto
  <2>2. {<<"rx", "spin">>, <<"rx", "check">>} \subseteq TxPcs \cup RxPcs \cup {Idle}
    BY DEF Pending
  <2>3. pc' \in [Tasks -> TxPcs \cup RxPcs \cup {Idle}]
    <3>1. CASE pc' = pc
      BY <3>1 DEF TypeOK
    <3>2. CASE \E p \in TxPcs \cup RxPcs \cup {Idle} : pc' = [pc EXCEPT ![t] = p]
      BY <3>2, Goes DEF TypeOK
    <3> QED  BY <2>1, <2>2, <3>1, <3>2
  <2>4. PICK n \in BufLens \cup {1} : /\ len' = [len EXCEPT ![t] = n]
                                     /\ done' = [done EXCEPT ![t] = 0]
    BY <1>15 DEF BeginRead, Begin
  <2>5. n \in Nat
    OBVIOUS
  <2>6. UNCHANGED <<txWaker, rxWaker, isrPc>> /\ len' \in [Tasks -> Nat]
    BY <1>15, <2>4, <2>5 DEF BeginRead, Begin, Running, Goto
  <2>7. done' \in [Tasks -> Nat]
    BY <2>4
  <2>8. ready' \subseteq Tasks /\ cur' \in Tasks \cup {None}
    BY <1>15 DEF BeginRead, Begin, Running, Goto
  <2> QED  BY <2>3, <2>6, <2>7, <2>8
<1>16. ASSUME NEW t \in Tasks, Check(t) PROVE Control'
  BY <1>16 DEF Check, Dirs, At, Running, Goto
<1>17. ASSUME NEW t \in Tasks, Register(t) PROVE Control'
  BY <1>17 DEF Register, Dirs, At, Running, Goto
<1>18. ASSUME NEW t \in Tasks, Recheck(t) PROVE Control'
  <2>1. pc' = pc \/ \E p \in {<<d, s>> : d \in {"tx", "rx"}, s \in {"lower", "pending"}} :
         pc' = [pc EXCEPT ![t] = p]
    BY <1>18 DEF Recheck, Dirs, At, Running, Goto, Flag
  <2>2. {<<d, s>> : d \in {"tx", "rx"}, s \in {"lower", "pending"}} \subseteq TxPcs \cup
         RxPcs \cup {Idle}
    BY DEF Pending
  <2>3. pc' \in [Tasks -> TxPcs \cup RxPcs \cup {Idle}]
    <3>1. CASE pc' = pc
      BY <3>1 DEF TypeOK
    <3>2. CASE \E p \in TxPcs \cup RxPcs \cup {Idle} : pc' = [pc EXCEPT ![t] = p]
      BY <3>2, Goes DEF TypeOK
    <3> QED  BY <2>1, <2>2, <3>1, <3>2
  <2>4. UNCHANGED <<txWaker, rxWaker, isrPc>> /\ len' \in [Tasks -> Nat]
    BY <1>18 DEF Recheck, Dirs, At, Running, Goto, Flag
  <2>5. done' \in [Tasks -> Nat]
    BY <1>18 DEF Recheck, Dirs, At, Running, Goto, Flag
  <2>6. ready' \subseteq Tasks /\ cur' \in Tasks \cup {None}
    BY <1>18 DEF Recheck, Dirs, At, Running, Goto, Flag
  <2> QED  BY <2>3, <2>4, <2>5, <2>6
<1>19. ASSUME NEW t \in Tasks, Lower(t) PROVE Control'
  BY <1>19 DEF Lower, Dirs, At, Running, Goto, SetFlag
<1>20. ASSUME NEW t \in Tasks, Rearm(t) PROVE Control'
  BY <1>20 DEF Rearm, Dirs, At, Running, Goto, SetFlag
<1>21. ASSUME NEW t \in Tasks, MoveOut(t) PROVE Control'
  <2>1. pc' = pc \/ \E p \in {<<"tx", "rearm">>, Idle} : pc' = [pc EXCEPT ![t] = p]
    BY <1>21 DEF MoveOut, At, Running, Goto, Transmit, WriteReturns, Stop
  <2>2. {<<"tx", "rearm">>, Idle} \subseteq TxPcs \cup RxPcs \cup {Idle}
    BY DEF Pending
  <2>3. pc' \in [Tasks -> TxPcs \cup RxPcs \cup {Idle}]
    <3>1. CASE pc' = pc
      BY <3>1 DEF TypeOK
    <3>2. CASE \E p \in TxPcs \cup RxPcs \cup {Idle} : pc' = [pc EXCEPT ![t] = p]
      BY <3>2, Goes DEF TypeOK
    <3> QED  BY <2>1, <2>2, <3>1, <3>2
  <2>4. UNCHANGED <<txWaker, rxWaker, isrPc>> /\ len' \in [Tasks -> Nat]
    BY <1>21 DEF MoveOut, At, Running, Goto, Transmit, WriteReturns, Stop
  <2>5. done' \in [Tasks -> Nat]
    <3>1. done' = done \/ done' = [done EXCEPT ![t] = done[t] + 1]
      BY <1>21 DEF MoveOut, Transmit
    <3>2. done[t] + 1 \in Nat
      OBVIOUS
    <3> HIDE DEF TypeOK
    <3>3. done \in [Tasks -> Nat]
      BY DEF TypeOK
    <3> QED  BY <3>1, <3>2, <3>3
  <2>6. ready' \subseteq Tasks /\ cur' \in Tasks \cup {None}
    BY <1>21 DEF MoveOut, At, Running, Goto, Transmit, WriteReturns, Stop
  <2> QED  BY <2>3, <2>4, <2>5, <2>6
<1>22. ASSUME NEW t \in Tasks, SendByte(t) PROVE Control'
  BY <1>22 DEF SendByte, At, Running, Goto, Transmit
<1>23. ASSUME NEW t \in Tasks, Drain(t) PROVE Control'
  BY <1>23 DEF Drain, At, Running, WriteReturns, Stop
<1>24. ASSUME NEW t \in Tasks, MoveIn(t) PROVE Control'
  <2>1. pc' = pc \/ \E p \in {<<"rx", "rearm">>, Idle} : pc' = [pc EXCEPT ![t] = p]
    BY <1>24 DEF MoveIn, At, Running, Goto, Receive, ReadReturns, Stop
  <2>2. {<<"rx", "rearm">>, Idle} \subseteq TxPcs \cup RxPcs \cup {Idle}
    BY DEF Pending
  <2>3. pc' \in [Tasks -> TxPcs \cup RxPcs \cup {Idle}]
    <3>1. CASE pc' = pc
      BY <3>1 DEF TypeOK
    <3>2. CASE \E p \in TxPcs \cup RxPcs \cup {Idle} : pc' = [pc EXCEPT ![t] = p]
      BY <3>2, Goes DEF TypeOK
    <3> QED  BY <2>1, <2>2, <3>1, <3>2
  <2>4. UNCHANGED <<txWaker, rxWaker, isrPc>> /\ len' \in [Tasks -> Nat]
    BY <1>24 DEF MoveIn, At, Running, Goto, Receive, ReadReturns, Stop
  <2>5. done' \in [Tasks -> Nat]
    <3>1. done' = done \/ done' = [done EXCEPT ![t] = done[t] + 1]
      BY <1>24 DEF MoveIn, Receive
    <3>2. done[t] + 1 \in Nat
      OBVIOUS
    <3> HIDE DEF TypeOK
    <3>3. done \in [Tasks -> Nat]
      BY DEF TypeOK
    <3> QED  BY <3>1, <3>2, <3>3
  <2>6. ready' \subseteq Tasks /\ cur' \in Tasks \cup {None}
    BY <1>24 DEF MoveIn, At, Running, Goto, Receive, ReadReturns, Stop
  <2> QED  BY <2>3, <2>4, <2>5, <2>6
<1>25. ASSUME NEW t \in Tasks, SpinIn(t) PROVE Control'
  BY <1>25 DEF SpinIn, At, Running, Receive, ReadReturns, Stop
<1>26. CASE UNCHANGED vars
  BY <1>26 DEF vars
<1> QED
  BY <1>1, <1>2, <1>3, <1>4, <1>5, <1>6, <1>7, <1>8, <1>9, <1>10, <1>11, <1>12, <1>13,
     <1>14, <1>15, <1>16, <1>17, <1>18, <1>19, <1>20, <1>21, <1>22, <1>23, <1>24, <1>25, <1>26
  DEF Next, Isr, Inside

\* Every step keeps the types.
LEMMA TypeStep == TypeOK /\ Sides /\ [Next]_vars => TypeOK'
<1>1. TypeOK /\ Sides /\ [Next]_vars => (Flags /\ Counts /\ Control)'
  BY FlagsStep, CountsStep, ControlStep
<1>2. (Flags /\ Counts /\ Control)' => TypeOK'
  BY DEF TypeOK, Flags, Counts, Control
<1> QED  BY <1>1, <1>2

\* A registration stays.
LEMMA RegisteredStep == TypeOK /\ Sides /\ Registered /\ [Next]_vars => Registered'
<1> SUFFICES ASSUME TypeOK /\ Sides /\ Registered, [Next]_vars PROVE Registered'
  OBVIOUS
<1> USE UartAssumption, Places DEF TypeOK, Sides, Registered, Tasks, hwVars, flagVars,
       taskVars, isrVars, histVars
<1>1. CASE Arrive
  BY <1>1 DEF Arrive
<1>2. CASE Shift
  BY <1>2 DEF Shift
<1>3. CASE Shifted
  BY <1>3 DEF Shifted
<1>4. CASE IsrEnter
  BY <1>4 DEF IsrEnter, THRE, DR
<1>5. CASE IsrTxSet
  BY <1>5 DEF IsrTxSet
<1>6. CASE IsrTxWake
  BY <1>6 DEF IsrTxWake, Woken
<1>7. CASE IsrRxSet
  BY <1>7 DEF IsrRxSet
<1>8. CASE IsrRxWake
  BY <1>8 DEF IsrRxWake, Woken
<1>9. ASSUME NEW t \in Tasks, Poll(t) PROVE Registered'
  BY <1>9 DEF Poll, Pending, Goto
<1>10. ASSUME NEW t \in Tasks, Cancel(t) PROVE Registered'
  BY <1>10 DEF Cancel, Pending, Stop
<1>11. ASSUME NEW t \in Tasks, Yield(t) PROVE Registered'
  BY <1>11 DEF Yield, Running
<1>12. ASSUME NEW t \in Tasks, OtherWake(t) PROVE Registered'
  BY <1>12 DEF OtherWake
<1>13. ASSUME NEW t \in Tasks, BeginWrite(t) PROVE Registered'
  BY <1>13 DEF BeginWrite, Begin, Running, Goto
<1>14. ASSUME NEW t \in Tasks, BeginFlush(t) PROVE Registered'
  BY <1>14 DEF BeginFlush, Begin, Running, Goto
<1>15. ASSUME NEW t \in Tasks, BeginRead(t) PROVE Registered'
  BY <1>15 DEF BeginRead, Begin, Running, Goto
<1>16. ASSUME NEW t \in Tasks, Check(t) PROVE Registered'
  BY <1>16 DEF Check, Dirs, At, Running, Goto
<1>17. ASSUME NEW t \in Tasks, Register(t) PROVE Registered'
  BY <1>17 DEF Register, Dirs, At, Running, Goto
<1>18. ASSUME NEW t \in Tasks, Recheck(t) PROVE Registered'
  BY <1>18 DEF Recheck, Dirs, At, Running, Goto, Flag
<1>19. ASSUME NEW t \in Tasks, Lower(t) PROVE Registered'
  BY <1>19 DEF Lower, Dirs, At, Running, Goto, SetFlag
<1>20. ASSUME NEW t \in Tasks, Rearm(t) PROVE Registered'
  BY <1>20 DEF Rearm, Dirs, At, Running, Goto, SetFlag
<1>21. ASSUME NEW t \in Tasks, MoveOut(t) PROVE Registered'
  BY <1>21 DEF MoveOut, At, Running, Goto, Transmit, WriteReturns, Stop
<1>22. ASSUME NEW t \in Tasks, SendByte(t) PROVE Registered'
  BY <1>22 DEF SendByte, At, Running, Goto, Transmit
<1>23. ASSUME NEW t \in Tasks, Drain(t) PROVE Registered'
  BY <1>23 DEF Drain, At, Running, WriteReturns, Stop
<1>24. ASSUME NEW t \in Tasks, MoveIn(t) PROVE Registered'
  BY <1>24 DEF MoveIn, At, Running, Goto, Receive, ReadReturns, Stop
<1>25. ASSUME NEW t \in Tasks, SpinIn(t) PROVE Registered'
  BY <1>25 DEF SpinIn, At, Running, Receive, ReadReturns, Stop
<1>26. CASE UNCHANGED vars
  BY <1>26 DEF vars
<1> QED
  BY <1>1, <1>2, <1>3, <1>4, <1>5, <1>6, <1>7, <1>8, <1>9, <1>10, <1>11, <1>12, <1>13,
     <1>14, <1>15, <1>16, <1>17, <1>18, <1>19, <1>20, <1>21, <1>22, <1>23, <1>24, <1>25, <1>26
  DEF Next, Isr, Inside

\* An operation that waits has moved nothing.
LEMMA UntouchedStep == TypeOK /\ Sides /\ Untouched /\ [Next]_vars => Untouched'
<1> SUFFICES ASSUME TypeOK /\ Sides /\ Untouched, [Next]_vars PROVE Untouched'
  OBVIOUS
<1> USE Places DEF TypeOK, Untouched, AwaitSteps, MoveSteps, hwVars, flagVars, taskVars,
       isrVars, histVars
<1>1. CASE Arrive
  BY <1>1 DEF Arrive
<1>2. CASE Shift
  BY <1>2 DEF Shift
<1>3. CASE Shifted
  BY <1>3 DEF Shifted
<1>4. CASE IsrEnter
  BY <1>4 DEF IsrEnter, THRE, DR
<1>5. CASE IsrTxSet
  BY <1>5 DEF IsrTxSet
<1>6. CASE IsrTxWake
  BY <1>6 DEF IsrTxWake, Woken
<1>7. CASE IsrRxSet
  BY <1>7 DEF IsrRxSet
<1>8. CASE IsrRxWake
  BY <1>8 DEF IsrRxWake, Woken
<1>9. ASSUME NEW t \in Tasks, Poll(t) PROVE Untouched'
  <2>1. pc'[t] = pc[t] \/ (Pending(t) /\ pc'[t] = <<pc[t][1], "check">>)
    BY <1>9 DEF Poll, Goto
  <2>2. Pending(t) => pc[t][2] = "pending"
    BY DEF Pending
  <2>3. done' = done /\ \A u \in Tasks \ {t} : pc'[u] = pc[u]
    BY <1>9 DEF Poll, Goto
  <2> QED  BY <2>1, <2>2, <2>3
<1>10. ASSUME NEW t \in Tasks, Cancel(t) PROVE Untouched'
  BY <1>10 DEF Cancel, Pending, Stop
<1>11. ASSUME NEW t \in Tasks, Yield(t) PROVE Untouched'
  BY <1>11 DEF Yield, Running
<1>12. ASSUME NEW t \in Tasks, OtherWake(t) PROVE Untouched'
  BY <1>12 DEF OtherWake
<1>13. ASSUME NEW t \in Tasks, BeginWrite(t) PROVE Untouched'
  BY <1>13 DEF BeginWrite, Begin, Running, Goto
<1>14. ASSUME NEW t \in Tasks, BeginFlush(t) PROVE Untouched'
  BY <1>14 DEF BeginFlush, Begin, Running, Goto
<1>15. ASSUME NEW t \in Tasks, BeginRead(t) PROVE Untouched'
  <2>1. done' = [done EXCEPT ![t] = 0] /\ \E p : pc' = [pc EXCEPT ![t] = p]
    BY <1>15 DEF BeginRead, Begin, Goto
  <2>2. done'[t] = 0
    BY <2>1
  <2>3. \A u \in Tasks \ {t} : done'[u] = done[u] /\ pc'[u] = pc[u]
    BY <2>1
  <2> QED  BY <2>2, <2>3
<1>16. ASSUME NEW t \in Tasks, Check(t) PROVE Untouched'
  BY <1>16 DEF Check, Dirs, At, Running, Goto
<1>17. ASSUME NEW t \in Tasks, Register(t) PROVE Untouched'
  BY <1>17 DEF Register, Dirs, At, Running, Goto
<1>18. ASSUME NEW t \in Tasks, Recheck(t) PROVE Untouched'
  <2>1. pc[t][2] = "recheck"
    BY <1>18 DEF Recheck, At
  <2>2. done' = done /\ \A u \in Tasks \ {t} : pc'[u] = pc[u]
    BY <1>18 DEF Recheck, Goto
  <2> QED  BY <2>1, <2>2
<1>19. ASSUME NEW t \in Tasks, Lower(t) PROVE Untouched'
  BY <1>19 DEF Lower, Dirs, At, Running, Goto, SetFlag
<1>20. ASSUME NEW t \in Tasks, Rearm(t) PROVE Untouched'
  BY <1>20 DEF Rearm, Dirs, At, Running, Goto, SetFlag
<1>21. ASSUME NEW t \in Tasks, MoveOut(t) PROVE Untouched'
  <2>1. pc[t] = <<"tx", "move">> /\ pc[t][2] = "move"
    BY <1>21 DEF MoveOut, At
  <2>2. \A u \in Tasks \ {t} : pc'[u] = pc[u] /\ done'[u] = done[u]
    BY <1>21 DEF MoveOut, Goto, Transmit, WriteReturns, Stop
  <2>3. \/ pc'[t] = pc[t]
        \/ done[t] = 0 /\ done'[t] = done[t]
        \/ pc'[t] = Idle
    BY <1>21 DEF MoveOut, Goto, Transmit, WriteReturns, Stop
  <2> QED  BY <2>1, <2>2, <2>3
<1>22. ASSUME NEW t \in Tasks, SendByte(t) PROVE Untouched'
  BY <1>22 DEF SendByte, At, Running, Goto, Transmit
<1>23. ASSUME NEW t \in Tasks, Drain(t) PROVE Untouched'
  BY <1>23 DEF Drain, At, Running, WriteReturns, Stop
<1>24. ASSUME NEW t \in Tasks, MoveIn(t) PROVE Untouched'
  BY <1>24 DEF MoveIn, At, Running, Goto, Receive, ReadReturns, Stop
<1>25. ASSUME NEW t \in Tasks, SpinIn(t) PROVE Untouched'
  BY <1>25 DEF SpinIn, At, Running, Receive, ReadReturns, Stop
<1>26. CASE UNCHANGED vars
  BY <1>26 DEF vars
<1> QED
  BY <1>1, <1>2, <1>3, <1>4, <1>5, <1>6, <1>7, <1>8, <1>9, <1>10, <1>11, <1>12, <1>13,
     <1>14, <1>15, <1>16, <1>17, <1>18, <1>19, <1>20, <1>21, <1>22, <1>23, <1>24, <1>25, <1>26
  DEF Next, Isr, Inside

\* A flag that is raised for an operation that waits wakes its task.
LEMMA WakeStep == TypeOK /\ Sides /\ Registered /\ NoLostWakeup /\ [Next]_vars => NoLostWakeup'
<1> SUFFICES ASSUME TypeOK /\ Sides /\ Registered /\ NoLostWakeup, [Next]_vars PROVE
       NoLostWakeup'
  OBVIOUS
<1> USE UartAssumption, Places DEF TypeOK, Sides, Registered, NoLostWakeup, Tasks, hwVars,
       flagVars, taskVars, isrVars, histVars
<1>1. CASE Arrive
  BY <1>1 DEF Arrive
<1>2. CASE Shift
  BY <1>2 DEF Shift
<1>3. CASE Shifted
  BY <1>3 DEF Shifted
<1>4. CASE IsrEnter
  BY <1>4 DEF IsrEnter, THRE, DR
<1>5. CASE IsrTxSet
  BY <1>5 DEF IsrTxSet
<1>6. CASE IsrTxWake
  BY <1>6 DEF IsrTxWake, Woken
<1>7. CASE IsrRxSet
  BY <1>7 DEF IsrRxSet
<1>8. CASE IsrRxWake
  BY <1>8 DEF IsrRxWake, Woken
<1>9. ASSUME NEW t \in Tasks, Poll(t) PROVE NoLostWakeup'
  <2>1. pc'[t] \notin {<<"tx", "pending">>, <<"rx", "pending">>}
    BY <1>9 DEF Poll, Pending, Goto
  <2>2. /\ UNCHANGED <<txReady, rxReady, isrPc>> /\ ready' = ready \ {t}
        /\ \A u \in Tasks \ {t} : pc'[u] = pc[u]
    BY <1>9 DEF Poll, Goto
  <2>3. Writer \in Tasks /\ Reader \in Tasks
    OBVIOUS
  <2> QED  BY <2>1, <2>2, <2>3
<1>10. ASSUME NEW t \in Tasks, Cancel(t) PROVE NoLostWakeup'
  BY <1>10 DEF Cancel, Pending, Stop
<1>11. ASSUME NEW t \in Tasks, Yield(t) PROVE NoLostWakeup'
  BY <1>11 DEF Yield, Running
<1>12. ASSUME NEW t \in Tasks, OtherWake(t) PROVE NoLostWakeup'
  BY <1>12 DEF OtherWake
<1>13. ASSUME NEW t \in Tasks, BeginWrite(t) PROVE NoLostWakeup'
  BY <1>13 DEF BeginWrite, Begin, Running, Goto
<1>14. ASSUME NEW t \in Tasks, BeginFlush(t) PROVE NoLostWakeup'
  BY <1>14 DEF BeginFlush, Begin, Running, Goto
<1>15. ASSUME NEW t \in Tasks, BeginRead(t) PROVE NoLostWakeup'
  BY <1>15 DEF BeginRead, Begin, Running, Goto
<1>16. ASSUME NEW t \in Tasks, Check(t) PROVE NoLostWakeup'
  BY <1>16 DEF Check, Dirs, At, Running, Goto
<1>17. ASSUME NEW t \in Tasks, Register(t) PROVE NoLostWakeup'
  BY <1>17 DEF Register, Dirs, At, Running, Goto
<1>18. ASSUME NEW t \in Tasks, Recheck(t) PROVE NoLostWakeup'
  BY <1>18 DEF Recheck, Dirs, At, Running, Goto, Flag
<1>19. ASSUME NEW t \in Tasks, Lower(t) PROVE NoLostWakeup'
  BY <1>19 DEF Lower, Dirs, At, Running, Goto, SetFlag
<1>20. ASSUME NEW t \in Tasks, Rearm(t) PROVE NoLostWakeup'
  BY <1>20 DEF Rearm, Dirs, At, Running, Goto, SetFlag
<1>21. ASSUME NEW t \in Tasks, MoveOut(t) PROVE NoLostWakeup'
  BY <1>21 DEF MoveOut, At, Running, Goto, Transmit, WriteReturns, Stop
<1>22. ASSUME NEW t \in Tasks, SendByte(t) PROVE NoLostWakeup'
  BY <1>22 DEF SendByte, At, Running, Goto, Transmit
<1>23. ASSUME NEW t \in Tasks, Drain(t) PROVE NoLostWakeup'
  BY <1>23 DEF Drain, At, Running, WriteReturns, Stop
<1>24. ASSUME NEW t \in Tasks, MoveIn(t) PROVE NoLostWakeup'
  BY <1>24 DEF MoveIn, At, Running, Goto, Receive, ReadReturns, Stop
<1>25. ASSUME NEW t \in Tasks, SpinIn(t) PROVE NoLostWakeup'
  BY <1>25 DEF SpinIn, At, Running, Receive, ReadReturns, Stop
<1>26. CASE UNCHANGED vars
  BY <1>26 DEF vars
<1> QED
  BY <1>1, <1>2, <1>3, <1>4, <1>5, <1>6, <1>7, <1>8, <1>9, <1>10, <1>11, <1>12, <1>13,
     <1>14, <1>15, <1>16, <1>17, <1>18, <1>19, <1>20, <1>21, <1>22, <1>23, <1>24, <1>25, <1>26
  DEF Next, Isr, Inside

\* A task that moves within its operation, or leaves it before it has moved a
\* byte, leaves the account as it is.
LEMMA Counted ==
  ASSUME TypeOK, NoByteLost, UNCHANGED <<fifo, arrived, reported, put, claimed, done>>,
         NEW t \in Tasks, NEW p, pc' = [pc EXCEPT ![t] = p],
         p[1] = pc[t][1] \/ done[t] = 0
  PROVE  NoByteLost'
<1>1. \A u \in Tasks : (IF pc'[u][1] = "tx" THEN done'[u] ELSE 0)
                       = (IF pc[u][1] = "tx" THEN done[u] ELSE 0)
  <2> SUFFICES ASSUME NEW u \in Tasks
               PROVE  (IF pc'[u][1] = "tx" THEN done'[u] ELSE 0)
                       = (IF pc[u][1] = "tx" THEN done[u] ELSE 0)
    OBVIOUS
  <2>1. CASE u = t
    <3>1. pc'[t] = p
      BY DEF TypeOK
    <3> QED  BY <2>1, <3>1
  <2>2. CASE u # t
    <3>1. pc'[u] = pc[u]
      BY <2>2 DEF TypeOK
    <3> QED  BY <3>1
  <2> QED  BY <2>1, <2>2
<1>2. \A u \in Tasks : (IF pc'[u][1] = "rx" THEN done'[u] ELSE 0)
                       = (IF pc[u][1] = "rx" THEN done[u] ELSE 0)
  <2> SUFFICES ASSUME NEW u \in Tasks
               PROVE  (IF pc'[u][1] = "rx" THEN done'[u] ELSE 0)
                       = (IF pc[u][1] = "rx" THEN done[u] ELSE 0)
    OBVIOUS
  <2>1. CASE u = t
    <3>1. pc'[t] = p
      BY DEF TypeOK
    <3> QED  BY <2>1, <3>1
  <2>2. CASE u # t
    <3>1. pc'[u] = pc[u]
      BY <2>2 DEF TypeOK
    <3> QED  BY <3>1
  <2> QED  BY <2>1, <2>2
<1> QED  BY <1>1, <1>2 DEF NoByteLost, Moved, Tasks

\* Every byte moved is counted once.
LEMMA ByteStep == TypeOK /\ Sides /\ Untouched /\ NoByteLost /\ [Next]_vars => NoByteLost'
<1> SUFFICES ASSUME TypeOK /\ Sides /\ Untouched /\ NoByteLost, [Next]_vars PROVE NoByteLost'
  OBVIOUS
<1> USE Places DEF TypeOK, Sides, Untouched, NoByteLost, Moved, Tasks, AwaitSteps, MoveSteps,
       hwVars, flagVars, taskVars, isrVars, histVars
<1>1. CASE Arrive
  <2>1. Len(fifo') = Len(fifo) + 1 /\ Len(fifo) \in Nat
    BY <1>1, AppendProperties DEF Arrive
  <2>2. arrived' = arrived + 1 /\ UNCHANGED <<reported, put, claimed, pc, done>>
    BY <1>1 DEF Arrive
  <2>3. Moved(Reader, "rx") \in Nat /\ Moved(Reader, "rx")' = Moved(Reader, "rx")
        /\ Moved(Writer, "tx")' = Moved(Writer, "tx")
    BY <2>2
  <2> HIDE DEF Moved
  <2> QED  BY <2>1, <2>2, <2>3
<1>2. CASE Shift
  BY <1>2 DEF Shift
<1>3. CASE Shifted
  BY <1>3 DEF Shifted
<1>4. CASE IsrEnter
  BY <1>4 DEF IsrEnter, THRE, DR
<1>5. CASE IsrTxSet
  BY <1>5 DEF IsrTxSet
<1>6. CASE IsrTxWake
  BY <1>6 DEF IsrTxWake, Woken
<1>7. CASE IsrRxSet
  BY <1>7 DEF IsrRxSet
<1>8. CASE IsrRxWake
  BY <1>8 DEF IsrRxWake, Woken
<1>9. ASSUME NEW t \in Tasks, Poll(t) PROVE NoByteLost'
  <2>1. pc'[t][1] = pc[t][1]
    BY <1>9 DEF Poll, Pending, Goto
  <2>2. \A u \in Tasks : pc'[u][1] = pc[u][1] /\ done'[u] = done[u]
    BY <1>9, <2>1 DEF Poll, Goto
  <2>3. UNCHANGED <<fifo, arrived, reported, put, claimed>> /\ Writer \in Tasks /\ Reader \in
         Tasks
    BY <1>9 DEF Poll
  <2> QED  BY <2>2, <2>3
<1>10. ASSUME NEW t \in Tasks, Cancel(t) PROVE NoByteLost'
  <2>1. pc[t][2] = "pending"
    BY <1>10 DEF Cancel, Pending
  <2>2. done[t] = 0
    BY <2>1
  <2>3. pc' = [pc EXCEPT ![t] = Idle]
        /\ UNCHANGED <<fifo, arrived, reported, put, claimed, done>>
    BY <1>10 DEF Cancel, Stop
  <2> QED  BY <2>2, <2>3, Counted
<1>11. ASSUME NEW t \in Tasks, Yield(t) PROVE NoByteLost'
  BY <1>11 DEF Yield, Running
<1>12. ASSUME NEW t \in Tasks, OtherWake(t) PROVE NoByteLost'
  BY <1>12 DEF OtherWake
<1>13. ASSUME NEW t \in Tasks, BeginWrite(t) PROVE NoByteLost'
  BY <1>13 DEF BeginWrite, Begin, Running, Goto
<1>14. ASSUME NEW t \in Tasks, BeginFlush(t) PROVE NoByteLost'
  BY <1>14 DEF BeginFlush, Begin, Running, Goto
<1>15. ASSUME NEW t \in Tasks, BeginRead(t) PROVE NoByteLost'
  BY <1>15 DEF BeginRead, Begin, Running, Goto
<1>16. ASSUME NEW t \in Tasks, Check(t) PROVE NoByteLost'
  <2>1. PICK d \in Dirs(t) : Goto(t, d, IF Flag(d) THEN "lower" ELSE "register")
    BY <1>16 DEF Check
  <2>2. UNCHANGED <<fifo, arrived, reported, put, claimed, done>>
    BY <1>16 DEF Check
  <2>3. PICK s : pc' = [pc EXCEPT ![t] = <<d, s>>]
    BY <2>1 DEF Goto
  <2>4. <<d, s>>[1] = pc[t][1]
    BY DEF Dirs
  <2> QED  BY <2>2, <2>3, <2>4, Counted
<1>17. ASSUME NEW t \in Tasks, Register(t) PROVE NoByteLost'
  <2>1. PICK d \in Dirs(t) : Goto(t, d, "recheck")
    BY <1>17 DEF Register
  <2>2. UNCHANGED <<fifo, arrived, reported, put, claimed, done>>
    BY <1>17 DEF Register
  <2>3. PICK s : pc' = [pc EXCEPT ![t] = <<d, s>>]
    BY <2>1 DEF Goto
  <2>4. <<d, s>>[1] = pc[t][1]
    BY DEF Dirs
  <2> QED  BY <2>2, <2>3, <2>4, Counted
<1>18. ASSUME NEW t \in Tasks, Recheck(t) PROVE NoByteLost'
  <2>1. PICK d, s : pc[t][1] = d /\ pc' = [pc EXCEPT ![t] = <<d, s>>]
    BY <1>18 DEF Recheck, Dirs, Goto
  <2>2. UNCHANGED <<fifo, arrived, reported, put, claimed, done>>
    BY <1>18 DEF Recheck
  <2>3. <<d, s>>[1] = pc[t][1]
    BY <2>1
  <2> QED  BY <2>1, <2>2, <2>3, Counted
<1>19. ASSUME NEW t \in Tasks, Lower(t) PROVE NoByteLost'
  <2>1. PICK d \in Dirs(t) : Goto(t, d, "move")
    BY <1>19 DEF Lower
  <2>2. UNCHANGED <<fifo, arrived, reported, put, claimed, done>>
    BY <1>19 DEF Lower
  <2>3. PICK s : pc' = [pc EXCEPT ![t] = <<d, s>>]
    BY <2>1 DEF Goto
  <2>4. <<d, s>>[1] = pc[t][1]
    BY DEF Dirs
  <2> QED  BY <2>2, <2>3, <2>4, Counted
<1>20. ASSUME NEW t \in Tasks, Rearm(t) PROVE NoByteLost'
  <2>1. PICK d \in Dirs(t) : Goto(t, d, "check")
    BY <1>20 DEF Rearm
  <2>2. UNCHANGED <<fifo, arrived, reported, put, claimed, done>>
    BY <1>20 DEF Rearm
  <2>3. PICK s : pc' = [pc EXCEPT ![t] = <<d, s>>]
    BY <2>1 DEF Goto
  <2>4. <<d, s>>[1] = pc[t][1]
    BY DEF Dirs
  <2> QED  BY <2>2, <2>3, <2>4, Counted
<1>21. ASSUME NEW t \in Tasks, MoveOut(t) PROVE NoByteLost'
  <2>1. t = Writer /\ pc[t][1] = "tx" /\ done[t] \in Nat
    BY <1>21 DEF MoveOut, At
  <2>2. Moved(Reader, "rx")' = Moved(Reader, "rx")
    BY <1>21, <2>1 DEF MoveOut, At, Goto, Transmit, WriteReturns, Stop
  <2>3. UNCHANGED <<fifo, arrived, reported>>
    BY <1>21 DEF MoveOut
  <2>4. put' = claimed' + Moved(Writer, "tx")'
    <3>1. CASE Transmit(t) /\ UNCHANGED <<pc, claimed>>
      <4>1. done'[t] = done[t] + 1 /\ put' = put + 1
        BY <3>1 DEF Transmit
      <4> QED  BY <2>1, <3>1, <4>1
    <3>2. CASE Goto(t, "tx", "rearm") /\ UNCHANGED <<put, done, claimed>>
      <4>1. pc'[t][1] = "tx"
        BY <3>2 DEF Goto
      <4> QED  BY <2>1, <3>2, <4>1
    <3>3. CASE WriteReturns(t, done[t]) /\ UNCHANGED <<put, done>>
      <4>1. pc'[t][1] = "idle" /\ claimed' = claimed + done[t]
        BY <3>3 DEF WriteReturns, Stop
      <4> QED  BY <2>1, <3>3, <4>1
    <3> QED  BY <1>21, <3>1, <3>2, <3>3 DEF MoveOut
  <2> QED  BY <2>2, <2>3, <2>4
<1>22. ASSUME NEW t \in Tasks, SendByte(t) PROVE NoByteLost'
  <2>1. t = Writer /\ pc[t][1] = "tx" /\ done[t] \in Nat
    BY <1>22 DEF SendByte, At
  <2>2. pc'[t][1] = "tx" /\ done'[t] = done[t] + 1
    BY <1>22 DEF SendByte, Goto, Transmit
  <2>3. Moved(Reader, "rx")' = Moved(Reader, "rx")
    BY <1>22, <2>1, <2>2 DEF SendByte, Goto, Transmit
  <2>4. UNCHANGED <<fifo, arrived, reported, claimed>> /\ put' = put + 1
    BY <1>22 DEF SendByte, Transmit
  <2>5. Moved(Writer, "tx") = done[t] /\ Moved(Writer, "tx")' = done[t] + 1
    BY <2>1, <2>2
  <2> HIDE DEF Moved
  <2> QED  BY <2>1, <2>3, <2>4, <2>5
<1>23. ASSUME NEW t \in Tasks, Drain(t) PROVE NoByteLost'
  <2>1. t = Writer /\ pc[t][1] = "tx" /\ done[t] \in Nat
    BY <1>23 DEF Drain, At
  <2>2. pc'[t][1] = "idle" /\ claimed' = claimed + done[t]
    BY <1>23 DEF Drain, WriteReturns, Stop
  <2>3. UNCHANGED <<fifo, arrived, reported, put, done>>
    BY <1>23 DEF Drain
  <2>4. Moved(Reader, "rx")' = Moved(Reader, "rx")
    <3>1. pc'[Reader] = pc[Reader] \/ Reader = t
      BY <1>23 DEF Drain, WriteReturns, Stop
    <3> QED  BY <2>1, <2>2, <2>3, <3>1
  <2>5. Moved(Writer, "tx") = done[t] /\ Moved(Writer, "tx")' = 0
    BY <2>1, <2>2
  <2> HIDE DEF Moved
  <2> QED  BY <2>1, <2>2, <2>3, <2>4, <2>5
<1>24. ASSUME NEW t \in Tasks, MoveIn(t) PROVE NoByteLost'
  <2>1. t = Reader /\ pc[t][1] = "rx" /\ done[t] \in Nat /\ Len(fifo) \in Nat
    BY <1>24 DEF MoveIn, At
  <2>2. Moved(Writer, "tx")' = Moved(Writer, "tx")
    BY <1>24, <2>1 DEF MoveIn, At, Goto, Receive, ReadReturns, Stop
  <2>3. UNCHANGED <<arrived, put, claimed>>
    BY <1>24 DEF MoveIn
  <2>4. fifo # <<>> => Len(Tail(fifo)) = Len(fifo) - 1
    BY HeadTailProperties
  <2>5. CASE DR /\ done[t] < len[t] /\ Receive(t) /\ UNCHANGED <<pc, reported>>
    <3>1. fifo # <<>> /\ Len(fifo') = Len(fifo) - 1 /\ done'[t] = done[t] + 1
      BY <2>4, <2>5 DEF Receive, DR
    <3>2. Moved(Reader, "rx") = done[t] /\ Moved(Reader, "rx")' = done[t] + 1
      BY <2>1, <2>5, <3>1
    <3> HIDE DEF Moved
    <3> QED  BY <2>1, <2>2, <2>3, <2>5, <3>1, <3>2
  <2>6. CASE Goto(t, "rx", "rearm") /\ UNCHANGED <<fifo, done, reported>>
    BY <2>1, <2>2, <2>3, <2>6 DEF Goto
  <2>7. CASE ReadReturns(t, done[t]) /\ UNCHANGED <<fifo, done>>
    <3>1. pc'[t][1] = "idle" /\ reported' = reported + done[t]
      BY <2>7 DEF ReadReturns, Stop
    <3>2. Moved(Reader, "rx") = done[t] /\ Moved(Reader, "rx")' = 0
      BY <2>1, <2>7, <3>1
    <3> HIDE DEF Moved
    <3> QED  BY <2>1, <2>2, <2>3, <2>7, <3>1, <3>2
  <2> QED  BY <1>24, <2>5, <2>6, <2>7 DEF MoveIn
<1>25. ASSUME NEW t \in Tasks, SpinIn(t) PROVE NoByteLost'
  <2>1. t = Reader /\ pc[t][1] = "rx" /\ done[t] = 0 /\ Len(fifo) \in Nat
    BY <1>25 DEF SpinIn, At
  <2>2. pc'[t][1] = "idle" /\ reported' = reported + 1
    BY <1>25 DEF SpinIn, ReadReturns, Stop
  <2>3. Moved(Writer, "tx")' = Moved(Writer, "tx")
    BY <1>25, <2>1, <2>2 DEF SpinIn, Receive, ReadReturns, Stop
  <2>4. Len(fifo') = Len(fifo) - 1
    BY <1>25, HeadTailProperties DEF SpinIn, DR, Receive
  <2>5. UNCHANGED <<arrived, put, claimed>>
    BY <1>25 DEF SpinIn
  <2> QED  BY <2>1, <2>2, <2>3, <2>4, <2>5
<1>26. CASE UNCHANGED vars
  BY <1>26 DEF vars
<1> QED
  BY <1>1, <1>2, <1>3, <1>4, <1>5, <1>6, <1>7, <1>8, <1>9, <1>10, <1>11, <1>12, <1>13,
     <1>14, <1>15, <1>16, <1>17, <1>18, <1>19, <1>20, <1>21, <1>22, <1>23, <1>24, <1>25, <1>26
  DEF Next, Isr, Inside

LEMMA StepInv == IInv /\ [Next]_vars => IInv'
  BY TypeStep, SidesStep, RegisteredStep, UntouchedStep, WakeStep, ByteStep DEF IInv

\* IInv, and with it all it consists of, holds in every reachable state.
THEOREM Invariance == Spec => []IInv
  BY InitInv, StepInv, PTL DEF Spec

\* The FIFO never holds more than it can, and a waker slot is only ever that of
\* the task of its direction.
THEOREM TypeCorrect == Spec => []TypeOK
<1>1. IInv => TypeOK
  BY DEF IInv
<1> QED  BY <1>1, Invariance, PTL

\* A task that awaits its flag is in the run queue, or about to be put there,
\* as soon as the flag is raised, wherever the handler interrupted it.
THEOREM WakeupsKept == Spec => []NoLostWakeup
<1>1. IInv => NoLostWakeup
  BY DEF IInv
<1> QED  BY <1>1, Invariance, PTL

\* Every byte received or given to the transmitter is accounted for, whatever
\* transfers came out short and whatever futures were dropped.
THEOREM BytesKept == Spec => []NoByteLost
<1>1. IInv => NoByteLost
  BY DEF IInv
<1> QED  BY <1>1, Invariance, PTL

\* No write overwrites a byte that has not left THR.
THEOREM ThrKept == Spec => NoOverwrite
<1>1. [Next]_vars => (thr' # thr => thr = 0 \/ thr' = 0)
  <2> SUFFICES ASSUME Next, thr' # thr PROVE thr = 0 \/ thr' = 0
    BY DEF vars, hwVars
  <2> USE DEF hwVars
  <2>1. CASE Shift
    BY <2>1 DEF Shift
  <2>2. ASSUME NEW t \in Tasks, MoveOut(t) \/ SendByte(t) PROVE thr = 0
    BY <2>2 DEF MoveOut, SendByte, Transmit, THRE
  <2> QED
    BY <2>1, <2>2 DEF Next, Arrive, Shifted, IsrEnter, Isr, IsrTxSet, IsrTxWake, IsrRxSet,
       IsrRxWake, Poll, Cancel, Yield, OtherWake, BeginWrite, BeginFlush, BeginRead, Begin,
       Inside, Check, Register, Recheck, Lower, Rearm, Drain, MoveIn, SpinIn
<1>2. thr' = thr => ~(thr' # thr)
  OBVIOUS
<1> QED  BY <1>1, PTL DEF Spec, NoOverwrite
=============================================================================
