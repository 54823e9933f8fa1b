-------------------------------- MODULE Uart --------------------------------
(***************************************************************************)
(* The UART driver: the asynchronous and the blocking `write` and `read`,  *)
(* the futures `TxReady` and `RxReady` and the interrupt handler           *)
(* (src/embassy-aspeed/src/uart.rs).                                       *)
(*                                                                         *)
(* The receive FIFO and the transmitter run beside the core.  The handler  *)
(* acknowledges nothing, so it may be entered whenever LSR shows THRE or   *)
(* DR; the fairness below asks for one entry per event and no more.        *)
(* Bytes are told apart by their number, in order of arrival or of writing.*)
(***************************************************************************)
EXTENDS Naturals, Sequences

CONSTANTS
  Writer, Reader, \* the task that writes and the task that reads (may be one)
  None,           \* no task
  BufLens,        \* the lengths of the buffers passed to write and read
  Depth,          \* bytes the receive FIFO holds
  MaxIn, MaxOut   \* bounds on the bytes that arrive and on those written

Tasks == {Writer, Reader}

ASSUME UartAssumption ==
  /\ None \notin Tasks
  /\ BufLens \subseteq Nat \ {0}
  /\ Depth \in Nat \ {0} /\ MaxIn \in Nat /\ MaxOut \in Nat

VARIABLES
  thr, tsr,          \* holding register (a byte or 0) and shift register (busy?)
  fifo,              \* the receive FIFO
  irq,               \* an event the handler has not been entered for
  txReady, rxReady,  \* TX_READY, RX_READY
  txWaker, rxWaker,  \* TX_WAKER, RX_WAKER
  pc,                \* where each task stands in write or read
  len, done,         \* the buffer of the operation and the bytes it has moved
  ready, cur,        \* the run queue and the task being polled
  isrPc, lsr,        \* the handler and the LSR it read
  arrived, reported, \* history: bytes the FIFO accepted, bytes reads returned
  put, claimed       \* history: bytes put into THR, bytes writes returned

hwVars   == <<thr, tsr, fifo>>
flagVars == <<txReady, rxReady, txWaker, rxWaker>>
taskVars == <<pc, len, done, ready, cur>>
isrVars  == <<isrPc, lsr>>
histVars == <<arrived, reported, put, claimed>>
vars == <<hwVars, irq, flagVars, taskVars, isrVars, histVars>>

AwaitSteps == {"check", "register", "recheck", "pending"}
MoveSteps  == {"lower", "move", "rearm"}
TxPcs == {<<"tx", s>> : s \in AwaitSteps \cup MoveSteps \cup {"send", "drain"}}
RxPcs == {<<"rx", s>> : s \in AwaitSteps \cup MoveSteps \cup {"spin"}}
Idle  == <<"idle", "idle">>

THRE == thr = 0
TEMT == THRE /\ ~tsr
DR   == fifo # <<>>

TypeOK ==
  /\ thr \in Nat /\ tsr \in BOOLEAN
  /\ fifo \in Seq(Nat) /\ Len(fifo) <= Depth
  /\ irq \in BOOLEAN /\ txReady \in BOOLEAN /\ rxReady \in BOOLEAN
  /\ txWaker \in {Writer, None} /\ rxWaker \in {Reader, None}
  /\ pc \in [Tasks -> TxPcs \cup RxPcs \cup {Idle}]
  /\ len \in [Tasks -> Nat] /\ done \in [Tasks -> Nat]
  /\ ready \subseteq Tasks /\ cur \in Tasks \cup {None}
  /\ isrPc \in {"off", "txset", "txwake", "rxset", "rxwake"}
  /\ lsr \in [thre : BOOLEAN, dr : BOOLEAN]
  /\ arrived \in Nat /\ reported \in Nat /\ put \in Nat /\ claimed \in Nat

\* hw_init has reset both FIFOs and enabled both interrupts.
Init ==
  /\ thr = 0 /\ tsr = FALSE /\ fifo = <<>> /\ irq = TRUE
  /\ txReady = TRUE /\ rxReady = FALSE
  /\ txWaker = None /\ rxWaker = None
  /\ pc = [t \in Tasks |-> Idle]
  /\ len = [t \in Tasks |-> 0] /\ done = [t \in Tasks |-> 0]
  /\ ready = Tasks /\ cur = None
  /\ isrPc = "off" /\ lsr = [thre |-> FALSE, dr |-> FALSE]
  /\ arrived = 0 /\ reported = 0 /\ put = 0 /\ claimed = 0

-----------------------------------------------------------------------------
(* The hardware and the handler.                                           *)

\* A byte arrives; a full FIFO drops it.
Arrive ==
  /\ arrived < MaxIn /\ Len(fifo) < Depth
  /\ fifo' = Append(fifo, arrived + 1)
  /\ arrived' = arrived + 1
  /\ irq' = TRUE
  /\ UNCHANGED <<thr, tsr, flagVars, taskVars, isrVars, reported, put, claimed>>

\* The byte in THR moves to the shift register: THR is empty again.
Shift ==
  /\ thr # 0 /\ ~tsr
  /\ thr' = 0 /\ tsr' = TRUE
  /\ irq' = TRUE
  /\ UNCHANGED <<fifo, flagVars, taskVars, isrVars, histVars>>

Shifted ==
  /\ tsr /\ tsr' = FALSE
  /\ UNCHANGED <<thr, fifo, irq, flagVars, taskVars, isrVars, histVars>>

\* on_interrupt reads LSR once.
IsrEnter ==
  /\ isrPc = "off" /\ (irq \/ THRE \/ DR)
  /\ irq' = FALSE
  /\ lsr' = [thre |-> THRE, dr |-> DR]
  /\ isrPc' = IF THRE THEN "txset" ELSE IF DR THEN "rxset" ELSE "off"
  /\ UNCHANGED <<hwVars, flagVars, taskVars, histVars>>

IsrTxSet ==
  /\ isrPc = "txset" /\ isrPc' = "txwake"
  /\ txReady' = TRUE
  /\ UNCHANGED <<hwVars, irq, rxReady, txWaker, rxWaker, taskVars, lsr, histVars>>

\* Mutant: an unregistered waker is woken like any other.
WokenAny(w) == ready' = ready \cup {w}

Woken(w) == ready' = ready \cup ({w} \ {None})

IsrTxWake ==
  /\ isrPc = "txwake" /\ isrPc' = IF lsr.dr THEN "rxset" ELSE "off"
  /\ Woken(txWaker)
  /\ UNCHANGED <<hwVars, irq, flagVars, pc, len, done, cur, lsr, histVars>>

IsrRxSet ==
  /\ isrPc = "rxset" /\ isrPc' = "rxwake"
  /\ rxReady' = TRUE
  /\ UNCHANGED <<hwVars, irq, txReady, txWaker, rxWaker, taskVars, lsr, histVars>>

\* Mutant: the handler wakes the transmit waker for a received byte.
IsrRxWakeTx ==
  /\ isrPc = "rxwake" /\ isrPc' = "off"
  /\ Woken(txWaker)
  /\ UNCHANGED <<hwVars, irq, flagVars, pc, len, done, cur, lsr, histVars>>

IsrRxWake ==
  /\ isrPc = "rxwake" /\ isrPc' = "off"
  /\ Woken(rxWaker)
  /\ UNCHANGED <<hwVars, irq, flagVars, pc, len, done, cur, lsr, histVars>>

Isr == IsrTxSet \/ IsrTxWake \/ IsrRxSet \/ IsrRxWake

-----------------------------------------------------------------------------
(* The executor.                                                           *)

Running(t) == isrPc = "off" /\ cur = t
At(t, d, s) == Running(t) /\ pc[t] = <<d, s>>
Goto(t, d, s) == pc' = [pc EXCEPT ![t] = <<d, s>>]
Stop(t) == pc' = [pc EXCEPT ![t] = Idle]
Pending(t) == pc[t] \in {<<"tx", "pending">>, <<"rx", "pending">>}

\* The executor polls t; a pending operation polls its future from the start.
Poll(t) ==
  /\ isrPc = "off" /\ cur = None /\ t \in ready
  /\ cur' = t /\ ready' = ready \ {t}
  /\ IF Pending(t) THEN Goto(t, pc[t][1], "check") ELSE UNCHANGED pc
  /\ UNCHANGED <<hwVars, irq, flagVars, len, done, isrVars, histVars>>

\* The poll drops the pending operation.
Cancel(t) ==
  /\ isrPc = "off" /\ cur = None /\ t \in ready /\ Pending(t)
  /\ cur' = t /\ ready' = ready \ {t}
  /\ Stop(t)
  /\ UNCHANGED <<hwVars, irq, flagVars, len, done, isrVars, histVars>>

Yield(t) ==
  /\ Running(t) /\ pc[t] = Idle
  /\ cur' = None
  /\ UNCHANGED <<hwVars, irq, flagVars, pc, len, done, ready, isrVars, histVars>>

OtherWake(t) ==
  /\ t \notin ready
  /\ ready' = ready \cup {t}
  /\ UNCHANGED <<hwVars, irq, flagVars, pc, len, done, cur, isrVars, histVars>>

-----------------------------------------------------------------------------
(* TxReady and RxReady.                                                    *)

Flag(d) == IF d = "tx" THEN txReady ELSE rxReady

SetFlag(d, v) == IF d = "tx" THEN txReady' = v /\ UNCHANGED rxReady
                             ELSE rxReady' = v /\ UNCHANGED txReady

Dirs(t) == {d \in {"tx", "rx"} : pc[t][1] = d}

Check(t) == \E d \in Dirs(t) :
  /\ At(t, d, "check")
  /\ Goto(t, d, IF Flag(d) THEN "lower" ELSE "register")
  /\ UNCHANGED <<hwVars, irq, flagVars, len, done, ready, cur, isrVars, histVars>>

Register(t) == \E d \in Dirs(t) :
  /\ At(t, d, "register")
  /\ IF d = "tx" THEN txWaker' = t /\ UNCHANGED rxWaker ELSE rxWaker' = t /\ UNCHANGED txWaker
  /\ Goto(t, d, "recheck")
  /\ UNCHANGED <<hwVars, irq, txReady, rxReady, len, done, ready, cur, isrVars, histVars>>

Recheck(t) == \E d \in Dirs(t) :
  /\ At(t, d, "recheck")
  /\ \/ Flag(d) /\ Goto(t, d, "lower") /\ UNCHANGED cur
     \/ ~Flag(d) /\ Goto(t, d, "pending") /\ cur' = None
  /\ UNCHANGED <<hwVars, irq, flagVars, len, done, ready, isrVars, histVars>>

\* The await returned: the flag is lowered before a register is touched.
Lower(t) == \E d \in Dirs(t) :
  /\ At(t, d, "lower")
  /\ SetFlag(d, FALSE)
  /\ Goto(t, d, "move")
  /\ UNCHANGED <<hwVars, irq, txWaker, rxWaker, len, done, ready, cur, isrVars, histVars>>

\* Nothing could be moved: the flag is raised again and awaited again.
Rearm(t) == \E d \in Dirs(t) :
  /\ At(t, d, "rearm")
  /\ SetFlag(d, TRUE)
  /\ Goto(t, d, "check")
  /\ UNCHANGED <<hwVars, irq, txWaker, rxWaker, len, done, ready, cur, isrVars, histVars>>

-----------------------------------------------------------------------------
(* write.                                                                  *)

Begin(t, d, s, n) ==
  /\ Running(t) /\ pc[t] = Idle
  /\ len' = [len EXCEPT ![t] = n] /\ done' = [done EXCEPT ![t] = 0]
  /\ Goto(t, d, s)
  /\ UNCHANGED <<hwVars, irq, flagVars, ready, cur, isrVars, histVars>>

\* An asynchronous or a blocking write of n bytes.
BeginWrite(t) == t = Writer /\ \E n \in BufLens, s \in {"check", "send"} :
  put + n <= MaxOut /\ Begin(t, "tx", s, n)

\* One byte goes to THR.
Transmit(t) ==
  /\ thr' = put + 1 /\ put' = put + 1
  /\ done' = [done EXCEPT ![t] = @ + 1]

\* The operation returns the bytes it moved.
WriteReturns(t, n) == Stop(t) /\ claimed' = claimed + n

\* Mutant: the loop looks at THRE once for the whole buffer.
MoveOutUnchecked(t) ==
  /\ At(t, "tx", "move")
  /\ \/ /\ (THRE \/ done[t] > 0) /\ done[t] < len[t]
        /\ Transmit(t)
        /\ UNCHANGED <<pc, claimed>>
     \/ /\ ~THRE /\ done[t] = 0
        /\ Goto(t, "tx", "rearm")
        /\ UNCHANGED <<thr, put, done, claimed>>
     \/ /\ done[t] = len[t]
        /\ WriteReturns(t, done[t])
        /\ UNCHANGED <<thr, put, done>>
  /\ UNCHANGED <<tsr, fifo, irq, flagVars, len, ready, cur, isrVars, arrived, reported>>

\* Mutant: a short write returns the length of its buffer.
MoveOutAll(t) ==
  /\ At(t, "tx", "move")
  /\ \/ /\ THRE /\ done[t] < len[t]
        /\ Transmit(t)
        /\ UNCHANGED <<pc, claimed>>
     \/ /\ ~THRE /\ done[t] = 0
        /\ Goto(t, "tx", "rearm")
        /\ UNCHANGED <<thr, put, done, claimed>>
     \/ /\ done[t] = len[t] \/ (~THRE /\ done[t] > 0)
        /\ WriteReturns(t, len[t])
        /\ UNCHANGED <<thr, put, done>>
  /\ UNCHANGED <<tsr, fifo, irq, flagVars, len, ready, cur, isrVars, arrived, reported>>

\* The loop of the asynchronous write, one byte at a time while THRE is set.
MoveOut(t) ==
  /\ At(t, "tx", "move")
  /\ \/ /\ THRE /\ done[t] < len[t]
        /\ Transmit(t)
        /\ UNCHANGED <<pc, claimed>>
     \/ /\ ~THRE /\ done[t] = 0
        /\ Goto(t, "tx", "rearm")
        /\ UNCHANGED <<thr, put, done, claimed>>
     \/ /\ done[t] = len[t] \/ (~THRE /\ done[t] > 0)
        /\ WriteReturns(t, done[t])
        /\ UNCHANGED <<thr, put, done>>
  /\ UNCHANGED <<tsr, fifo, irq, flagVars, len, ready, cur, isrVars, arrived, reported>>

\* write_byte spins until THRE is set.
SendByte(t) ==
  /\ At(t, "tx", "send") /\ THRE
  /\ Transmit(t)
  /\ Goto(t, "tx", IF done[t] + 1 = len[t] THEN "drain" ELSE "send")
  /\ UNCHANGED <<tsr, fifo, irq, flagVars, len, ready, cur, isrVars, arrived, reported, claimed>>

\* blocking_write, and flush, spin until TEMT is set.
Drain(t) ==
  /\ At(t, "tx", "drain") /\ TEMT
  /\ WriteReturns(t, done[t])
  /\ UNCHANGED <<hwVars, irq, flagVars, len, done, ready, cur, isrVars, arrived, reported, put>>

BeginFlush(t) == t = Writer /\ Begin(t, "tx", "drain", 0)

-----------------------------------------------------------------------------
(* read.                                                                   *)

\* An asynchronous read into a buffer of n bytes, or a blocking read of one.
BeginRead(t) == t = Reader /\
  (Begin(t, "rx", "spin", 1) \/ \E n \in BufLens : Begin(t, "rx", "check", n))

ReadReturns(t, n) == Stop(t) /\ reported' = reported + n

\* One byte comes from the FIFO.
Receive(t) ==
  /\ fifo' = Tail(fifo)
  /\ done' = [done EXCEPT ![t] = @ + 1]

\* The loop of the asynchronous read, one byte at a time while DR is set.
MoveIn(t) ==
  /\ At(t, "rx", "move")
  /\ \/ /\ DR /\ done[t] < len[t]
        /\ Receive(t)
        /\ UNCHANGED <<pc, reported>>
     \/ /\ ~DR /\ done[t] = 0
        /\ Goto(t, "rx", "rearm")
        /\ UNCHANGED <<fifo, done, reported>>
     \/ /\ done[t] = len[t] \/ (~DR /\ done[t] > 0)
        /\ ReadReturns(t, done[t])
        /\ UNCHANGED <<fifo, done>>
  /\ UNCHANGED <<thr, tsr, irq, flagVars, len, ready, cur, isrVars, arrived, put, claimed>>

\* blocking_read_byte spins until DR is set.
SpinIn(t) ==
  /\ At(t, "rx", "spin") /\ DR
  /\ Receive(t)
  /\ ReadReturns(t, 1)
  /\ UNCHANGED <<thr, tsr, irq, flagVars, len, ready, cur, isrVars, arrived, put, claimed>>

-----------------------------------------------------------------------------
Inside(t) ==
  \/ Check(t) \/ Register(t) \/ Recheck(t) \/ Lower(t) \/ Rearm(t)
  \/ MoveOut(t) \/ SendByte(t) \/ Drain(t) \/ MoveIn(t) \/ SpinIn(t)

Next ==
  \/ Arrive \/ Shift \/ Shifted
  \/ IsrEnter \/ Isr
  \/ \E t \in Tasks :
       \/ Poll(t) \/ Cancel(t) \/ Yield(t) \/ OtherWake(t)
       \/ BeginWrite(t) \/ BeginFlush(t) \/ BeginRead(t)
       \/ Inside(t)

Spec == Init /\ [][Next]_vars

\* The transmitter runs; the handler is entered once per event and runs to its
\* end; it preempts thread code only finitely often between two of its steps;
\* no task chains operations for ever within one poll; a task in the run queue
\* is polled.
Fairness ==
  /\ WF_vars(Shift) /\ WF_vars(Shifted)
  /\ WF_vars(irq /\ IsrEnter) /\ WF_vars(Isr)
  /\ SF_vars(\E t \in Tasks : Inside(t)) /\ SF_vars(\E t \in Tasks : Yield(t))
  /\ \A t \in Tasks : SF_vars(Poll(t))

FairSpec == Spec /\ Fairness

-----------------------------------------------------------------------------
(* Properties.                                                             *)

\* A task that returned Pending and whose flag has since been set is in the
\* run queue, or the handler is about to put it there.
NoLostWakeup ==
  /\ pc[Writer] = <<"tx", "pending">> /\ txReady => Writer \in ready \/ isrPc = "txwake"
  /\ pc[Reader] = <<"rx", "pending">> /\ rxReady => Reader \in ready \/ isrPc = "rxwake"

Moved(t, d) == IF pc[t][1] = d THEN done[t] ELSE 0

\* Every byte the FIFO accepted is in it, in the buffer of the read in
\* progress or was returned, and every byte given to the transmitter is counted
\* by exactly one write: short transfers and dropped futures lose none.
NoByteLost ==
  /\ arrived = reported + Moved(Reader, "rx") + Len(fifo)
  /\ put = claimed + Moved(Writer, "tx")

\* No write puts a byte into THR over one that has not left it.
NoOverwrite == [][thr' # thr => thr = 0 \/ thr' = 0]_vars

\* A byte that arrives while a read is pending resolves it: the handler runs
\* after every arrival, and neither the registration nor an entry of the
\* handler for the transmitter consumes it.
ArrivalResolves ==
  (pc[Reader] = <<"rx", "pending">> /\ irq /\ DR) ~> pc[Reader][1] # "rx"
=============================================================================
