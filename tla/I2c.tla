--------------------------------- MODULE I2c --------------------------------
(***************************************************************************)
(* Transfers on the I2C channels: `start_write`, `start_read`,             *)
(* `WaitDoneFuture2`, the operations of the I2c trait and the interrupt    *)
(* handlers (src/embassy-aspeed/src/i2c.rs).                               *)
(*                                                                         *)
(* A transfer is a sequence of phases, each a read or a write of at most   *)
(* POOL_MAX bytes through the buffer of the channel.  The future of a      *)
(* transfer may be dropped; its phase goes on in the controller.  The      *)
(* interrupt is latched when the done bit or a bus alert is raised.        *)
(***************************************************************************)
EXTENDS Sequences, SequencesExt

CONSTANTS
  Tasks,     \* each owns one I2cBus
  Channels,
  ChOf,      \* ChOf[t]: the channel of the bus of t
  MaxPhases, \* bound: phases of a transfer
  None,      \* nobody, no channel
  Gone       \* a transfer that has returned or was dropped

\* What the modules that use this one assume of the constants.
I2cAssumption ==
  /\ ChOf \in [Tasks -> Channels]
  /\ None \notin Tasks \cup Channels /\ Gone \notin Tasks /\ None # Gone

VARIABLES
  bus,     \* bus[c]: whose phase the controller executes (BUS_BUSY), or None
  dir,     \* dir[c]: the direction of the last phase that was started
  sts,     \* sts[c]: MASTER_IRQ_STATUS, a set of "done", "fail", "arb"
  pool,    \* pool[c]: whose bytes the buffer holds, and which way they go
  ended,   \* history: ended[c] is whose phase the status bits tell of
  irq,     \* channels whose interrupt is latched
  wakers,  \* I2C_WAKERS
  pc,      \* pc[t]: where the transfer of t stands
  left,    \* left[t]: the phases that are still to be started
  got,     \* history: got[t] is what the last wait of t returned, and for whom
  ready, cur,  \* the run queue and the task being polled
  isr      \* the channel whose handler runs, or None

hwVars   == <<bus, dir, sts, pool, ended>>
taskVars == <<pc, left, got, ready, cur>>
vars == <<hwVars, irq, wakers, taskVars, isr>>

Owner  == Tasks \cup {None, Gone}
Phases == {"read", "write", "long"}

TypeOK ==
  /\ bus \in [Channels -> Owner] /\ dir \in [Channels -> {"read", "write"}]
  /\ sts \in [Channels -> SUBSET {"done", "fail", "arb"}]
  /\ pool \in [Channels -> [of : Owner, way : {"tx", "rx"}]]
  /\ ended \in [Channels -> Owner]
  /\ irq \subseteq Channels
  /\ wakers \in [Channels -> Tasks \cup {None}]
  /\ pc \in [Tasks -> {"idle", "start", "check", "register", "recheck", "pending", "after"}]
  /\ left \in [Tasks -> Seq(Phases)]
  /\ got \in [Tasks -> [of : Owner, ok : BOOLEAN]]
  /\ ready \subseteq Tasks /\ cur \in Tasks \cup {None}
  /\ isr \in Channels \cup {None}

\* I2cBus::new has reset the channel and enabled the done and alert interrupts.
Init ==
  /\ bus = [c \in Channels |-> None] /\ dir = [c \in Channels |-> "write"]
  /\ sts = [c \in Channels |-> {}]
  /\ pool = [c \in Channels |-> [of |-> None, way |-> "tx"]]
  /\ ended = [c \in Channels |-> None]
  /\ irq = {} /\ wakers = [c \in Channels |-> None]
  /\ pc = [t \in Tasks |-> "idle"] /\ left = [t \in Tasks |-> <<>>]
  /\ got = [t \in Tasks |-> [of |-> None, ok |-> FALSE]]
  /\ ready = Tasks /\ cur = None /\ isr = None

-----------------------------------------------------------------------------
(* The controller and the handler.                                         *)

\* The phase ends: the packet is done, whether or not it was acknowledged, or
\* the arbitration is lost, which raises no interrupt.
Complete(c) ==
  /\ bus[c] # None
  /\ bus' = [bus EXCEPT ![c] = None]
  /\ ended' = [ended EXCEPT ![c] = bus[c]]
  /\ \/ /\ \E bits \in {{"done"}, {"done", "fail"}} : sts' = [sts EXCEPT ![c] = @ \cup bits]
        /\ irq' = irq \cup {c}
     \/ /\ sts' = [sts EXCEPT ![c] = @ \cup {"arb"}]
        /\ UNCHANGED irq
  /\ pool' = IF dir[c] = "read" THEN [pool EXCEPT ![c] = [of |-> bus[c], way |-> "rx"]] ELSE pool
  /\ UNCHANGED <<dir, wakers, taskVars, isr>>

Alert(c) ==
  /\ irq' = irq \cup {c} /\ irq' # irq
  /\ UNCHANGED <<hwVars, wakers, taskVars, isr>>

IsrEnter(c) ==
  /\ isr = None /\ c \in irq
  /\ isr' = c
  /\ irq' = irq \ {c}
  /\ UNCHANGED <<hwVars, wakers, taskVars>>

\* Mutant: an unregistered waker is woken like any other.
IsrWakeNone ==
  /\ isr # None
  /\ ready' = ready \cup {wakers[isr]}
  /\ isr' = None
  /\ UNCHANGED <<hwVars, irq, wakers, pc, left, got, cur>>

\* on_interrupt wakes and clears nothing.
IsrWake ==
  /\ isr # None
  /\ ready' = ready \cup ({wakers[isr]} \ {None})
  /\ isr' = None
  /\ UNCHANGED <<hwVars, irq, wakers, pc, left, got, cur>>

-----------------------------------------------------------------------------
(* The tasks.                                                              *)

Running(t) == isr = None /\ cur = t
Goto(t, l) == pc' = [pc EXCEPT ![t] = l]

\* A transfer returned or dropped: what it left in the controller is nobody's.
Disown(t) ==
  LET Of(o) == IF o = t THEN Gone ELSE o IN
  /\ bus' = [c \in Channels |-> Of(bus[c])]
  /\ ended' = [c \in Channels |-> Of(ended[c])]
  /\ pool' = [c \in Channels |-> [pool[c] EXCEPT !.of = Of(@)]]
  /\ left' = [left EXCEPT ![t] = <<>>]
  /\ got' = [got EXCEPT ![t] = [of |-> None, ok |-> FALSE]]
  /\ Goto(t, "idle")

Poll(t) ==
  /\ isr = None /\ cur = None /\ t \in ready
  /\ cur' = t /\ ready' = ready \ {t}
  /\ IF pc[t] = "pending" THEN Goto(t, "check") ELSE UNCHANGED pc
  /\ UNCHANGED <<hwVars, irq, wakers, left, got, isr>>

\* Another future of the task is woken, or its timeout.
OtherWake(t) ==
  /\ t \notin ready /\ ready' = ready \cup {t}
  /\ UNCHANGED <<hwVars, irq, wakers, pc, left, got, cur, isr>>

Cancel(t) ==
  /\ isr = None /\ cur = None /\ t \in ready /\ pc[t] = "pending"
  /\ cur' = t /\ ready' = ready \ {t}
  /\ Disown(t)
  /\ UNCHANGED <<dir, sts, irq, wakers, isr>>

Yield(t) ==
  /\ Running(t) /\ pc[t] = "idle"
  /\ cur' = None
  /\ UNCHANGED <<hwVars, irq, wakers, pc, left, got, ready, isr>>

\* read, write, write_read and transaction.
Begin(t, phases) ==
  /\ Running(t) /\ pc[t] = "idle"
  /\ left' = [left EXCEPT ![t] = phases]
  /\ Goto(t, "start")
  /\ UNCHANGED <<hwVars, irq, wakers, got, ready, cur, isr>>

\* A phase longer than the buffer ends the transfer where it stands.
TooLong(t) ==
  /\ Running(t) /\ pc[t] = "start" /\ Head(left[t]) = "long"
  /\ Disown(t)   \* Err(BufferOverflow)
  /\ UNCHANGED <<dir, sts, irq, wakers, ready, cur, isr>>

Issue(t) ==
  LET c == ChOf[t] IN
  /\ dir' = [dir EXCEPT ![c] = Head(left[t])]
  /\ bus' = [bus EXCEPT ![c] = t]
  /\ pool' = IF Head(left[t]) = "write"
             THEN [pool EXCEPT ![c] = [of |-> t, way |-> "tx"]] ELSE pool
  /\ left' = [left EXCEPT ![t] = Tail(@)]
  /\ Goto(t, "check")
  /\ UNCHANGED <<irq, wakers, got, ready, cur, isr>>

\* Mutant: the status bits of the phase before are left standing.
StartNoClear(t) ==
  /\ Running(t) /\ pc[t] = "start" /\ Head(left[t]) # "long"
  /\ bus[ChOf[t]] = None
  /\ UNCHANGED <<sts, ended>>
  /\ Issue(t)

\* Mutant: the phase before may still be on the bus, and the command is ignored.
StartBusy(t) ==
  /\ Running(t) /\ pc[t] = "start" /\ Head(left[t]) # "long"
  /\ sts' = [sts EXCEPT ![ChOf[t]] = {}] /\ ended' = [ended EXCEPT ![ChOf[t]] = None]
  /\ \/ bus[ChOf[t]] = None /\ Issue(t)
     \/ /\ bus[ChOf[t]] # None
        /\ left' = [left EXCEPT ![t] = Tail(@)] /\ Goto(t, "check")
        /\ UNCHANGED <<bus, dir, pool, irq, wakers, got, ready, cur, isr>>

\* start_write and start_read spin until the bus is free, clear the status,
\* fill the buffer and issue the command.
Start(t) ==
  /\ Running(t) /\ pc[t] = "start" /\ Head(left[t]) # "long"
  /\ bus[ChOf[t]] = None
  /\ sts' = [sts EXCEPT ![ChOf[t]] = {}] /\ ended' = [ended EXCEPT ![ChOf[t]] = None]
  /\ Issue(t)

\* One look at the status: the done bit is cleared alone, a lost arbitration
\* clears all.
Look(t, missed) ==
  LET c == ChOf[t] IN
  \/ /\ "done" \in sts[c]
     /\ sts' = [sts EXCEPT ![c] = @ \ {"done"}]
     /\ got' = [got EXCEPT ![t] = [of |-> ended[c], ok |-> "fail" \notin sts[c]]]
     /\ Goto(t, "after") /\ UNCHANGED cur
  \/ /\ "done" \notin sts[c] /\ "arb" \in sts[c]
     /\ sts' = [sts EXCEPT ![c] = {}]
     /\ got' = [got EXCEPT ![t] = [of |-> ended[c], ok |-> FALSE]]
     /\ Goto(t, "after") /\ UNCHANGED cur
  \/ /\ {"done", "arb"} \cap sts[c] = {}
     /\ Goto(t, missed)
     /\ cur' = IF missed = "pending" THEN None ELSE cur
     /\ UNCHANGED <<sts, got>>

Check(t) ==
  /\ Running(t) /\ pc[t] = "check"
  /\ Look(t, "register")
  /\ UNCHANGED <<bus, dir, pool, ended, irq, wakers, left, ready, isr>>

Register(t) ==
  /\ Running(t) /\ pc[t] = "register"
  /\ wakers' = [wakers EXCEPT ![ChOf[t]] = t]
  /\ Goto(t, "recheck")
  /\ UNCHANGED <<hwVars, irq, left, got, ready, cur, isr>>

\* Mutant: the future does not look again once it has registered.
RecheckNothing(t) ==
  /\ Running(t) /\ pc[t] = "recheck"
  /\ Goto(t, "pending") /\ cur' = None
  /\ UNCHANGED <<hwVars, irq, wakers, left, got, ready, isr>>

Recheck(t) ==
  /\ Running(t) /\ pc[t] = "recheck"
  /\ Look(t, "pending")
  /\ UNCHANGED <<bus, dir, pool, ended, irq, wakers, left, ready, isr>>

\* The wait returned Ok and another phase follows.
NextPhase(t) ==
  /\ Running(t) /\ pc[t] = "after" /\ got[t].ok /\ left[t] # <<>>
  /\ Goto(t, "start")
  /\ UNCHANGED <<hwVars, irq, wakers, left, got, ready, cur, isr>>

\* The wait failed, or it was the last phase: a read has copied the buffer out.
Finish(t) ==
  /\ Running(t) /\ pc[t] = "after" /\ (~got[t].ok \/ left[t] = <<>>)
  /\ Disown(t)
  /\ UNCHANGED <<dir, sts, irq, wakers, ready, cur, isr>>

Inside(t) ==
  \/ TooLong(t) \/ Start(t) \/ Check(t) \/ Register(t) \/ Recheck(t)
  \/ NextPhase(t) \/ Finish(t)

Next ==
  \/ \E c \in Channels : Complete(c) \/ Alert(c) \/ IsrEnter(c)
  \/ IsrWake
  \/ \E t \in Tasks :
       \/ Poll(t) \/ OtherWake(t) \/ Cancel(t) \/ Yield(t) \/ Inside(t)
       \/ \E phases \in SeqOf(Phases, MaxPhases) \ {<<>>} : Begin(t, phases)

Spec == Init /\ [][Next]_vars

-----------------------------------------------------------------------------
(* Properties.                                                             *)

Sole(t) == \A u \in Tasks : u # t => ChOf[u] # ChOf[t]

\* A task alone on its channel is told of its own phase, never of one that it
\* abandoned earlier, also when that ends while the next one is being started.
OwnCompletion == \A t \in Tasks : Sole(t) /\ pc[t] = "after" => got[t].of = t

\* ... and a read that succeeded finds in the buffer what it received, since
\* neither an abandoned phase nor the write before it comes in between.
OwnBytes ==
  \A t \in Tasks : Sole(t) /\ pc[t] = "after" /\ got[t].ok /\ dir[ChOf[t]] = "read" =>
     pool[ChOf[t]] = [of |-> t, way |-> "rx"]

\* A task alone on its channel that has returned Pending and whose phase is
\* done has the interrupt still ahead of it or is in the run queue.
NoLostWakeup ==
  \A t \in Tasks : Sole(t) /\ pc[t] = "pending" /\ "done" \in sts[ChOf[t]] =>
     ChOf[t] \in irq \/ isr = ChOf[t] \/ t \in ready
=============================================================================
