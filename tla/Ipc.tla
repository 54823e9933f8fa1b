-------------------------------- MODULE Ipc ---------------------------------
(***************************************************************************)
(* The doorbell mailbox between the coprocessor (CM3) and the CA7:         *)
(* `send`, `send_wait`, `send_wait_async`, the futures `RecvAny` and       *)
(* `RecvChannel`, and the interrupt handlers of the channels               *)
(* (src/embassy-aspeed/src/ipc.rs).                                        *)
(*                                                                         *)
(* As in Gpio one core runs everything: the executor polls one task at a   *)
(* time and the handler may preempt it between any two steps.  The CA7     *)
(* runs beside it and rings and acknowledges whenever it likes, or never.  *)
(* STATUS shows a channel while a doorbell of the CA7 waits to be cleared  *)
(* (rx) and while a doorbell to the CA7 waits for its acknowledgement (tx).*)
(***************************************************************************)
EXTENDS Naturals, FiniteSets

CONSTANTS
  Channels,      \* the channels in use, numbered as in the code
  AnyReceivers,  \* tasks that await recv()
  ChanReceivers, \* tasks that await recv_channel(ChanOf[t])
  Senders,       \* tasks that ring the CA7 on ChanOf[t]
  ChanOf,        \* the channel of a channel receiver or a sender
  KindOf,        \* how a sender sends: "try", "spin" or "async"
  SpuriousChans, \* channels whose handler may be entered without a doorbell
  None,          \* no waker, no task, no channel
  MaxRings       \* bound on the doorbells of the CA7 per channel

Receivers == AnyReceivers \cup ChanReceivers
Tasks == Receivers \cup Senders

ASSUME IpcAssumption ==
  /\ Channels \subseteq Nat
  /\ AnyReceivers \cap ChanReceivers = {}
  /\ Receivers \cap Senders = {}
  /\ ChanOf \in [ChanReceivers \cup Senders -> Channels]
  /\ KindOf \in [Senders -> {"try", "spin", "async"}]
  /\ SpuriousChans \subseteq Channels
  /\ None \notin Tasks \cup Channels
  /\ MaxRings \in Nat

\* The channels a receive may return.
Wants(t) == IF t \in AnyReceivers THEN Channels ELSE {ChanOf[t]}

VARIABLES
  rx, tx,        \* STATUS: doorbells from, and un-acknowledged doorbells to, the CA7
  pending,       \* PENDING
  wakers,        \* CHANNEL_WAKERS
  pc,            \* pc[t]: where the future of task t stands
  got,           \* got[t]: the channel that poll is about to return
  unreg,         \* unreg[t]: the wakers that poll has yet to register
  late,          \* late[t]: the deadline of the poll_until_async of t has passed
  ready, cur,    \* the run queue and the task being polled
  isrPc, isrCh,  \* the handler and its channel
  rung, heard    \* history: doorbells of the CA7, receives that returned

busVars  == <<rx, tx>>
rcvVars  == <<pending, wakers>>
taskVars == <<pc, got, unreg, late, ready, cur>>
isrVars  == <<isrPc, isrCh>>
histVars == <<rung, heard>>
vars == <<busVars, rcvVars, taskVars, isrVars, histVars>>

RecvSteps == {"look", "register", "relook", "take"}
SendSteps == {"before", "trig", "after"}

TypeOK ==
  /\ rx \subseteq Channels /\ tx \subseteq Channels
  /\ pending \subseteq Channels
  /\ wakers \in [Channels -> Receivers \cup {None}]
  /\ pc \in [Tasks -> RecvSteps \cup SendSteps \cup {"idle", "pending"}]
  /\ got \in [Tasks -> Channels \cup {None}]
  /\ unreg \in [Tasks -> SUBSET Channels]
  /\ late \in [Tasks -> BOOLEAN]
  /\ ready \subseteq Tasks
  /\ cur \in Tasks \cup {None}
  /\ isrPc \in {"off", "status", "clear", "set", "wake"}
  /\ isrCh \in Channels \cup {None}
  /\ rung \in [Channels -> Nat] /\ heard \in [Channels -> Nat]

Init ==
  /\ rx = {} /\ tx = {}
  /\ pending = {}
  /\ wakers = [c \in Channels |-> None]
  /\ pc = [t \in Tasks |-> "idle"]
  /\ got = [t \in Tasks |-> None]
  /\ unreg = [t \in Tasks |-> {}]
  /\ late = [t \in Tasks |-> FALSE]
  /\ ready = Tasks
  /\ cur = None
  /\ isrPc = "off" /\ isrCh = None
  /\ rung = [c \in Channels |-> 0] /\ heard = [c \in Channels |-> 0]

-----------------------------------------------------------------------------
(* The CA7 and the handler.                                                *)

\* The CA7 rings channel c; a second ring before CLEAR leaves one status bit.
Ring(c) ==
  /\ rung[c] < MaxRings
  /\ rx' = rx \cup {c}
  /\ rung' = [rung EXCEPT ![c] = @ + 1]
  /\ UNCHANGED <<tx, rcvVars, taskVars, isrVars, heard>>

\* The CA7 acknowledges the doorbell on channel c.
Ack(c) ==
  /\ c \in tx
  /\ tx' = tx \ {c}
  /\ UNCHANGED <<rx, rcvVars, taskVars, isrVars, histVars>>

Status == rx \cup tx

IsrEnter(c) ==
  /\ isrPc = "off"
  /\ c \in rx \cup SpuriousChans
  /\ isrPc' = "status" /\ isrCh' = c
  /\ UNCHANGED <<busVars, rcvVars, taskVars, histVars>>

\* on_interrupt: an entry whose status bit is clear is left at once.
IsrStatus ==
  /\ isrPc = "status"
  /\ isrPc' = IF isrCh \in Status THEN "clear" ELSE "off"
  /\ UNCHANGED <<busVars, rcvVars, taskVars, isrCh, histVars>>

IsrClear ==
  /\ isrPc = "clear"
  /\ rx' = rx \ {isrCh}
  /\ isrPc' = "set"
  /\ UNCHANGED <<tx, rcvVars, taskVars, isrCh, histVars>>

IsrSet ==
  /\ isrPc = "set"
  /\ pending' = pending \cup {isrCh}
  /\ isrPc' = "wake"
  /\ UNCHANGED <<busVars, wakers, taskVars, isrCh, histVars>>

\* Mutant: an unregistered waker is woken like any other.
IsrWakeUnregistered ==
  /\ isrPc = "wake"
  /\ ready' = ready \cup {wakers[isrCh]}
  /\ isrPc' = "off"
  /\ UNCHANGED <<busVars, rcvVars, pc, got, unreg, late, cur, isrCh, histVars>>

IsrWake ==
  /\ isrPc = "wake"
  /\ ready' = ready \cup ({wakers[isrCh]} \ {None})
  /\ isrPc' = "off"
  /\ UNCHANGED <<busVars, rcvVars, pc, got, unreg, late, cur, isrCh, histVars>>

Isr == (\E c \in Channels : IsrEnter(c)) \/ IsrStatus \/ IsrClear \/ IsrSet \/ IsrWake

-----------------------------------------------------------------------------
(* The executor.                                                           *)

Running(t) == isrPc = "off" /\ cur = t
Goto(t, l) == pc' = [pc EXCEPT ![t] = l]

\* Another event the task awaits, or a timer, wakes it.
OtherWake(t) ==
  /\ t \notin ready
  /\ ready' = ready \cup {t}
  /\ UNCHANGED <<busVars, rcvVars, pc, got, unreg, late, cur, isrVars, histVars>>

\* The executor polls t; a pending receive starts over.
Poll(t) ==
  /\ isrPc = "off" /\ cur = None /\ t \in ready
  /\ cur' = t
  /\ ready' = ready \ {t}
  /\ IF pc[t] = "pending" THEN Goto(t, "look") ELSE UNCHANGED pc
  /\ UNCHANGED <<busVars, rcvVars, got, unreg, late, isrVars, histVars>>

\* The poll drops a pending receive; its wakers stay registered.
Cancel(t) ==
  /\ isrPc = "off" /\ cur = None /\ t \in ready
  /\ pc[t] = "pending"
  /\ cur' = t
  /\ ready' = ready \ {t}
  /\ Goto(t, "idle")
  /\ UNCHANGED <<busVars, rcvVars, got, unreg, late, isrVars, histVars>>

Yield(t) ==
  /\ Running(t) /\ pc[t] = "idle"
  /\ cur' = None
  /\ UNCHANGED <<busVars, rcvVars, pc, got, unreg, late, ready, isrVars, histVars>>

-----------------------------------------------------------------------------
(* RecvAny::poll and RecvChannel::poll.                                    *)

BeginRecv(t) ==
  /\ t \in Receivers
  /\ Running(t) /\ pc[t] = "idle"
  /\ Goto(t, "look")
  /\ UNCHANGED <<busVars, rcvVars, got, unreg, late, ready, cur, isrVars, histVars>>

\* PENDING shows channel c to t: RecvAny takes the lowest one.
Shows(t, c) == c \in Wants(t) \cap pending /\ \A d \in Wants(t) \cap pending : c <= d

Found(t) == \E c \in Channels : Shows(t, c) /\ got' = [got EXCEPT ![t] = c] /\ Goto(t, "take")

Look(t) ==
  /\ Running(t) /\ pc[t] = "look"
  /\ \/ Found(t) /\ UNCHANGED unreg
     \/ /\ Wants(t) \cap pending = {}
        /\ unreg' = [unreg EXCEPT ![t] = Wants(t)]
        /\ Goto(t, "register")
        /\ UNCHANGED got
  /\ UNCHANGED <<busVars, rcvVars, late, ready, cur, isrVars, histVars>>

\* Mutant: only the first waker of the loop is registered.
RegisterFirstOnly(t) ==
  /\ Running(t) /\ pc[t] = "register"
  /\ \E c \in unreg[t] :
       /\ \A d \in unreg[t] : c <= d
       /\ wakers' = [wakers EXCEPT ![c] = t]
       /\ unreg' = [unreg EXCEPT ![t] = {}]
       /\ Goto(t, "relook")
  /\ UNCHANGED <<busVars, pending, got, late, ready, cur, isrVars, histVars>>

\* The wakers are registered one by one, in the order of the channels.
Register(t) ==
  /\ Running(t) /\ pc[t] = "register"
  /\ \E c \in unreg[t] :
       /\ \A d \in unreg[t] : c <= d
       /\ wakers' = [wakers EXCEPT ![c] = t]
       /\ unreg' = [unreg EXCEPT ![t] = @ \ {c}]
       /\ Goto(t, IF unreg[t] = {c} THEN "relook" ELSE "register")
  /\ UNCHANGED <<busVars, pending, got, late, ready, cur, isrVars, histVars>>

\* Mutant: the poll returns Pending without looking again.
RelookSkipped(t) ==
  /\ Running(t) /\ pc[t] = "relook"
  /\ Goto(t, "pending")
  /\ cur' = None
  /\ UNCHANGED <<busVars, rcvVars, got, unreg, late, ready, isrVars, histVars>>

Relook(t) ==
  /\ Running(t) /\ pc[t] = "relook"
  /\ \/ Found(t) /\ UNCHANGED cur
     \/ /\ Wants(t) \cap pending = {}
        /\ Goto(t, "pending") /\ cur' = None
        /\ UNCHANGED got
  /\ UNCHANGED <<busVars, rcvVars, unreg, late, ready, isrVars, histVars>>

\* Mutant: the whole mask is cleared.
TakeAll(t) ==
  /\ Running(t) /\ pc[t] = "take"
  /\ pending' = {}
  /\ heard' = [heard EXCEPT ![got[t]] = @ + 1]
  /\ Goto(t, "idle")
  /\ UNCHANGED <<busVars, wakers, got, unreg, late, ready, cur, isrVars, rung>>

\* The bit is cleared in a critical section of its own: the receive returns.
Take(t) ==
  /\ Running(t) /\ pc[t] = "take"
  /\ pending' = pending \ {got[t]}
  /\ heard' = [heard EXCEPT ![got[t]] = @ + 1]
  /\ Goto(t, "idle")
  /\ UNCHANGED <<busVars, wakers, got, unreg, late, ready, cur, isrVars, rung>>

-----------------------------------------------------------------------------
(* send, send_wait and send_wait_async.                                    *)

Clear(t) == ChanOf[t] \notin Status

\* `poll_until_async` starts: its deadline lies ahead.
BeginSend(t) ==
  /\ t \in Senders
  /\ Running(t) /\ pc[t] = "idle"
  /\ Goto(t, "before")
  /\ late' = [late EXCEPT ![t] = FALSE]
  /\ UNCHANGED <<busVars, rcvVars, got, unreg, ready, cur, isrVars, histVars>>

Deadline(t) ==
  /\ pc[t] \in {"before", "after"} /\ t \in Senders /\ KindOf[t] = "async"
  /\ ~late[t]
  /\ late' = [late EXCEPT ![t] = TRUE]
  /\ UNCHANGED <<busVars, rcvVars, pc, got, unreg, ready, cur, isrVars, histVars>>

\* Mutant: the sender yields to the executor between the look and TRIG.
BeforeYields(t) ==
  /\ Running(t) /\ pc[t] = "before"
  /\ \/ Clear(t) /\ Goto(t, "trig") /\ cur' = None /\ ready' = ready \cup {t}
     \/ ~Clear(t) /\ KindOf[t] = "try" /\ Goto(t, "idle") /\ UNCHANGED <<cur, ready>>
     \/ ~Clear(t) /\ KindOf[t] = "async" /\ cur' = None /\ UNCHANGED <<pc, ready>>
  /\ UNCHANGED <<busVars, rcvVars, got, unreg, late, isrVars, histVars>>

\* One look at STATUS before TRIG is written.  send gives up on a busy
\* channel, send_wait spins (the step is repeated), send_wait_async sleeps
\* until its deadline and then goes on as if the channel were free.
Before(t) ==
  /\ Running(t) /\ pc[t] = "before"
  /\ \/ Clear(t) /\ Goto(t, "trig") /\ UNCHANGED cur
     \/ ~Clear(t) /\ KindOf[t] = "try" /\ Goto(t, "idle") /\ UNCHANGED cur
     \/ ~Clear(t) /\ KindOf[t] = "async" /\ late[t] /\ Goto(t, "trig") /\ UNCHANGED cur
     \/ ~Clear(t) /\ KindOf[t] = "async" /\ ~late[t] /\ cur' = None /\ UNCHANGED pc
  /\ UNCHANGED <<busVars, rcvVars, got, unreg, late, ready, isrVars, histVars>>

\* TRIG is written; send returns, the others wait for the acknowledgement.
Trig(t) ==
  /\ Running(t) /\ pc[t] = "trig"
  /\ tx' = tx \cup {ChanOf[t]}
  /\ late' = [late EXCEPT ![t] = FALSE]
  /\ Goto(t, IF KindOf[t] = "try" THEN "idle" ELSE "after")
  /\ UNCHANGED <<rx, rcvVars, got, unreg, ready, cur, isrVars, histVars>>

\* Mutant: the deadline is not looked at.
AfterForever(t) ==
  /\ Running(t) /\ pc[t] = "after"
  /\ \/ Clear(t) /\ Goto(t, "idle") /\ UNCHANGED cur
     \/ ~Clear(t) /\ KindOf[t] = "async" /\ cur' = None /\ UNCHANGED pc
  /\ UNCHANGED <<busVars, rcvVars, got, unreg, late, ready, isrVars, histVars>>

After(t) ==
  /\ Running(t) /\ pc[t] = "after"
  /\ \/ Clear(t) /\ Goto(t, "idle") /\ UNCHANGED cur
     \/ ~Clear(t) /\ KindOf[t] = "async" /\ late[t] /\ Goto(t, "idle") /\ UNCHANGED cur
     \/ ~Clear(t) /\ KindOf[t] = "async" /\ ~late[t] /\ cur' = None /\ UNCHANGED pc
  /\ UNCHANGED <<busVars, rcvVars, got, unreg, late, ready, isrVars, histVars>>

\* Timer::after between two looks of poll_until_async elapses.
TimerFires(t) ==
  /\ pc[t] \in {"before", "after"} /\ cur # t /\ t \notin ready
  /\ ready' = ready \cup {t}
  /\ UNCHANGED <<busVars, rcvVars, pc, got, unreg, late, cur, isrVars, histVars>>

-----------------------------------------------------------------------------
RecvStep(t) == BeginRecv(t) \/ Look(t) \/ Register(t) \/ Relook(t) \/ Take(t)
SendStep(t) == BeginSend(t) \/ Before(t) \/ Trig(t) \/ After(t)
Inside(t) == Look(t) \/ Register(t) \/ Relook(t) \/ Take(t) \/ Before(t) \/ Trig(t) \/ After(t)

Next ==
  \/ \E c \in Channels : Ring(c) \/ Ack(c)
  \/ Isr
  \/ \E t \in Tasks :
       \/ Poll(t) \/ Cancel(t) \/ Yield(t)
       \/ RecvStep(t) \/ SendStep(t)
       \/ Deadline(t) \/ TimerFires(t)
  \/ \E t \in Receivers : OtherWake(t)

Spec == Init /\ [][Next]_vars

\* The handler runs to its end and a poll to its return; no task chains
\* operations for ever within one poll; a task in the run queue is polled;
\* time passes.  Nothing makes the CA7 acknowledge.
Fairness ==
  /\ WF_vars(Isr)
  /\ SF_vars(\E t \in Tasks : Inside(t)) /\ SF_vars(\E t \in Tasks : Yield(t))
  /\ \A t \in Tasks :
       /\ SF_vars(Poll(t))
       /\ WF_vars(TimerFires(t)) /\ WF_vars(Deadline(t))

FairSpec == Spec /\ Fairness

-----------------------------------------------------------------------------
(* Properties.                                                             *)

Bit(b) == IF b THEN 1 ELSE 0

\* The receives owed to each channel: in STATUS, in the handler, in PENDING.
Due == [c \in Channels |->
          Bit(c \in rx) + Bit(isrPc = "set" /\ isrCh = c) + Bit(c \in pending)]

Mailbox == INSTANCE Doorbell WITH due <- Due

\* The mailbox implements Doorbell: no doorbell of the CA7 is lost or
\* invented between STATUS, the handler and PENDING, though both polls read
\* PENDING and clear its bit in two separate critical sections.
MailboxSpec == Mailbox!Spec

\* A receive that returned Pending on a channel no other task receives is in
\* the run queue once the channel is in PENDING and its handler has returned:
\* no wake-up is lost while the wakers are registered one after the other.
NoLostWakeup ==
  \A t \in Receivers : \A c \in Wants(t) \cap pending :
     /\ pc[t] = "pending"
     /\ \A u \in Receivers : u # t => c \notin Wants(u)
     /\ ~(isrPc = "wake" /\ isrCh = c)
     => t \in ready

\* A pending receive of a channel nobody else receives resolves, or is
\* dropped, once the channel is in PENDING.
Received ==
  \A t \in Receivers : \A c \in Channels :
     (/\ pc[t] = "pending" /\ c \in Wants(t) \cap pending
      /\ \A u \in Receivers : u # t => c \notin Wants(u)) ~> pc[t] = "idle"

\* A sender that found its channel free, rather than gave up waiting, never
\* rings over a doorbell the CA7 has not acknowledged: between the look at
\* STATUS and TRIG no other sender of the channel can run.
RingsFree == \A t \in Senders : pc[t] = "trig" /\ ~late[t] => ChanOf[t] \notin tx

\* send_wait_async returns even if the CA7 never acknowledges.
AsyncSendReturns ==
  \A t \in Senders : KindOf[t] = "async" => (pc[t] = "before" ~> pc[t] = "idle")
=============================================================================
