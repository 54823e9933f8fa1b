--------------------------------- MODULE I3c --------------------------------
(***************************************************************************)
(* Transfers of one I3C master: private reads and writes, broadcast        *)
(* commands, the assignment of dynamic addresses, the device table, the    *)
(* future `RespReadyFuture` and the interrupt handler                      *)
(* (src/embassy-aspeed/src/i3c.rs).                                        *)
(*                                                                         *)
(* The controller takes commands from one queue and puts one response for  *)
(* each on another; a waiting transfer takes the oldest response without   *)
(* looking at its transaction identifier, which is left out here.          *)
(***************************************************************************)
EXTENDS Naturals, Sequences, FiniteSets, FiniteSetsExt, SequencesExt

CONSTANTS
  I3cTasks,  \* the tasks that hold an I3cMaster of the channel
  Devices,   \* the devices on the bus
  MaxSlots,  \* bound: slots of the device table (8 in the code)
  MaxDrops,  \* bound: transfers that are dropped
  MaxWords,  \* bound: words left in a FIFO
  Nobody     \* no task, no device, a transfer that is over

\* What the modules that use this one assume of the constants.
I3cAssumption ==
  /\ IsFiniteSet(I3cTasks) /\ IsFiniteSet(Devices)
  /\ {MaxSlots, MaxDrops, MaxWords} \subseteq Nat
  /\ Nobody \notin I3cTasks \cup Devices

VARIABLES
  cmds, resps,   \* the command and the response queue
  tx, rx,        \* the data FIFOs, as the owners of their words
  dat, dct,      \* the device tables: slot to address, slot to device found
  addr,          \* addr[d]: the dynamic address of device d, 0 if it has none
  irqI3c,        \* the interrupt is latched
  wakerI3c,      \* I3C_WAKERS of the channel
  at,            \* at[t]: where the transfer of t stands
  op,            \* op[t]: the command of t
  took,           \* history: took[t] is the response t has taken, and what followed it
  dropped,       \* history: how many transfers were dropped
  clean,         \* history: no transfer was dropped, met another, or failed
  runq, polled,  \* the run queue and the task being polled
  inIsr          \* the handler runs

queueVars == <<cmds, resps, tx, rx>>
busVars == <<dat, dct, addr>>
runVars == <<runq, polled>>
i3cVars == <<queueVars, busVars, irqI3c, wakerI3c, at, op, took, dropped, clean, runVars, inIsr>>

Slots == 0 .. MaxSlots - 1
\* run_entdaa gives slot i the address 8 + i.
Address(slot) == 8 + slot
Kinds == {"write", "read", "ccc", "rstdaa", "daa", "none"}
Commands == [of : I3cTasks \cup {Nobody}, kind : Kinds, len : Nat]
Responses == [of : I3cTasks \cup {Nobody}, kind : Kinds, ok : BOOLEAN, len : Nat]
NoCommand == [of |-> Nobody, kind |-> "none", len |-> 0]
NoResponse == [of |-> Nobody, kind |-> "none", ok |-> FALSE, len |-> 0]
Addresses == {0} \cup {Address(s) : s \in Slots}

TypeOK ==
  /\ cmds \in Seq(Commands) /\ resps \in Seq(Responses)
  /\ tx \in Seq(I3cTasks \cup {Nobody}) /\ rx \in Seq(I3cTasks \cup {Nobody})
  /\ dat \in [Slots -> Addresses] /\ dct \in [Slots -> Devices \cup {Nobody}]
  /\ addr \in [Devices -> Addresses]
  /\ irqI3c \in BOOLEAN /\ wakerI3c \in I3cTasks \cup {Nobody}
  /\ at \in [I3cTasks -> {"idle", "check", "register", "recheck", "pending", "over", "done"}]
  /\ op \in [I3cTasks -> Commands]
  /\ took \in [I3cTasks -> [resp : Responses, own : BOOLEAN]]
  /\ dropped \in 0 .. MaxDrops /\ clean \in BOOLEAN
  /\ runq \subseteq I3cTasks /\ polled \in I3cTasks \cup {Nobody}
  /\ inIsr \in BOOLEAN

\* I3cMaster::new resets the queues and the FIFOs.
Init ==
  /\ cmds = <<>> /\ resps = <<>> /\ tx = <<>> /\ rx = <<>>
  /\ dat = [s \in Slots |-> 0] /\ dct = [s \in Slots |-> Nobody]
  /\ addr = [d \in Devices |-> 0]
  /\ irqI3c = FALSE /\ wakerI3c = Nobody
  /\ at = [t \in I3cTasks |-> "idle"] /\ op = [t \in I3cTasks |-> NoCommand]
  /\ took = [t \in I3cTasks |-> [resp |-> NoResponse, own |-> TRUE]]
  /\ dropped = 0 /\ clean = TRUE
  /\ runq = I3cTasks /\ polled = Nobody /\ inIsr = FALSE

-----------------------------------------------------------------------------
(* The controller and the handler.                                         *)

Respond(ok, n) ==
  /\ cmds # <<>>
  /\ cmds' = Tail(cmds)
  /\ resps' = Append(resps, [of |-> Head(cmds).of, kind |-> Head(cmds).kind, ok |-> ok, len |-> n])
  /\ irqI3c' = TRUE

Env == <<wakerI3c, at, op, took, dropped, runVars, inIsr>>

\* A write or a broadcast command takes its words from the FIFO; one that is
\* not acknowledged leaves some of them.
Send(ok) ==
  /\ cmds # <<>> /\ Head(cmds).kind \in {"write", "ccc", "rstdaa"}
  /\ Respond(ok, 0)
  /\ \E n \in 0 .. Head(cmds).len :
       /\ ok => n = Head(cmds).len
       /\ n <= Len(tx)
       /\ tx' = SubSeq(tx, n + 1, Len(tx))
  /\ addr' = IF ok /\ Head(cmds).kind = "rstdaa" THEN [d \in Devices |-> 0] ELSE addr
  /\ clean' = (clean /\ ok)
  /\ UNCHANGED <<rx, dat, dct, Env>>

\* A read delivers up to the words that were asked for, also when it fails.
Receive(ok) ==
  /\ cmds # <<>> /\ Head(cmds).kind = "read"
  /\ \E n \in 0 .. Head(cmds).len :
       /\ Respond(ok, n)
       /\ rx' = rx \o [i \in 1 .. n |-> Head(cmds).of]
  /\ clean' = (clean /\ ok)
  /\ UNCHANGED <<tx, busVars, Env>>

\* ENTDAA gives the devices that have no address those of the slots, in order.
Assign(ok) ==
  LET new == {d \in Devices : addr[d] = 0}
      n == IF Head(cmds).len < Cardinality(new) THEN Head(cmds).len ELSE Cardinality(new) IN
  /\ cmds # <<>> /\ Head(cmds).kind = "daa"
  /\ Respond(ok, IF ok THEN n ELSE 0)
  /\ IF ok
     THEN \E found \in kSubset(n, new) :
            LET order == SetToSeq(found) IN
            /\ addr' = [d \in Devices |->
                         IF d \in found THEN dat[CHOOSE s \in 0 .. n - 1 : order[s + 1] = d] ELSE addr[d]]
            /\ dct' = [s \in Slots |-> IF s < n THEN order[s + 1] ELSE dct[s]]
     ELSE UNCHANGED <<addr, dct>>
  /\ clean' = (clean /\ ok)
  /\ UNCHANGED <<tx, rx, dat, Env>>

\* The interrupt follows RESP_READY, which stays up while there are responses.
IsrEnter ==
  /\ ~inIsr /\ (irqI3c \/ resps # <<>>)
  /\ inIsr' = TRUE /\ irqI3c' = FALSE
  /\ UNCHANGED <<queueVars, busVars, wakerI3c, at, op, took, dropped, clean, runVars>>

\* Mutant: an unregistered waker is woken like any other.
IsrWakeNobody ==
  /\ inIsr
  /\ inIsr' = FALSE
  /\ runq' = runq \cup {wakerI3c}
  /\ UNCHANGED <<queueVars, busVars, irqI3c, wakerI3c, at, op, took, dropped, clean, polled>>

\* on_interrupt clears the error bits, which nobody reads, and wakes.
IsrWake ==
  /\ inIsr
  /\ inIsr' = FALSE
  /\ runq' = runq \cup ({wakerI3c} \ {Nobody})
  /\ UNCHANGED <<queueVars, busVars, irqI3c, wakerI3c, at, op, took, dropped, clean, polled>>

-----------------------------------------------------------------------------
(* The tasks.                                                              *)

Running(t) == ~inIsr /\ polled = t
Goto(t, l) == at' = [at EXCEPT ![t] = l]
Waiting(t) == at[t] \in {"check", "register", "recheck", "pending"}

\* What a transfer that is over has left behind is nobody's.
Disown(t, q) == [i \in DOMAIN q |-> IF q[i] = t THEN Nobody ELSE q[i]]
DisownOf(t, q) == [i \in DOMAIN q |-> IF q[i].of = t THEN [q[i] EXCEPT !.of = Nobody] ELSE q[i]]
Leave(t) ==
  /\ cmds' = DisownOf(t, cmds) /\ resps' = DisownOf(t, resps)
  /\ tx' = Disown(t, tx) /\ rx' = Disown(t, rx)
  /\ op' = [op EXCEPT ![t] = NoCommand]
  /\ took' = [took EXCEPT ![t] = [resp |-> NoResponse, own |-> TRUE]]
  /\ Goto(t, "idle")

Poll(t) ==
  /\ ~inIsr /\ polled = Nobody /\ t \in runq
  /\ polled' = t /\ runq' = runq \ {t}
  /\ IF at[t] = "pending" THEN Goto(t, "check") ELSE UNCHANGED at
  /\ UNCHANGED <<queueVars, busVars, irqI3c, wakerI3c, op, took, dropped, clean, inIsr>>

\* Another future of the task is woken, or its timeout.
OtherWake(t) ==
  /\ t \notin runq /\ runq' = runq \cup {t}
  /\ UNCHANGED <<queueVars, busVars, irqI3c, wakerI3c, at, op, took, dropped, clean, polled, inIsr>>

\* A dropped transfer leaves its command or its response in the queues.
Cancel(t) ==
  /\ ~inIsr /\ polled = Nobody /\ t \in runq /\ at[t] = "pending"
  /\ dropped < MaxDrops /\ dropped' = dropped + 1 /\ clean' = FALSE
  /\ polled' = t /\ runq' = runq \ {t}
  /\ Leave(t)
  /\ UNCHANGED <<busVars, irqI3c, wakerI3c, inIsr>>

Yield(t) ==
  /\ Running(t) /\ at[t] = "idle"
  /\ polled' = Nobody
  /\ UNCHANGED <<queueVars, busVars, irqI3c, wakerI3c, at, op, took, dropped, clean, runq, inIsr>>

\* write, read and write_bcast_ccc push the command and the words to send.
Issue(t, kind, n) ==
  LET cmd == [of |-> t, kind |-> kind, len |-> n] IN
  /\ Running(t) /\ at[t] = "idle"
  /\ kind # "daa" => Len(tx) + n <= MaxWords /\ Len(rx) + n <= MaxWords
  /\ cmds' = Append(cmds, cmd) /\ op' = [op EXCEPT ![t] = cmd]
  /\ tx' = IF kind \in {"write", "ccc"} THEN tx \o [i \in 1 .. n |-> t] ELSE tx
  /\ clean' = (clean /\ \A u \in I3cTasks : ~Waiting(u))
  /\ Goto(t, "check")
  /\ UNCHANGED <<resps, rx, dct, addr, irqI3c, wakerI3c, took, dropped, runVars, inIsr>>

Transfer(t, kind, n) == Issue(t, kind, n) /\ UNCHANGED dat

\* Mutant: all slots get the first address.
EntdaaSame(t, n) ==
  /\ Issue(t, "daa", n)
  /\ dat' = [s \in Slots |-> IF s < n THEN Address(0) ELSE dat[s]]

\* run_entdaa fills the slots before it pushes the command; with no room for
\* results it does nothing.
Entdaa(t, n) ==
  /\ Issue(t, "daa", n)
  /\ dat' = [s \in Slots |-> IF s < n THEN Address(s) ELSE dat[s]]

\* add_device and remove_device on a slot that exists, and the early returns.
SetSlot(t, slot, a) ==
  /\ Running(t) /\ at[t] = "idle"
  /\ dat' = IF slot \in Slots THEN [dat EXCEPT ![slot] = a] ELSE dat
  /\ clean' = (clean /\ \A u \in I3cTasks : ~Waiting(u))
  /\ UNCHANGED <<queueVars, dct, addr, irqI3c, wakerI3c, at, op, took, dropped, runVars, inIsr>>

\* Mutant: the response is looked at and stays in the queue.
TakePeek(t) ==
  /\ resps # <<>>
  /\ took' = [took EXCEPT ![t] = [resp |-> Head(resps), own |-> TRUE]]
  /\ Goto(t, "over") /\ UNCHANGED <<resps, polled>>

\* The poll finds a response and takes it.
Take(t) ==
  /\ resps # <<>>
  /\ resps' = Tail(resps)
  /\ took' = [took EXCEPT ![t] = [resp |-> Head(resps), own |-> TRUE]]
  /\ Goto(t, "over") /\ UNCHANGED polled

Check(t) ==
  /\ Running(t) /\ at[t] = "check"
  /\ \/ Take(t)
     \/ resps = <<>> /\ Goto(t, "register") /\ UNCHANGED <<resps, took, polled>>
  /\ UNCHANGED <<cmds, tx, rx, busVars, irqI3c, wakerI3c, op, dropped, clean, runq, inIsr>>

Register(t) ==
  /\ Running(t) /\ at[t] = "register"
  /\ wakerI3c' = t
  /\ Goto(t, "recheck")
  /\ UNCHANGED <<queueVars, busVars, irqI3c, op, took, dropped, clean, runVars, inIsr>>

\* Mutant: the future does not look again once it has registered.
RecheckNothing(t) ==
  /\ Running(t) /\ at[t] = "recheck"
  /\ Goto(t, "pending") /\ polled' = Nobody
  /\ UNCHANGED <<queueVars, busVars, irqI3c, wakerI3c, op, took, dropped, clean, runq, inIsr>>

Recheck(t) ==
  /\ Running(t) /\ at[t] = "recheck"
  /\ \/ Take(t)
     \/ resps = <<>> /\ Goto(t, "pending") /\ polled' = Nobody /\ UNCHANGED <<resps, took>>
  /\ UNCHANGED <<cmds, tx, rx, busVars, irqI3c, wakerI3c, op, dropped, clean, runq, inIsr>>

\* The words a read pops: those of the response, at most those it asked for.
Words(t) == IF took[t].resp.len < op[t].len THEN took[t].resp.len ELSE op[t].len
Reads(t) == op[t].kind = "read" /\ took[t].resp.ok

\* Mutant: the words of the response stay in the FIFO.
PopNothing(t) ==
  /\ Running(t) /\ at[t] = "over" /\ Reads(t)
  /\ Goto(t, "done")
  /\ UNCHANGED <<queueVars, busVars, irqI3c, wakerI3c, op, took, dropped, clean, runVars, inIsr>>

Pop(t) ==
  /\ Running(t) /\ at[t] = "over" /\ Reads(t)
  /\ took' = [took EXCEPT ![t].own = Len(rx) >= Words(t) /\ \A i \in 1 .. Words(t) : rx[i] = t]
  /\ rx' = SubSeq(rx, Words(t) + 1, Len(rx))
  /\ Goto(t, "done")
  /\ UNCHANGED <<cmds, resps, tx, busVars, irqI3c, wakerI3c, op, dropped, clean, runVars, inIsr>>

\* An error, a write, or a read that has popped its words: the transfer returns.
Finish(t) ==
  /\ Running(t) /\ (at[t] = "done" \/ (at[t] = "over" /\ ~Reads(t)))
  /\ Leave(t)
  /\ UNCHANGED <<busVars, irqI3c, wakerI3c, dropped, clean, runVars, inIsr>>

Inside(t) == Check(t) \/ Register(t) \/ Recheck(t) \/ Pop(t) \/ Finish(t)

Next ==
  \/ \E ok \in BOOLEAN : Send(ok) \/ Receive(ok) \/ Assign(ok)
  \/ IsrEnter \/ IsrWake
  \/ \E t \in I3cTasks :
       \/ Poll(t) \/ OtherWake(t) \/ Cancel(t) \/ Yield(t) \/ Inside(t)
       \/ \E kind \in {"write", "read", "ccc"} : Transfer(t, kind, 1)
       \/ Transfer(t, "rstdaa", 0)
       \/ \E n \in 1 .. MaxSlots : Entdaa(t, n)
       \/ \E s \in 0 .. MaxSlots : SetSlot(t, s, Address(0)) \/ SetSlot(t, s, 0)

Spec == Init /\ [][Next]_i3cVars

-----------------------------------------------------------------------------
(* Properties.                                                             *)

\* Every transfer takes one response: the queues hold those of the transfers
\* that wait and one more for each that was dropped.  From then on every
\* transfer takes a response that is as many transfers old.
Lag ==
  Len(cmds) + Len(resps) = dropped + Cardinality({t \in I3cTasks : Waiting(t)})

\* While nothing was dropped, met another transfer or failed, the response that
\* is taken is that of the own transfer, so are the words a read has popped,
\* and none is left for the next.
OwnResponse ==
  /\ \A t \in I3cTasks : clean /\ at[t] \in {"over", "done"} => took[t].resp.of = t /\ took[t].own
  /\ clean /\ (\A t \in I3cTasks : at[t] = "idle") => rx = <<>> /\ tx = <<>>

\* Likewise, a task that has returned Pending while there is a response has
\* the interrupt still ahead of it or is in the run queue.
NoLostWakeup ==
  \A t \in I3cTasks : clean /\ at[t] = "pending" /\ resps # <<>> => irqI3c \/ inIsr \/ t \in runq

\* The devices that ENTDAA reports are at the addresses of their slots, so that
\* no two of one round are at the same one.
DaaResults ==
  \A t \in I3cTasks : clean /\ at[t] = "over" /\ op[t].kind = "daa" /\ took[t].resp.ok =>
     \A s \in 0 .. took[t].resp.len - 1 : addr[dct[s]] = Address(s)
=============================================================================
