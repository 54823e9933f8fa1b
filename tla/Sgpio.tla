-------------------------------- MODULE Sgpio -------------------------------
(***************************************************************************)
(* The inputs of the serial GPIO master: `enable_irq`, `disable_irq`,      *)
(* `take_irq_status`, `wait_change` and the interrupt handler              *)
(* (src/embassy-aspeed/src/sgpio.rs).                                      *)
(*                                                                         *)
(* The handler wakes and clears nothing; the wait clears what it has read. *)
(* The interrupt is taken to be raised once for an event: a controller     *)
(* that raises it for as long as a status bit is set enters the handler    *)
(* without end.  The handler looks at the groups one after the other.      *)
(***************************************************************************)
EXTENDS Naturals, Sequences

CONSTANTS
  Watchers, \* the tasks
  Groups,   \* the pin groups, in the order in which the handler looks at them
  Pins,     \* the pins of a group
  Nobody    \* no task

GroupSet == {Groups[i] : i \in 1..Len(Groups)}

\* What the modules that use this one assume of the constants.
SgpioAssumption ==
  /\ Groups \in Seq(GroupSet) /\ Groups # <<>>
  /\ Nobody \notin Watchers

VARIABLES
  latched,  \* latched[g]: the status bits of the group
  enabled,  \* enabled[g]: the pins whose interrupt is enabled
  irqSgpio, \* the interrupt is raised
  look,     \* the position in Groups that the handler looks at next, 0 when it is not running
  wakers,   \* SGPIO_WAKERS
  spc,      \* spc[t]: where the call of t stands
  group,    \* group[t]: the group of its call
  took,     \* took[t]: the bits that its call has read
  sready, scur, \* the run queue and the task being polled
  unseen,   \* history: pins with a latched event that no call has returned yet
  lone      \* history: lone[t] is whether no other task was in a wait for the
            \* group of t since its wait began

sgpioVars == <<latched, enabled, irqSgpio, look, wakers, spc, group, took, sready, scur, unseen, lone>>

TypeOK ==
  /\ latched \in [GroupSet -> SUBSET Pins] /\ enabled \in [GroupSet -> SUBSET Pins]
  /\ irqSgpio \in BOOLEAN /\ look \in 0..Len(Groups)
  /\ wakers \in [GroupSet -> Watchers \cup {Nobody}]
  /\ spc \in [Watchers -> {"idle", "take", "check", "register", "recheck", "clear", "pending", "over"}]
  /\ group \in [Watchers -> GroupSet] /\ took \in [Watchers -> SUBSET Pins]
  /\ sready \subseteq Watchers /\ scur \in Watchers \cup {Nobody}
  /\ unseen \in [GroupSet -> SUBSET Pins] /\ lone \in [Watchers -> BOOLEAN]

Init ==
  /\ latched = [g \in GroupSet |-> {}] /\ enabled = latched /\ unseen = latched
  /\ irqSgpio = FALSE /\ look = 0
  /\ wakers = [g \in GroupSet |-> Nobody]
  /\ spc = [t \in Watchers |-> "idle"] /\ group \in [Watchers -> {Groups[1]}]
  /\ took = [t \in Watchers |-> {}] /\ lone = [t \in Watchers |-> FALSE]
  /\ sready = Watchers /\ scur = Nobody

-----------------------------------------------------------------------------
(* The controller and the handler.                                         *)

\* What a pin is sensitive to happens.
Event(g, p) ==
  /\ p \in enabled[g]
  /\ latched' = [latched EXCEPT ![g] = @ \cup {p}]
  /\ unseen' = [unseen EXCEPT ![g] = @ \cup {p}]
  /\ irqSgpio' = TRUE
  /\ UNCHANGED <<enabled, look, wakers, spc, group, took, sready, scur, lone>>

IsrEnter ==
  /\ look = 0 /\ irqSgpio
  /\ look' = 1 /\ irqSgpio' = FALSE
  /\ UNCHANGED <<latched, enabled, wakers, spc, group, took, sready, scur, unseen, lone>>

Wake(g) == sready' = sready \cup ({wakers[g]} \ {Nobody})
LookOn == look' = (look + 1) % (Len(Groups) + 1)

\* Mutant: the handler stops at the first group that has something.
IsrLookFirst ==
  /\ look # 0
  /\ IF latched[Groups[look]] # {} THEN Wake(Groups[look]) /\ look' = 0 ELSE LookOn /\ UNCHANGED sready
  /\ UNCHANGED <<latched, enabled, irqSgpio, wakers, spc, group, took, scur, unseen, lone>>

\* on_interrupt, one group.
IsrLook ==
  /\ look # 0
  /\ LookOn
  /\ IF latched[Groups[look]] # {} THEN Wake(Groups[look]) ELSE UNCHANGED sready
  /\ UNCHANGED <<latched, enabled, irqSgpio, wakers, spc, group, took, scur, unseen, lone>>

-----------------------------------------------------------------------------
(* The tasks.                                                              *)

Running(t) == look = 0 /\ scur = t
Goto(t, l) == spc' = [spc EXCEPT ![t] = l]

Poll(t) ==
  /\ look = 0 /\ scur = Nobody /\ t \in sready
  /\ scur' = t /\ sready' = sready \ {t}
  /\ IF spc[t] = "pending" THEN Goto(t, "check") ELSE UNCHANGED spc
  /\ UNCHANGED <<latched, enabled, irqSgpio, look, wakers, group, took, unseen, lone>>

OtherWake(t) ==
  /\ t \notin sready /\ sready' = sready \cup {t}
  /\ UNCHANGED <<latched, enabled, irqSgpio, look, wakers, spc, group, took, scur, unseen, lone>>

\* A wait that has returned Pending is dropped; its waker stays registered.
Cancel(t) ==
  /\ look = 0 /\ scur = Nobody /\ t \in sready /\ spc[t] = "pending"
  /\ scur' = t /\ sready' = sready \ {t}
  /\ Goto(t, "idle")
  /\ UNCHANGED <<latched, enabled, irqSgpio, look, wakers, group, took, unseen, lone>>

Yield(t) ==
  /\ Running(t) /\ spc[t] = "idle"
  /\ scur' = Nobody
  /\ UNCHANGED <<latched, enabled, irqSgpio, look, wakers, spc, group, took, sready, unseen, lone>>

Enable(t, g, pins) ==
  /\ Running(t) /\ spc[t] = "idle"
  /\ enabled' = [enabled EXCEPT ![g] = @ \cup pins]
  /\ UNCHANGED <<latched, irqSgpio, look, wakers, spc, group, took, sready, scur, unseen, lone>>

\* Bits that are latched stay so.
Disable(t, g, pins) ==
  /\ Running(t) /\ spc[t] = "idle"
  /\ enabled' = [enabled EXCEPT ![g] = @ \ pins]
  /\ UNCHANGED <<latched, irqSgpio, look, wakers, spc, group, took, sready, scur, unseen, lone>>

Waits(u, g) == spc[u] \notin {"idle", "take"} /\ group[u] = g

\* take_irq_status and wait_change.
Begin(t, g, first) ==
  /\ Running(t) /\ spc[t] = "idle"
  /\ group' = [group EXCEPT ![t] = g]
  /\ lone' = [u \in Watchers |->
                IF u = t THEN \A v \in Watchers \ {t} : ~Waits(v, g)
                         ELSE lone[u] /\ ~(Waits(u, g) /\ first = "check")]
  /\ Goto(t, first)
  /\ UNCHANGED <<latched, enabled, irqSgpio, look, wakers, took, sready, scur, unseen>>

\* take_irq_status reads.
Take(t) ==
  /\ Running(t) /\ spc[t] = "take"
  /\ took' = [took EXCEPT ![t] = latched[group[t]]]
  /\ Goto(t, "clear")
  /\ UNCHANGED <<latched, enabled, irqSgpio, look, wakers, group, sready, scur, unseen, lone>>

\* The wait reads the status of its group.
Read(t, missed) ==
  LET s == latched[group[t]]
  IN /\ took' = [took EXCEPT ![t] = s]
     /\ Goto(t, IF s # {} THEN "clear" ELSE missed)
     /\ scur' = IF s = {} /\ missed = "pending" THEN Nobody ELSE scur

Check(t) ==
  /\ Running(t) /\ spc[t] = "check"
  /\ Read(t, "register")
  /\ UNCHANGED <<latched, enabled, irqSgpio, look, wakers, group, sready, unseen, lone>>

Register(t) ==
  /\ Running(t) /\ spc[t] = "register"
  /\ wakers' = [wakers EXCEPT ![group[t]] = t]
  /\ Goto(t, "recheck")
  /\ UNCHANGED <<latched, enabled, irqSgpio, look, group, took, sready, scur, unseen, lone>>

\* Mutant: the wait does not look again once it has registered.
RecheckNothing(t) ==
  /\ Running(t) /\ spc[t] = "recheck"
  /\ Goto(t, "pending") /\ scur' = Nobody
  /\ UNCHANGED <<latched, enabled, irqSgpio, look, wakers, group, took, sready, unseen, lone>>

Recheck(t) ==
  /\ Running(t) /\ spc[t] = "recheck"
  /\ Read(t, "pending")
  /\ UNCHANGED <<latched, enabled, irqSgpio, look, wakers, group, sready, unseen, lone>>

\* Mutant: every bit of the group is cleared, whatever was read.
ClearAll(t) ==
  /\ Running(t) /\ spc[t] = "clear"
  /\ latched' = [latched EXCEPT ![group[t]] = {}]
  /\ Goto(t, "over")
  /\ UNCHANGED <<enabled, irqSgpio, look, wakers, group, took, sready, scur, unseen, lone>>

\* The bits that were read are written back.
Clear(t) ==
  /\ Running(t) /\ spc[t] = "clear"
  /\ latched' = [latched EXCEPT ![group[t]] = @ \ took[t]]
  /\ Goto(t, "over")
  /\ UNCHANGED <<enabled, irqSgpio, look, wakers, group, took, sready, scur, unseen, lone>>

\* The caller is given the bits.
Return(t) ==
  /\ Running(t) /\ spc[t] = "over"
  /\ unseen' = [unseen EXCEPT ![group[t]] = @ \ took[t]]
  /\ took' = [took EXCEPT ![t] = {}]
  /\ Goto(t, "idle")
  /\ UNCHANGED <<latched, enabled, irqSgpio, look, wakers, group, sready, scur, lone>>

Next ==
  \/ IsrEnter \/ IsrLook
  \/ \E g \in GroupSet, p \in Pins : Event(g, p)
  \/ \E t \in Watchers :
       \/ Poll(t) \/ OtherWake(t) \/ Cancel(t) \/ Yield(t)
       \/ \E g \in GroupSet :
            \/ \E pins \in (SUBSET Pins) \ {{}} : Enable(t, g, pins) \/ Disable(t, g, pins)
            \/ \E first \in {"take", "check"} : Begin(t, g, first)
       \/ Take(t) \/ Check(t) \/ Register(t) \/ Recheck(t) \/ Clear(t) \/ Return(t)

Spec == Init /\ [][Next]_sgpioVars

-----------------------------------------------------------------------------
(* Properties.                                                             *)

\* An event that has latched stays latched until a call that returns its bit
\* after it, whatever comes between the reading and the clearing of the status.
NothingMissed ==
  \A g \in GroupSet : \A p \in unseen[g] :
     p \in latched[g] \/ \E t \in Watchers : group[t] = g /\ p \in took[t]

\* A wait that is alone on its group and has returned Pending while a bit is
\* latched there is in the run queue, or the handler has its group before it.
NoLostWakeup ==
  \A t \in Watchers : spc[t] = "pending" /\ lone[t] /\ latched[group[t]] # {} =>
     \/ t \in sready \/ irqSgpio
     \/ look # 0 /\ \E i \in look..Len(Groups) : Groups[i] = group[t]
=============================================================================
