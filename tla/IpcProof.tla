------------------------------ MODULE IpcProof ------------------------------
(***************************************************************************)
(* Proofs about Ipc, for every set of channels, receivers and senders: the *)
(* types, the wake-ups, the senders' look at STATUS, and that the mailbox  *)
(* implements Doorbell.                                                    *)
(*                                                                         *)
(* The refinement needs Separate: no channel has both a sender and         *)
(* spurious handler entries.  Without it a spurious entry on a channel that  *)
(* waits for its acknowledgement causes a receive that no ring caused.    *)
(***************************************************************************)
EXTENDS Ipc, TLAPS

Separate == \A t \in Senders : ChanOf[t] \notin SpuriousChans

\* A task between two steps of a poll is the one the executor polls.
InsideIsCurrent ==
  \A t \in Tasks : pc[t] \in {"look", "register", "relook", "take", "trig"} => cur = t

\* Receivers poll receives and senders poll sends.
Roles ==
  \A t \in Tasks :
    /\ pc[t] \in RecvSteps \cup {"pending"} => t \in Receivers
    /\ pc[t] \in SendSteps => t \in Senders
    /\ unreg[t] \subseteq Channels \cap Wants(t)

\* What a poll read in PENDING is still there when it clears the bit.
GotPending == \A t \in Tasks : pc[t] = "take" => got[t] \in pending

\* Outside its handler no channel is in hand.
HandlerHasChannel == isrPc # "off" => isrCh \in Channels

Sole(t, c) == \A u \in Receivers : u # t => c \notin Wants(u)

\* The wakers a poll has gone past are its own, as long as nobody else
\* receives their channels.
Registered ==
  \A t \in Receivers : \A c \in Wants(t) :
     Sole(t, c) =>
       /\ pc[t] = "register" /\ c \notin unreg[t] => wakers[c] = t
       /\ pc[t] \in {"relook", "pending"} => wakers[c] = t

Control == InsideIsCurrent /\ Roles /\ GotPending /\ HandlerHasChannel
Wakeups == Registered /\ NoLostWakeup

\* The handler clears only doorbells of the CA7.
HandlerHasRing ==
  /\ tx \subseteq {ChanOf[t] : t \in Senders}
  /\ isrPc = "status" /\ isrCh \notin SpuriousChans => isrCh \in rx
  /\ isrPc = "clear" => isrCh \in rx

-----------------------------------------------------------------------------
(* Steps.                                                                  *)

\* A channel added to a set of channels makes a set of channels.
LEMMA AddedToSubset == ASSUME NEW S, NEW T, NEW x, T \subseteq S, x \in S
                       PROVE  T \cup {x} \subseteq S
OBVIOUS


\* Every step keeps the types.
LEMMA TypeStep == (TypeOK /\ Control) /\ [Next]_vars => TypeOK'
<1> SUFFICES ASSUME (TypeOK /\ Control), [Next]_vars PROVE TypeOK'
  OBVIOUS
<1> USE IpcAssumption DEF TypeOK, Control, Roles, GotPending,
     HandlerHasChannel, RecvSteps, SendSteps, Tasks, Receivers, Wants,
     busVars, rcvVars, taskVars, isrVars, histVars
<1>1. CASE \E c \in Channels : Ring(c)
  BY <1>1 DEF Ring
<1>2. CASE \E c \in Channels : Ack(c)
  BY <1>2 DEF Ack
<1>3. CASE \E c \in Channels : IsrEnter(c)
  BY <1>3 DEF IsrEnter
<1>4. CASE IsrStatus
  BY <1>4 DEF IsrStatus, Status
<1>5. CASE IsrClear
  BY <1>5 DEF IsrClear
<1>6. CASE IsrSet
  BY <1>6 DEF IsrSet
<1>7. CASE IsrWake
  BY <1>7 DEF IsrWake
<1>8. ASSUME NEW t \in Tasks,
             Poll(t) \/ Cancel(t) \/ Yield(t) \/ RecvStep(t) \/ SendStep(t)
               \/ Deadline(t) \/ TimerFires(t) \/ (t \in Receivers /\
                    OtherWake(t))
      PROVE  TypeOK'
  <2>1. CASE Poll(t)
    BY <2>1 DEF Poll, Goto
  <2>2. CASE Cancel(t)
    BY <2>2 DEF Cancel, Goto
  <2>3. CASE Yield(t)
    BY <2>3 DEF Yield, Running
  <2>4. CASE BeginRecv(t)
    BY <2>4 DEF BeginRecv, Running, Goto
  <2>5. CASE Look(t)
    BY <2>5 DEF Look, Found, Shows, Running, Goto
  <2>6. CASE Register(t)
    BY <2>6 DEF Register, Running, Goto
  <2>7. CASE Relook(t)
    BY <2>7 DEF Relook, Found, Shows, Running, Goto
  <2>8. CASE Take(t)
    <3>1. got[t] \in pending /\ got[t] \in Channels
      BY <2>8 DEF Take
    <3>2. heard' \in [Channels -> Nat]
      <4>1. heard' = [heard EXCEPT ![got[t]] = heard[got[t]] + 1]
        BY <2>8 DEF Take
      <4>2. heard[got[t]] \in Nat
        BY <3>1, Zenon
      <4>3. heard[got[t]] + 1 \in Nat
        BY <4>2
      <4> QED  BY <4>1, <4>3
    <3>3. pc' \in [Tasks -> RecvSteps \cup SendSteps \cup {"idle", "pending"}]
      BY <2>8 DEF Take, Goto
    <3> QED  BY <2>8, <3>1, <3>2, <3>3 DEF Take
  <2>9. CASE BeginSend(t)
    BY <2>9 DEF BeginSend, Running, Goto
  <2>10. CASE Before(t)
    BY <2>10 DEF Before, Clear, Status, Running, Goto
  <2>11. CASE Trig(t)
    <3>1. tx' \subseteq Channels
      <4>1. t \in Senders /\ ChanOf[t] \in Channels
        BY <2>11 DEF Trig
      <4>2. tx' = tx \cup {ChanOf[t]}
        BY <2>11 DEF Trig
      <4>3. tx \subseteq Channels
        OBVIOUS
      <4>4. tx \cup {ChanOf[t]} \subseteq Channels
        BY ONLY <4>1, <4>3, AddedToSubset
      <4> QED  BY ONLY <4>2, <4>4
    <3>2. late' \in [Tasks -> BOOLEAN]
      BY <2>11 DEF Trig
    <3>3. pc' \in [Tasks -> RecvSteps \cup SendSteps \cup {"idle", "pending"}]
      BY <2>11 DEF Trig, Goto
    <3> QED  BY <2>11, <3>1, <3>2, <3>3 DEF Trig
  <2>12. CASE After(t)
    BY <2>12 DEF After, Running, Goto
  <2>13. CASE Deadline(t)
    BY <2>13 DEF Deadline
  <2>14. CASE TimerFires(t)
    BY <2>14 DEF TimerFires
  <2>15. CASE OtherWake(t)
    BY <2>15 DEF OtherWake
  <2> QED  BY <1>8, <2>1, <2>2, <2>3, <2>4, <2>5, <2>6, <2>7, <2>8, <2>9,
       <2>10, <2>11, <2>12, <2>13, <2>14, <2>15 DEF RecvStep, SendStep
<1>9. CASE UNCHANGED vars
  BY <1>9 DEF vars
<1> QED  BY <1>1, <1>2, <1>3, <1>4, <1>5, <1>6, <1>7, <1>8, <1>9 DEF Next,
     Isr, Tasks

\* Every step keeps polls, PENDING and handler in line.
LEMMA ControlStep == (TypeOK /\ Control) /\ [Next]_vars => Control'
<1> SUFFICES ASSUME (TypeOK /\ Control), [Next]_vars PROVE Control'
  OBVIOUS
<1> USE IpcAssumption DEF TypeOK, Control, InsideIsCurrent, Roles, GotPending,
     HandlerHasChannel, RecvSteps, SendSteps, Tasks, Wants, Receivers,
     busVars, rcvVars, taskVars, isrVars, histVars
<1>1. CASE \E c \in Channels : Ring(c)
  BY <1>1 DEF Ring
<1>2. CASE \E c \in Channels : Ack(c)
  BY <1>2 DEF Ack
<1>3. CASE \E c \in Channels : IsrEnter(c)
  BY <1>3 DEF IsrEnter
<1>4. CASE IsrStatus
  BY <1>4 DEF IsrStatus, Status
<1>5. CASE IsrClear
  BY <1>5 DEF IsrClear
<1>6. CASE IsrSet
  BY <1>6 DEF IsrSet
<1>7. CASE IsrWake
  BY <1>7 DEF IsrWake
<1>8. ASSUME NEW t \in Tasks,
             Poll(t) \/ Cancel(t) \/ Yield(t) \/ RecvStep(t) \/ SendStep(t)
               \/ Deadline(t) \/ TimerFires(t) \/ (t \in Receivers /\
                    OtherWake(t))
      PROVE  Control'
  <2>1. CASE Poll(t)
    BY <2>1 DEF Poll, Goto
  <2>2. CASE Cancel(t)
    BY <2>2 DEF Cancel, Goto
  <2>3. CASE Yield(t)
    BY <2>3 DEF Yield, Running
  <2>4. CASE BeginRecv(t)
    BY <2>4 DEF BeginRecv, Running, Goto
  <2>5. CASE Look(t)
    BY <2>5 DEF Look, Found, Shows, Running, Goto
  <2>6. CASE Register(t)
    BY <2>6 DEF Register, Running, Goto
  <2>7. CASE Relook(t)
    BY <2>7 DEF Relook, Found, Shows, Running, Goto
  <2>8. CASE Take(t)
    BY <2>8 DEF Take, Running, Goto
  <2>9. CASE BeginSend(t)
    BY <2>9 DEF BeginSend, Running, Goto
  <2>10. CASE Before(t)
    BY <2>10 DEF Before, Clear, Status, Running, Goto
  <2>11. CASE Trig(t)
    BY <2>11 DEF Trig, Running, Goto
  <2>12. CASE After(t)
    BY <2>12 DEF After, Running, Goto
  <2>13. CASE Deadline(t)
    BY <2>13 DEF Deadline
  <2>14. CASE TimerFires(t)
    BY <2>14 DEF TimerFires
  <2>15. CASE OtherWake(t)
    BY <2>15 DEF OtherWake
  <2> QED  BY <1>8, <2>1, <2>2, <2>3, <2>4, <2>5, <2>6, <2>7, <2>8, <2>9,
       <2>10, <2>11, <2>12, <2>13, <2>14, <2>15 DEF RecvStep, SendStep
<1>9. CASE UNCHANGED vars
  BY <1>9 DEF vars
<1> QED  BY <1>1, <1>2, <1>3, <1>4, <1>5, <1>6, <1>7, <1>8, <1>9 DEF Next,
     Isr, Tasks

\* Every step keeps pending receives registered and loses no wake-up.
LEMMA WakeStep == (TypeOK /\ Control /\ Wakeups) /\ [Next]_vars => Wakeups'
<1> SUFFICES ASSUME (TypeOK /\ Control /\ Wakeups), [Next]_vars PROVE Wakeups'
  OBVIOUS
<1> USE IpcAssumption DEF TypeOK, Control, InsideIsCurrent, Roles, RecvSteps,
     Wakeups, Registered, NoLostWakeup, Sole, Tasks, Receivers, Wants,
     busVars, rcvVars, taskVars, isrVars, histVars
<1>1. CASE \E c \in Channels : Ring(c)
  BY <1>1 DEF Ring
<1>2. CASE \E c \in Channels : Ack(c)
  BY <1>2 DEF Ack
<1>3. CASE \E c \in Channels : IsrEnter(c)
  BY <1>3 DEF IsrEnter
<1>4. CASE IsrStatus
  BY <1>4 DEF IsrStatus, Status
<1>5. CASE IsrClear
  BY <1>5 DEF IsrClear
<1>6. CASE IsrSet
  BY <1>6 DEF IsrSet
<1>7. CASE IsrWake
  BY <1>7 DEF IsrWake
<1>8. ASSUME NEW t \in Tasks,
             Poll(t) \/ Cancel(t) \/ Yield(t) \/ RecvStep(t) \/ SendStep(t)
               \/ Deadline(t) \/ TimerFires(t) \/ (t \in Receivers /\
                    OtherWake(t))
      PROVE  Wakeups'
  <2>1. CASE Poll(t)
    BY <2>1 DEF Poll, Goto
  <2>2. CASE Cancel(t)
    BY <2>2 DEF Cancel, Goto
  <2>3. CASE Yield(t)
    BY <2>3 DEF Yield, Running
  <2>4. CASE BeginRecv(t)
    BY <2>4 DEF BeginRecv, Running, Goto
  <2>5. CASE Look(t)
    BY <2>5 DEF Look, Found, Shows, Running, Goto
  <2>6. CASE Register(t)
    <3>1. PICK c \in unreg[t] : /\ wakers' = [wakers EXCEPT ![c] = t]
                                /\ unreg' = [unreg EXCEPT ![t] = unreg[t] \
                                     {c}]
                                /\ pc' = [pc EXCEPT ![t] =
                                     IF unreg[t] = {c} THEN "relook" ELSE "register"]
      BY <2>6 DEF Register, Goto
    <3>2. c \in Channels /\ t \in Receivers
      BY <2>6, <3>1 DEF Register
    <3>3. Registered'
      <4> SUFFICES ASSUME NEW u \in Receivers, NEW d \in Wants(u), Sole(u, d)
                   PROVE  /\ pc'[u] = "register" /\ d \notin unreg'[u]
                               => wakers'[d] = u
                          /\ pc'[u] \in {"relook", "pending"} => wakers'[d] = u
        BY DEF Registered, Sole, Wants
      <4>1. CASE u = t /\ c = d
        BY <2>6, <3>1, <3>2, <4>1 DEF Register
      <4>4. CASE u = t /\ c # d
        <5>1. pc[t] = "register" /\ (pc'[t] = "relook" => unreg[t] = {c})
          BY <2>6, <3>1 DEF Register
        <5>2. pc'[t] # "pending"
          BY <3>1
        <5>3. unreg'[t] = unreg[t] \ {c}
          BY <3>1
        <5>4. wakers'[d] = wakers[d]
          BY <3>1, <4>4
        <5>5. d \notin unreg[t] /\ pc[t] = "register" => wakers[d] = t
          BY <4>4
        <5> QED  BY <4>4, <5>1, <5>2, <5>3, <5>4, <5>5
      <4>2. CASE u # t /\ c = d
        <5>1. c \in Wants(t)
          BY <3>1
        <5> QED  BY <3>2, <4>2, <5>1
      <4>3. CASE u # t /\ c # d
        BY <2>6, <3>1, <3>2, <4>3 DEF Register, Goto
      <4> QED  BY <4>1, <4>2, <4>3, <4>4
    <3>4. NoLostWakeup'
      BY <2>6, <3>1, <3>2 DEF Register, Goto
    <3> QED  BY <3>3, <3>4
  <2>7. CASE Relook(t)
    BY <2>7 DEF Relook, Found, Shows, Running, Goto
  <2>8. CASE Take(t)
    BY <2>8 DEF Take, Running, Goto
  <2>9. CASE BeginSend(t)
    BY <2>9 DEF BeginSend, Running, Goto
  <2>10. CASE Before(t)
    BY <2>10 DEF Before, Clear, Status, Running, Goto
  <2>11. CASE Trig(t)
    BY <2>11 DEF Trig, Running, Goto
  <2>12. CASE After(t)
    BY <2>12 DEF After, Running, Goto
  <2>13. CASE Deadline(t)
    BY <2>13 DEF Deadline
  <2>14. CASE TimerFires(t)
    BY <2>14 DEF TimerFires
  <2>15. CASE OtherWake(t)
    BY <2>15 DEF OtherWake
  <2> QED  BY <1>8, <2>1, <2>2, <2>3, <2>4, <2>5, <2>6, <2>7, <2>8, <2>9,
       <2>10, <2>11, <2>12, <2>13, <2>14, <2>15 DEF RecvStep, SendStep
<1>9. CASE UNCHANGED vars
  BY <1>9 DEF vars
<1> QED  BY <1>1, <1>2, <1>3, <1>4, <1>5, <1>6, <1>7, <1>8, <1>9 DEF Next,
     Isr, Tasks

\* Every step keeps free channels free for the sender that found them so.
LEMMA RingStep == (TypeOK /\ Control /\ RingsFree) /\ [Next]_vars => RingsFree'
<1> SUFFICES ASSUME (TypeOK /\ Control /\ RingsFree), [Next]_vars PROVE
     RingsFree'
  OBVIOUS
<1> USE IpcAssumption DEF TypeOK, Control, InsideIsCurrent, RingsFree, Tasks,
     Receivers, busVars, rcvVars, taskVars, isrVars, histVars
<1>1. CASE \E c \in Channels : Ring(c)
  BY <1>1 DEF Ring
<1>2. CASE \E c \in Channels : Ack(c)
  BY <1>2 DEF Ack
<1>3. CASE \E c \in Channels : IsrEnter(c)
  BY <1>3 DEF IsrEnter
<1>4. CASE IsrStatus
  BY <1>4 DEF IsrStatus, Status
<1>5. CASE IsrClear
  BY <1>5 DEF IsrClear
<1>6. CASE IsrSet
  BY <1>6 DEF IsrSet
<1>7. CASE IsrWake
  BY <1>7 DEF IsrWake
<1>8. ASSUME NEW t \in Tasks,
             Poll(t) \/ Cancel(t) \/ Yield(t) \/ RecvStep(t) \/ SendStep(t)
               \/ Deadline(t) \/ TimerFires(t) \/ (t \in Receivers /\
                    OtherWake(t))
      PROVE  RingsFree'
  <2>1. CASE Poll(t)
    BY <2>1 DEF Poll, Goto
  <2>2. CASE Cancel(t)
    BY <2>2 DEF Cancel, Goto
  <2>3. CASE Yield(t)
    BY <2>3 DEF Yield, Running
  <2>4. CASE BeginRecv(t)
    BY <2>4 DEF BeginRecv, Running, Goto
  <2>5. CASE Look(t)
    BY <2>5 DEF Look, Found, Shows, Running, Goto
  <2>6. CASE Register(t)
    BY <2>6 DEF Register, Running, Goto
  <2>7. CASE Relook(t)
    BY <2>7 DEF Relook, Found, Shows, Running, Goto
  <2>8. CASE Take(t)
    BY <2>8 DEF Take, Running, Goto
  <2>9. CASE BeginSend(t)
    BY <2>9 DEF BeginSend, Running, Goto
  <2>10. CASE Before(t)
    BY <2>10 DEF Before, Clear, Status, Running, Goto
  <2>11. CASE Trig(t)
    BY <2>11 DEF Trig, Running, Goto
  <2>12. CASE After(t)
    BY <2>12 DEF After, Running, Goto
  <2>13. CASE Deadline(t)
    BY <2>13 DEF Deadline
  <2>14. CASE TimerFires(t)
    BY <2>14 DEF TimerFires
  <2>15. CASE OtherWake(t)
    BY <2>15 DEF OtherWake
  <2> QED  BY <1>8, <2>1, <2>2, <2>3, <2>4, <2>5, <2>6, <2>7, <2>8, <2>9,
       <2>10, <2>11, <2>12, <2>13, <2>14, <2>15 DEF RecvStep, SendStep
<1>9. CASE UNCHANGED vars
  BY <1>9 DEF vars
<1> QED  BY <1>1, <1>2, <1>3, <1>4, <1>5, <1>6, <1>7, <1>8, <1>9 DEF Next,
     Isr, Tasks

\* Every step keeps the handler to doorbells of the CA7.
LEMMA HandlerStep == ASSUME Separate PROVE  (TypeOK /\ Control /\
     HandlerHasRing) /\ [Next]_vars => HandlerHasRing'
<1> SUFFICES ASSUME (TypeOK /\ Control /\ HandlerHasRing), [Next]_vars PROVE
     HandlerHasRing'
  OBVIOUS
<1> USE IpcAssumption DEF TypeOK, Control, Roles, SendSteps,
     HandlerHasChannel, HandlerHasRing, Separate, busVars, rcvVars, taskVars,
     isrVars, histVars
<1>1. CASE \E c \in Channels : Ring(c)
  BY <1>1 DEF Ring
<1>2. CASE \E c \in Channels : Ack(c)
  BY <1>2 DEF Ack
<1>3. CASE \E c \in Channels : IsrEnter(c)
  BY <1>3 DEF IsrEnter
<1>4. CASE IsrStatus
  BY <1>4 DEF IsrStatus, Status
<1>5. CASE IsrClear
  BY <1>5 DEF IsrClear
<1>6. CASE IsrSet
  BY <1>6 DEF IsrSet
<1>7. CASE IsrWake
  BY <1>7 DEF IsrWake
<1>8. ASSUME NEW t \in Tasks,
             Poll(t) \/ Cancel(t) \/ Yield(t) \/ RecvStep(t) \/ SendStep(t)
               \/ Deadline(t) \/ TimerFires(t) \/ (t \in Receivers /\
                    OtherWake(t))
      PROVE  HandlerHasRing'
  <2>1. CASE Poll(t)
    BY <2>1 DEF Poll, Goto
  <2>2. CASE Cancel(t)
    BY <2>2 DEF Cancel, Goto
  <2>3. CASE Yield(t)
    BY <2>3 DEF Yield, Running
  <2>4. CASE BeginRecv(t)
    BY <2>4 DEF BeginRecv, Running, Goto
  <2>5. CASE Look(t)
    BY <2>5 DEF Look, Found, Shows, Running, Goto
  <2>6. CASE Register(t)
    BY <2>6 DEF Register, Running, Goto
  <2>7. CASE Relook(t)
    BY <2>7 DEF Relook, Found, Shows, Running, Goto
  <2>8. CASE Take(t)
    BY <2>8 DEF Take, Running, Goto
  <2>9. CASE BeginSend(t)
    BY <2>9 DEF BeginSend, Running, Goto
  <2>10. CASE Before(t)
    BY <2>10 DEF Before, Clear, Status, Running, Goto
  <2>11. CASE Trig(t)
    BY <2>11 DEF Trig, Running, Goto
  <2>12. CASE After(t)
    BY <2>12 DEF After, Running, Goto
  <2>13. CASE Deadline(t)
    BY <2>13 DEF Deadline
  <2>14. CASE TimerFires(t)
    BY <2>14 DEF TimerFires
  <2>15. CASE OtherWake(t)
    BY <2>15 DEF OtherWake
  <2> QED  BY <1>8, <2>1, <2>2, <2>3, <2>4, <2>5, <2>6, <2>7, <2>8, <2>9,
       <2>10, <2>11, <2>12, <2>13, <2>14, <2>15 DEF RecvStep, SendStep
<1>9. CASE UNCHANGED vars
  BY <1>9 DEF vars
<1> QED  BY <1>1, <1>2, <1>3, <1>4, <1>5, <1>6, <1>7, <1>8, <1>9 DEF Next,
     Isr, Tasks

-----------------------------------------------------------------------------
(* Invariants.                                                             *)

IInv == TypeOK /\ Control /\ Wakeups /\ RingsFree

LEMMA InitInv == Init => IInv
  BY IpcAssumption DEF Init, IInv, TypeOK, Control, InsideIsCurrent, Roles,
       GotPending,
     HandlerHasChannel, Wakeups, Registered, NoLostWakeup, RingsFree,
          RecvSteps,
     SendSteps, Tasks, Receivers

THEOREM Invariance == Spec => []IInv
<1>1. IInv /\ [Next]_vars => IInv'
  BY TypeStep, ControlStep, WakeStep, RingStep DEF IInv
<1> QED  BY InitInv, <1>1, PTL DEF Spec

\* PENDING, the wakers, the futures and the handler keep their types.
THEOREM TypeCorrect == Spec => []TypeOK
<1>1. IInv => TypeOK
  BY DEF IInv
<1> QED  BY <1>1, Invariance, PTL

\* A sole receiver that is pending on a channel in PENDING will be polled.
THEOREM WakeupSafe == Spec => []NoLostWakeup
<1>1. IInv => NoLostWakeup
  BY DEF IInv, Wakeups
<1> QED  BY <1>1, Invariance, PTL

\* A sender that found its channel free rings on a free channel.
THEOREM RingsSafe == Spec => []RingsFree
<1>1. IInv => RingsFree
  BY DEF IInv
<1> QED  BY <1>1, Invariance, PTL

THEOREM HandlerInvariance == ASSUME Separate PROVE Spec => []HandlerHasRing
<1>1. Init => HandlerHasRing
  BY DEF Init, HandlerHasRing
<1>2. IInv /\ HandlerHasRing /\ [Next]_vars => HandlerHasRing'
  BY HandlerStep, Separate DEF IInv
<1> QED  BY <1>1, <1>2, Invariance, PTL DEF Spec

-----------------------------------------------------------------------------
(* The mailbox implements Doorbell.                                        *)

\* A step that changes none of what Due and the history are made of stutters.
LEMMA QuietStutters ==
  UNCHANGED <<rx, pending, isrCh, histVars>>
    /\ (isrPc' = "set" <=> isrPc = "set") => UNCHANGED Mailbox!dvars
  BY DEF Mailbox!dvars, Due, Bit, histVars

\* Every step of the mailbox is a step of Doorbell or a stutter.
LEMMA RefineStep ==
  TypeOK /\ Control /\ HandlerHasRing /\ [Next]_vars =>
       [Mailbox!Next]_(Mailbox!dvars)
<1> SUFFICES ASSUME TypeOK, Control, HandlerHasRing, [Next]_vars
             PROVE  [Mailbox!Next]_(Mailbox!dvars)
  OBVIOUS
<1> USE DEF histVars, busVars, rcvVars, isrVars
<1>1. ASSUME NEW c \in Channels, Ring(c) PROVE Mailbox!Ring(c)
  <2>1. CASE c \in rx
    <3>1. Due' = Due /\ Due[c] > 0
      BY <1>1, <2>1 DEF Ring, Due, Bit
    <3> QED  BY <1>1, <3>1 DEF Ring, Mailbox!Ring
  <2>2. CASE c \notin rx
    <3>1. Due' = [Due EXCEPT ![c] = Due[c] + 1]
      <4>1. \A d \in Channels : Due'[d] = IF d = c THEN Due[c] + 1 ELSE Due[d]
        BY <1>1, <2>2 DEF Ring, Due, Bit
      <4> QED  BY <4>1 DEF Due
    <3> QED  BY <1>1, <3>1 DEF Ring, Mailbox!Ring
  <2> QED  BY <2>1, <2>2
<1>2. CASE IsrClear
  <2>1. Due' = Due
    BY <1>2 DEF IsrClear, HandlerHasRing, Due, Bit
  <2> QED  BY <1>2, <2>1 DEF IsrClear, Mailbox!dvars
<1>3. CASE IsrSet
  <2>1. CASE isrCh \in pending
    <3>1. isrCh \in Channels
      BY <1>3 DEF IsrSet, Control, HandlerHasChannel
    <3>2. Due[isrCh] > 1
      <4>1. Due[isrCh] = (IF isrCh \in rx THEN 1 ELSE 0) + 1 + 1
        BY <1>3, <2>1, <3>1 DEF IsrSet, Due, Bit
      <4> QED  BY <4>1
    <3>3. Due' = [Due EXCEPT ![isrCh] = Due[isrCh] - 1]
      <4>1. \A d \in Channels : Due'[d] = IF d = isrCh THEN Due[d] - 1 ELSE
           Due[d]
        BY <1>3, <2>1, <3>1 DEF IsrSet, Due, Bit
      <4> QED  BY <4>1 DEF Due
    <3> QED  BY <1>3, <3>1, <3>2, <3>3 DEF IsrSet, Mailbox!Merge, Mailbox!Next
  <2>2. CASE isrCh \notin pending
    <3>1. Due' = Due
      BY <1>3, <2>2 DEF IsrSet, Due, Bit
    <3> QED  BY <1>3, <3>1 DEF IsrSet, Mailbox!dvars
  <2> QED  BY <2>1, <2>2
<1>4. ASSUME NEW t \in Tasks, Take(t) PROVE Mailbox!Receive(got[t]) /\ got[t]
     \in Channels
  BY <1>4 DEF Take, Mailbox!Receive, Due, Bit, TypeOK, Control, GotPending
<1>5. CASE \E c \in Channels : Ack(c)
  BY <1>5, QuietStutters DEF Ack
<1>6. CASE \E c \in Channels : IsrEnter(c)
  BY <1>6 DEF IsrEnter, Mailbox!dvars, Due, Bit, histVars
<1>7. CASE IsrStatus \/ IsrWake
  BY <1>7, QuietStutters DEF IsrStatus, IsrWake
<1>8. ASSUME NEW t \in Tasks,
             Poll(t) \/ Cancel(t) \/ Yield(t) \/ BeginRecv(t) \/ Look(t) \/
                  Register(t)
               \/ Relook(t) \/ SendStep(t) \/ Deadline(t) \/ TimerFires(t) \/
                    OtherWake(t)
      PROVE  UNCHANGED Mailbox!dvars
  BY <1>8, QuietStutters DEF Poll, Cancel, Yield, BeginRecv, Look, Register,
       Relook,
     SendStep, BeginSend, Before, Trig, After, Deadline, TimerFires, OtherWake
<1>9. CASE UNCHANGED vars
  BY <1>9, QuietStutters DEF vars
<1> QED
  BY <1>1, <1>2, <1>3, <1>4, <1>5, <1>6, <1>7, <1>8, <1>9
  DEF Next, Isr, RecvStep, Tasks, Mailbox!Next

\* As long as no channel has both a sender and spurious handler entries, the
\* receivers are served as Doorbell promises, whatever the interleaving of
\* polls, handler and CA7: no doorbell is lost and none is invented.
THEOREM MailboxRefines == ASSUME Separate PROVE Spec => MailboxSpec
<1>1. Init => Mailbox!Init
  BY DEF Init, Mailbox!Init, Due, Bit
<1>2. IInv /\ HandlerHasRing /\ [Next]_vars => [Mailbox!Next]_(Mailbox!dvars)
  BY RefineStep DEF IInv
<1> QED
  BY <1>1, <1>2, Invariance, HandlerInvariance, Separate, PTL
  DEF Spec, MailboxSpec, Mailbox!Spec
=============================================================================
