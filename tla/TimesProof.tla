----------------------------- MODULE TimesProof ----------------------------
(***************************************************************************)
(* The time driver of the BootMCU covers every deadline and wakes nobody   *)
(* early, whatever the width of a half, the tasks and the deadlines.       *)
(*                                                                         *)
(* Two lines of argument meet in the alarm.  A count that is read in two   *)
(* halves is a count that the timer had, since the low half was read while *)
(* the high half stood still; and from the moment the queue is expired to  *)
(* the second write of the alarm nobody but the context that arms runs in  *)
(* the driver, so that the deadline it arms stays the earliest.            *)
(***************************************************************************)
EXTENDS MCTimes, WellFoundedInduction, TLAPS

\* Interrupts are disabled throughout schedule_wake, and the handler never runs
\* within it.
Masking ==
  /\ Masked => pc["isr"] = "out"
  /\ pc["thread"] \in {"enqueue", "armh", "arml"} => Masked
  /\ pc["thread"] = "out" => ~Masked
  /\ pc["isr"] # "enqueue"

\* The halves that have been read belong to counts since the reading began.
Reading ==
  \A c \in Contexts :
     /\ start[c] <= count
     /\ pc[c] \in {"low", "again"} => h[c] = start[c] \div Base
     /\ pc[c] = "again" => \E n \in start[c]..count : l[c] = n % Base

\* What is being armed is no later than any deadline.
Arming ==
  \A c \in Contexts :
     /\ pc[c] \in {"armh", "arml"} => \A t \in Tasks : queue[t] # None => next[c] <= queue[t]
     /\ pc[c] = "arml" => match.h = next[c] \div Base

\* A deadline that comes before that in the queue is not armed: the alarm that
\* schedule_wake finds covers the queue until it changes the queue.
Covering ==
  pc["isr"] = "out" /\ (~Masked \/ pc["thread"] = "enqueue")
    => \A t \in Tasks : queue[t] # None => Alarm <= queue[t]

IInv == TypeOK /\ Masking /\ Reading /\ ReadExact /\ Arming /\ Covering

-----------------------------------------------------------------------------
(* Arithmetic of the halves.                                               *)

\* A number is made up of its halves.
LEMMA Halves ==
  ASSUME NEW n \in Nat
  PROVE  /\ n \div Base \in Nat /\ n % Base \in 0..Base - 1
         /\ n = ((n \div Base) * Base) + (n % Base)
  BY TimeDriverAssumption

\* Multiplication by Base is monotonic.
LEMMA TimesBase ==
  ASSUME NEW m \in Nat, NEW n \in Nat, m <= n
  PROVE  m * Base <= n * Base
  BY TimeDriverAssumption

\* So is the high half.
LEMMA HighGrows ==
  ASSUME NEW m \in Nat, NEW n \in Nat, m <= n
  PROVE  m \div Base <= n \div Base
<1> DEFINE a == m \div Base
           b == n \div Base
<1> SUFFICES ASSUME b < a PROVE FALSE
  BY Halves
<1>1. a \in Nat /\ b \in Nat /\ b + 1 <= a
  BY Halves
<1>2. (b + 1) * Base <= a * Base
  BY <1>1, TimesBase
<1>3. (b + 1) * Base = b * Base + Base
  BY <1>1, TimeDriverAssumption
<1>4. n < b * Base + Base /\ a * Base <= m
  BY <1>1, Halves, TimeDriverAssumption
<1> HIDE DEF a, b
<1>5. a * Base \in Nat /\ b * Base \in Nat
  BY <1>1, TimeDriverAssumption
<1> QED  BY <1>2, <1>3, <1>4, <1>5, TimeDriverAssumption

\* Between two numbers with the same high half lie only numbers with that half.
LEMMA HighBetween ==
  ASSUME NEW m \in Nat, NEW n \in Nat, NEW k \in Nat, m <= n, n <= k,
         m \div Base = k \div Base
  PROVE  n \div Base = m \div Base
<1> DEFINE a == m \div Base
           b == n \div Base
           c == k \div Base
<1>1. a \in Nat /\ b \in Nat /\ c \in Nat
  BY Halves
<1>2. a <= b /\ b <= c /\ a = c
  BY HighGrows
<1> HIDE DEF a, b, c
<1>3. b = a
  BY <1>1, <1>2
<1> QED  BY <1>3 DEF a, b

\* Both halves of a 64-bit number are digits.
LEMMA HighHalf ==
  ASSUME NEW n \in 0..Max64
  PROVE  n \div Base \in 0..Base - 1
<1> DEFINE a == n \div Base
<1> SUFFICES ASSUME Base <= a PROVE FALSE
  BY Halves, TimeDriverAssumption DEF Max64
<1>1. Base * Base <= a * Base
  BY Halves, TimesBase, TimeDriverAssumption DEF Max64
<1>2. n < Base * Base /\ a * Base <= n
  BY Halves, TimeDriverAssumption DEF Max64
<1> QED  BY <1>1, <1>2, Halves, TimeDriverAssumption DEF Max64

\* What two halves make up is a 64-bit number.
LEMMA MadeUp ==
  ASSUME NEW a \in 0..Base - 1, NEW b \in 0..Base - 1
  PROVE  a * Base + b \in 0..Max64
<1>1. (a + 1) * Base <= Base * Base
  BY TimesBase, TimeDriverAssumption
<1>2. (a + 1) * Base = a * Base + Base /\ a * Base \in Nat
  BY TimeDriverAssumption
<1> QED  BY <1>1, <1>2, TimeDriverAssumption DEF Max64

-----------------------------------------------------------------------------
(* The earliest deadline.                                                  *)

Below == {p \in Nat \X Nat : p[1] < p[2]}

\* A nonempty set of numbers has a least one, which Min returns.
LEMMA MinIsLeast ==
  ASSUME NEW S \in SUBSET Nat, S # {}
  PROVE  Min(S) \in S /\ \A n \in S : Min(S) <= n
<1>1. IsWellFoundedOn(Below, Nat)
  BY NatLessThanWellFounded DEF Below, OpToRel
<1>2. PICK x \in S : \A y \in S : <<y, x>> \notin Below
  BY <1>1, WFMin
<1>3. \A y \in S : <<y, x>> \in Nat \X Nat /\ <<y, x>>[1] = y /\ <<y, x>>[2] = x
  OBVIOUS
<1>4. \A y \in S : ~(y < x)
  BY <1>2, <1>3 DEF Below
<1>5. \A y \in S : x <= y
  BY <1>4
<1> QED  BY <1>5 DEF Min

-----------------------------------------------------------------------------
\* What the queue holds besides u64::MAX: numbers of 64 bits.
LEMMA EarliestType ==
  ASSUME NEW q \in [Tasks -> 0..MaxAt \cup {None}]
  PROVE  /\ Earliest(q) \in 0..Max64
         /\ \A t \in Tasks : q[t] # None => Earliest(q) <= q[t]
<1> DEFINE S == {q[t] : t \in {u \in Tasks : q[u] # None}} \cup {Max64}
<1>1. Max64 \in Nat /\ MaxAt < Max64
  BY TimeDriverAssumption DEF Max64
<1>2. S \in SUBSET (0..Max64) /\ S # {}
  <2>1. \A t \in Tasks : q[t] # None => q[t] \in 0..Max64
    BY <1>1, TimeDriverAssumption
  <2>2. Max64 \in 0..Max64
    BY <1>1
  <2> QED  BY <2>1, <2>2
<1>3. S \in SUBSET Nat
  BY <1>1, <1>2
<1>4. Min(S) \in S /\ \A n \in S : Min(S) <= n
  BY <1>2, <1>3, MinIsLeast
<1>5. Earliest(q) = Min(S)
  BY DEF Earliest
<1> HIDE DEF S
<1>6. \A t \in Tasks : q[t] # None => q[t] \in S
  BY DEF S
<1> QED  BY <1>2, <1>4, <1>5, <1>6

LEMMA InitInv == Init => IInv
<1> SUFFICES ASSUME Init PROVE IInv
  OBVIOUS
<1> USE TimeDriverAssumption DEF Init, Contexts
<1>1. Base - 1 \in 0..Base - 1 /\ 0 \in 0..Base - 1 /\ 0 \in 0..Max64 /\ 0 \in 0..MaxCount
  BY Halves DEF Max64
<1>2. TypeOK
  <2>1. match \in [h : 0..Base - 1, l : 0..Base - 1]
    BY <1>1
  <2>2. pc \in [Contexts -> {"out", "enqueue", "high", "low", "again", "got", "armh", "arml"}]
    OBVIOUS
  <2>3. /\ h \in [Contexts -> 0..Base - 1] /\ l \in [Contexts -> 0..Base - 1]
        /\ next \in [Contexts -> 0..Max64] /\ start \in [Contexts -> 0..MaxCount]
    BY <1>1
  <2>4. count \in 0..MaxCount /\ at \in 0..MaxAt
    BY <1>1
  <2> QED  BY <2>1, <2>2, <2>3, <2>4 DEF TypeOK
<1>3. Masking
  BY DEF Masking, Masked
<1>4. Reading /\ ReadExact
  BY DEF Reading, ReadExact
<1>5. Arming /\ Covering
  BY DEF Arming, Covering
<1> QED  BY <1>2, <1>3, <1>4, <1>5 DEF IInv

\* Every step keeps the types.
LEMMA TypeStep == (TypeOK) /\ [Next]_vars => TypeOK'
<1> SUFFICES ASSUME TypeOK, [Next]_vars PROVE TypeOK'
  OBVIOUS
<1> USE TimeDriverAssumption DEF TypeOK, hwVars, callVars, localVars, Contexts
<1>1. CASE Tick
  BY <1>1 DEF Tick
<1>2. CASE Match
  BY <1>2 DEF Match
<1>3. CASE IsrEnter
  BY <1>3 DEF IsrEnter, Goto
<1>4. CASE CallNow
  BY <1>4 DEF CallNow, At, Goto, Runs
<1>5. CASE NowReturns
  <2>1. 0 \in 0..Base - 1 /\ 0 \in 0..Max64
    BY DEF Max64
  <2> QED  BY <1>5, <2>1 DEF NowReturns, At, Goto, Runs, Forget
<1>6. CASE Enqueue
  BY <1>6 DEF Enqueue, At, Goto, Runs
<1>7. ASSUME NEW t \in Tasks, NEW a \in 0..MaxAt, CallScheduleWake(t, a) PROVE TypeOK'
  BY <1>7 DEF CallScheduleWake, At, Goto, Runs
<1>8. ASSUME NEW c \in Contexts, ReadHigh(c) PROVE TypeOK'
  <2>1. count \div Base \in 0..Base - 1
    BY HighHalf DEF Max64
  <2> QED  BY <1>8, <2>1 DEF ReadHigh, At, Goto, Runs
<1>9. ASSUME NEW c \in Contexts, ReadLow(c) PROVE TypeOK'
  <2>1. count % Base \in 0..Base - 1
    BY Halves
  <2> QED  BY <1>9, <2>1 DEF ReadLow, At, Goto, Runs
<1>10. ASSUME NEW c \in Contexts, ReadAgain(c) PROVE TypeOK'
  BY <1>10 DEF ReadAgain, At, Goto, Runs
<1>11. ASSUME NEW c \in Contexts, Expire(c) PROVE TypeOK'
  <2>1. queue' \in [Tasks -> 0..MaxAt \cup {None}]
    BY <1>11 DEF Expire
  <2>2. Earliest(queue') \in 0..Max64
    BY <2>1, EarliestType
  <2> QED  BY <1>11, <2>1, <2>2 DEF Expire, At, Goto, Runs
<1>12. ASSUME NEW c \in Contexts, ArmHigh(c) PROVE TypeOK'
  <2>1. next[c] \div Base \in 0..Base - 1
    BY HighHalf
  <2> QED  BY <1>12, <2>1 DEF ArmHigh, At, Goto, Runs
<1>13. ASSUME NEW c \in Contexts, ArmLow(c) PROVE TypeOK'
  <2>1. next[c] % Base \in 0..Base - 1
    BY Halves DEF Max64
  <2>2. match' \in [h : 0..Base - 1, l : 0..Base - 1]
    BY <1>13, <2>1 DEF ArmLow
  <2>3. 0 \in 0..Base - 1 /\ 0 \in 0..Max64 /\ 0 \in 0..MaxCount
    BY Halves DEF Max64
  <2>4. /\ h' \in [Contexts -> 0..Base - 1] /\ l' \in [Contexts -> 0..Base - 1]
        /\ next' \in [Contexts -> 0..Max64] /\ start' \in [Contexts -> 0..MaxCount]
    BY <1>13, <2>3 DEF ArmLow, Forget
  <2>5. pc' \in [Contexts -> {"out", "enqueue", "high", "low", "again", "got", "armh", "arml"}]
    BY <1>13 DEF ArmLow, Forget, Goto
  <2>6. who' \in Tasks \cup {None} /\ at' \in 0..MaxAt
    BY <1>13 DEF ArmLow
  <2>7. UNCHANGED <<count, queue>> /\ intr' = FALSE
    BY <1>13 DEF ArmLow
  <2> QED  BY <2>2, <2>4, <2>5, <2>6, <2>7
<1>14. CASE UNCHANGED vars
  BY <1>14 DEF vars
<1> QED
  BY <1>1, <1>2, <1>3, <1>4, <1>5, <1>6, <1>7, <1>8, <1>9, <1>10, <1>11, <1>12, <1>13,
     <1>14
  DEF Next, Inside

\* The handler and schedule_wake keep out of each other's way.
LEMMA MaskingStep == (TypeOK /\ Masking) /\ [Next]_vars => Masking'
<1> SUFFICES ASSUME TypeOK /\ Masking, [Next]_vars PROVE Masking'
  OBVIOUS
<1> USE TimeDriverAssumption DEF TypeOK, Masking, Masked, hwVars, callVars, localVars, Contexts
<1>1. CASE Tick
  BY <1>1 DEF Tick
<1>2. CASE Match
  BY <1>2 DEF Match
<1>3. CASE IsrEnter
  BY <1>3 DEF IsrEnter, Goto
<1>4. CASE CallNow
  BY <1>4 DEF CallNow, At, Goto, Runs
<1>5. CASE NowReturns
  BY <1>5 DEF NowReturns, At, Goto, Runs, Forget
<1>6. CASE Enqueue
  BY <1>6 DEF Enqueue, At, Goto, Runs
<1>7. ASSUME NEW t \in Tasks, NEW a \in 0..MaxAt, CallScheduleWake(t, a) PROVE Masking'
  BY <1>7 DEF CallScheduleWake, At, Goto, Runs
<1>8. ASSUME NEW c \in Contexts, ReadHigh(c) PROVE Masking'
  BY <1>8 DEF ReadHigh, At, Goto, Runs
<1>9. ASSUME NEW c \in Contexts, ReadLow(c) PROVE Masking'
  BY <1>9 DEF ReadLow, At, Goto, Runs
<1>10. ASSUME NEW c \in Contexts, ReadAgain(c) PROVE Masking'
  BY <1>10 DEF ReadAgain, At, Goto, Runs
<1>11. ASSUME NEW c \in Contexts, Expire(c) PROVE Masking'
  BY <1>11 DEF Expire, At, Goto, Runs
<1>12. ASSUME NEW c \in Contexts, ArmHigh(c) PROVE Masking'
  BY <1>12 DEF ArmHigh, At, Goto, Runs
<1>13. ASSUME NEW c \in Contexts, ArmLow(c) PROVE Masking'
  BY <1>13 DEF ArmLow, At, Goto, Runs, Forget
<1>14. CASE UNCHANGED vars
  BY <1>14 DEF vars
<1> QED
  BY <1>1, <1>2, <1>3, <1>4, <1>5, <1>6, <1>7, <1>8, <1>9, <1>10, <1>11, <1>12, <1>13,
     <1>14
  DEF Next, Inside

\* What has been read goes on to belong to counts since the reading began.
LEMMA ReadingStep == (TypeOK /\ Masking /\ Reading) /\ [Next]_vars => Reading'
<1> SUFFICES ASSUME TypeOK /\ Masking /\ Reading, [Next]_vars PROVE Reading'
  OBVIOUS
<1> USE TimeDriverAssumption DEF TypeOK, Masking, Masked, Reading, hwVars, callVars,
       localVars, Contexts
<1>1. CASE Tick
  <2>1. count' = count + 1 /\ count \in Nat /\ UNCHANGED <<start, h, l, pc>>
    BY <1>1 DEF Tick
  <2>2. \A c \in Contexts : start[c] <= count' /\ start[c] \in Nat
    BY <2>1
  <2>3. \A c \in Contexts : start[c]..count \subseteq start[c]..count'
    BY <2>1, <2>2
  <2> QED  BY <2>1, <2>2, <2>3
<1>2. CASE Match
  BY <1>2 DEF Match
<1>3. CASE IsrEnter
  BY <1>3 DEF IsrEnter, Goto
<1>4. CASE CallNow
  BY <1>4 DEF CallNow, At, Goto, Runs
<1>5. CASE NowReturns
  BY <1>5 DEF NowReturns, At, Goto, Runs, Forget
<1>6. CASE Enqueue
  BY <1>6 DEF Enqueue, At, Goto, Runs
<1>7. ASSUME NEW t \in Tasks, NEW a \in 0..MaxAt, CallScheduleWake(t, a) PROVE Reading'
  BY <1>7 DEF CallScheduleWake, At, Goto, Runs
<1>8. ASSUME NEW c \in Contexts, ReadHigh(c) PROVE Reading'
  <2>1. start'[c] = count' /\ h'[c] = start'[c] \div Base /\ pc'[c] = "low"
    BY <1>8 DEF ReadHigh, Goto
  <2>2. \A d \in Contexts \ {c} :
          start'[d] = start[d] /\ h'[d] = h[d] /\ l'[d] = l[d] /\ pc'[d] = pc[d]
    BY <1>8 DEF ReadHigh, Goto
  <2>3. count' = count
    BY <1>8 DEF ReadHigh
  <2> SUFFICES ASSUME NEW d \in Contexts
               PROVE  /\ start'[d] <= count'
                      /\ pc'[d] \in {"low", "again"} => h'[d] = start'[d] \div Base
                      /\ pc'[d] = "again" => \E n \in start'[d]..count' : l'[d] = n % Base
    OBVIOUS
  <2>4. CASE d = c
    BY <2>1, <2>3, <2>4
  <2>5. CASE d # c
    BY <2>2, <2>3, <2>5
  <2> QED  BY <2>4, <2>5
<1>9. ASSUME NEW c \in Contexts, ReadLow(c) PROVE Reading'
  BY <1>9 DEF ReadLow, At, Goto, Runs
<1>10. ASSUME NEW c \in Contexts, ReadAgain(c) PROVE Reading'
  BY <1>10 DEF ReadAgain, At, Goto, Runs
<1>11. ASSUME NEW c \in Contexts, Expire(c) PROVE Reading'
  BY <1>11 DEF Expire, At, Goto, Runs
<1>12. ASSUME NEW c \in Contexts, ArmHigh(c) PROVE Reading'
  BY <1>12 DEF ArmHigh, At, Goto, Runs
<1>13. ASSUME NEW c \in Contexts, ArmLow(c) PROVE Reading'
  BY <1>13 DEF ArmLow, At, Goto, Runs, Forget
<1>14. CASE UNCHANGED vars
  BY <1>14 DEF vars
<1> QED
  BY <1>1, <1>2, <1>3, <1>4, <1>5, <1>6, <1>7, <1>8, <1>9, <1>10, <1>11, <1>12, <1>13,
     <1>14
  DEF Next, Inside

\* When the high half has stood still, the two halves are one count's.
LEMMA ExactStep == (TypeOK /\ Masking /\ Reading /\ ReadExact) /\ [Next]_vars => ReadExact'
<1> SUFFICES ASSUME TypeOK /\ Masking /\ Reading /\ ReadExact, [Next]_vars PROVE ReadExact'
  OBVIOUS
<1> USE TimeDriverAssumption DEF TypeOK, Reading, ReadExact, Read, hwVars, callVars,
       localVars, Contexts
<1>1. CASE Tick
  BY <1>1 DEF Tick
<1>2. CASE Match
  BY <1>2 DEF Match
<1>3. CASE IsrEnter
  BY <1>3 DEF IsrEnter, Goto
<1>4. CASE CallNow
  BY <1>4 DEF CallNow, At, Goto, Runs
<1>5. CASE NowReturns
  BY <1>5 DEF NowReturns, At, Goto, Runs, Forget
<1>6. CASE Enqueue
  BY <1>6 DEF Enqueue, At, Goto, Runs
<1>7. ASSUME NEW t \in Tasks, NEW a \in 0..MaxAt, CallScheduleWake(t, a) PROVE ReadExact'
  BY <1>7 DEF CallScheduleWake, At, Goto, Runs
<1>8. ASSUME NEW c \in Contexts, ReadHigh(c) PROVE ReadExact'
  BY <1>8 DEF ReadHigh, At, Goto, Runs
<1>9. ASSUME NEW c \in Contexts, ReadLow(c) PROVE ReadExact'
  BY <1>9 DEF ReadLow, At, Goto, Runs
<1>10. ASSUME NEW c \in Contexts, ReadAgain(c) PROVE ReadExact'
  <2>1. CASE count \div Base = h[c]
    <3>1. PICK n \in start[c]..count : l[c] = n % Base
      BY <1>10 DEF ReadAgain, At
    <3>2. h[c] = start[c] \div Base /\ start[c] \in Nat /\ n \in Nat /\ count \in Nat
      BY <1>10 DEF ReadAgain, At
    <3>3. n \div Base = h[c]
      <4>1. start[c] <= n /\ n <= count
        BY <3>1, <3>2
      <4>2. start[c] \div Base = count \div Base
        BY <2>1, <3>2
      <4> HIDE DEF TypeOK, Reading, ReadExact
      <4> QED  BY <3>2, <4>1, <4>2, HighBetween
    <3>4. h[c] * Base + l[c] = n
      BY <3>1, <3>2, <3>3, Halves
    <3> QED  BY <1>10, <3>1, <3>4 DEF ReadAgain, At, Goto, Runs
  <2>2. CASE count \div Base # h[c]
    BY <1>10, <2>2 DEF ReadAgain, At, Goto, Runs
  <2> QED  BY <2>1, <2>2
<1>11. ASSUME NEW c \in Contexts, Expire(c) PROVE ReadExact'
  BY <1>11 DEF Expire, At, Goto, Runs
<1>12. ASSUME NEW c \in Contexts, ArmHigh(c) PROVE ReadExact'
  BY <1>12 DEF ArmHigh, At, Goto, Runs
<1>13. ASSUME NEW c \in Contexts, ArmLow(c) PROVE ReadExact'
  BY <1>13 DEF ArmLow, At, Goto, Runs, Forget
<1>14. CASE UNCHANGED vars
  BY <1>14 DEF vars
<1> QED
  BY <1>1, <1>2, <1>3, <1>4, <1>5, <1>6, <1>7, <1>8, <1>9, <1>10, <1>11, <1>12, <1>13,
     <1>14
  DEF Next, Inside

\* Nobody changes the queue while the alarm is armed.
LEMMA ArmingStep == (TypeOK /\ Masking /\ Arming) /\ [Next]_vars => Arming'
<1> SUFFICES ASSUME TypeOK /\ Masking /\ Arming, [Next]_vars PROVE Arming'
  OBVIOUS
<1> USE TimeDriverAssumption DEF TypeOK, Masking, Masked, Arming, hwVars, callVars,
       localVars, Contexts
<1>1. CASE Tick
  BY <1>1 DEF Tick
<1>2. CASE Match
  BY <1>2 DEF Match
<1>3. CASE IsrEnter
  BY <1>3 DEF IsrEnter, Goto
<1>4. CASE CallNow
  BY <1>4 DEF CallNow, At, Goto, Runs
<1>5. CASE NowReturns
  BY <1>5 DEF NowReturns, At, Goto, Runs, Forget
<1>6. CASE Enqueue
  BY <1>6 DEF Enqueue, At, Goto, Runs
<1>7. ASSUME NEW t \in Tasks, NEW a \in 0..MaxAt, CallScheduleWake(t, a) PROVE Arming'
  BY <1>7 DEF CallScheduleWake, At, Goto, Runs
<1>8. ASSUME NEW c \in Contexts, ReadHigh(c) PROVE Arming'
  BY <1>8 DEF ReadHigh, At, Goto, Runs
<1>9. ASSUME NEW c \in Contexts, ReadLow(c) PROVE Arming'
  BY <1>9 DEF ReadLow, At, Goto, Runs
<1>10. ASSUME NEW c \in Contexts, ReadAgain(c) PROVE Arming'
  BY <1>10 DEF ReadAgain, At, Goto, Runs
<1>11. ASSUME NEW c \in Contexts, Expire(c) PROVE Arming'
  <2>1. queue' \in [Tasks -> 0..MaxAt \cup {None}]
    BY <1>11 DEF Expire
  <2>2. \A t \in Tasks : queue'[t] # None => Earliest(queue') <= queue'[t]
    BY <2>1, EarliestType
  <2>3. next'[c] = Earliest(queue') /\ pc' = [pc EXCEPT ![c] = "armh"]
    BY <1>11 DEF Expire, Goto
  <2>4. \A d \in Contexts \ {c} : pc'[d] \notin {"armh", "arml"}
    BY <1>11, <2>3 DEF Expire, At, Runs
  <2> QED  BY <2>2, <2>3, <2>4
<1>12. ASSUME NEW c \in Contexts, ArmHigh(c) PROVE Arming'
  BY <1>12 DEF ArmHigh, At, Goto, Runs
<1>13. ASSUME NEW c \in Contexts, ArmLow(c) PROVE Arming'
  BY <1>13 DEF ArmLow, At, Goto, Runs, Forget
<1>14. CASE UNCHANGED vars
  BY <1>14 DEF vars
<1> QED
  BY <1>1, <1>2, <1>3, <1>4, <1>5, <1>6, <1>7, <1>8, <1>9, <1>10, <1>11, <1>12, <1>13,
     <1>14
  DEF Next, Inside

\* The alarm that has been written covers the queue.
LEMMA CoveringStep == (TypeOK /\ Masking /\ Arming /\ Covering) /\ [Next]_vars => Covering'
<1> SUFFICES ASSUME TypeOK /\ Masking /\ Arming /\ Covering, [Next]_vars PROVE Covering'
  OBVIOUS
<1> USE TimeDriverAssumption DEF TypeOK, Masking, Masked, Arming, Covering, Alarm, hwVars,
       callVars, localVars, Contexts
<1>1. CASE Tick
  BY <1>1 DEF Tick
<1>2. CASE Match
  BY <1>2 DEF Match
<1>3. CASE IsrEnter
  BY <1>3 DEF IsrEnter, Goto
<1>4. CASE CallNow
  BY <1>4 DEF CallNow, At, Goto, Runs
<1>5. CASE NowReturns
  BY <1>5 DEF NowReturns, At, Goto, Runs, Forget
<1>6. CASE Enqueue
  BY <1>6 DEF Enqueue, At, Goto, Runs
<1>7. ASSUME NEW t \in Tasks, NEW a \in 0..MaxAt, CallScheduleWake(t, a) PROVE Covering'
  BY <1>7 DEF CallScheduleWake, At, Goto, Runs
<1>8. ASSUME NEW c \in Contexts, ReadHigh(c) PROVE Covering'
  BY <1>8 DEF ReadHigh, At, Goto, Runs
<1>9. ASSUME NEW c \in Contexts, ReadLow(c) PROVE Covering'
  BY <1>9 DEF ReadLow, At, Goto, Runs
<1>10. ASSUME NEW c \in Contexts, ReadAgain(c) PROVE Covering'
  BY <1>10 DEF ReadAgain, At, Goto, Runs
<1>11. ASSUME NEW c \in Contexts, Expire(c) PROVE Covering'
  BY <1>11 DEF Expire, At, Goto, Runs
<1>12. ASSUME NEW c \in Contexts, ArmHigh(c) PROVE Covering'
  BY <1>12 DEF ArmHigh, At, Goto, Runs
<1>13. ASSUME NEW c \in Contexts, ArmLow(c) PROVE Covering'
  BY <1>13 DEF ArmLow, At, Goto, Runs, Forget
<1>14. CASE UNCHANGED vars
  BY <1>14 DEF vars
<1> QED
  BY <1>1, <1>2, <1>3, <1>4, <1>5, <1>6, <1>7, <1>8, <1>9, <1>10, <1>11, <1>12, <1>13,
     <1>14
  DEF Next, Inside

LEMMA StepInv == IInv /\ [Next]_vars => IInv'
  BY TypeStep, MaskingStep, ReadingStep, ExactStep, ArmingStep, CoveringStep DEF IInv

\* IInv, and with it all it consists of, holds in every reachable state.
THEOREM Invariance == Spec => []IInv
  BY InitInv, StepInv, PTL DEF Spec

\* read_count returns a value that the counter had while it was read, for
\* every width of the halves and wherever a carry or the handler came between.
THEOREM ReadsExact == Spec => []ReadExact
<1>1. IInv => ReadExact
  BY DEF IInv
<1> QED  BY <1>1, Invariance, PTL

\* Whenever interrupts are enabled the alarm is no later than any deadline, for
\* any number of sleepers and whatever calls and interrupts preceded.
THEOREM AlarmsCover == Spec => []AlarmCovers
<1>1. IInv => AlarmCovers
  BY DEF IInv, Covering, AlarmCovers
<1> QED  BY <1>1, Invariance, PTL

-----------------------------------------------------------------------------
(* The SysTick driver, and both.                                           *)

\* A tick that is pending is one that the bound admits.
Ticking == Tk!TypeOK /\ (pend => ticks < MaxTicks)

LEMMA TickConstants == MaxTicks \in Nat /\ MaxWake \in Nat
  BY PartsAssumption DEF Tk!TickDriverAssumption

LEMMA TickInit == Tk!Init => Ticking
<1> SUFFICES ASSUME Tk!Init PROVE Ticking
  OBVIOUS
<1> USE TickConstants DEF Tk!Init
<1>1. ticks \in 0..MaxTicks
  OBVIOUS
<1>2. pend \in BOOLEAN /\ masked \in BOOLEAN /\ ~pend
  OBVIOUS
<1>3. wake \in [Tasks -> 0..MaxWake \cup {None}]
  OBVIOUS
<1> QED  BY <1>1, <1>2, <1>3 DEF Tk!TypeOK, Ticking

LEMMA TickStep == Ticking /\ [Tk!Next]_(Tk!tickVars) => Ticking'
<1> SUFFICES ASSUME Ticking, [Tk!Next]_(Tk!tickVars) PROVE Ticking'
  OBVIOUS
<1> USE TickConstants DEF Ticking, Tk!TypeOK, Tk!Expire
<1>1. CASE Tk!Period
  BY <1>1 DEF Tk!Period
<1>2. CASE Tk!OnTick
  <2>1. ticks' \in 0..MaxTicks
    BY <1>2 DEF Tk!OnTick
  <2>2. pend' \in BOOLEAN /\ masked' \in BOOLEAN /\ ~pend'
    BY <1>2 DEF Tk!OnTick
  <2>3. wake' \in [Tasks -> 0..MaxWake \cup {None}]
    BY <1>2 DEF Tk!OnTick
  <2> QED  BY <2>1, <2>2, <2>3
<1>3. CASE Tk!Mask
  BY <1>3 DEF Tk!Mask
<1>4. ASSUME NEW t \in Tasks, NEW a \in 0..MaxWake, Tk!ScheduleWake(t, a) PROVE Ticking'
  BY <1>4 DEF Tk!ScheduleWake
<1>5. CASE UNCHANGED Tk!tickVars
  BY <1>5 DEF Tk!tickVars
<1> QED  BY <1>1, <1>2, <1>3, <1>4, <1>5 DEF Tk!Next

LEMMA TickInvariance == Tk!Spec => []Ticking
  BY TickInit, TickStep, PTL DEF Tk!Spec

\* No handler of either driver wakes a sleeper that is not due.
LEMMA AlarmNotEarly ==
  IInv /\ [Next]_vars
    => \A t \in Tasks : queue[t] # None /\ queue'[t] = None => queue[t] <= count
<1> SUFFICES ASSUME IInv, [Next]_vars, NEW t \in Tasks, queue[t] # None, queue'[t] = None
             PROVE  queue[t] <= count
  OBVIOUS
<1> USE DEF hwVars, callVars, localVars, vars
<1>1. PICK c \in Contexts : Expire(c)
  <2>1. queue \in [Tasks -> 0..MaxAt \cup {None}] /\ at \in 0..MaxAt
    BY DEF IInv, TypeOK
  <2>2. ~Enqueue
    BY <2>1, TimeDriverAssumption DEF Enqueue
  <2>3. queue' # queue
    OBVIOUS
  <2> QED
    BY <2>2, <2>3 DEF Next, Inside, Tick, Match, IsrEnter, CallNow, NowReturns,
       CallScheduleWake, ReadHigh, ReadLow, ReadAgain, ArmHigh, ArmLow
<1>2. queue[t] <= Read(c) /\ pc[c] = "got"
  BY <1>1 DEF Expire, At, Due
<1>3. Read(c) <= count /\ Read(c) \in Int /\ count \in Int /\ queue[t] \in Int
  BY <1>2, TimeDriverAssumption DEF IInv, TypeOK, ReadExact, Read
<1> QED  BY <1>2, <1>3

LEMMA TickNotEarly ==
  Ticking /\ [Tk!Next]_(Tk!tickVars)
    => (ticks' # ticks =>
          \A t \in Tasks : wake[t] # None /\ wake'[t] = None => wake[t] <= ticks')
<1> SUFFICES ASSUME Ticking, Tk!Next, ticks' # ticks, NEW t \in Tasks,
                    wake[t] # None, wake'[t] = None
             PROVE  wake[t] <= ticks'
  BY DEF Tk!tickVars
<1>1. Tk!OnTick
  BY DEF Tk!Next, Tk!Period, Tk!Mask, Tk!ScheduleWake
<1> QED  BY <1>1 DEF Tk!OnTick, Tk!Expire, Tk!Due

\* Every behaviour of the composition is one of each driver: the other parts'
\* steps leave its state alone.
LEMMA Parts == MCSpec => Spec /\ Tk!Spec
<1>1. MCInit => Init /\ Tk!Init
  BY DEF MCInit
<1>2. [MCNext]_all => [Next]_vars /\ [Tk!Next]_(Tk!tickVars)
  BY DEF MCNext, all, D, T, C, G, tk, Tk!tickVars
<1> QED  BY <1>1, <1>2, PTL DEF MCSpec, Spec, Tk!Spec

\* The drivers keep their types: the alarm and the deadlines of the one are
\* numbers of 64 bits, and the other counts no tick that was not pending.
THEOREM TypesCorrect == MCSpec => []TypesOK
<1>1. IInv /\ Ticking => TypesOK
  BY DEF IInv, Ticking, TypesOK
<1> QED  BY <1>1, Parts, Invariance, TickInvariance, PTL

\* Neither driver wakes a task before its deadline, however the halves of the
\* count were read and whatever ticks were lost.
THEOREM NotEarly == MCSpec => NobodyEarly
  BY Parts, Invariance, TickInvariance, AlarmNotEarly, TickNotEarly, PTL
  DEF Spec, Tk!Spec, NobodyEarly, NeverEarly, Tk!NeverEarly
=============================================================================
