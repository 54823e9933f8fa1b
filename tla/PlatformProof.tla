---------------------------- MODULE PlatformProof ---------------------------
(***************************************************************************)
(* What boots and configures the platform is right for any sizes of its    *)
(* parts: any number of taps, lanes and retries, of table entries, buses,  *)
(* addresses, contexts, calls, firmware words, resets, timeouts and rates. *)
(*                                                                         *)
(* For each part there is an inductive invariant.  For the boot it is an   *)
(* order: every write has a rank, the writes of a boot come in the order   *)
(* of their ranks, and what a step needs is what waits no longer.          *)
(* The DDR PHY, with its tables, has a module of its own, PhyProof.        *)
(* `XKept` says that a step keeps the invariant, `XRight` that it holds.   *)
(***************************************************************************)
EXTENDS PhyProof, FiniteSetTheorems, SequenceTheorems, TLAPS

-----------------------------------------------------------------------------
(* Arithmetic.                                                             *)

\* A number is made up of what a division gives and leaves.
LEMMA Divided ==
  ASSUME NEW n \in Nat, NEW d \in Nat \ {0}
  PROVE  n \div d \in Nat /\ n % d \in 0..(d - 1) /\ n = ((n \div d) * d) + (n % d)
  OBVIOUS

\* Products of naturals are naturals and grow with either factor.
LEMMA Products ==
  ASSUME NEW m \in Nat, NEW n \in Nat, NEW d \in Nat, m <= n
  PROVE  m * d \in Nat /\ d * m \in Nat /\ m * d <= n * d /\ d * m <= d * n
  OBVIOUS

\* What a division gives is the largest number whose product is not above.
LEMMA Quotient ==
  ASSUME NEW n \in Nat, NEW d \in Nat \ {0}, NEW q \in Nat
  PROVE  q <= n \div d <=> q * d <= n
<1> DEFINE w == n \div d
           r == n % d
<1>1. w \in Nat /\ r \in 0..(d - 1) /\ n = w * d + r
  BY Divided
<1> HIDE DEF w, r
<1>2. CASE q <= w
  <2>1. q * d <= w * d /\ q * d \in Nat /\ w * d \in Nat
    BY <1>1, <1>2, Products
  <2> QED  BY <1>1, <1>2, <2>1 DEF w
<1>3. CASE w < q
  <2>1. (w + 1) * d <= q * d /\ q * d \in Nat
    BY <1>1, <1>3, Products
  <2>2. (w + 1) * d = w * d + d
    BY <1>1
  <2>3. w * d \in Nat
    BY <1>1, Products
  <2>4. n < q * d
    BY <1>1, <2>1, <2>2, <2>3
  <2> QED  BY <1>1, <1>3, <2>1, <2>4 DEF w
<1> QED  BY <1>1, <1>2, <1>3

\* Sequences of one element put together.
LEMMA Joined ==
  ASSUME NEW a, NEW b
  PROVE  /\ <<a>> \o <<b>> = <<a, b>> /\ <<>> \o <<b>> = <<b>> /\ <<a>> \o <<>> = <<a>>
         /\ <<>> \o <<>> = <<>>
<1> DEFINE S == {a, b}
<1>1. <<a>> \in Seq(S) /\ <<b>> \in Seq(S) /\ <<>> \in Seq(S) /\ <<a, b>> \in Seq(S)
  OBVIOUS
<1>2. Len(<<a>>) = 1 /\ Len(<<b>>) = 1 /\ Len(<<a, b>>) = 2
      /\ <<a>>[1] = a /\ <<b>>[1] = b /\ <<a, b>>[1] = a /\ <<a, b>>[2] = b
  OBVIOUS
<1> HIDE DEF S
<1>3. /\ <<a>> \o <<b>> \in Seq(S) /\ Len(<<a>> \o <<b>>) = 2
      /\ (<<a>> \o <<b>>)[1] = a /\ (<<a>> \o <<b>>)[2] = b
  <2>1. /\ <<a>> \o <<b>> \in Seq(S) /\ Len(<<a>> \o <<b>>) = Len(<<a>>) + Len(<<b>>)
        /\ \A i \in 1 .. Len(<<a>>) + Len(<<b>>) :
             (<<a>> \o <<b>>)[i] = IF i <= Len(<<a>>) THEN <<a>>[i] ELSE <<b>>[i - Len(<<a>>)]
    BY <1>1, ConcatProperties
  <2> QED  BY <1>2, <2>1
<1>4. <<a>> \o <<b>> = <<a, b>>
  <2>1. \A i \in 1..2 : (<<a>> \o <<b>>)[i] = <<a, b>>[i]
    BY <1>2, <1>3
  <2> QED  BY <1>1, <1>2, <1>3, <2>1, SeqEqual
<1>5. <<>> \o <<b>> = <<b>> /\ <<a>> \o <<>> = <<a>> /\ <<>> \o <<>> = <<>>
  BY <1>1, ConcatEmptySeq
<1> QED  BY <1>4, <1>5

-----------------------------------------------------------------------------
(* The watchdogs.                                                          *)

\* What is left of the count and what has passed make up the timeout in force,
\* from the moment the count is loaded; CTRL has both bits or none.
Counting ==
  /\ since \in Nat
  /\ en \/ wdStep = "enable" => (Wd!Up => count + since = applied)
  /\ en => rstSys
  /\ wdStep = "trigger" => wdMask = "std"

WdtInv == Wd!TypeOK /\ Counting /\ Wd!Punctual

\* The longest timeout bounds them all.
LEMMA Longest ==
  ASSUME PartsAssumption
  PROVE  Wd!Longest \in Timeouts /\ Timeouts \subseteq 0..Wd!Longest
<1>1. Timeouts \subseteq Nat \ {0} /\ \E t \in Timeouts : \A u \in Timeouts : u <= t
  BY DEF PartsAssumption, Wd!WdtAssumption
<1>2. Wd!Longest \in Timeouts /\ \A u \in Timeouts : u <= Wd!Longest
  BY <1>1 DEF Wd!Longest
<1> QED  BY <1>1, <1>2

\* No watchdog runs at the start.
LEMMA WdtInit == Wd!Init => WdtInv
<1> SUFFICES ASSUME Wd!Init PROVE WdtInv
  OBVIOUS
<1>1. Wd!Longest \in Nat /\ MaxStarts \in Nat
  BY PartsAssumption, Longest DEF Wd!WdtAssumption
<1>2. reload \in 0..Wd!Longest /\ count \in 0..Wd!Longest /\ applied \in 0..Wd!Longest
      /\ starts \in 0..MaxStarts
  BY <1>1 DEF Wd!Init
<1>3. Wd!TypeOK
  BY <1>2 DEF Wd!Init, Wd!TypeOK
<1> QED  BY <1>3 DEF Wd!Init, WdtInv, Counting, Wd!Punctual

\* The count and the time since it was loaded move together.
LEMMA WdtKept == WdtInv /\ [Wd!Next]_(Wd!wdtVars) => WdtInv'
<1> SUFFICES ASSUME WdtInv, [Wd!Next]_(Wd!wdtVars) PROVE WdtInv'
  OBVIOUS
<1>0. Wd!Longest \in Nat /\ MaxStarts \in Nat /\ Timeouts \subseteq 0..Wd!Longest
  BY PartsAssumption, Longest DEF Wd!WdtAssumption
<1> USE <1>0 DEF WdtInv, Wd!TypeOK, Counting, Wd!Punctual, Wd!Up
<1>1. CASE Wd!Tick
  BY <1>1 DEF Wd!Tick
<1>2. ASSUME NEW t \in Timeouts, Wd!New(t) PROVE WdtInv'
  BY <1>2 DEF Wd!New
<1>3. CASE Wd!Start
  BY <1>3 DEF Wd!Start
<1>4. CASE Wd!Load
  BY <1>4 DEF Wd!Load, Wd!Restarted
<1>5. CASE Wd!Enable
  BY <1>5 DEF Wd!Enable
<1>6. CASE Wd!Feed
  BY <1>6 DEF Wd!Feed, Wd!Restarted
<1>7. CASE Wd!Stop
  BY <1>7 DEF Wd!Stop
<1>8. CASE Wd!Reboot
  BY <1>8 DEF Wd!Reboot
<1>9. CASE Wd!Trigger
  BY <1>9 DEF Wd!Trigger
<1>10. CASE UNCHANGED Wd!wdtVars
  BY <1>10 DEF Wd!wdtVars
<1> HIDE DEF WdtInv
<1> QED
  BY <1>1, <1>2, <1>3, <1>4, <1>5, <1>6, <1>7, <1>8, <1>9, <1>10 DEF Wd!Next

\* A watchdog resets the chip when the timeout in force has passed and not before,
\* whatever calls are made between the writes of a start.
THEOREM WdtRight == Wd!Spec => [](Wd!TypeOK /\ Wd!Punctual)
<1>1. WdtInv => Wd!TypeOK /\ Wd!Punctual
  BY DEF WdtInv
<1> QED  BY <1>1, WdtInit, WdtKept, PTL DEF Wd!Spec

-----------------------------------------------------------------------------
(* The register policies.                                                  *)

\* Once locked, the registers hold what the lists say, in as many banks as the
\* controller has.
Listing ==
  locked => \A p \in Po!Places : p[1] = 0 \/ Po!TwoBanks => regs[p] = Po!FromList(lists)[p]

PolicyInv == Po!TypeOK /\ Listing

\* A bit of a list has its place in a register.
LEMMA Folded ==
  ASSUME NEW l \in [Po!Groups -> SUBSET Ids]
  PROVE  Po!FromList(l) \in [Po!Places -> SUBSET (0..(Bank - 1))]
<1>1. Ids \subseteq Nat /\ Bank \in Nat \ {0}
  BY PartsAssumption DEF Po!PolicyAssumption
<1>2. ASSUME NEW g \in Po!Groups PROVE Po!Listed(l, g) \subseteq Nat
  BY <1>1, <1>2 DEF Po!Listed
<1>3. \A id \in Nat : id % Bank \in 0..(Bank - 1)
  BY <1>1
<1>4. ASSUME NEW p \in Po!Places
      PROVE  {id % Bank : id \in {i \in UNION {Po!Listed(l, g) : g \in {h \in Po!Groups : p[2] \in Po!Mask[h]}} :
                                          i \div Bank = p[1]}} \subseteq 0..(Bank - 1)
  BY <1>2, <1>3
<1> QED  BY <1>4 DEF Po!FromList

\* It holds at the start.
LEMMA PolicyInit == Po!Init => PolicyInv
<1> SUFFICES ASSUME Po!Init PROVE PolicyInv
  OBVIOUS
<1>1. Bank \in Nat \ {0}
  BY PartsAssumption DEF Po!PolicyAssumption
<1>2. lists \in [Po!Groups -> SUBSET Ids]
  BY DEF Po!Init
<1>3. regs \in [Po!Places -> SUBSET (0..(Bank - 1))]
  BY <1>1 DEF Po!Init
<1> QED  BY <1>2, <1>3 DEF Po!Init, PolicyInv, Listing, Po!TypeOK

\* Every step of a policy keeps it.
LEMMA PolicyKept == PolicyInv /\ [Po!Next]_(Po!policyVars) => PolicyInv'
<1> SUFFICES ASSUME PolicyInv, [Po!Next]_(Po!policyVars) PROVE PolicyInv'
  OBVIOUS
<1>1. CASE Po!Apply
  <2>1. lists \in [Po!Groups -> SUBSET Ids] /\ lists' = lists /\ maxId' = maxId
        /\ locked' = TRUE /\ second' = second /\ regs' = Po!Stored(lists)
    BY <1>1 DEF Po!Apply, PolicyInv, Po!TypeOK
  <2>2. Po!FromList(lists) \in [Po!Places -> SUBSET (0..(Bank - 1))]
    BY <2>1, Folded
  <2>3. Po!FromList(lists)' = Po!FromList(lists) /\ Po!TwoBanks' = Po!TwoBanks
    BY <2>1 DEF Po!FromList, Po!Listed, Po!TwoBanks
  <2>4. regs' \in [Po!Places -> SUBSET (0..(Bank - 1))]
    BY <2>1, <2>2 DEF Po!Stored, PolicyInv, Po!TypeOK
  <2>5. \A p \in Po!Places : p[1] = 0 \/ Po!TwoBanks => regs'[p] = Po!FromList(lists)[p]
    BY <2>1 DEF Po!Stored
  <2> QED  BY <2>1, <2>3, <2>4, <2>5 DEF PolicyInv, Listing, Po!TypeOK
<1>2. CASE Po!ApplyDefault
  BY <1>2 DEF Po!ApplyDefault, PolicyInv, Listing, Po!TypeOK, Po!TwoBanks, Po!FromList, Po!Listed
<1>3. CASE UNCHANGED Po!policyVars
  BY <1>3 DEF Po!policyVars, PolicyInv, Listing, Po!TypeOK, Po!TwoBanks, Po!FromList, Po!Listed
<1> QED  BY <1>1, <1>2, <1>3 DEF Po!Next

\* Two bits of one bank have places of their own.
LEMMA Unfolded ==
  ASSUME NEW i \in Nat, NEW j \in Nat, i \div Bank = j \div Bank, i % Bank = j % Bank
  PROVE  i = j
<1>1. Bank \in Nat \ {0}
  BY PartsAssumption DEF Po!PolicyAssumption
<1>2. i = ((i \div Bank) * Bank) + (i % Bank) /\ j = ((j \div Bank) * Bank) + (j % Bank)
  BY <1>1, Divided
<1> QED  BY <1>2

\* A register has the bit of id just if a list of a group that it stands for names id.
LEMMA PolicyListed == PolicyInv => Po!AsListed
<1> SUFFICES ASSUME PolicyInv, locked, NEW id \in 0..maxId
             PROVE  Po!Code(id) = UNION {Po!Mask[g] : g \in {h \in Po!Groups : id \in lists[h]}}
  BY DEF Po!AsListed
<1>1. /\ maxId \in Nat /\ maxId < 2 * Bank /\ Bank \in Nat \ {0}
      /\ lists \in [Po!Groups -> SUBSET Nat] /\ id \in Nat
  BY PartsAssumption DEF Po!PolicyAssumption, PolicyInv, Po!TypeOK
<1>2. id \div Bank \in 0..1 /\ (id \div Bank = 1 => Po!TwoBanks)
  BY <1>1 DEF Po!TwoBanks
<1>3. ASSUME NEW r \in 0..2
      PROVE  id % Bank \in regs[<<id \div Bank, r>>]
               <=> \E g \in Po!Groups : r \in Po!Mask[g] /\ id \in lists[g]
  <2> DEFINE p == <<id \div Bank, r>>
             named == UNION {Po!Listed(lists, g) : g \in {h \in Po!Groups : r \in Po!Mask[h]}}
  <2>1. p \in Po!Places /\ p[1] = id \div Bank /\ p[2] = r
    BY <1>2 DEF Po!Places, Po!Banks
  <2>2. regs[p] = {i % Bank : i \in {j \in named : j \div Bank = id \div Bank}}
    BY <1>2, <2>1 DEF PolicyInv, Listing, Po!FromList
  <2>3. named \subseteq Nat
    BY <1>1 DEF Po!Listed
  <2>4. id % Bank \in regs[p] <=> id \in named
    BY <1>1, <2>2, <2>3, Unfolded
  <2>5. id \in named <=> \E g \in Po!Groups : r \in Po!Mask[g] /\ id \in lists[g]
    BY <1>1 DEF Po!Listed
  <2> QED  BY <2>4, <2>5
<1>4. \A g \in Po!Groups : Po!Mask[g] \subseteq 0..2
  BY DEF Po!Groups, Po!Mask
<1> QED  BY <1>3, <1>4 DEF Po!Code

\* Every bit of a controller has the code of the groups that list it, whatever the
\* registers held before and whatever else is listed.
THEOREM PolicyRight == Po!Spec => [](Po!TypeOK /\ Po!AsListed)
<1>1. PolicyInv => Po!TypeOK
  BY DEF PolicyInv
<1> QED  BY <1>1, PolicyInit, PolicyKept, PolicyListed, PTL DEF Po!Spec

-----------------------------------------------------------------------------
(* The fans.                                                               *)

\* A division by more gives no more.
LEMMA LargerDivisor ==
  ASSUME NEW n \in Nat, NEW c \in Nat \ {0}, NEW d \in Nat \ {0}, c <= d
  PROVE  n \div d <= n \div c
<1> DEFINE q == n \div d
<1>1. q \in Nat /\ q <= n \div d
  BY Divided
<1> HIDE DEF q
<1>2. q * d <= n /\ q * c <= q * d /\ q * c \in Nat /\ q * d \in Nat
  BY <1>1, Quotient, Products
<1>3. q * c <= n
  BY <1>2
<1>4. q <= n \div c
  BY <1>1, <1>3, Quotient
<1> QED  BY <1>4 DEF q

\* The product of two positive numbers is positive.
LEMMA Positive ==
  ASSUME NEW m \in Nat \ {0}, NEW n \in Nat \ {0}
  PROVE  m * n \in Nat \ {0}
  OBVIOUS

\* What the duty register and the clock are made of, when the duty cycle was asked
\* for last.
Duty ==
  /\ pwAsked \in 1..99 => falling = (period * pwAsked) \div 100
  /\ pwAsked >= 100 => falling = 0
  /\ pwAsked # 0 => clkEn
  /\ pwAsked = 0 /\ "enable" \notin later => ~clkEn

\* What the registers are made of: the last requests.
Requested ==
  /\ target \in Targets \cup {0} /\ pwAsked \in 0..256 /\ clkEn \in BOOLEAN
  /\ fan = Pw!NoFan \/ \E r \in Rpms, p \in Pulses : fan = [rpm |-> r, ppr |-> p]
  /\ target # 0 => div = Pw!Divisor(target)
  /\ "frequency" \notin later /\ pwAsked # Pw!NoDuty => Duty
  /\ fan # Pw!NoFan => limit = Pw!FromRpm(fan.rpm, fan.ppr)

PwmInv == Pw!TypeOK /\ Requested

\* What is assumed of the timers' constants.
LEMMA PwmConstants ==
  /\ InputClock \in Nat \ {0} /\ PwmPeriod \in Nat \ {0} /\ DivMax \in Nat \ {0}
  /\ PwmPeriod >= 100 /\ Percents \subseteq 0..255
  /\ Threshold \in Nat \ {0} /\ Minute \in Nat \ {0}
  /\ Targets \subseteq Nat \ {0} /\ Rpms \subseteq Nat \ {0} /\ Pulses \subseteq Nat \ {0}
  /\ \A r \in Rpms : r >= Minute
  BY PartsAssumption DEF Pw!PwmAssumption

\* The fields hold what is put in them.
LEMMA Fields ==
  /\ \A hz \in Targets : Pw!Divisor(hz) \in 0..DivMax
  /\ \A r \in Rpms, p \in Pulses : Pw!FromRpm(r, p) \in 0..Threshold
<1>1. ASSUME NEW hz \in Targets PROVE Pw!Divisor(hz) \in 0..DivMax
  <2>1. InputClock \div (hz * PwmPeriod) \in Nat
    BY PwmConstants, Positive, Divided
  <2> QED  BY <2>1, PwmConstants DEF Pw!Divisor, Pw!Least
<1>2. ASSUME NEW r \in Rpms, NEW p \in Pulses PROVE Pw!FromRpm(r, p) \in 0..Threshold
  <2>1. r \div Minute \in Nat \ {0}
    <3>1. r \in Nat /\ 1 * Minute <= r
      BY PwmConstants
    <3>2. 1 <= r \div Minute /\ r \div Minute \in Nat
      BY <3>1, PwmConstants, Quotient, Divided
    <3> QED  BY <3>2
  <2>2. InputClock \div ((r \div Minute) * p) \in Nat
    BY <2>1, PwmConstants, Positive, Divided
  <2> QED  BY <2>2, PwmConstants DEF Pw!FromRpm, Pw!Least
<1> QED  BY <1>1, <1>2

\* The falling point lies in the period.
LEMMA FallsWithin ==
  ASSUME NEW n \in Nat, NEW percent \in Nat, percent <= 100
  PROVE  (n * percent) \div 100 \in 0..n
<1> DEFINE q == (n * percent) \div 100
<1>1. n * percent \in Nat /\ n * percent <= n * 100
  BY Products
<1>2. q \in Nat /\ q * 100 <= n * percent
  BY <1>1, Divided
<1> HIDE DEF q
<1>3. q <= n
  BY <1>1, <1>2
<1> QED  BY <1>2, <1>3 DEF q

\* It holds at the start.
LEMMA PwmInit == Pw!Init => PwmInv
<1> SUFFICES ASSUME Pw!Init PROVE PwmInv
  OBVIOUS
<1>1. Pw!TypeOK
  BY PwmConstants DEF Pw!Init, Pw!TypeOK
<1>2. target = 0 /\ pwAsked = 256 /\ clkEn = FALSE /\ fan = Pw!NoFan /\ Pw!NoDuty = 256
  BY DEF Pw!Init, Pw!NoDuty
<1>3. target \in Targets \cup {0} /\ pwAsked \in 0..256 /\ pwAsked = Pw!NoDuty
  BY <1>2
<1>4. clkEn \in BOOLEAN
  BY <1>2, Zenon
<1>5. Requested
  BY <1>2, <1>3, <1>4, Zenon DEF Requested
<1> QED  BY <1>1, <1>5 DEF PwmInv

\* Every step of a fan or its tachometer keeps it.
LEMMA PwmKept == PwmInv /\ [Pw!Next]_(Pw!pwmVars) => PwmInv'
<1> SUFFICES ASSUME PwmInv, [Pw!Next]_(Pw!pwmVars) PROVE PwmInv'
  OBVIOUS
<1>0. Pw!TypeOK /\ Requested
  BY DEF PwmInv
<1>1. ASSUME NEW hz \in Targets, Pw!SetFrequency(hz) PROVE PwmInv'
  <2>1. Pw!TypeOK'
    BY <1>0, <1>1, PwmConstants, Fields DEF Pw!SetFrequency, Pw!TypeOK
  <2>2. Requested'
    BY <1>0, <1>1, PwmConstants DEF Pw!SetFrequency, Requested, Pw!Divisor, Pw!FromRpm, Pw!NoFan
  <2> QED  BY <2>1, <2>2 DEF PwmInv
<1>2. ASSUME NEW p \in Percents, Pw!SetDuty(p) PROVE PwmInv'
  <2>1. p \in 0..255 /\ period \in Nat /\ period <= PwmPeriod
    BY <1>0, PwmConstants DEF Pw!TypeOK
  <2>2. Pw!Falling(p) \in 0..PwmPeriod
    BY <2>1, PwmConstants, FallsWithin DEF Pw!Falling
  <2>3. Pw!TypeOK'
    BY <1>0, <1>2, <2>2 DEF Pw!SetDuty, Pw!TypeOK
  <2>4. /\ p \in 1..99 => Pw!Falling(p) = (period * p) \div 100
        /\ p >= 100 => Pw!Falling(p) = 0
    BY <2>1 DEF Pw!Falling
  <2>5. pwAsked' = p /\ falling' = Pw!Falling(p) /\ period' = period /\ clkEn' = (p # 0)
    BY <1>2 DEF Pw!SetDuty
  <2>6. Duty'
    BY <2>4, <2>5 DEF Duty
  <2>7. UNCHANGED <<target, div, fan, limit>>
    BY <1>2 DEF Pw!SetDuty
  <2>8. Requested'
    BY <1>0, <2>1, <2>5, <2>6, <2>7 DEF Requested, Pw!Divisor, Pw!FromRpm, Pw!NoFan
  <2> QED  BY <2>3, <2>8 DEF PwmInv
<1>3. CASE Pw!Switch
  <2>1. Pw!TypeOK'
    BY <1>0, <1>3 DEF Pw!Switch, Pw!TypeOK
  <2>2. UNCHANGED <<target, div, period, falling, pwAsked, fan, limit>>
    BY <1>3 DEF Pw!Switch
  <2>3. \/ clkEn' = TRUE /\ later' = later \cup {"enable"}
        \/ clkEn' = clkEn /\ later' = later
    BY <1>3 DEF Pw!Switch
  <2>4. Duty /\ "frequency" \notin later => Duty'
    BY <2>2, <2>3 DEF Duty
  <2>5. "frequency" \in later' <=> "frequency" \in later
    BY <2>3
  <2>6. Requested'
    BY <1>0, <2>2, <2>3, <2>4, <2>5 DEF Requested, Pw!Divisor, Pw!FromRpm, Pw!NoFan, Pw!NoDuty
  <2> QED  BY <2>1, <2>6 DEF PwmInv
<1>4. CASE Pw!TachEnable
  <2>1. Threshold \div 2 \in 0..Threshold
    BY PwmConstants
  <2>2. Pw!TypeOK'
    BY <1>0, <1>4, <2>1 DEF Pw!TachEnable, Pw!TypeOK
  <2>3. Requested'
    BY <1>0, <1>4 DEF Pw!TachEnable, Requested, Duty, Pw!Divisor, Pw!FromRpm, Pw!NoFan
  <2> QED  BY <2>2, <2>3 DEF PwmInv
<1>5. CASE Pw!TachDisable \/ UNCHANGED Pw!pwmVars
  BY <1>0, <1>5 DEF Pw!TachDisable, Pw!pwmVars, Pw!TypeOK, Requested, Duty, Pw!Divisor, Pw!FromRpm, Pw!NoFan, Pw!NoDuty, PwmInv
<1>6. ASSUME NEW r \in Rpms, NEW p \in Pulses, Pw!SetThreshold(r, p) PROVE PwmInv'
  <2>1. Pw!TypeOK'
    BY <1>0, <1>6, Fields DEF Pw!SetThreshold, Pw!TypeOK
  <2>2. Requested'
    BY <1>0, <1>6 DEF Pw!SetThreshold, Requested, Duty, Pw!Divisor, Pw!FromRpm, Pw!NoFan
  <2> QED  BY <2>1, <2>2 DEF PwmInv
<1> QED  BY <1>1, <1>2, <1>3, <1>4, <1>5, <1>6 DEF Pw!Next

\* The divisor keeps the output within one step of the frequency.
LEMMA InStep ==
  ASSUME NEW hz \in Targets, NEW d, d = Pw!Divisor(hz)
  PROVE  /\ d < DivMax => InputClock < hz * PwmPeriod * (d + 2)
         /\ d > 0 => InputClock >= hz * PwmPeriod * (d + 1)
<1> DEFINE n == hz * PwmPeriod
           w == InputClock \div n
<1>1. n \in Nat \ {0}
  BY PwmConstants, Positive
<1>2. d = Pw!Least(IF w = 0 THEN 0 ELSE w - 1, DivMax)
  BY DEF Pw!Divisor
<1> HIDE DEF n
<1>3. w \in Nat /\ \A q \in Nat : q <= w <=> q * n <= InputClock
  BY <1>1, PwmConstants, Divided, Quotient
<1> HIDE DEF w
<1>4. d \in Nat /\ (d < DivMax => w < d + 2) /\ (d > 0 => d + 1 <= w)
  BY <1>2, <1>3, PwmConstants DEF Pw!Least
<1>5. d < DivMax => InputClock < n * (d + 2)
  <2> SUFFICES ASSUME d < DivMax PROVE ~((d + 2) * n <= InputClock) /\ (d + 2) * n \in Nat /\ (d + 2) * n = n * (d + 2)
    BY PwmConstants
  <2>1. d + 2 \in Nat /\ ~(d + 2 <= w)
    BY <1>3, <1>4
  <2> QED  BY <1>1, <1>3, <2>1, Products
<1>6. d > 0 => InputClock >= n * (d + 1)
  <2> SUFFICES ASSUME d > 0 PROVE (d + 1) * n <= InputClock /\ (d + 1) * n = n * (d + 1)
    BY <1>4
  <2>1. d \in Nat /\ d + 1 \in Nat /\ d + 1 <= w
    BY <1>4
  <2> QED  BY <1>1, <1>3, <2>1
<1> QED  BY <1>5, <1>6 DEF n

\* A threshold lets every fan at its least speed or above count as turning.
LEMMA NotStopped ==
  ASSUME NEW r \in Rpms, NEW p \in Pulses, NEW faster \in Nat,
         Pw!Cycles(r, p) <= Threshold
  PROVE  Pw!Cycles(r + faster, p) <= Pw!FromRpm(r, p)
<1> DEFINE k == r \div Minute
           total == InputClock * Minute
           q == total \div ((r + faster) * p)
<1>1. r \in Nat \ {0} /\ p \in Nat \ {0} /\ Minute \in Nat \ {0} /\ InputClock \in Nat \ {0}
      /\ Threshold \in Nat /\ r >= Minute
  BY PwmConstants
<1>2. total \in Nat \ {0} /\ r * p \in Nat \ {0} /\ (r + faster) * p \in Nat \ {0}
  BY <1>1, Positive
<1>3. k \in Nat \ {0} /\ k * Minute <= r
  <2>1. 1 * Minute <= r
    BY <1>1
  <2>2. r \div Minute \in Nat
    BY <1>1, Divided
  <2>3. 1 <= r \div Minute
    BY <1>1, <2>1, Quotient
  <2>4. 1 <= k /\ k \in Nat /\ k <= r \div Minute
    BY <2>2, <2>3
  <2> HIDE DEF k
  <2>5. k * Minute <= r
    BY <1>1, <2>4, Quotient
  <2> QED  BY <2>4, <2>5
<1>4. q \in Nat /\ q <= total \div ((r + faster) * p)
  <2>1. q \in Nat
    BY <1>2, Divided
  <2> QED  BY <2>1
<1>5. q <= Threshold
  <2>1. r * p <= (r + faster) * p
    BY <1>1, Products
  <2>2. q <= total \div (r * p)
    BY <1>2, <2>1, LargerDivisor
  <2>3. total \div (r * p) \in Nat /\ total \div (r * p) <= Threshold
    BY <1>2, Divided DEF Pw!Cycles
  <2> QED  BY <1>1, <1>4, <2>2, <2>3
<1>6. q * ((r + faster) * p) <= total
  BY <1>2, <1>4, Quotient
<1> HIDE DEF q, k, total
<1>7. q * (k * p) <= InputClock
  <2>1. k * Minute <= r + faster /\ k * Minute \in Nat
    BY <1>1, <1>3, Products
  <2>2. (k * Minute) * p <= (r + faster) * p /\ (k * Minute) * p \in Nat
    BY <1>1, <2>1, Products
  <2>3. q * ((k * Minute) * p) <= q * ((r + faster) * p) /\ q * ((k * Minute) * p) \in Nat
        /\ q * ((r + faster) * p) \in Nat
    BY <1>2, <1>4, <2>2, Products
  <2>4. q * ((k * Minute) * p) = (q * (k * p)) * Minute
    BY <1>1, <1>3, <1>4
  <2>5. q * (k * p) \in Nat
    BY <1>1, <1>3, <1>4, Products
  <2>6. (q * (k * p)) * Minute <= InputClock * Minute
    BY <1>2, <1>6, <2>3, <2>4 DEF total
  <2>7. SUFFICES ASSUME InputClock < q * (k * p) PROVE FALSE
    BY <1>1, <2>5
  <2>8. (InputClock + 1) * Minute <= (q * (k * p)) * Minute
    BY <1>1, <2>5, <2>7, Products
  <2>9. (InputClock + 1) * Minute = InputClock * Minute + Minute
    BY <1>1
  <2> QED  BY <1>1, <1>2, <2>3, <2>4, <2>6, <2>8, <2>9 DEF total
<1>8. q <= InputClock \div (k * p)
  BY <1>1, <1>3, <1>4, <1>7, Positive, Quotient
<1>9. Pw!FromRpm(r, p) = Pw!Least(InputClock \div (k * p), Threshold)
  BY DEF Pw!FromRpm, k
<1>10. Pw!Cycles(r + faster, p) = q
  BY DEF Pw!Cycles, q, total
<1> QED  BY <1>5, <1>8, <1>9, <1>10 DEF Pw!Least

\* What was asked for last is what the registers make of it.
LEMMA PwmAsked == PwmInv => Pw!AsAsked
<1> SUFFICES ASSUME Pw!TypeOK, Requested PROVE Pw!AsAsked
  BY DEF PwmInv
<1>1. target # 0 =>
       /\ div < DivMax => InputClock < target * PwmPeriod * (div + 2)
       /\ div > 0 => InputClock >= target * PwmPeriod * (div + 1)
  BY InStep DEF Requested
<1>2. ASSUME pwAsked # Pw!NoDuty, period = PwmPeriod, ~Pw!FrequencyLast, ~Pw!StartedAgain
      PROVE  Pw!ActiveFor(Pw!Least(pwAsked, 100))
  <2>1. Duty /\ pwAsked \in 0..256 /\ clkEn \in BOOLEAN /\ PwmPeriod \in Nat /\ PwmPeriod >= 100
    BY <1>2, PwmConstants DEF Requested, Pw!FrequencyLast
  <2>2. CASE pwAsked = 0
    <3>1. ~clkEn
      BY <1>2, <2>1, <2>2 DEF Duty, Pw!StartedAgain
    <3>2. Pw!Active = 0 /\ Pw!Least(pwAsked, 100) = 0 /\ 0 * period = 0
      BY <1>2, <2>1, <2>2, <3>1 DEF Pw!Active, Pw!Least
    <3> QED  BY <3>2 DEF Pw!ActiveFor
  <2>3. CASE pwAsked \in 1..99
    <3> DEFINE n == PwmPeriod * pwAsked
    <3>1. 100 * 1 <= PwmPeriod * 1 /\ PwmPeriod * 1 <= PwmPeriod * pwAsked
      BY <2>1, <2>3, Products
    <3>2. n \in Nat /\ n = pwAsked * PwmPeriod /\ n >= 100
      BY <2>1, <2>3, <3>1, Products
    <3>3. falling = n \div 100
      BY <1>2, <2>1, <2>3 DEF Duty
    <3> HIDE DEF n
    <3>4. falling * 100 <= n /\ n < (falling + 1) * 100 /\ falling # 0
      BY <3>2, <3>3
    <3>5. Pw!Active = falling /\ Pw!Least(pwAsked, 100) = pwAsked
      BY <2>1, <2>3, <3>4 DEF Duty, Pw!Active, Pw!Least
    <3> QED  BY <1>2, <3>2, <3>4, <3>5 DEF Pw!ActiveFor
  <2>4. CASE pwAsked >= 100
    <3>1. Pw!Active = PwmPeriod /\ Pw!Least(pwAsked, 100) = 100
      BY <1>2, <2>1, <2>4 DEF Duty, Pw!Active, Pw!Least
    <3> QED  BY <1>2, <2>1, <3>1 DEF Pw!ActiveFor
  <2> QED  BY <2>1, <2>2, <2>3, <2>4
<1>3. ASSUME fan # Pw!NoFan, Pw!Cycles(fan.rpm, fan.ppr) <= Threshold, NEW faster \in 0..2
      PROVE  Pw!Cycles(fan.rpm + faster, fan.ppr) <= limit
  <2>1. PICK r \in Rpms, p \in Pulses : fan = [rpm |-> r, ppr |-> p]
    BY <1>3 DEF Requested
  <2>2. fan.rpm = r /\ fan.ppr = p /\ limit = Pw!FromRpm(r, p) /\ faster \in Nat
    BY <1>3, <2>1 DEF Requested
  <2>3. Pw!Cycles(r, p) <= Threshold
    BY <1>3, <2>2
  <2>4. Pw!Cycles(r + faster, p) <= Pw!FromRpm(r, p)
    BY <2>2, <2>3, NotStopped
  <2> QED  BY <2>2, <2>4
<1> QED  BY <1>1, <1>2, <1>3 DEF Pw!AsAsked

\* The arithmetic of the fans rounds the way it must, for every clock and request.
THEOREM PwmRight == Pw!Spec => [](Pw!TypeOK /\ Pw!AsAsked)
<1>1. PwmInv => Pw!TypeOK
  BY DEF PwmInv
<1> QED  BY <1>1, PwmInit, PwmKept, PwmAsked, PTL DEF Pw!Spec

-----------------------------------------------------------------------------
(* The bus filters.                                                        *)

\* What is assumed of the filters' constants.
LEMMA FilterConstants ==
  /\ Entries \in Nat \ {0} /\ Bits \in Nat \ {0} /\ Narrow \in Nat \ {0}
  /\ Unit \in Nat \ {0} /\ MaxSize \in Nat \ {0} /\ Addresses \in Nat \ {0}
  BY PartsAssumption DEF Fi!FiltersAssumption

\* A division of more gives no less.
LEMMA LargerDividend ==
  ASSUME NEW m \in Nat, NEW n \in Nat, NEW d \in Nat \ {0}, m <= n
  PROVE  m \div d <= n \div d
<1> DEFINE q == m \div d
<1>1. q \in Nat /\ q * d <= m
  <2>1. q \in Nat /\ m = q * d + (m % d) /\ m % d \in Nat
    BY Divided
  <2> HIDE DEF q
  <2>2. q * d \in Nat
    BY <2>1, Products
  <2> QED  BY <2>1, <2>2
<1> HIDE DEF q
<1>2. q * d <= n
  BY <1>1, Products
<1>3. q <= n \div d
  BY <1>1, <1>2, Quotient
<1> QED  BY <1>3 DEF q

\* The regions of an entry are regions of the table, and those of one entry.
LEMMA EntryRegions ==
  ASSUME NEW e \in 0..(Entries - 1)
  PROVE  /\ Fi!EntryOf(e) \subseteq Fi!Regions
         /\ \A n \in 0..(Bits - 1) : e * Bits + n \in Fi!Regions
<1>1. (e + 1) * Bits <= Entries * Bits /\ e * Bits \in Nat /\ Entries * Bits \in Nat
  BY FilterConstants, Products
<1>2. (e + 1) * Bits = e * Bits + Bits
  BY FilterConstants
<1> QED  BY <1>1, <1>2, FilterConstants DEF Fi!EntryOf, Fi!Regions

\* The regions that `bytes` bytes take, their entries and what is left of the last.
RegionsOf(bytes) == (bytes + Unit - 1) \div Unit
FullOf(bytes) == (RegionsOf(bytes) \div Bits) % Narrow

\* How many entries, full ones and remaining bits protect n bytes.
LEMMA Sized ==
  ASSUME NEW n \in 1..MaxSize
  PROVE  /\ RegionsOf(n) \in Nat /\ FullOf(n) \in Nat /\ FullOf(n) = RegionsOf(n) \div Bits
         /\ RegionsOf(n) = FullOf(n) * Bits + (RegionsOf(n) % Bits)
         /\ RegionsOf(n) % Bits \in 0..(Bits - 1)
         /\ \A r \in Nat : r * Unit < n => r < RegionsOf(n)
<1> DEFINE most == (MaxSize + Unit - 1) \div Unit
           m == RegionsOf(n)
           f == m \div Bits
<1>1. n + Unit - 1 \in Nat /\ MaxSize + Unit - 1 \in Nat /\ n + Unit - 1 <= MaxSize + Unit - 1
  BY FilterConstants
<1>2. m \in Nat /\ most \in Nat
  BY <1>1, FilterConstants, Divided DEF RegionsOf
<1>3. m <= most
  BY <1>1, FilterConstants, LargerDividend DEF RegionsOf
<1>4. \A r \in Nat : r * Unit < n => r + 1 <= m
  <2> SUFFICES ASSUME NEW r \in Nat, r * Unit < n PROVE r + 1 <= m
    OBVIOUS
  <2>1. (r + 1) * Unit = r * Unit + Unit /\ r * Unit \in Nat
    BY FilterConstants, Products
  <2>2. (r + 1) * Unit <= n + Unit - 1
    BY <2>1, FilterConstants
  <2> QED  BY <1>1, <2>2, FilterConstants, Quotient DEF RegionsOf
<1> HIDE DEF m
<1>5. f \in Nat /\ m % Bits \in 0..(Bits - 1) /\ m = f * Bits + (m % Bits)
  BY <1>2, FilterConstants, Divided
<1>6. most \div Bits \in Nat /\ f <= most \div Bits /\ most \div Bits < Narrow
  BY <1>2, <1>3, FilterConstants, LargerDividend, Divided, SizesFit
<1>7. f \in 0..(Narrow - 1)
  BY <1>5, <1>6, FilterConstants
<1> HIDE DEF f
<1>8. f % Narrow = f
  BY <1>7, FilterConstants
<1>9. FullOf(n) = f
  BY <1>8 DEF FullOf, f, m
<1> QED  BY <1>2, <1>4, <1>5, <1>9 DEF m, f

\* It covers regions of the table only, and all that hold a byte below the size.
LEMMA CoversAll ==
  ASSUME NEW n \in 1..MaxSize
  PROVE  /\ Fi!Covered(n) \subseteq Fi!Regions
         /\ \A r \in Fi!Regions : r * Unit < n => r \in Fi!Covered(n)
<1> DEFINE m == RegionsOf(n)
           f == FullOf(n)
           t == m % Bits
           whole == UNION {Fi!EntryOf(e) : e \in {x \in 0..(Entries - 1) : x < f}}
           rest == IF f < Entries THEN (f * Bits)..(f * Bits + t - 1) ELSE {}
<1>1. /\ m \in Nat /\ f \in Nat /\ t \in 0..(Bits - 1) /\ m = f * Bits + t
      /\ \A r \in Nat : r * Unit < n => r < m
  BY Sized
<1>2. Fi!Covered(n) = whole \cup rest
  BY DEF Fi!Covered, FullOf, RegionsOf
<1> HIDE DEF m, f, t
<1>3. whole \subseteq Fi!Regions
  BY EntryRegions
<1>4. rest \subseteq Fi!Regions
  <2> SUFFICES ASSUME f < Entries, NEW r \in (f * Bits)..(f * Bits + t - 1) PROVE r \in Fi!Regions
    OBVIOUS
  <2>1. f * Bits \in Nat
    BY <1>1, FilterConstants, Products
  <2>2. r - f * Bits \in 0..(Bits - 1) /\ r = f * Bits + (r - f * Bits)
    BY <1>1, <2>1, FilterConstants
  <2>3. f \in 0..(Entries - 1)
    BY <1>1, FilterConstants
  <2> QED  BY <2>2, <2>3, EntryRegions
<1>5. ASSUME NEW r \in Fi!Regions, r * Unit < n PROVE r \in whole \cup rest
  <2> DEFINE e == r \div Bits
             b == r % Bits
  <2>1. r \in Nat /\ r < Entries * Bits /\ r < m
    <3>1. Entries * Bits \in Nat
      BY FilterConstants, Products
    <3> QED  BY <1>1, <1>5, <3>1 DEF Fi!Regions
  <2>2. e \in Nat /\ b \in 0..(Bits - 1) /\ r = e * Bits + b
    BY <2>1, FilterConstants, Divided
  <2> HIDE DEF e, b
  <2>3. e * Bits \in Nat /\ f * Bits \in Nat /\ Entries * Bits \in Nat
    BY <1>1, <2>2, FilterConstants, Products
  <2>4. e < Entries
    <3> SUFFICES ASSUME Entries <= e PROVE FALSE
      BY <2>2, FilterConstants
    <3>1. Entries * Bits <= e * Bits
      BY <2>2, FilterConstants, Products
    <3> QED  BY <2>1, <2>2, <2>3, <3>1, FilterConstants
  <2>5. CASE e < f
    <3>1. r \in Fi!EntryOf(e)
      BY <2>2, <2>3, FilterConstants DEF Fi!EntryOf
    <3>2. e \in {x \in 0..(Entries - 1) : x < f}
      BY <2>2, <2>4, <2>5, FilterConstants
    <3> QED  BY <3>1, <3>2
  <2>6. CASE f <= e
    <3>1. f * Bits <= e * Bits /\ f < Entries
      BY <1>1, <2>2, <2>4, <2>6, FilterConstants, Products
    <3>2. r \in (f * Bits)..(f * Bits + t - 1)
      BY <1>1, <2>1, <2>2, <2>3, <3>1
    <3> QED  BY <3>1, <3>2
  <2> QED  BY <1>1, <2>2, <2>5, <2>6
<1> QED  BY <1>2, <1>3, <1>4, <1>5

\* The bits of the addresses.
Places == (0..(Addresses - 1)) \X Fi!Dirs
Image(s) == {Fi!BitOf(p[1], p[2]) : p \in s}

\* Every address and direction of a bus has a bit of its own.
LEMMA BitPlaces ==
  /\ \A p \in Places : Fi!BitOf(p[1], p[2]) = p[1] * 2 + p[2]
  /\ \A p \in Places : Fi!BitOf(p[1], p[2]) \in 0..(2 * Addresses - 1)
  /\ \A p, q \in Places : Fi!BitOf(p[1], p[2]) = Fi!BitOf(q[1], q[2]) => p = q
  /\ Image(Places) = 0..(2 * Addresses - 1)
<1>1. ASSUME NEW a \in 0..(Addresses - 1), NEW d \in Fi!Dirs
      PROVE  Fi!BitOf(a, d) = a * 2 + d /\ Fi!BitOf(a, d) \in 0..(2 * Addresses - 1)
  <2>1. a % Addresses = a
    BY FilterConstants
  <2> QED  BY <2>1, FilterConstants DEF Fi!BitOf, Fi!Dirs
<1>2. \A p \in Places : p[1] \in 0..(Addresses - 1) /\ p[2] \in Fi!Dirs /\ p = <<p[1], p[2]>>
  BY DEF Places
<1>3. \A p \in Places : Fi!BitOf(p[1], p[2]) = p[1] * 2 + p[2]
                        /\ Fi!BitOf(p[1], p[2]) \in 0..(2 * Addresses - 1)
  BY <1>1, <1>2
<1>4. ASSUME NEW p \in Places, NEW q \in Places, Fi!BitOf(p[1], p[2]) = Fi!BitOf(q[1], q[2])
      PROVE  p = q
  <2>1. p[1] * 2 + p[2] = q[1] * 2 + q[2] /\ p[1] \in Nat /\ q[1] \in Nat
        /\ p[2] \in 0..1 /\ q[2] \in 0..1
    BY <1>2, <1>3, <1>4, FilterConstants DEF Fi!Dirs
  <2>2. p[1] = q[1] /\ p[2] = q[2]
    BY <2>1
  <2> QED  BY <1>2, <2>2
<1>5. ASSUME NEW n \in 0..(2 * Addresses - 1) PROVE n \in Image(Places)
  <2>1. n \div 2 \in 0..(Addresses - 1) /\ n % 2 \in Fi!Dirs /\ n = (n \div 2) * 2 + (n % 2)
    BY FilterConstants DEF Fi!Dirs
  <2>2. <<n \div 2, n % 2>> \in Places
    BY <2>1 DEF Places
  <2>3. Fi!BitOf(<<n \div 2, n % 2>>[1], <<n \div 2, n % 2>>[2]) = n
    BY <1>1, <2>1
  <2> QED  BY <2>2, <2>3 DEF Image
<1>6. Image(Places) \subseteq 0..(2 * Addresses - 1)
  BY <1>3 DEF Image
<1> QED  BY <1>3, <1>4, <1>5, <1>6

\* The bits of sets of places: they join and part as the sets do.
LEMMA Images ==
  \A s, t \in SUBSET Places :
     /\ Image(s) \subseteq 0..(2 * Addresses - 1)
     /\ Image(s \cup t) = Image(s) \cup Image(t)
     /\ Image(s \ t) = Image(s) \ Image(t)
<1> SUFFICES ASSUME NEW s \in SUBSET Places, NEW t \in SUBSET Places
             PROVE  /\ Image(s) \subseteq 0..(2 * Addresses - 1)
                    /\ Image(s \cup t) = Image(s) \cup Image(t)
                    /\ Image(s \ t) = Image(s) \ Image(t)
  OBVIOUS
<1>1. Image(s) \subseteq 0..(2 * Addresses - 1)
  BY BitPlaces DEF Image
<1>2. Image(s \cup t) = Image(s) \cup Image(t)
  BY DEF Image
<1>3. Image(s \ t) \subseteq Image(s) \ Image(t)
  BY BitPlaces DEF Image
<1>4. Image(s) \ Image(t) \subseteq Image(s \ t)
  BY DEF Image
<1> QED  BY <1>1, <1>2, <1>3, <1>4

\* An address has a bit for each direction.
LEMMA ImageOf ==
  ASSUME NEW a \in 0..(Addresses - 1), NEW dirs \in SUBSET Fi!Dirs
  PROVE  {a} \X dirs \in SUBSET Places /\ Image({a} \X dirs) = {Fi!BitOf(a, d) : d \in dirs}
<1>1. {a} \X dirs \in SUBSET Places
  BY DEF Places
<1>2. Image({a} \X dirs) \subseteq {Fi!BitOf(a, d) : d \in dirs}
  BY DEF Image
<1>3. ASSUME NEW d \in dirs PROVE Fi!BitOf(a, d) \in Image({a} \X dirs)
  <2>1. <<a, d>> \in {a} \X dirs /\ <<a, d>>[1] = a /\ <<a, d>>[2] = d
    OBVIOUS
  <2> QED  BY <2>1 DEF Image
<1> QED  BY <1>1, <1>2, <1>3

\* The types of what TypeOK leaves out, and the two properties.
Guarding ==
  /\ size \in 0..MaxSize
  /\ \A r \in Fi!Regions : r * Unit < size => r \in table["W"]
Letting ==
  /\ granted \in [Buses -> SUBSET Places] /\ irqEn \in [Buses -> BOOLEAN] /\ word \in [Buses -> SUBSET Nat]
  /\ \A b \in Buses : word[b] = Image(granted[b])
  /\ \A b \in Buses : irqEn[b] <=> b \in fiMask
FiltersInv == Fi!TypeOK /\ Guarding /\ Letting

\* The invariant holds at the start.
LEMMA FiltersInit == Fi!Init => FiltersInv
<1> SUFFICES ASSUME Fi!Init PROVE FiltersInv
  OBVIOUS
<1>1. Image({}) = {}
  BY DEF Image
<1>2. ASSUME NEW r \in Fi!Regions PROVE ~(r * Unit < 0)
  <2>1. Entries * Bits \in Nat /\ r \in Nat
    BY FilterConstants, Products DEF Fi!Regions
  <2> QED  BY <2>1, FilterConstants, Products
<1>3. Guarding
  BY <1>2, FilterConstants DEF Fi!Init, Guarding
<1>4. Letting
  BY <1>1 DEF Fi!Init, Letting
<1>5. Fi!TypeOK
  BY DEF Fi!Init, Fi!TypeOK
<1> QED  BY <1>3, <1>4, <1>5 DEF FiltersInv

\* The calls of the SPI monitor keep it; of the table, only what they write changes.
LEMMA MonitorKept == FiltersInv /\ Fi!MonitorNext => FiltersInv'
<1> SUFFICES ASSUME Fi!TypeOK, Guarding, Letting, Fi!MonitorNext PROVE FiltersInv'
  BY DEF FiltersInv
<1>1. Letting' /\ UNCHANGED <<fiPending, word>>
  BY DEF Fi!MonitorNext, Fi!SetPassthrough, Fi!SetFilterEnable, Fi!ClearCommandTable, Fi!SelectTable,
         Fi!AllowCommand, Fi!BlockCommand, Fi!SetAddressTable, Fi!Protect, Fi!busVars, Letting
<1>2. CASE Fi!SetPassthrough \/ Fi!SetFilterEnable
  <2>1. fiPass' \subseteq {"single", "multi", "filter"}
        /\ UNCHANGED <<select, table, commands, size>>
    BY <1>2 DEF Fi!SetPassthrough, Fi!SetFilterEnable, Fi!TypeOK
  <2> QED  BY <1>1, <2>1 DEF FiltersInv, Fi!TypeOK, Guarding
<1>3. CASE Fi!ClearCommandTable \/ \E s \in Slots : Fi!AllowCommand(s) \/ Fi!BlockCommand(s)
  <2>1. commands' \in [Slots -> Opcodes \cup {Fi!Nothing}] /\ UNCHANGED <<fiPass, select, table, size>>
    BY <1>3 DEF Fi!ClearCommandTable, Fi!AllowCommand, Fi!BlockCommand, Fi!TypeOK
  <2> QED  BY <1>1, <2>1 DEF FiltersInv, Fi!TypeOK, Guarding
<1>4. CASE Fi!SelectTable
  BY <1>1, <1>4 DEF Fi!SelectTable, FiltersInv, Fi!TypeOK, Guarding
<1>5. ASSUME NEW e \in 0..(Entries - 1), Fi!SetAddressTable(e) PROVE FiltersInv'
  <2>1. PICK bits \in {{}, Fi!EntryOf(e)} :
          table' = [table EXCEPT ![select] = (table[select] \ Fi!EntryOf(e)) \cup bits]
    BY <1>5 DEF Fi!SetAddressTable
  <2>2. table' \in [{"W", "R"} -> SUBSET Fi!Regions]
    BY <2>1, EntryRegions DEF Fi!TypeOK
  <2>3. Fi!TypeOK'
    BY <1>1, <1>5, <2>2 DEF Fi!SetAddressTable, Fi!TypeOK
  <2>4. CASE select = "W"
    <3>1. size' = 0
      BY <1>5, <2>4 DEF Fi!SetAddressTable
    <3>2. ASSUME NEW r \in Fi!Regions PROVE ~(r * Unit < 0)
      <4>1. Entries * Bits \in Nat /\ r \in Nat
        BY FilterConstants, Products DEF Fi!Regions
      <4> QED  BY <4>1, FilterConstants, Products
    <3> QED  BY <1>1, <2>3, <3>1, <3>2, FilterConstants DEF FiltersInv, Guarding
  <2>5. CASE select # "W"
    <3>1. size' = size /\ table'["W"] = table["W"]
      BY <1>5, <2>1, <2>5 DEF Fi!SetAddressTable, Fi!TypeOK
    <3> QED  BY <1>1, <2>3, <3>1 DEF FiltersInv, Guarding
  <2> QED  BY <2>4, <2>5
<1>6. ASSUME NEW n \in 1..MaxSize, Fi!Protect(n) PROVE FiltersInv'
  <2>1. table' = [table EXCEPT !["W"] = (table["W"] \ Fi!Written(n)) \cup Fi!Covered(n)]
        /\ size' = n /\ select' = "W" /\ UNCHANGED <<fiPass, commands>>
    BY <1>6 DEF Fi!Protect
  <2>2. table' \in [{"W", "R"} -> SUBSET Fi!Regions] /\ Fi!Covered(n) \subseteq table'["W"]
    BY <2>1, CoversAll DEF Fi!TypeOK
  <2>3. Guarding'
    BY <2>1, <2>2, CoversAll, FilterConstants DEF Guarding
  <2> QED  BY <1>1, <2>1, <2>2, <2>3 DEF FiltersInv, Fi!TypeOK
<1> QED  BY <1>2, <1>3, <1>4, <1>5, <1>6 DEF Fi!MonitorNext

\* The calls of the SMBus filter keep it.
LEMMA BusKept == FiltersInv /\ (Fi!BusNext \/ Fi!Block \/ Fi!ModifyIrq) => FiltersInv'
<1> SUFFICES ASSUME Fi!TypeOK, Guarding, Letting, Fi!BusNext \/ Fi!Block \/ Fi!ModifyIrq PROVE FiltersInv'
  BY DEF FiltersInv
<1>1. CASE Fi!Block \/ Fi!ModifyIrq
  <2>1. fiPending' \subseteq Fi!Events /\ UNCHANGED <<fiPass, select, table, commands, size, word, filter, irqEn, fiMask, granted>>
    BY <1>1 DEF Fi!Block, Fi!ModifyIrq, Fi!TypeOK, Fi!engineVars, Fi!busVars
  <2> QED  BY <2>1 DEF FiltersInv, Fi!TypeOK, Guarding, Letting
<1>2. CASE Fi!BusNext
  <2> PICK b \in Buses : \/ Fi!InitBus(b) \/ Fi!Enable(b) \/ Fi!Disable(b) \/ Fi!Fill(b)
                         \/ \E addr \in 0..(Addresses - 1) : Fi!AllowAddr(b, addr) \/ Fi!BlockAddr(b, addr)
    BY <1>2 DEF Fi!BusNext
  <2>1. UNCHANGED <<fiPass, select, table, commands, size, fiPending>>
    BY DEF Fi!InitBus, Fi!Enable, Fi!Disable, Fi!Fill, Fi!AllowAddr, Fi!BlockAddr, Fi!engineVars
  <2>2. Guarding'
    BY <2>1 DEF Guarding
  <2>3. SUFFICES Letting'
    <3>1. Letting' => word' \in [Buses -> SUBSET (0..(2 * Addresses - 1))]
      <4> SUFFICES ASSUME Letting', NEW c \in Buses PROVE word'[c] \subseteq 0..(2 * Addresses - 1)
        BY DEF Letting
      <4>1. granted'[c] \in SUBSET Places /\ word'[c] = Image(granted'[c])
        BY DEF Letting, Image
      <4> QED  BY <4>1, Images
    <3> QED  BY <2>1, <2>2, <2>3, <3>1 DEF FiltersInv, Fi!TypeOK
  <2>4. CASE Fi!InitBus(b) \/ Fi!Enable(b) \/ Fi!Disable(b)
    <3>1. UNCHANGED <<word, granted>>
      BY <2>4 DEF Fi!InitBus, Fi!Enable, Fi!Disable
    <3>2. irqEn' \in [Buses -> BOOLEAN] /\ \A c \in Buses : irqEn'[c] <=> c \in fiMask'
      BY <2>4 DEF Fi!InitBus, Fi!Enable, Fi!Disable, Letting
    <3> QED  BY <3>1, <3>2 DEF Letting
  <2>5. SUFFICES ASSUME NEW s, NEW w, s \in SUBSET Places, w = Image(s),
                        granted' = [granted EXCEPT ![b] = s], word' = [word EXCEPT ![b] = w],
                        UNCHANGED <<irqEn, fiMask>>
                 PROVE  Letting'
    <3>1. CASE Fi!Fill(b)
      <4>1. Image({}) = {}
        BY DEF Image
      <4>2. CASE word' = [word EXCEPT ![b] = {}] /\ granted' = [granted EXCEPT ![b] = {}]
        BY <2>5, <3>1, <4>1, <4>2 DEF Fi!Fill
      <4>3. CASE word' = [word EXCEPT ![b] = 0..(2 * Addresses - 1)]
                 /\ granted' = [granted EXCEPT ![b] = (0..(Addresses - 1)) \X Fi!Dirs]
        BY <2>5, <3>1, <4>3, BitPlaces DEF Fi!Fill, Places
      <4> QED  BY <3>1, <4>2, <4>3 DEF Fi!Fill
    <3>2. ASSUME NEW a \in 0..(Addresses - 1), Fi!AllowAddr(b, a) PROVE Letting'
      <4>1. PICK dirs \in SUBSET Fi!Dirs :
              /\ word' = [word EXCEPT ![b] = word[b] \cup {Fi!BitOf(a, d) : d \in dirs}]
              /\ granted' = [granted EXCEPT ![b] = granted[b] \cup ({a} \X dirs)]
        BY <3>2 DEF Fi!AllowAddr
      <4>2. granted[b] \in SUBSET Places /\ word[b] = Image(granted[b])
        BY DEF Letting
      <4>3. Image(granted[b] \cup ({a} \X dirs)) = word[b] \cup {Fi!BitOf(a, d) : d \in dirs}
            /\ granted[b] \cup ({a} \X dirs) \in SUBSET Places
        <5>1. {a} \X dirs \in SUBSET Places /\ Image({a} \X dirs) = {Fi!BitOf(a, d) : d \in dirs}
          BY ImageOf
        <5> DEFINE g == granted[b]
                   d == {a} \X dirs
        <5>2. g \in SUBSET Places /\ d \in SUBSET Places
          BY <4>2, <5>1
        <5> HIDE DEF g, d
        <5>3. Image(g \cup d) = Image(g) \cup Image(d) /\ g \cup d \in SUBSET Places
          BY <5>2, Images
        <5> QED  BY <4>2, <5>1, <5>3 DEF g, d
      <4>4. UNCHANGED <<irqEn, fiMask>>
        BY <3>2 DEF Fi!AllowAddr
      <4> QED  BY <2>5, <4>1, <4>3, <4>4
    <3>3. ASSUME NEW a \in 0..(Addresses - 1), Fi!BlockAddr(b, a) PROVE Letting'
      <4>1. /\ word' = [word EXCEPT ![b] = word[b] \ {Fi!BitOf(a, d) : d \in Fi!Dirs}]
            /\ granted' = [granted EXCEPT ![b] = granted[b] \ ({a} \X Fi!Dirs)]
        BY <3>3 DEF Fi!BlockAddr
      <4>2. granted[b] \in SUBSET Places /\ word[b] = Image(granted[b])
        BY DEF Letting
      <4>3. Image(granted[b] \ ({a} \X Fi!Dirs)) = word[b] \ {Fi!BitOf(a, d) : d \in Fi!Dirs}
            /\ granted[b] \ ({a} \X Fi!Dirs) \in SUBSET Places
        <5>1. {a} \X Fi!Dirs \in SUBSET Places /\ Image({a} \X Fi!Dirs) = {Fi!BitOf(a, d) : d \in Fi!Dirs}
          BY ImageOf
        <5> DEFINE g == granted[b]
                   d == {a} \X Fi!Dirs
        <5>2. g \in SUBSET Places /\ d \in SUBSET Places
          BY <4>2, <5>1
        <5> HIDE DEF g, d
        <5>3. Image(g \ d) = Image(g) \ Image(d) /\ g \ d \in SUBSET Places
          BY <5>2, Images
        <5> QED  BY <4>2, <5>1, <5>3 DEF g, d
      <4>4. UNCHANGED <<irqEn, fiMask>>
        BY <3>3 DEF Fi!BlockAddr
      <4> QED  BY <2>5, <4>1, <4>3, <4>4
    <3> QED  BY <2>4, <3>1, <3>2, <3>3
  <2>6. w \in SUBSET Nat
    <3>1. Image(s) \subseteq 0..(2 * Addresses - 1)
      BY <2>5, Images
    <3> QED  BY <2>5, <3>1, FilterConstants
  <2> QED  BY <2>5, <2>6 DEF Letting
<1> QED  BY <1>1, <1>2

\* Every step of a monitor or of a bus keeps it.
LEMMA FiltersKept == FiltersInv /\ [Fi!Next]_(Fi!filtersVars) => FiltersInv'
<1> SUFFICES ASSUME FiltersInv, [Fi!Next]_(Fi!filtersVars) PROVE FiltersInv'
  OBVIOUS
<1>1. CASE UNCHANGED Fi!filtersVars
  BY <1>1 DEF Fi!filtersVars, Fi!engineVars, Fi!busVars, FiltersInv, Fi!TypeOK, Guarding, Letting
<1> QED  BY <1>1, MonitorKept, BusKept DEF Fi!Next

\* And it implies the properties of both filters.
LEMMA FiltersRight1 == FiltersInv => Fi!TypeOK /\ Fi!Protected /\ Fi!BusesFiltered
  BY DEF FiltersInv, Guarding, Letting, Fi!Protected, Fi!BusesFiltered, Image

\* A protected flash cannot be written below the size, and a bus lets through what
\* was allowed, after any calls.
THEOREM FiltersRight == Fi!Spec => [](Fi!TypeOK /\ Fi!Protected /\ Fi!BusesFiltered)
  BY FiltersInit, FiltersKept, FiltersRight1, PTL DEF Fi!Spec

-----------------------------------------------------------------------------
(* Resets and clock gates.                                                 *)

Paired == {"rst", "stop"}
InfoOf(r) == IF r = "rst" THEN Sc!ResetInfo ELSE Sc!ClockInfo
HeldIn(r) == IF r = "rst" THEN rst ELSE stop
BitPairs == {1, 2} \X (0..31)
Answers == {"none", "yes", "no"}

\* The writes to the bits of a peripheral.
WritesTo(p) ==
  {w \in [reg : Paired, val : BOOLEAN, bit : BitPairs] :
     p \in DOMAIN InfoOf(w.reg) /\ w.bit = InfoOf(w.reg)[p]}

\* A write carries what was asked for; a bit is as it was asked to be.
Carries(c, w) == scAsked[c][w.reg] # "none" => (w.val <=> scAsked[c][w.reg] = "yes")
Stands(c, r) ==
  own[c] \in DOMAIN InfoOf(r) /\ scAsked[c][r] # "none" =>
    (InfoOf(r)[own[c]] \in HeldIn(r) <=> scAsked[c][r] = "yes")

\* The last write to a register that is still to come carries what was asked for
\* last; a register that none goes to holds it.
Settling(c) ==
  \/ scTodo[c] = <<>> /\ \A r \in Paired : Stands(c, r)
  \/ \E w \in WritesTo(own[c]) :
       /\ scTodo[c] = <<w>> /\ Carries(c, w)
       /\ \A r \in Paired : r # w.reg => Stands(c, r)
  \/ \E v, w \in WritesTo(own[c]) :
       /\ scTodo[c] = <<v, w>> /\ Carries(c, w) /\ (v.reg # w.reg => Carries(c, v))
       /\ \A r \in Paired : r # w.reg /\ r # v.reg => Stands(c, r)

Owning ==
  /\ own \in [Contexts -> Sc!Peripherals] /\ \A c, d \in Contexts : c # d => own[c] # own[d]
  /\ rst \in SUBSET BitPairs /\ stop \in SUBSET BitPairs
  /\ ops \in [Contexts -> 0..MaxOps] /\ DOMAIN scTodo = Contexts
  /\ scTodo = [c \in Contexts |-> scTodo[c]]
  /\ scAsked \in [Contexts -> [rst : Answers, stop : Answers]]

ScuInv == Owning /\ \A c \in Contexts : Settling(c)

\* Every bit is a pair of a bank and a number, and the bit of one peripheral; the
\* clocks as numbers are the same clocks.
LEMMA ScuTables ==
  /\ \A p \in DOMAIN Sc!ResetInfo : Sc!ResetInfo[p] \in BitPairs
  /\ \A p \in DOMAIN Sc!ClockInfo : Sc!ClockInfo[p] \in BitPairs
  /\ \A p, q \in DOMAIN Sc!ResetInfo : Sc!ResetInfo[p] = Sc!ResetInfo[q] => p = q
  /\ \A p, q \in DOMAIN Sc!ClockInfo : Sc!ClockInfo[p] = Sc!ClockInfo[q] => p = q
  /\ DOMAIN Sc!ClockGate = DOMAIN Sc!ClockInfo
  /\ \A p \in DOMAIN Sc!ClockGate : Sc!GateRegBit(Sc!ClockGate[p]) = Sc!ClockInfo[p]
<1>1. \A p \in DOMAIN Sc!ResetInfo : Sc!ResetInfo[p] \in BitPairs
  BY DEF Sc!ResetInfo, BitPairs
<1>2. \A p \in DOMAIN Sc!ClockInfo : Sc!ClockInfo[p] \in BitPairs
  BY DEF Sc!ClockInfo, BitPairs
<1>3. \A p, q \in DOMAIN Sc!ResetInfo : Sc!ResetInfo[p] = Sc!ResetInfo[q] => p = q
  BY DEF Sc!ResetInfo
<1>4. \A p, q \in DOMAIN Sc!ClockInfo : Sc!ClockInfo[p] = Sc!ClockInfo[q] => p = q
  BY DEF Sc!ClockInfo
<1>5. DOMAIN Sc!ClockGate = DOMAIN Sc!ClockInfo
  BY DEF Sc!ClockInfo, Sc!ClockGate
<1>6. \A p \in DOMAIN Sc!ClockGate : Sc!GateRegBit(Sc!ClockGate[p]) = Sc!ClockInfo[p]
  BY DEF Sc!ClockInfo, Sc!ClockGate, Sc!GateRegBit
<1> QED  BY <1>1, <1>2, <1>3, <1>4, <1>5, <1>6

\* Two peripherals share no bit of a register.
LEMMA BitsApart ==
  ASSUME NEW r \in Paired, NEW p \in DOMAIN InfoOf(r), NEW q \in DOMAIN InfoOf(r), p # q
  PROVE  InfoOf(r)[p] # InfoOf(r)[q]
<1>1. CASE r = "rst"
  BY <1>1, ScuTables DEF InfoOf
<1>2. CASE r = "stop"
  BY <1>2, ScuTables DEF InfoOf
<1> QED  BY <1>1, <1>2 DEF Paired

\* What the operations write.
LEMMA OneWrite ==
  ASSUME NEW p \in Sc!Peripherals, NEW r \in Paired, NEW v \in BOOLEAN
  PROVE  IF p \in DOMAIN InfoOf(r)
         THEN \E w \in WritesTo(p) : w.reg = r /\ w.val = v /\ Sc!Write(r, v, InfoOf(r), p) = <<w>>
         ELSE Sc!Write(r, v, InfoOf(r), p) = <<>>
<1>1. CASE p \in DOMAIN InfoOf(r)
  <2> DEFINE w == [reg |-> r, val |-> v, bit |-> InfoOf(r)[p]]
  <2>1. InfoOf(r)[p] \in BitPairs
    <3>1. CASE r = "rst"
      BY <1>1, <3>1, ScuTables DEF InfoOf
    <3>2. CASE r = "stop"
      BY <1>1, <3>2, ScuTables DEF InfoOf
    <3> QED  BY <3>1, <3>2 DEF Paired
  <2>2. w \in WritesTo(p)
    BY <1>1, <2>1 DEF WritesTo
  <2>3. Sc!Write(r, v, InfoOf(r), p) = <<w>>
    BY <1>1 DEF Sc!Write
  <2> QED  BY <1>1, <2>2, <2>3
<1>2. CASE p \notin DOMAIN InfoOf(r)
  BY <1>2 DEF Sc!Write
<1> QED  BY <1>1, <1>2

\* The two ways to stop a clock write the same bit.
LEMMA GateIsClock ==
  ASSUME NEW p \in Sc!Peripherals, NEW v \in BOOLEAN
  PROVE  Sc!GateWrite(v, p) = Sc!Write("stop", v, Sc!ClockInfo, p)
<1>1. p \in DOMAIN Sc!ClockGate <=> p \in DOMAIN Sc!ClockInfo
  BY ScuTables
<1>2. p \in DOMAIN Sc!ClockGate => Sc!GateRegBit(Sc!ClockGate[p]) = Sc!ClockInfo[p]
  BY ScuTables
<1> QED  BY <1>1, <1>2 DEF Sc!GateWrite, Sc!Write

\* The invariant holds at the start.
LEMMA ScuInit == Sc!Init => ScuInv
<1> SUFFICES ASSUME Sc!Init PROVE ScuInv
  OBVIOUS
<1>1. rst \in SUBSET BitPairs /\ stop \in SUBSET BitPairs
  BY ScuTables DEF Sc!Init
<1>2. MaxOps \in Nat
  BY PartsAssumption DEF Sc!ScuAssumption
<1>3. Owning
  BY <1>1, <1>2 DEF Sc!Init, Owning, Answers
<1>4. ASSUME NEW c \in Contexts PROVE Settling(c)
  BY DEF Sc!Init, Settling, Stands, Paired
<1> QED  BY <1>3, <1>4 DEF ScuInv

\* What a write does to the registers, and to nothing else of them.
Stored(w) ==
  /\ rst' \in SUBSET BitPairs /\ stop' \in SUBSET BitPairs
  /\ \A r \in Paired, b \in BitPairs :
       b \in HeldIn(r)' <=> IF r = w.reg /\ b = w.bit THEN w.val ELSE b \in HeldIn(r)

\* What one write to a pair of registers does.
LEMMA StoreIs ==
  ASSUME Owning, NEW c \in Contexts, Sc!Store(c), Head(scTodo[c]) \in WritesTo(own[c])
  PROVE  /\ Stored(Head(scTodo[c])) /\ UNCHANGED <<own, ops, scAsked>>
         /\ scTodo' = [scTodo EXCEPT ![c] = Tail(scTodo[c])]
<1> DEFINE w == Head(scTodo[c])
<1>1. w.reg \in Paired /\ w.val \in BOOLEAN /\ w.bit \in BitPairs
  BY DEF WritesTo
<1>2. UNCHANGED <<own, ops, scAsked>> /\ scTodo' = [scTodo EXCEPT ![c] = Tail(scTodo[c])]
  BY DEF Sc!Store
<1>3. CASE w.reg = "rst"
  <2>1. rst' = (IF w.val THEN rst \cup {w.bit} ELSE rst \ {w.bit}) /\ stop' = stop
    BY <1>3 DEF Sc!Store
  <2> HIDE DEF w
  <2> QED  BY <1>1, <1>2, <1>3, <2>1 DEF Stored, HeldIn, Paired, Owning, w
<1>4. CASE w.reg # "rst"
  <2>1. stop' = (IF w.val THEN stop \cup {w.bit} ELSE stop \ {w.bit}) /\ rst' = rst
    BY <1>4 DEF Sc!Store
  <2> HIDE DEF w
  <2> QED  BY <1>1, <1>2, <1>4, <2>1 DEF Stored, HeldIn, Paired, Owning, w
<1> QED  BY <1>3, <1>4

\* A write of one context leaves the bits of another alone.
LEMMA OthersStand ==
  ASSUME Owning, NEW c \in Contexts, NEW d \in Contexts, c # d, NEW w \in WritesTo(own[c]),
         Stored(w), UNCHANGED <<own, scAsked>>, NEW r \in Paired, Stands(d, r)
  PROVE  Stands(d, r)'
<1>1. HeldIn(r)' = HeldIn(r)' /\ InfoOf(r)' = InfoOf(r)
  BY DEF InfoOf, Sc!ResetInfo, Sc!ClockInfo
<1>2. SUFFICES ASSUME own[d] \in DOMAIN InfoOf(r), scAsked[d][r] # "none"
               PROVE  InfoOf(r)[own[d]] \in HeldIn(r)' <=> scAsked[d][r] = "yes"
  BY <1>1 DEF Stands
<1>3. InfoOf(r)[own[d]] \in BitPairs
  BY <1>2, ScuTables DEF InfoOf
<1>4. own[c] # own[d] /\ w.reg \in Paired /\ own[c] \in DOMAIN InfoOf(w.reg) /\ w.bit = InfoOf(w.reg)[own[c]]
  BY DEF Owning, WritesTo
<1>5. r = w.reg => InfoOf(r)[own[d]] # w.bit
  BY <1>2, <1>4, BitsApart
<1>6. InfoOf(r)[own[d]] \in HeldIn(r)' <=> InfoOf(r)[own[d]] \in HeldIn(r)
  BY <1>3, <1>5 DEF Stored
<1> QED  BY <1>2, <1>6 DEF Stands

\* A write to one register leaves the other alone, and its own bit as it says.
LEMMA OwnStands ==
  ASSUME Owning, NEW c \in Contexts, NEW w \in WritesTo(own[c]), Stored(w), UNCHANGED <<own, scAsked>>
  PROVE  /\ \A r \in Paired : r # w.reg /\ Stands(c, r) => Stands(c, r)'
         /\ Carries(c, w) => Stands(c, w.reg)'
<1>1. \A r \in Paired : InfoOf(r)' = InfoOf(r)
  BY DEF InfoOf, Sc!ResetInfo, Sc!ClockInfo
<1>2. w.reg \in Paired /\ w.bit \in BitPairs /\ w.bit = InfoOf(w.reg)[own[c]] /\ own[c] \in DOMAIN InfoOf(w.reg)
  BY DEF WritesTo
<1>3. ASSUME NEW r \in Paired, r # w.reg, Stands(c, r) PROVE Stands(c, r)'
  <2>1. own[c] \in DOMAIN InfoOf(r) => InfoOf(r)[own[c]] \in BitPairs
    BY ScuTables DEF InfoOf
  <2>2. \A b \in BitPairs : b \in HeldIn(r)' <=> b \in HeldIn(r)
    BY <1>3 DEF Stored
  <2> QED  BY <1>1, <1>3, <2>1, <2>2 DEF Stands
<1>4. w.bit \in HeldIn(w.reg)' <=> w.val
  BY <1>2 DEF Stored
<1> QED  BY <1>1, <1>2, <1>3, <1>4 DEF Stands, Carries

\* A write keeps it, for its own context and for every other.
LEMMA StoreKept ==
  ASSUME ScuInv, NEW c \in Contexts, Sc!Store(c)
  PROVE  ScuInv'
<1>1. Owning /\ \A d \in Contexts : Settling(d)
  BY DEF ScuInv
<1>2. scTodo[c] # <<>>
  BY DEF Sc!Store
<1>3. SUFFICES ASSUME NEW w \in WritesTo(own[c]), Head(scTodo[c]) = w,
                      \/ Tail(scTodo[c]) = <<>> /\ Carries(c, w)
                         /\ \A r \in Paired : r # w.reg => Stands(c, r)
                      \/ \E x \in WritesTo(own[c]) :
                           /\ Tail(scTodo[c]) = <<x>> /\ Carries(c, x) /\ (w.reg # x.reg => Carries(c, w))
                           /\ \A r \in Paired : r # x.reg /\ r # w.reg => Stands(c, r)
               PROVE  ScuInv'
  <2>1. CASE \E w \in WritesTo(own[c]) :
               /\ scTodo[c] = <<w>> /\ Carries(c, w)
               /\ \A r \in Paired : r # w.reg => Stands(c, r)
    <3>1. PICK w \in WritesTo(own[c]) : /\ scTodo[c] = <<w>> /\ Carries(c, w)
                                        /\ \A r \in Paired : r # w.reg => Stands(c, r)
      BY <2>1
    <3>2. Head(scTodo[c]) = w /\ Tail(scTodo[c]) = <<>>
      BY <3>1
    <3> QED  BY <1>3, <3>1, <3>2
  <2>2. CASE \E v, w \in WritesTo(own[c]) :
               /\ scTodo[c] = <<v, w>> /\ Carries(c, w) /\ (v.reg # w.reg => Carries(c, v))
               /\ \A r \in Paired : r # w.reg /\ r # v.reg => Stands(c, r)
    <3>1. PICK v \in WritesTo(own[c]), w \in WritesTo(own[c]) :
               /\ scTodo[c] = <<v, w>> /\ Carries(c, w) /\ (v.reg # w.reg => Carries(c, v))
               /\ \A r \in Paired : r # w.reg /\ r # v.reg => Stands(c, r)
      BY <2>2
    <3>2. Head(scTodo[c]) = v /\ Tail(scTodo[c]) = <<w>>
      BY <3>1
    <3> QED  BY <1>3, <3>1, <3>2
  <2> QED  BY <1>1, <1>2, <2>1, <2>2 DEF Settling
<1>4. /\ Stored(w) /\ UNCHANGED <<own, ops, scAsked>>
      /\ scTodo' = [scTodo EXCEPT ![c] = Tail(scTodo[c])]
  BY <1>1, <1>3, StoreIs
<1>5. Owning'
  <2>1. scTodo' = [d \in Contexts |-> IF d = c THEN Tail(scTodo[c]) ELSE scTodo[d]]
    BY <1>1, <1>4 DEF Owning
  <2> HIDE DEF Stored
  <2>2. DOMAIN scTodo' = Contexts /\ scTodo' = [d \in Contexts |-> scTodo'[d]]
    BY <2>1
  <2>3. rst' \in SUBSET BitPairs /\ stop' \in SUBSET BitPairs
    BY <1>4 DEF Stored
  <2> QED  BY <1>1, <1>4, <2>2, <2>3 DEF Owning
<1>6. ASSUME NEW d \in Contexts, d # c PROVE Settling(d)'
  <2>1. scTodo'[d] = scTodo[d] /\ scAsked' = scAsked /\ own' = own
    BY <1>1, <1>4, <1>6 DEF Owning
  <2>2. \A r \in Paired : Stands(d, r) => Stands(d, r)'
    BY <1>1, <1>3, <1>4, <1>6, OthersStand
  <2>3. WritesTo(own[d])' = WritesTo(own[d]) /\ \A x : Carries(d, x)' <=> Carries(d, x)
    BY <2>1 DEF WritesTo, InfoOf, Carries, Sc!ResetInfo, Sc!ClockInfo
  <2>4. Settling(d)
    BY <1>1
  <2> QED  BY <2>1, <2>2, <2>3, <2>4 DEF Settling
<1>7. Settling(c)'
  <2>1. scTodo'[c] = Tail(scTodo[c]) /\ scAsked' = scAsked /\ own' = own
    BY <1>1, <1>4 DEF Owning
  <2>2. /\ \A r \in Paired : r # w.reg /\ Stands(c, r) => Stands(c, r)'
        /\ Carries(c, w) => Stands(c, w.reg)'
    BY <1>1, <1>3, <1>4, OwnStands
  <2>3. WritesTo(own[c])' = WritesTo(own[c]) /\ \A x : Carries(c, x)' <=> Carries(c, x)
    BY <2>1 DEF WritesTo, InfoOf, Carries, Sc!ResetInfo, Sc!ClockInfo
  <2>4. CASE Tail(scTodo[c]) = <<>> /\ Carries(c, w) /\ \A r \in Paired : r # w.reg => Stands(c, r)
    BY <2>1, <2>2, <2>4 DEF Settling
  <2>5. CASE \E x \in WritesTo(own[c]) :
               /\ Tail(scTodo[c]) = <<x>> /\ Carries(c, x) /\ (w.reg # x.reg => Carries(c, w))
               /\ \A r \in Paired : r # x.reg /\ r # w.reg => Stands(c, r)
    <3>1. PICK x \in WritesTo(own[c]) :
               /\ Tail(scTodo[c]) = <<x>> /\ Carries(c, x) /\ (w.reg # x.reg => Carries(c, w))
               /\ \A r \in Paired : r # x.reg /\ r # w.reg => Stands(c, r)
      BY <2>5
    <3>2. \A r \in Paired : r # x.reg => Stands(c, r)'
      BY <2>2, <3>1
    <3> QED  BY <2>1, <2>3, <3>1, <3>2 DEF Settling
  <2> QED  BY <1>3, <2>4, <2>5
<1> QED  BY <1>5, <1>6, <1>7 DEF ScuInv

\* What an operation asks for.
LEMMA Effects ==
  ASSUME NEW a \in [rst : Answers, stop : Answers], NEW op \in Sc!Operations
  PROVE  /\ Sc!Effect(op, a) \in [rst : Answers, stop : Answers]
         /\ op = "assert" => Sc!Effect(op, a).rst = "yes" /\ Sc!Effect(op, a).stop = a.stop
         /\ op = "deassert" => Sc!Effect(op, a).rst = "no" /\ Sc!Effect(op, a).stop = a.stop
         /\ op = "pulse" => Sc!Effect(op, a).rst = "no" /\ Sc!Effect(op, a).stop = a.stop
         /\ op = "clock on" => Sc!Effect(op, a).stop = "no" /\ Sc!Effect(op, a).rst = a.rst
         /\ op = "gate on" => Sc!Effect(op, a).stop = "no" /\ Sc!Effect(op, a).rst = a.rst
         /\ op = "clock off" => Sc!Effect(op, a).stop = "yes" /\ Sc!Effect(op, a).rst = a.rst
         /\ op = "gate off" => Sc!Effect(op, a).stop = "yes" /\ Sc!Effect(op, a).rst = a.rst
         /\ op = "enable" => Sc!Effect(op, a).rst = "no" /\ Sc!Effect(op, a).stop = "no"
<1>1. CASE op \in {"assert", "deassert", "pulse"}
  BY <1>1 DEF Sc!Effect, Answers
<1>2. CASE op \in {"clock on", "gate on"}
  BY <1>2 DEF Sc!Effect, Answers
<1>3. CASE op \in {"clock off", "gate off"}
  BY <1>3 DEF Sc!Effect, Answers
<1>4. CASE op = "enable"
  BY <1>4 DEF Sc!Effect, Answers
<1> QED  BY <1>1, <1>2, <1>3, <1>4 DEF Sc!Operations

\* So does a call, whatever it asks for.
LEMMA CallKept ==
  ASSUME ScuInv, NEW c \in Contexts, NEW op \in Sc!Operations, Sc!Call(c, op)
  PROVE  ScuInv'
<1> DEFINE p == own[c]
           a == scAsked[c]
           e == Sc!Effect(op, a)
           s == Sc!Writes(op, p)
<1>1. Owning /\ \A d \in Contexts : Settling(d)
  BY DEF ScuInv
<1>2. /\ scTodo[c] = <<>> /\ ops[c] < MaxOps /\ UNCHANGED <<own, rst, stop>>
      /\ ops' = [ops EXCEPT ![c] = ops[c] + 1]
      /\ scTodo' = [scTodo EXCEPT ![c] = s] /\ scAsked' = [scAsked EXCEPT ![c] = e]
  BY DEF Sc!Call
<1>3. p \in Sc!Peripherals /\ a \in [rst : Answers, stop : Answers] /\ MaxOps \in Nat
  BY <1>1, PartsAssumption DEF Owning, Sc!ScuAssumption
<1>4. e \in [rst : Answers, stop : Answers]
  BY <1>3, Effects
<1>8. /\ op = "assert" => e.rst = "yes" /\ e.stop = a.stop
      /\ op = "deassert" => e.rst = "no" /\ e.stop = a.stop
      /\ op = "pulse" => e.rst = "no" /\ e.stop = a.stop
      /\ op \in {"clock on", "gate on"} => e.stop = "no" /\ e.rst = a.rst
      /\ op \in {"clock off", "gate off"} => e.stop = "yes" /\ e.rst = a.rst
      /\ op = "enable" => e.rst = "no" /\ e.stop = "no"
  <2> HIDE DEF a
  <2>1. a \in [rst : Answers, stop : Answers]
    BY <1>3
  <2> QED  BY <2>1, Effects DEF e
<1> HIDE DEF e, s
<1>5. Owning'
  <2>1. scTodo' = [d \in Contexts |-> IF d = c THEN s ELSE scTodo[d]]
    BY <1>1, <1>2 DEF Owning
  <2>2. DOMAIN scTodo' = Contexts /\ scTodo' = [d \in Contexts |-> scTodo'[d]]
    BY <2>1
  <2>3. ops' \in [Contexts -> 0..MaxOps]
    BY <1>1, <1>2, <1>3 DEF Owning
  <2>4. scAsked' \in [Contexts -> [rst : Answers, stop : Answers]]
    BY <1>1, <1>2, <1>4 DEF Owning
  <2> QED  BY <1>1, <1>2, <2>2, <2>3, <2>4 DEF Owning
<1>6. ASSUME NEW d \in Contexts, d # c PROVE Settling(d)'
  <2>1. scTodo'[d] = scTodo[d] /\ scAsked'[d] = scAsked[d] /\ own' = own /\ rst' = rst /\ stop' = stop
    BY <1>1, <1>2, <1>6 DEF Owning
  <2>2. \A r \in Paired : Stands(d, r)' <=> Stands(d, r)
    BY <2>1 DEF Stands, InfoOf, HeldIn, Sc!ResetInfo, Sc!ClockInfo
  <2>3. WritesTo(own[d])' = WritesTo(own[d]) /\ \A x : Carries(d, x)' <=> Carries(d, x)
    BY <2>1 DEF WritesTo, InfoOf, Carries, Sc!ResetInfo, Sc!ClockInfo
  <2>4. Settling(d)
    BY <1>1
  <2> QED  BY <2>1, <2>2, <2>3, <2>4 DEF Settling
<1>7. Settling(c)'
  <2>1. scTodo'[c] = s /\ scAsked'[c] = e /\ own' = own /\ rst' = rst /\ stop' = stop
    BY <1>1, <1>2 DEF Owning
  <2>2. \A r \in Paired : Stands(c, r)
    <3>1. Settling(c)
      BY <1>1
    <3> QED  BY <1>2, <3>1 DEF Settling
  <2>3. \A r \in Paired : e[r] = a[r] => Stands(c, r)'
    BY <2>1, <2>2 DEF Stands, InfoOf, HeldIn, Sc!ResetInfo, Sc!ClockInfo
  <2>4. \A r \in Paired : p \notin DOMAIN InfoOf(r) => Stands(c, r)'
    BY <2>1 DEF Stands, InfoOf, Sc!ResetInfo, Sc!ClockInfo
  <2>5. WritesTo(own[c])' = WritesTo(p)
    BY <2>1 DEF WritesTo, InfoOf, Sc!ResetInfo, Sc!ClockInfo
  <2>6. \A x : Carries(c, x)' <=> (e[x.reg] # "none" => (x.val <=> e[x.reg] = "yes"))
    BY <2>1 DEF Carries
  <2>7. \* One write, or none.
        ASSUME NEW r \in Paired, NEW v \in BOOLEAN, s = Sc!Write(r, v, InfoOf(r), p),
               e[r] = IF v THEN "yes" ELSE "no", \A q \in Paired : q # r => e[q] = a[q]
        PROVE  Settling(c)'
    <3>1. CASE p \in DOMAIN InfoOf(r)
      <4>1. PICK w \in WritesTo(p) : w.reg = r /\ w.val = v /\ s = <<w>>
        BY <1>3, <2>7, <3>1, OneWrite
      <4>2. Carries(c, w)'
        BY <2>6, <2>7, <4>1
      <4> QED  BY <2>1, <2>3, <2>5, <2>7, <4>1, <4>2 DEF Settling
    <3>2. CASE p \notin DOMAIN InfoOf(r)
      <4>1. s = <<>>
        BY <1>3, <2>7, <3>2, OneWrite
      <4> QED  BY <2>1, <2>3, <2>4, <2>7, <3>2, <4>1 DEF Settling
    <3> QED  BY <3>1, <3>2
  <2>8. CASE op = "assert"
    <3>1. s = Sc!Write("rst", TRUE, InfoOf("rst"), p)
      BY <2>8 DEF s, Sc!Writes, Sc!ResetAssert, InfoOf
    <3>2. e["rst"] = "yes" /\ e["stop"] = a["stop"]
      BY <1>8, <2>8
    <3> QED  BY <2>7, <3>1, <3>2 DEF Paired
  <2>9. CASE op = "deassert"
    <3>1. s = Sc!Write("rst", FALSE, InfoOf("rst"), p)
      BY <2>9 DEF s, Sc!Writes, Sc!ResetDeassert, InfoOf
    <3>2. e["rst"] = "no" /\ e["stop"] = a["stop"]
      BY <1>8, <2>9
    <3> QED  BY <2>7, <3>1, <3>2 DEF Paired
  <2>10. CASE op = "clock on"
    <3>1. s = Sc!Write("stop", FALSE, InfoOf("stop"), p)
      BY <2>10 DEF s, Sc!Writes, Sc!ClockEnable, InfoOf
    <3>2. e["stop"] = "no" /\ e["rst"] = a["rst"]
      BY <1>8, <2>10
    <3> QED  BY <2>7, <3>1, <3>2 DEF Paired
  <2>11. CASE op = "clock off"
    <3>1. s = Sc!Write("stop", TRUE, InfoOf("stop"), p)
      BY <2>11 DEF s, Sc!Writes, Sc!ClockDisable, InfoOf
    <3>2. e["stop"] = "yes" /\ e["rst"] = a["rst"]
      BY <1>8, <2>11
    <3> QED  BY <2>7, <3>1, <3>2 DEF Paired
  <2>12. CASE op = "gate on"
    <3>1. s = Sc!Write("stop", FALSE, InfoOf("stop"), p)
      <4>1. s = Sc!GateWrite(FALSE, p)
        BY <2>12 DEF s, Sc!Writes
      <4> QED  BY <1>3, <4>1, GateIsClock DEF InfoOf
    <3>2. e["stop"] = "no" /\ e["rst"] = a["rst"]
      BY <1>8, <2>12
    <3> QED  BY <2>7, <3>1, <3>2 DEF Paired
  <2>13. CASE op = "gate off"
    <3>1. s = Sc!Write("stop", TRUE, InfoOf("stop"), p)
      <4>1. s = Sc!GateWrite(TRUE, p)
        BY <2>13 DEF s, Sc!Writes
      <4> QED  BY <1>3, <4>1, GateIsClock DEF InfoOf
    <3>2. e["stop"] = "yes" /\ e["rst"] = a["rst"]
      BY <1>8, <2>13
    <3> QED  BY <2>7, <3>1, <3>2 DEF Paired
  <2>14. CASE op = "pulse"
    <3>1. s = Sc!Write("rst", TRUE, InfoOf("rst"), p) \o Sc!Write("rst", FALSE, InfoOf("rst"), p)
      BY <2>14 DEF s, Sc!Writes, Sc!ResetPulse, Sc!ResetAssert, Sc!ResetDeassert, InfoOf
    <3>2. e["rst"] = "no" /\ e["stop"] = a["stop"]
      BY <1>8, <2>14
    <3>3. CASE p \in DOMAIN InfoOf("rst")
      <4>1. PICK v \in WritesTo(p) : v.reg = "rst" /\ v.val = TRUE /\ Sc!Write("rst", TRUE, InfoOf("rst"), p) = <<v>>
        BY <1>3, <3>3, OneWrite DEF Paired
      <4>2. PICK w \in WritesTo(p) : w.reg = "rst" /\ w.val = FALSE /\ Sc!Write("rst", FALSE, InfoOf("rst"), p) = <<w>>
        BY <1>3, <3>3, OneWrite DEF Paired
      <4>3. s = <<v, w>>
        BY <3>1, <4>1, <4>2, Joined
      <4>4. Carries(c, w)'
        BY <2>6, <3>2, <4>2
      <4>5. \A r \in Paired : r # w.reg => Stands(c, r)'
        BY <2>3, <3>2, <4>2 DEF Paired
      <4> QED  BY <2>1, <2>5, <4>1, <4>2, <4>3, <4>4, <4>5 DEF Settling
    <3>4. CASE p \notin DOMAIN InfoOf("rst")
      <4>1. s = <<>>
        <5>1. Sc!Write("rst", TRUE, InfoOf("rst"), p) = <<>> /\ Sc!Write("rst", FALSE, InfoOf("rst"), p) = <<>>
          BY <1>3, <3>4, OneWrite DEF Paired
        <5> QED  BY <3>1, <5>1, Joined
      <4>2. \A r \in Paired : Stands(c, r)'
        BY <2>3, <2>4, <3>2, <3>4 DEF Paired
      <4> QED  BY <2>1, <4>1, <4>2 DEF Settling
    <3> QED  BY <3>3, <3>4
  <2>15. CASE op = "enable"
    <3>1. s = Sc!Write("stop", FALSE, InfoOf("stop"), p) \o Sc!Write("rst", FALSE, InfoOf("rst"), p)
      BY <2>15 DEF s, Sc!Writes, Sc!PeriphEnable, Sc!ClockEnable, Sc!ResetDeassert, InfoOf
    <3>2. e["rst"] = "no" /\ e["stop"] = "no"
      BY <1>8, <2>15
    <3>3. \A w \in WritesTo(p) : w.val = FALSE => Carries(c, w)'
      BY <2>6, <3>2 DEF WritesTo, Paired
    <3>4. CASE p \in DOMAIN InfoOf("stop") /\ p \in DOMAIN InfoOf("rst")
      <4>1. PICK v \in WritesTo(p) : v.reg = "stop" /\ v.val = FALSE /\ Sc!Write("stop", FALSE, InfoOf("stop"), p) = <<v>>
        BY <1>3, <3>4, OneWrite DEF Paired
      <4>2. PICK w \in WritesTo(p) : w.reg = "rst" /\ w.val = FALSE /\ Sc!Write("rst", FALSE, InfoOf("rst"), p) = <<w>>
        BY <1>3, <3>4, OneWrite DEF Paired
      <4>3. s = <<v, w>>
        BY <3>1, <4>1, <4>2, Joined
      <4> QED  BY <2>1, <2>5, <3>3, <4>1, <4>2, <4>3 DEF Settling, Paired
    <3>5. CASE p \in DOMAIN InfoOf("stop") /\ p \notin DOMAIN InfoOf("rst")
      <4>1. PICK v \in WritesTo(p) : v.reg = "stop" /\ v.val = FALSE /\ Sc!Write("stop", FALSE, InfoOf("stop"), p) = <<v>>
        BY <1>3, <3>5, OneWrite DEF Paired
      <4>2. Sc!Write("rst", FALSE, InfoOf("rst"), p) = <<>>
        BY <1>3, <3>5, OneWrite DEF Paired
      <4>3. s = <<v>>
        BY <3>1, <4>1, <4>2, Joined
      <4>4. \A r \in Paired : r # v.reg => Stands(c, r)'
        BY <2>4, <3>5, <4>1 DEF Paired
      <4> QED  BY <2>1, <2>5, <3>3, <4>1, <4>3, <4>4 DEF Settling
    <3>6. CASE p \notin DOMAIN InfoOf("stop") /\ p \in DOMAIN InfoOf("rst")
      <4>1. PICK v \in WritesTo(p) : v.reg = "rst" /\ v.val = FALSE /\ Sc!Write("rst", FALSE, InfoOf("rst"), p) = <<v>>
        BY <1>3, <3>6, OneWrite DEF Paired
      <4>2. Sc!Write("stop", FALSE, InfoOf("stop"), p) = <<>>
        BY <1>3, <3>6, OneWrite DEF Paired
      <4>3. s = <<v>>
        BY <3>1, <4>1, <4>2, Joined
      <4>4. \A r \in Paired : r # v.reg => Stands(c, r)'
        BY <2>4, <3>6, <4>1 DEF Paired
      <4> QED  BY <2>1, <2>5, <3>3, <4>1, <4>3, <4>4 DEF Settling
    <3>7. CASE p \notin DOMAIN InfoOf("stop") /\ p \notin DOMAIN InfoOf("rst")
      <4>1. Sc!Write("stop", FALSE, InfoOf("stop"), p) = <<>> /\ Sc!Write("rst", FALSE, InfoOf("rst"), p) = <<>>
        BY <1>3, <3>7, OneWrite DEF Paired
      <4>2. s = <<>>
        BY <3>1, <4>1, Joined
      <4> QED  BY <2>1, <2>4, <3>7, <4>2 DEF Settling, Paired
    <3> QED  BY <3>4, <3>5, <3>6, <3>7
  <2> QED  BY <2>8, <2>9, <2>10, <2>11, <2>12, <2>13, <2>14, <2>15 DEF Sc!Operations
<1> QED  BY <1>5, <1>6, <1>7 DEF ScuInv

\* Every step of the contexts keeps the invariant.
LEMMA ScuKept == ScuInv /\ [Sc!Next]_(Sc!scuVars) => ScuInv'
<1> SUFFICES ASSUME ScuInv, [Sc!Next]_(Sc!scuVars) PROVE ScuInv'
  OBVIOUS
<1>1. CASE UNCHANGED Sc!scuVars
  <2>1. UNCHANGED <<own, rst, stop, scTodo, ops, scAsked>>
    BY <1>1 DEF Sc!scuVars
  <2>2. Owning'
    BY <2>1 DEF ScuInv, Owning, Sc!Peripherals, Sc!ResetInfo, Sc!ClockInfo
  <2>3. ASSUME NEW c \in Contexts PROVE Settling(c)'
    <3>1. \A r \in Paired : Stands(c, r)' <=> Stands(c, r)
      BY <2>1 DEF Stands, InfoOf, HeldIn, Sc!ResetInfo, Sc!ClockInfo
    <3>2. WritesTo(own[c])' = WritesTo(own[c]) /\ \A x : Carries(c, x)' <=> Carries(c, x)
      BY <2>1 DEF WritesTo, InfoOf, Carries, Sc!ResetInfo, Sc!ClockInfo
    <3>3. Settling(c)
      BY DEF ScuInv
    <3> QED  BY <2>1, <3>1, <3>2, <3>3 DEF Settling
  <2> QED  BY <2>2, <2>3 DEF ScuInv
<1>2. ASSUME NEW c \in Contexts, Sc!Store(c) PROVE ScuInv'
  BY <1>2, StoreKept
<1>3. ASSUME NEW c \in Contexts, NEW op \in Sc!Operations, Sc!Call(c, op) PROVE ScuInv'
  BY <1>3, CallKept
<1> QED  BY <1>1, <1>2, <1>3 DEF Sc!Next

\* Once nothing is under way every register shows what was asked for last.
LEMMA ScuSettled == ScuInv => Sc!TypeOK /\ Sc!AsAskedFor
<1> SUFFICES ASSUME Owning, \A c \in Contexts : Settling(c) PROVE Sc!TypeOK /\ Sc!AsAskedFor
  BY DEF ScuInv
<1>1. ASSUME NEW c \in Contexts PROVE Len(scTodo[c]) <= 2
  <2>1. Settling(c)
    OBVIOUS
  <2>2. CASE scTodo[c] = <<>>
    BY <2>2
  <2>3. CASE \E w \in WritesTo(own[c]) : scTodo[c] = <<w>>
    <3>1. PICK w \in WritesTo(own[c]) : scTodo[c] = <<w>>
      BY <2>3
    <3> QED  BY <3>1
  <2>4. CASE \E v, w \in WritesTo(own[c]) : scTodo[c] = <<v, w>>
    <3>1. PICK v \in WritesTo(own[c]), w \in WritesTo(own[c]) : scTodo[c] = <<v, w>>
      BY <2>4
    <3> QED  BY <3>1
  <2> QED  BY <2>1, <2>2, <2>3, <2>4 DEF Settling
<1>2. Sc!TypeOK
  BY <1>1 DEF Sc!TypeOK, Owning, BitPairs, Answers
<1>3. ASSUME NEW c \in Contexts, scTodo[c] = <<>> PROVE \A r \in Paired : Stands(c, r)
  <2>1. Settling(c)
    OBVIOUS
  <2> QED  BY <1>3, <2>1 DEF Settling
<1>4. Sc!AsAskedFor
  BY <1>3 DEF Sc!AsAskedFor, Stands, InfoOf, HeldIn, Paired
<1> QED  BY <1>2, <1>4

\* A peripheral is left in reset, and its clock stopped, as its own driver last
\* asked, whatever the others do.
THEOREM ScuRight == Sc!Spec => [](Sc!TypeOK /\ Sc!AsAskedFor)
  BY ScuInit, ScuKept, ScuSettled, PTL DEF Sc!Spec

-----------------------------------------------------------------------------
(* The order of the writes of a boot.                                      *)

RankEarly == [fabric |-> 1, dpAssert |-> 2, dpClear |-> 3, dpVersion |-> 4, dpDown |-> 5,
              dpPower |-> 6, dpOpen |-> 7]
RankLate == [dpClose |-> 8, dpRun |-> 9, dpInts |-> 10, e2mCheck |-> 24, ufsOwn |-> 32,
             rvbar |-> 40, epLow |-> 40, epHigh |-> 40, rangeAll |-> 40, rangeAtf |-> 40,
             off |-> 41, masters |-> 42, on |-> 43, lock |-> 44, ufsAxi |-> 50, release |-> 60]
RankHelper == [hAssert |-> 7, hClear |-> 8, hHold |-> 9, hPoll |-> 10, hRemap |-> 11, hEnable |-> 12]
RankBridge == [preset |-> 28, e2mClock |-> 29, e2mClear |-> 30]
RankEp == [epZeroLow |-> 49, epZeroHigh |-> 50]

\* The place of a write in the boots: those of a routine follow each other, and a
\* routine those that it relies on.
Rank(o) ==
  IF o.do \in DOMAIN RankEarly THEN RankEarly[o.do]
  ELSE IF o.do = "dpWord" THEN 7 + o.i
  ELSE IF o.do \in DOMAIN RankLate THEN FwWords + RankLate[o.do]
  ELSE IF o.do = "dpHand" THEN FwWords + 11 + o.i
  ELSE IF o.do \in DOMAIN RankHelper THEN FwWords + RankHelper[o.do] + 6 * o.i
  ELSE IF o.do \in DOMAIN RankBridge THEN FwWords + RankBridge[o.do] - 3 * o.i
  ELSE FwWords + RankEp[o.do] + 2 * o.i

WritesOf(names, is) == {Rl!Op(n, i) : n \in names, i \in is}
DpOps == WritesOf((DOMAIN RankEarly \ {"fabric"}) \cup {"dpClose", "dpRun", "dpInts"}, {0})
         \cup WritesOf({"dpWord"}, 1..FwWords) \cup WritesOf({"dpHand"}, {0, 1})
AllOps == DpOps \cup WritesOf({"fabric"}, {0}) \cup WritesOf(DOMAIN RankLate \ {"rvbar"}, {0})
          \cup WritesOf({"rvbar"}, 0..3) \cup WritesOf(DOMAIN RankHelper, {1, 2})
          \cup WritesOf(DOMAIN RankBridge, {0, 1}) \cup WritesOf(DOMAIN RankEp, 1..3)

\* The vectors and the entry of BL33 may be named before the region is opened or
\* after.
Loose(o) == o.do \in {"rvbar", "epLow", "epHigh"}
Middle(o) == o.do \in {"rvbar", "epLow", "epHigh", "rangeAll", "rangeAtf", "off", "masters", "on", "lock"}
Precedes(a, b) == Rank(a) < Rank(b) \/ (Middle(a) /\ Middle(b) /\ (Loose(a) \/ Loose(b)))

ElementsOf(s) == {s[i] : i \in 1..Len(s)}
Ordered(s) == \A i, j \in 1..Len(s) : i < j => Precedes(s[i], s[j])

\* What is assumed of the boot's constants.
LEMMA ReleaseConstants ==
  /\ Secondaries \subseteq 1..3 /\ FwWords \in Nat /\ MaxResets \in Nat
  /\ Rl!Cores = {0} \cup Secondaries /\ Rl!Helpers = {1, 2} /\ Rl!Bridges = {0, 1}
  BY PartsAssumption DEF Rl!ReleaseAssumption, Rl!Cores, Rl!Helpers, Rl!Bridges

\* The ranks.
LEMMA RanksEarly ==
  \A n \in DOMAIN RankEarly : Rank(Rl!Op(n, 0)) = RankEarly[n]
  BY DEF Rank, Rl!Op

\* Those of the writes for the CA35,
LEMMA RanksLate ==
  \A n \in DOMAIN RankLate, i \in Nat : Rank(Rl!Op(n, i)) = FwWords + RankLate[n]
<1> SUFFICES ASSUME NEW n \in DOMAIN RankLate, NEW i \in Nat PROVE Rank(Rl!Op(n, i)) = FwWords + RankLate[n]
  OBVIOUS
<1>1. n \notin DOMAIN RankEarly /\ n # "dpWord"
  BY DEF RankEarly, RankLate
<1> QED  BY <1>1 DEF Rank, Rl!Op

\* of the words of the DPMCU's firmware,
LEMMA RanksWord ==
  \A i \in Nat : Rank(Rl!Op("dpWord", i)) = 7 + i
<1>1. "dpWord" \notin DOMAIN RankEarly
  BY DEF RankEarly
<1> QED  BY <1>1 DEF Rank, Rl!Op

\* of its handshake,
LEMMA RanksHand ==
  \A i \in Nat : Rank(Rl!Op("dpHand", i)) = FwWords + 11 + i
<1>1. "dpHand" \notin DOMAIN RankEarly /\ "dpHand" \notin DOMAIN RankLate
  BY DEF RankEarly, RankLate
<1> QED  BY <1>1 DEF Rank, Rl!Op

\* of the coprocessors,
LEMMA RanksHelper ==
  \A n \in DOMAIN RankHelper, i \in Nat : Rank(Rl!Op(n, i)) = FwWords + RankHelper[n] + 6 * i
<1> SUFFICES ASSUME NEW n \in DOMAIN RankHelper, NEW i \in Nat
             PROVE  Rank(Rl!Op(n, i)) = FwWords + RankHelper[n] + 6 * i
  OBVIOUS
<1>1. n \notin DOMAIN RankEarly /\ n # "dpWord" /\ n \notin DOMAIN RankLate /\ n # "dpHand"
  BY DEF RankEarly, RankLate, RankHelper
<1> QED  BY <1>1 DEF Rank, Rl!Op

\* of the bridges
LEMMA RanksBridge ==
  \A n \in DOMAIN RankBridge, i \in Nat : Rank(Rl!Op(n, i)) = FwWords + RankBridge[n] - 3 * i
<1> SUFFICES ASSUME NEW n \in DOMAIN RankBridge, NEW i \in Nat
             PROVE  Rank(Rl!Op(n, i)) = FwWords + RankBridge[n] - 3 * i
  OBVIOUS
<1>1. n \notin DOMAIN RankEarly /\ n # "dpWord" /\ n \notin DOMAIN RankLate /\ n # "dpHand"
      /\ n \notin DOMAIN RankHelper
  BY DEF RankEarly, RankLate, RankHelper, RankBridge
<1> QED  BY <1>1 DEF Rank, Rl!Op

\* and of the entry points.
LEMMA RanksEp ==
  \A n \in DOMAIN RankEp, i \in Nat : Rank(Rl!Op(n, i)) = FwWords + RankEp[n] + 2 * i
<1> SUFFICES ASSUME NEW n \in DOMAIN RankEp, NEW i \in Nat
             PROVE  Rank(Rl!Op(n, i)) = FwWords + RankEp[n] + 2 * i
  OBVIOUS
<1>1. n \notin DOMAIN RankEarly /\ n # "dpWord" /\ n \notin DOMAIN RankLate /\ n # "dpHand"
      /\ n \notin DOMAIN RankHelper /\ n \notin DOMAIN RankBridge
  BY DEF RankEarly, RankLate, RankHelper, RankBridge, RankEp
<1> QED  BY <1>1 DEF Rank, Rl!Op

\* Every write has its rank, and those of the DPMCU come first.
LEMMA RankBounds ==
  /\ \A o \in AllOps : Rank(o) \in Nat
  /\ \A o \in DpOps : Rank(o) \in 2..(FwWords + 12)
  /\ \A o \in AllOps \ DpOps : Rank(o) = 1 \/ Rank(o) \in (FwWords + 13)..(FwWords + 60)
<1>1. ASSUME NEW o \in DpOps PROVE Rank(o) \in 2..(FwWords + 12)
  <2>1. CASE \E n \in DOMAIN RankEarly \ {"fabric"} : o = Rl!Op(n, 0)
    BY <2>1, RanksEarly, ReleaseConstants DEF RankEarly
  <2>2. CASE \E n \in {"dpClose", "dpRun", "dpInts"} : o = Rl!Op(n, 0)
    <3>1. {"dpClose", "dpRun", "dpInts"} \subseteq DOMAIN RankLate
      BY DEF RankLate
    <3> QED  BY <2>2, <3>1, RanksLate, ReleaseConstants DEF RankLate
  <2>3. CASE \E i \in 1..FwWords : o = Rl!Op("dpWord", i)
    BY <2>3, RanksWord, ReleaseConstants
  <2>4. CASE \E i \in {0, 1} : o = Rl!Op("dpHand", i)
    BY <2>4, RanksHand, ReleaseConstants
  <2> QED  BY <2>1, <2>2, <2>3, <2>4 DEF DpOps, WritesOf
<1>2. ASSUME NEW o \in AllOps \ DpOps
      PROVE  Rank(o) = 1 \/ Rank(o) \in (FwWords + 13)..(FwWords + 60)
  <2>1. CASE o = Rl!Op("fabric", 0)
    BY <2>1, RanksEarly DEF RankEarly
  <2>2. CASE \E n \in DOMAIN RankLate, i \in 0..3 : o = Rl!Op(n, i) /\ (n = "rvbar" \/ i = 0)
    <3>1. PICK n \in DOMAIN RankLate, i \in 0..3 : o = Rl!Op(n, i) /\ (n = "rvbar" \/ i = 0)
      BY <2>2
    <3>2. n \notin {"dpClose", "dpRun", "dpInts"}
      <4>1. n \in {"dpClose", "dpRun", "dpInts"} => o \in DpOps
        BY <3>1 DEF DpOps, WritesOf
      <4> QED  BY <4>1
    <3>3. RankLate[n] \in 13..60
      BY <3>2 DEF RankLate
    <3>4. Rank(o) = FwWords + RankLate[n]
      BY <3>1, RanksLate
    <3> QED  BY <3>3, <3>4, ReleaseConstants
  <2>3. CASE \E n \in DOMAIN RankHelper, i \in {1, 2} : o = Rl!Op(n, i)
    <3>1. PICK n \in DOMAIN RankHelper, i \in {1, 2} : o = Rl!Op(n, i)
      BY <2>3
    <3>2. RankHelper[n] \in 7..12
      BY DEF RankHelper
    <3>3. Rank(o) = FwWords + RankHelper[n] + 6 * i
      BY <3>1, RanksHelper
    <3> QED  BY <3>2, <3>3, ReleaseConstants
  <2>4. CASE \E n \in DOMAIN RankBridge, i \in {0, 1} : o = Rl!Op(n, i)
    <3>1. PICK n \in DOMAIN RankBridge, i \in {0, 1} : o = Rl!Op(n, i)
      BY <2>4
    <3>2. RankBridge[n] \in 28..30
      BY DEF RankBridge
    <3>3. Rank(o) = FwWords + RankBridge[n] - 3 * i
      BY <3>1, RanksBridge
    <3> QED  BY <3>2, <3>3, ReleaseConstants
  <2>5. CASE \E n \in DOMAIN RankEp, i \in 1..3 : o = Rl!Op(n, i)
    <3>1. PICK n \in DOMAIN RankEp, i \in 1..3 : o = Rl!Op(n, i)
      BY <2>5
    <3>2. RankEp[n] \in 49..50
      BY DEF RankEp
    <3>3. Rank(o) = FwWords + RankEp[n] + 2 * i
      BY <3>1, RanksEp
    <3> QED  BY <3>2, <3>3, ReleaseConstants
  <2>6. \/ o = Rl!Op("fabric", 0)
        \/ \E n \in DOMAIN RankLate \ {"rvbar"} : o = Rl!Op(n, 0)
        \/ \E i \in 0..3 : o = Rl!Op("rvbar", i)
        \/ \E n \in DOMAIN RankHelper, i \in {1, 2} : o = Rl!Op(n, i)
        \/ \E n \in DOMAIN RankBridge, i \in {0, 1} : o = Rl!Op(n, i)
        \/ \E n \in DOMAIN RankEp, i \in 1..3 : o = Rl!Op(n, i)
    BY DEF AllOps, WritesOf
  <2>7. "rvbar" \in DOMAIN RankLate
    BY DEF RankLate
  <2> QED  BY <2>1, <2>2, <2>3, <2>4, <2>5, <2>6, <2>7
<1> QED  BY <1>1, <1>2, ReleaseConstants

-----------------------------------------------------------------------------
(* The boots are in this order.                                            *)

Routine(s, e) == s \in Seq(AllOps) /\ Ordered(s) /\ ElementsOf(s) = e

\* A routine after another.
LEMMA InTurn ==
  ASSUME NEW s, NEW t, NEW d, NEW e, Routine(s, d), Routine(t, e),
         \A a \in d, b \in e : Precedes(a, b)
  PROVE  Routine(s \o t, d \cup e)
<1> DEFINE c == s \o t
<1>1. /\ s \in Seq(AllOps) /\ t \in Seq(AllOps) /\ Len(s) \in Nat /\ Len(t) \in Nat
      /\ ElementsOf(s) = d /\ ElementsOf(t) = e /\ Ordered(s) /\ Ordered(t)
  BY LenProperties DEF Routine
<1>2. /\ c \in Seq(AllOps) /\ Len(c) = Len(s) + Len(t)
      /\ \A i \in 1 .. Len(s) + Len(t) : c[i] = IF i <= Len(s) THEN s[i] ELSE t[i - Len(s)]
  BY <1>1, ConcatProperties
<1> HIDE DEF c
<1>3. \A i \in 1..Len(s) : c[i] = s[i] /\ s[i] \in d
  BY <1>1, <1>2 DEF ElementsOf
<1>4. \A i \in 1..Len(t) : c[Len(s) + i] = t[i] /\ t[i] \in e
  <2> SUFFICES ASSUME NEW i \in 1..Len(t) PROVE c[Len(s) + i] = t[i] /\ t[i] \in e
    OBVIOUS
  <2>1. /\ Len(s) + i \in 1..(Len(s) + Len(t)) /\ ~(Len(s) + i <= Len(s))
        /\ (Len(s) + i) - Len(s) = i
    BY <1>1
  <2>2. c[Len(s) + i] = t[i]
    BY <1>2, <2>1
  <2> QED  BY <1>1, <2>2 DEF ElementsOf
<1>5. \A i \in 1..Len(c) : i \in 1..Len(s) \/ \E j \in 1..Len(t) : i = Len(s) + j
  <2> SUFFICES ASSUME NEW i \in 1..Len(c), i \notin 1..Len(s) PROVE \E j \in 1..Len(t) : i = Len(s) + j
    OBVIOUS
  <2>1. i - Len(s) \in 1..Len(t) /\ i = Len(s) + (i - Len(s))
    BY <1>1, <1>2
  <2> QED  BY <2>1
<1>6. ElementsOf(c) \subseteq d \cup e
  BY <1>3, <1>4, <1>5 DEF ElementsOf
<1>7. d \subseteq ElementsOf(c)
  <2> SUFFICES ASSUME NEW i \in 1..Len(s) PROVE s[i] \in ElementsOf(c)
    BY <1>1 DEF ElementsOf
  <2>1. i \in 1..Len(c)
    BY <1>1, <1>2
  <2> QED  BY <1>3, <2>1 DEF ElementsOf
<1>8. e \subseteq ElementsOf(c)
  <2> SUFFICES ASSUME NEW i \in 1..Len(t) PROVE t[i] \in ElementsOf(c)
    BY <1>1 DEF ElementsOf
  <2>1. Len(s) + i \in 1..Len(c)
    BY <1>1, <1>2
  <2> QED  BY <1>4, <2>1 DEF ElementsOf
<1>9. Ordered(c)
  <2> SUFFICES ASSUME NEW i \in 1..Len(c), NEW j \in 1..Len(c), i < j PROVE Precedes(c[i], c[j])
    BY DEF Ordered
  <2>1. CASE i \in 1..Len(s) /\ j \in 1..Len(s)
    BY <1>1, <1>3, <2>1 DEF Ordered
  <2>2. CASE i \in 1..Len(s) /\ j \notin 1..Len(s)
    <3>1. PICK k \in 1..Len(t) : j = Len(s) + k
      BY <1>5, <2>2
    <3>2. c[i] \in d /\ c[j] \in e
      BY <1>3, <1>4, <2>2, <3>1
    <3> QED  BY <3>2
  <2>3. CASE i \notin 1..Len(s)
    <3>1. PICK k \in 1..Len(t) : i = Len(s) + k
      BY <1>5, <2>3
    <3>2. PICK m \in 1..Len(t) : j = Len(s) + m
      <4>1. j \notin 1..Len(s)
        BY <1>1, <3>1
      <4> QED  BY <1>5, <4>1
    <3>3. k < m /\ c[i] = t[k] /\ c[j] = t[m]
      BY <1>1, <1>4, <3>1, <3>2
    <3> QED  BY <1>1, <3>3 DEF Ordered
  <2> QED  BY <2>1, <2>2, <2>3
<1> QED  BY <1>2, <1>6, <1>7, <1>8, <1>9 DEF Routine, c

\* Routines of so many writes.
LEMMA Routine1 == ASSUME NEW a \in AllOps PROVE Routine(<<a>>, {a})
  BY DEF Routine, Ordered, ElementsOf

\* Two writes in their order are a routine of these two.
LEMMA Routine2 ==
  ASSUME NEW a \in AllOps, NEW b \in AllOps, Precedes(a, b)
  PROVE  Routine(<<a, b>>, {a, b})
  BY DEF Routine, Ordered, ElementsOf

\* So are six that have ranks of their own,
LEMMA Routine6 ==
  ASSUME NEW a \in AllOps, NEW b \in AllOps, NEW c \in AllOps, NEW d \in AllOps, NEW e \in AllOps,
         NEW f \in AllOps, Rank(a) < Rank(b), Rank(b) < Rank(c), Rank(c) < Rank(d), Rank(d) < Rank(e),
         Rank(e) < Rank(f)
  PROVE  Routine(<<a, b, c, d, e, f>>, {a, b, c, d, e, f})
<1> DEFINE s == <<a, b, c, d, e, f>>
<1>1. /\ s \in Seq(AllOps) /\ Len(s) = 6 /\ s[1] = a /\ s[2] = b /\ s[3] = c /\ s[4] = d /\ s[5] = e
      /\ s[6] = f
  OBVIOUS
<1> HIDE DEF s
<1>2. ElementsOf(s) = {a, b, c, d, e, f}
  BY <1>1 DEF ElementsOf
<1>3. \A i, j \in 1..6 : i < j => Rank(s[i]) < Rank(s[j])
  <2>1. \A o \in AllOps : Rank(o) \in Int
    BY RankBounds
  <2> QED  BY <1>1, <2>1
<1>4. Ordered(s)
  BY <1>1, <1>3 DEF Ordered, Precedes
<1> QED  BY <1>1, <1>2, <1>4 DEF Routine, s

\* five,
LEMMA Routine5 ==
  ASSUME NEW a \in AllOps, NEW b \in AllOps, NEW c \in AllOps, NEW d \in AllOps, NEW e \in AllOps,
         Rank(a) < Rank(b), Rank(b) < Rank(c), Rank(c) < Rank(d), Rank(d) < Rank(e)
  PROVE  Routine(<<a, b, c, d, e>>, {a, b, c, d, e})
<1> DEFINE s == <<a, b, c, d, e>>
<1>1. s \in Seq(AllOps) /\ Len(s) = 5 /\ s[1] = a /\ s[2] = b /\ s[3] = c /\ s[4] = d /\ s[5] = e
  OBVIOUS
<1> HIDE DEF s
<1>2. ElementsOf(s) = {a, b, c, d, e}
  BY <1>1 DEF ElementsOf
<1>3. \A i, j \in 1..5 : i < j => Rank(s[i]) < Rank(s[j])
  <2>1. \A o \in AllOps : Rank(o) \in Int
    BY RankBounds
  <2> QED  BY <1>1, <2>1
<1>4. Ordered(s)
  BY <1>1, <1>3 DEF Ordered, Precedes
<1> QED  BY <1>1, <1>2, <1>4 DEF Routine, s

\* and seven.
LEMMA Routine7 ==
  ASSUME NEW a \in AllOps, NEW b \in AllOps, NEW c \in AllOps, NEW d \in AllOps, NEW e \in AllOps,
         NEW f \in AllOps, NEW g \in AllOps,
         Rank(a) < Rank(b), Rank(b) < Rank(c), Rank(c) < Rank(d), Rank(d) < Rank(e),
         Rank(e) < Rank(f), Rank(f) < Rank(g)
  PROVE  Routine(<<a, b, c, d, e, f, g>>, {a, b, c, d, e, f, g})
<1> DEFINE s == <<a, b, c, d, e, f, g>>
<1>1. /\ s \in Seq(AllOps) /\ Len(s) = 7 /\ s[1] = a /\ s[2] = b /\ s[3] = c /\ s[4] = d /\ s[5] = e
      /\ s[6] = f /\ s[7] = g
  OBVIOUS
<1> HIDE DEF s
<1>2. ElementsOf(s) = {a, b, c, d, e, f, g}
  BY <1>1 DEF ElementsOf
<1>3. \A i, j \in 1..7 : i < j => Rank(s[i]) < Rank(s[j])
  <2>1. /\ Rank(a) \in Int /\ Rank(b) \in Int /\ Rank(c) \in Int /\ Rank(d) \in Int
        /\ Rank(e) \in Int /\ Rank(f) \in Int /\ Rank(g) \in Int
    BY RankBounds
  <2>2. \A j \in 1..7 : 1 < j => Rank(a) < Rank(s[j])
    BY <1>1, <2>1, SMTT(30)
  <2>3. \A j \in 1..7 : 2 < j => Rank(b) < Rank(s[j])
    BY <1>1, <2>1, SMTT(30)
  <2>4. \A j \in 1..7 : 3 < j => Rank(c) < Rank(s[j])
    BY <1>1, <2>1, SMTT(30)
  <2>5. \A j \in 1..7 : 4 < j => Rank(d) < Rank(s[j])
    BY <1>1, <2>1, SMTT(30)
  <2>6. \A j \in 1..7 : 5 < j => Rank(e) < Rank(s[j])
    BY <1>1, <2>1, SMTT(30)
  <2> QED  BY <1>1, <2>2, <2>3, <2>4, <2>5, <2>6
<1>4. Ordered(s)
  BY <1>1, <1>3 DEF Ordered, Precedes
<1> QED  BY <1>1, <1>2, <1>4 DEF Routine, s

\* The words of the firmware.
LEMMA RoutineWords ==
  Routine(Rl!Each([i \in 1..FwWords |-> i], "dpWord"), WritesOf({"dpWord"}, 1..FwWords))
<1> DEFINE w == [i \in 1..FwWords |-> i]
           s == Rl!Each(w, "dpWord")
<1>1. w \in Seq(Nat) /\ Len(w) = FwWords
  BY ReleaseConstants
<1>2. s = [i \in 1..FwWords |-> Rl!Op("dpWord", i)]
  BY <1>1, ReleaseConstants DEF Rl!Each
<1>3. \A i \in 1..FwWords : Rl!Op("dpWord", i) \in AllOps
  BY DEF AllOps, DpOps, WritesOf
<1> HIDE DEF s
<1>4. s \in Seq(AllOps) /\ Len(s) = FwWords
  BY <1>2, <1>3, ReleaseConstants
<1>5. \A i \in 1..FwWords : s[i] = Rl!Op("dpWord", i) /\ Rank(s[i]) = 7 + i
  BY <1>2, RanksWord, ReleaseConstants
<1>6. Ordered(s)
  BY <1>4, <1>5, ReleaseConstants DEF Ordered, Precedes
<1>7. ElementsOf(s) = WritesOf({"dpWord"}, 1..FwWords)
  BY <1>4, <1>5 DEF ElementsOf, WritesOf
<1> QED  BY <1>4, <1>6, <1>7 DEF Routine, s

\* The writes of the routines, and their ranks.
FabricOps == WritesOf({"fabric"}, {0})
VectorOps == WritesOf({"rvbar"}, 0..3)
EntryOps == WritesOf({"epLow", "epHigh"}, {0})
RegionOps(range) == WritesOf({range, "off", "masters", "on", "lock"}, {0})
LastOps == WritesOf({"ufsAxi", "release"}, {0}) \cup WritesOf({"epZeroLow", "epZeroHigh"}, 1..3)
HelperOps(h) == WritesOf({"hAssert", "hClear", "hHold", "hPoll", "hRemap", "hEnable"}, {h})
BridgeOps == WritesOf({"e2mCheck"}, {0}) \cup WritesOf({"preset", "e2mClock", "e2mClear"}, {0, 1})
OwnOps == WritesOf({"ufsOwn"}, {0})

\* The ranks of the routines for the CA35
LEMMA RanksOfRoutines ==
  /\ FabricOps \subseteq AllOps /\ \A o \in FabricOps : Rank(o) = 1
  /\ VectorOps \subseteq AllOps /\ \A o \in VectorOps : Rank(o) = FwWords + 40 /\ Loose(o) /\ Middle(o)
  /\ EntryOps \subseteq AllOps /\ \A o \in EntryOps : Rank(o) = FwWords + 40 /\ Loose(o) /\ Middle(o)
  /\ \A r \in {"rangeAll", "rangeAtf"} :
       RegionOps(r) \subseteq AllOps /\ \A o \in RegionOps(r) : Rank(o) \in (FwWords + 40)..(FwWords + 44) /\ Middle(o)
  /\ LastOps \subseteq AllOps /\ \A o \in LastOps : Rank(o) \in (FwWords + 50)..(FwWords + 60)
  /\ OwnOps \subseteq AllOps /\ \A o \in OwnOps : Rank(o) = FwWords + 32
<1>1. FabricOps \subseteq AllOps /\ \A o \in FabricOps : Rank(o) = 1
  BY RanksEarly DEF FabricOps, AllOps, WritesOf, RankEarly
<1>2. {"rvbar", "epLow", "epHigh", "rangeAll", "rangeAtf", "off", "masters", "on", "lock", "ufsAxi", "release", "ufsOwn"}
        \subseteq DOMAIN RankLate
  BY DEF RankLate
<1>3. ASSUME NEW n \in {"epLow", "epHigh", "rangeAll", "rangeAtf", "off", "masters", "on", "lock", "ufsAxi", "release", "ufsOwn"}
      PROVE  Rl!Op(n, 0) \in AllOps
  BY <1>2, <1>3 DEF AllOps, WritesOf
<1>4. VectorOps \subseteq AllOps /\ \A o \in VectorOps : Rank(o) = FwWords + 40 /\ Loose(o) /\ Middle(o)
  <2>1. \A i \in 0..3 : Rank(Rl!Op("rvbar", i)) = FwWords + 40
    BY <1>2, RanksLate DEF RankLate
  <2>2. VectorOps \subseteq AllOps
    BY DEF VectorOps, AllOps
  <2> QED  BY <2>1, <2>2 DEF VectorOps, WritesOf, Loose, Middle, Rl!Op
<1>5. EntryOps \subseteq AllOps /\ \A o \in EntryOps : Rank(o) = FwWords + 40 /\ Loose(o) /\ Middle(o)
  <2>1. \A n \in {"epLow", "epHigh"} : Rank(Rl!Op(n, 0)) = FwWords + 40
    BY <1>2, RanksLate DEF RankLate
  <2>2. EntryOps \subseteq AllOps
    BY <1>3 DEF EntryOps, WritesOf
  <2> QED  BY <2>1, <2>2 DEF EntryOps, WritesOf, Loose, Middle, Rl!Op
<1>6. ASSUME NEW r \in {"rangeAll", "rangeAtf"}
      PROVE  RegionOps(r) \subseteq AllOps
             /\ \A o \in RegionOps(r) : Rank(o) \in (FwWords + 40)..(FwWords + 44) /\ Middle(o)
  <2>1. \A n \in {r, "off", "masters", "on", "lock"} : RankLate[n] \in 40..44 /\ Rank(Rl!Op(n, 0)) = FwWords + RankLate[n]
    BY <1>2, RanksLate DEF RankLate
  <2>2. RegionOps(r) \subseteq AllOps
    BY <1>3 DEF RegionOps, WritesOf
  <2>3. ASSUME NEW n \in {r, "off", "masters", "on", "lock"}
        PROVE  Rank(Rl!Op(n, 0)) \in (FwWords + 40)..(FwWords + 44) /\ Middle(Rl!Op(n, 0))
    BY <2>1, ReleaseConstants DEF Middle, Rl!Op
  <2> QED  BY <2>2, <2>3 DEF RegionOps, WritesOf
<1>7. LastOps \subseteq AllOps /\ \A o \in LastOps : Rank(o) \in (FwWords + 50)..(FwWords + 60)
  <2>1. \A n \in {"ufsAxi", "release"} : RankLate[n] \in 50..60 /\ Rank(Rl!Op(n, 0)) = FwWords + RankLate[n]
    BY <1>2, RanksLate DEF RankLate
  <2>2. \A n \in {"epZeroLow", "epZeroHigh"}, i \in 1..3 :
           RankEp[n] \in 49..50 /\ n \in DOMAIN RankEp /\ Rank(Rl!Op(n, i)) = FwWords + RankEp[n] + 2 * i
    BY RanksEp DEF RankEp
  <2>3. LastOps \subseteq AllOps
    BY <1>3, <2>2 DEF LastOps, WritesOf, AllOps
  <2>4. \A n \in {"ufsAxi", "release"} : Rank(Rl!Op(n, 0)) \in (FwWords + 50)..(FwWords + 60)
    BY <2>1, ReleaseConstants
  <2>5. \A n \in {"epZeroLow", "epZeroHigh"}, i \in 1..3 : Rank(Rl!Op(n, i)) \in (FwWords + 50)..(FwWords + 60)
    BY <2>2, ReleaseConstants
  <2> QED  BY <2>3, <2>4, <2>5 DEF LastOps, WritesOf
<1>8. OwnOps \subseteq AllOps /\ \A o \in OwnOps : Rank(o) = FwWords + 32
  BY <1>2, <1>3, RanksLate DEF OwnOps, WritesOf, RankLate
<1> QED  BY <1>1, <1>4, <1>5, <1>6, <1>7, <1>8

\* and of those for the coprocessors and the bridges.
LEMMA RanksOfHelpers ==
  /\ \A h \in {1, 2} : HelperOps(h) \subseteq AllOps
       /\ \A o \in HelperOps(h) : Rank(o) \in (FwWords + 7 + 6 * h)..(FwWords + 12 + 6 * h)
  /\ BridgeOps \subseteq AllOps /\ \A o \in BridgeOps : Rank(o) \in (FwWords + 24)..(FwWords + 30)
<1>1. ASSUME NEW h \in {1, 2}
      PROVE  HelperOps(h) \subseteq AllOps
             /\ \A o \in HelperOps(h) : Rank(o) \in (FwWords + 7 + 6 * h)..(FwWords + 12 + 6 * h)
  <2>1. {"hAssert", "hClear", "hHold", "hPoll", "hRemap", "hEnable"} = DOMAIN RankHelper
        /\ \A n \in DOMAIN RankHelper : RankHelper[n] \in 7..12
    BY DEF RankHelper
  <2>2. \A n \in DOMAIN RankHelper : Rank(Rl!Op(n, h)) \in (FwWords + 7 + 6 * h)..(FwWords + 12 + 6 * h)
    BY <2>1, RanksHelper, ReleaseConstants
  <2> QED  BY <2>1, <2>2 DEF HelperOps, WritesOf, AllOps
<1>2. BridgeOps \subseteq AllOps /\ \A o \in BridgeOps : Rank(o) \in (FwWords + 24)..(FwWords + 30)
  <2>1. {"preset", "e2mClock", "e2mClear"} = DOMAIN RankBridge
        /\ \A n \in DOMAIN RankBridge : RankBridge[n] \in 28..30
    BY DEF RankBridge
  <2>2. \A n \in DOMAIN RankBridge, b \in {0, 1} : Rank(Rl!Op(n, b)) \in (FwWords + 24)..(FwWords + 30)
    BY <2>1, RanksBridge, ReleaseConstants
  <2>3. "e2mCheck" \in DOMAIN RankLate \ {"rvbar"} /\ RankLate["e2mCheck"] = 24
    BY DEF RankLate
  <2>4. Rank(Rl!Op("e2mCheck", 0)) = FwWords + 24 /\ Rl!Op("e2mCheck", 0) \in AllOps
    BY <2>3, RanksLate DEF AllOps, WritesOf
  <2>5. Rank(Rl!Op("e2mCheck", 0)) \in (FwWords + 24)..(FwWords + 30)
    BY <2>4, ReleaseConstants
  <2> QED  BY <2>1, <2>2, <2>4, <2>5 DEF BridgeOps, WritesOf, AllOps
<1> QED  BY <1>1, <1>2

\* All writes of one routine before those of the next.
LEMMA Before ==
  ASSUME NEW d \in SUBSET AllOps, NEW e \in SUBSET AllOps, NEW n \in Nat,
         \A a \in d : Rank(a) <= n, \A b \in e : Rank(b) > n
  PROVE  \A a \in d, b \in e : Precedes(a, b)
  BY RankBounds DEF Precedes

\* set_rvbar writes the reset vectors.
LEMMA RoutineRvbar == Routine(Rl!SetRvbar, VectorOps)
<1>1. Rl!SetRvbar = [i \in 1..4 |-> Rl!Op("rvbar", <<0, 1, 2, 3>>[i])]
  BY DEF Rl!SetRvbar, Rl!Each
<1>2. \A i \in 1..4 : <<0, 1, 2, 3>>[i] = i - 1
  OBVIOUS
<1>3. Rl!SetRvbar = [i \in 1..4 |-> Rl!Op("rvbar", i - 1)]
  BY <1>1, <1>2
<1>4. \A i \in 1..4 : Rl!Op("rvbar", i - 1) \in VectorOps
  BY DEF VectorOps, WritesOf
<1>5. Rl!SetRvbar \in Seq(AllOps) /\ Len(Rl!SetRvbar) = 4
  BY <1>3, <1>4, RanksOfRoutines
<1>6. ElementsOf(Rl!SetRvbar) = VectorOps
  <2>1. \A i \in 1..4 : Rl!SetRvbar[i] = Rl!Op("rvbar", i - 1)
    BY <1>3
  <2>2. \A i \in 0..3 : i + 1 \in 1..4 /\ (i + 1) - 1 = i
    OBVIOUS
  <2>3. \A i \in 0..3 : Rl!SetRvbar[i + 1] = Rl!Op("rvbar", i)
    BY <2>1, <2>2
  <2> QED  BY <1>4, <1>5, <2>1, <2>2, <2>3 DEF ElementsOf, VectorOps, WritesOf
<1>7. Ordered(Rl!SetRvbar)
  <2>1. \A a, b \in VectorOps : Precedes(a, b)
    BY RanksOfRoutines DEF Precedes
  <2> QED  BY <1>6, <2>1 DEF Ordered, ElementsOf
<1> QED  BY <1>5, <1>6, <1>7 DEF Routine

\* set_primary_ep writes the entry points.
LEMMA RoutineEp == Routine(Rl!SetPrimaryEp, EntryOps)
<1>1. Rl!Op("epLow", 0) \in EntryOps /\ Rl!Op("epHigh", 0) \in EntryOps
  BY DEF EntryOps, WritesOf
<1>2. Precedes(Rl!Op("epLow", 0), Rl!Op("epHigh", 0))
  BY <1>1, RanksOfRoutines DEF Precedes
<1>3. EntryOps = {Rl!Op("epLow", 0), Rl!Op("epHigh", 0)}
  BY DEF EntryOps, WritesOf
<1> QED  BY <1>1, <1>2, <1>3, RanksOfRoutines, Routine2 DEF Rl!SetPrimaryEp

\* The two routines that open memory to the cores.
LEMMA RoutineRegion ==
  Routine(Rl!EnableDramAccess, RegionOps("rangeAll")) /\ Routine(Rl!EnableVendorAccess, RegionOps("rangeAtf"))
<1>1. ASSUME NEW r \in {"rangeAll", "rangeAtf"}
      PROVE  Routine(<<Rl!Op(r, 0), Rl!Op("off", 0), Rl!Op("masters", 0), Rl!Op("on", 0), Rl!Op("lock", 0)>>, RegionOps(r))
  <2>1. RegionOps(r) = {Rl!Op(r, 0), Rl!Op("off", 0), Rl!Op("masters", 0), Rl!Op("on", 0), Rl!Op("lock", 0)}
    BY DEF RegionOps, WritesOf
  <2>2. {r, "off", "masters", "on", "lock"} \subseteq DOMAIN RankLate /\ RankLate[r] = 40 /\ RankLate["off"] = 41
        /\ RankLate["masters"] = 42 /\ RankLate["on"] = 43 /\ RankLate["lock"] = 44
    BY DEF RankLate
  <2>3. /\ Rank(Rl!Op(r, 0)) = FwWords + 40 /\ Rank(Rl!Op("off", 0)) = FwWords + 41
        /\ Rank(Rl!Op("masters", 0)) = FwWords + 42 /\ Rank(Rl!Op("on", 0)) = FwWords + 43
        /\ Rank(Rl!Op("lock", 0)) = FwWords + 44
    BY <2>2, RanksLate
  <2>4. /\ Rank(Rl!Op(r, 0)) < Rank(Rl!Op("off", 0)) /\ Rank(Rl!Op("off", 0)) < Rank(Rl!Op("masters", 0))
        /\ Rank(Rl!Op("masters", 0)) < Rank(Rl!Op("on", 0)) /\ Rank(Rl!Op("on", 0)) < Rank(Rl!Op("lock", 0))
    BY <2>3, ReleaseConstants
  <2>5. /\ Rl!Op(r, 0) \in AllOps /\ Rl!Op("off", 0) \in AllOps /\ Rl!Op("masters", 0) \in AllOps
        /\ Rl!Op("on", 0) \in AllOps /\ Rl!Op("lock", 0) \in AllOps
    BY <2>1, RanksOfRoutines
  <2> QED  BY <2>1, <2>4, <2>5, Routine5
<1> QED  BY <1>1 DEF Rl!EnableDramAccess, Rl!EnableVendorAccess

\* release lets the cores go.
LEMMA RoutineRelease == Routine(Rl!ReleaseCa35, LastOps)
<1> DEFINE eps == WritesOf({"epZeroLow", "epZeroHigh"}, 1..3)
           axi == Rl!Op("ufsAxi", 0)
           end == Rl!Op("release", 0)
           Zl(c) == Rl!Op("epZeroLow", c)
           Zh(c) == Rl!Op("epZeroHigh", c)
<1>1. LastOps = ({axi} \cup eps) \cup {end} /\ axi \in LastOps /\ end \in LastOps /\ eps \subseteq LastOps
  BY DEF LastOps, WritesOf
<1>2. Rank(axi) = FwWords + 50 /\ Rank(end) = FwWords + 60
  BY RanksLate DEF RankLate
<1>3. \A c \in 1..3 : Rank(Zl(c)) = FwWords + 49 + 2 * c /\ Rank(Zh(c)) = FwWords + 50 + 2 * c
  BY RanksEp DEF RankEp
<1>4. eps = {Zl(1), Zh(1), Zl(2), Zh(2), Zl(3), Zh(3)}
  <2>1. 1..3 = {1, 2, 3}
    OBVIOUS
  <2> QED  BY <2>1 DEF WritesOf
<1>5. \A o \in eps : Rank(o) \in (FwWords + 51)..(FwWords + 56)
  BY <1>3, <1>4, ReleaseConstants
<1>6. Routine(Rl!ClearEps, eps)
  <2>1. /\ Rank(Zl(1)) < Rank(Zh(1)) /\ Rank(Zh(1)) < Rank(Zl(2)) /\ Rank(Zl(2)) < Rank(Zh(2))
        /\ Rank(Zh(2)) < Rank(Zl(3)) /\ Rank(Zl(3)) < Rank(Zh(3))
    BY <1>3, ReleaseConstants
  <2>2. /\ Zl(1) \in AllOps /\ Zh(1) \in AllOps /\ Zl(2) \in AllOps /\ Zh(2) \in AllOps
        /\ Zl(3) \in AllOps /\ Zh(3) \in AllOps
    BY <1>1, <1>4, RanksOfRoutines
  <2> HIDE DEF eps
  <2>3. Routine(<<Zl(1), Zh(1), Zl(2), Zh(2), Zl(3), Zh(3)>>, {Zl(1), Zh(1), Zl(2), Zh(2), Zl(3), Zh(3)})
    <3> HIDE DEF Zl, Zh
    <3> QED  BY <2>1, <2>2, Routine6
  <2> QED  BY <1>4, <2>3 DEF Rl!ClearEps
<1> HIDE DEF eps
<1>7. Routine(<<axi>>, {axi}) /\ Routine(<<end>>, {end})
  BY <1>1, RanksOfRoutines, Routine1
<1>8. Routine(<<axi>> \o Rl!ClearEps, {axi} \cup eps)
  <2>1. \A a \in {axi}, b \in eps : Precedes(a, b)
    BY <1>2, <1>5, ReleaseConstants DEF Precedes
  <2> QED  BY <1>6, <1>7, <2>1, InTurn
<1>9. Routine((<<axi>> \o Rl!ClearEps) \o <<end>>, ({axi} \cup eps) \cup {end})
  <2>1. \A a \in {axi} \cup eps, b \in {end} : Precedes(a, b)
    BY <1>2, <1>5, ReleaseConstants DEF Precedes
  <2> QED  BY <1>7, <1>8, <2>1, InTurn
<1> QED  BY <1>1, <1>9 DEF Rl!ReleaseCa35

\* Only words come between the two halves of the DPMCU's bring-up.
LEMMA RoutineDp == Routine(Rl!BringUpDp, DpOps)
<1> DEFINE O(n) == Rl!Op(n, 0)
           H(s) == Rl!Op("dpHand", s)
           head == {O("dpAssert"), O("dpClear"), O("dpVersion"), O("dpDown"), O("dpPower"), O("dpOpen")}
           words == WritesOf({"dpWord"}, 1..FwWords)
           tail == {O("dpClose"), O("dpRun"), O("dpInts"), H(0), H(1)}
<1>1. /\ Rank(O("dpAssert")) = 2 /\ Rank(O("dpClear")) = 3 /\ Rank(O("dpVersion")) = 4
      /\ Rank(O("dpDown")) = 5 /\ Rank(O("dpPower")) = 6 /\ Rank(O("dpOpen")) = 7
  BY RanksEarly DEF RankEarly
<1>2. /\ Rank(O("dpClose")) = FwWords + 8 /\ Rank(O("dpRun")) = FwWords + 9 /\ Rank(O("dpInts")) = FwWords + 10
  BY RanksLate DEF RankLate
<1>3. Rank(H(0)) = FwWords + 11 /\ Rank(H(1)) = FwWords + 12
  <2>1. Rank(H(0)) = FwWords + 11 + 0 /\ Rank(H(1)) = FwWords + 11 + 1
    BY RanksHand
  <2> QED  BY <2>1, ReleaseConstants
<1>4. \A o \in words : Rank(o) \in 8..(FwWords + 7)
  BY RanksWord, ReleaseConstants DEF WritesOf
<1>5. DpOps = (head \cup words) \cup tail
  BY DEF DpOps, WritesOf, RankEarly
<1>6. head \subseteq AllOps /\ tail \subseteq AllOps /\ words \subseteq AllOps
  BY <1>5 DEF AllOps
<1>7. Routine(<<O("dpAssert"), O("dpClear"), O("dpVersion"), O("dpDown"), O("dpPower"), O("dpOpen")>>, head)
  <2>1. /\ O("dpAssert") \in AllOps /\ O("dpClear") \in AllOps /\ O("dpVersion") \in AllOps
        /\ O("dpDown") \in AllOps /\ O("dpPower") \in AllOps /\ O("dpOpen") \in AllOps
    BY <1>6
  <2>2. /\ Rank(O("dpAssert")) < Rank(O("dpClear")) /\ Rank(O("dpClear")) < Rank(O("dpVersion"))
        /\ Rank(O("dpVersion")) < Rank(O("dpDown")) /\ Rank(O("dpDown")) < Rank(O("dpPower"))
        /\ Rank(O("dpPower")) < Rank(O("dpOpen"))
    BY <1>1
  <2> HIDE DEF O
  <2> QED  BY <2>1, <2>2, Routine6
<1>8. Routine(<<O("dpClose"), O("dpRun"), O("dpInts"), H(0), H(1)>>, tail)
  <2> HIDE DEF O, H
  <2>1. /\ Rank(O("dpClose")) < Rank(O("dpRun")) /\ Rank(O("dpRun")) < Rank(O("dpInts"))
        /\ Rank(O("dpInts")) < Rank(H(0)) /\ Rank(H(0)) < Rank(H(1))
    BY <1>2, <1>3, ReleaseConstants
  <2> QED  BY <1>6, <2>1, Routine5
<1>9. Routine(Rl!Each([i \in 1..FwWords |-> i], "dpWord"), words)
  BY RoutineWords
<1>10. \A o \in head : Rank(o) <= 7
  BY <1>1
<1>11. \A o \in tail : Rank(o) > FwWords + 7
  BY <1>2, <1>3, ReleaseConstants
<1> DEFINE first6 == <<O("dpAssert"), O("dpClear"), O("dpVersion"), O("dpDown"), O("dpPower"), O("dpOpen")>>
           last5 == <<O("dpClose"), O("dpRun"), O("dpInts"), H(0), H(1)>>
           middle == Rl!Each([i \in 1..FwWords |-> i], "dpWord")
<1>12. Rl!BringUpDp = (first6 \o middle) \o last5
  BY DEF Rl!BringUpDp
<1> HIDE DEF first6, last5, middle, head, tail, words
<1>13. Routine(first6 \o middle, head \cup words)
  <2>1. \A a \in head, b \in words : Precedes(a, b)
    <3>1. \A b \in words : Rank(b) > 7
      BY <1>4
    <3> QED  BY <1>6, <1>10, <3>1, Before
  <2> QED  BY <1>7, <1>9, <2>1, InTurn DEF first6, middle
<1>14. Routine((first6 \o middle) \o last5, (head \cup words) \cup tail)
  <2>1. \A a \in head \cup words : Rank(a) <= FwWords + 7
    <3>1. \A a \in words : Rank(a) <= FwWords + 7
      BY <1>4
    <3>2. \A a \in head : Rank(a) <= FwWords + 7
      BY <1>1, <1>10, ReleaseConstants DEF head
    <3> QED  BY <3>1, <3>2
  <2>2. \A a \in head \cup words, b \in tail : Precedes(a, b)
    <3>1. FwWords + 7 \in Nat
      BY ReleaseConstants
    <3> QED  BY <1>6, <1>11, <2>1, <3>1, Before
  <2> QED  BY <1>8, <1>13, <2>2, InTurn DEF last5
<1> QED  BY <1>5, <1>12, <1>14

\* What sets up a coprocessor and enables it.
LEMMA RoutineHelpers ==
  /\ Routine(Rl!InitSsp \o Rl!EnableSsp, HelperOps(1))
  /\ Routine(Rl!InitTsp \o Rl!EnableTsp, HelperOps(2))
<1>1. ASSUME NEW h \in {1, 2}
      PROVE  Routine(<<Rl!Op("hAssert", h), Rl!Op("hClear", h), Rl!Op("hHold", h), Rl!Op("hPoll", h), Rl!Op("hRemap", h)>>
                       \o <<Rl!Op("hEnable", h)>>, HelperOps(h))
  <2> DEFINE H(n) == Rl!Op(n, h)
             init == {H("hAssert"), H("hClear"), H("hHold"), H("hPoll"), H("hRemap")}
  <2>1. /\ Rank(H("hAssert")) = FwWords + 7 + 6 * h
        /\ Rank(H("hClear")) = FwWords + 8 + 6 * h /\ Rank(H("hHold")) = FwWords + 9 + 6 * h
        /\ Rank(H("hPoll")) = FwWords + 10 + 6 * h /\ Rank(H("hRemap")) = FwWords + 11 + 6 * h
        /\ Rank(H("hEnable")) = FwWords + 12 + 6 * h
    BY RanksHelper DEF RankHelper
  <2>2. HelperOps(h) = init \cup {H("hEnable")}
    BY DEF HelperOps, WritesOf
  <2>3. init \subseteq AllOps /\ H("hEnable") \in AllOps
    BY <2>2, RanksOfHelpers
  <2>4. /\ H("hAssert") \in AllOps
        /\ H("hClear") \in AllOps /\ H("hHold") \in AllOps /\ H("hPoll") \in AllOps /\ H("hRemap") \in AllOps
    BY <2>3
  <2> HIDE DEF H
  <2>5. \A a \in init, b \in {H("hEnable")} : Precedes(a, b)
    BY <2>1, ReleaseConstants DEF Precedes
  <2>6. Routine(<<H("hAssert"), H("hClear"), H("hHold"), H("hPoll"), H("hRemap")>>, init)
    <3>1. /\ Rank(H("hAssert")) < Rank(H("hClear")) /\ Rank(H("hClear")) < Rank(H("hHold"))
          /\ Rank(H("hHold")) < Rank(H("hPoll")) /\ Rank(H("hPoll")) < Rank(H("hRemap"))
      BY <2>1, ReleaseConstants
    <3> QED  BY <2>4, <3>1, Routine5
  <2>7. Routine(<<H("hEnable")>>, {H("hEnable")})
    BY <2>3, Routine1
  <2> HIDE DEF init
  <2>8. Routine(<<H("hAssert"), H("hClear"), H("hHold"), H("hPoll"), H("hRemap")>> \o <<H("hEnable")>>, init \cup {H("hEnable")})
    BY <2>5, <2>6, <2>7, InTurn
  <2> QED  BY <2>2, <2>8 DEF H
<1> QED  BY <1>1 DEF Rl!InitSsp, Rl!EnableSsp, Rl!InitTsp, Rl!EnableTsp

\* What sets up the bridges.
LEMMA RoutineE2m == Routine(Rl!InitPciE2m, BridgeOps)
<1> DEFINE c == Rl!Op("e2mCheck", 0)
           B(n, b) == Rl!Op(n, b)
<1>1. Rank(c) = FwWords + 24
  BY RanksLate DEF RankLate
<1>2. /\ Rank(B("preset", 1)) = FwWords + 25 /\ Rank(B("e2mClock", 1)) = FwWords + 26
      /\ Rank(B("e2mClear", 1)) = FwWords + 27 /\ Rank(B("preset", 0)) = FwWords + 28
      /\ Rank(B("e2mClock", 0)) = FwWords + 29 /\ Rank(B("e2mClear", 0)) = FwWords + 30
  <2>1. \A b \in {0, 1} : /\ Rank(B("preset", b)) = FwWords + 28 - 3 * b
                          /\ Rank(B("e2mClock", b)) = FwWords + 29 - 3 * b
                          /\ Rank(B("e2mClear", b)) = FwWords + 30 - 3 * b
    BY RanksBridge DEF RankBridge
  <2> QED  BY <2>1, ReleaseConstants
<1>3. BridgeOps = {c, B("preset", 1), B("e2mClock", 1), B("e2mClear", 1), B("preset", 0), B("e2mClock", 0), B("e2mClear", 0)}
  BY DEF BridgeOps, WritesOf
<1>4. /\ c \in AllOps /\ B("preset", 1) \in AllOps /\ B("e2mClock", 1) \in AllOps /\ B("e2mClear", 1) \in AllOps
      /\ B("preset", 0) \in AllOps /\ B("e2mClock", 0) \in AllOps /\ B("e2mClear", 0) \in AllOps
  BY <1>3, RanksOfHelpers
<1>5. /\ Rank(c) < Rank(B("preset", 1)) /\ Rank(B("preset", 1)) < Rank(B("e2mClock", 1))
      /\ Rank(B("e2mClock", 1)) < Rank(B("e2mClear", 1)) /\ Rank(B("e2mClear", 1)) < Rank(B("preset", 0))
      /\ Rank(B("preset", 0)) < Rank(B("e2mClock", 0)) /\ Rank(B("e2mClock", 0)) < Rank(B("e2mClear", 0))
  BY <1>1, <1>2, ReleaseConstants
<1>6. Rl!InitPciE2m = <<c, B("preset", 1), B("e2mClock", 1), B("e2mClear", 1), B("preset", 0), B("e2mClock", 0),
                        B("e2mClear", 0)>>
  BY DEF Rl!InitPciE2m
<1> HIDE DEF c, B
<1> QED  BY <1>3, <1>4, <1>5, <1>6, Routine7

\* What every boot writes, and what it writes together.
AlwaysOps == WritesOf({"ufsAxi", "release", "masters", "on"}, {0}) \cup VectorOps
             \cup WritesOf({"epZeroLow", "epZeroHigh"}, 1..3)
Complete(e) ==
  /\ AlwaysOps \subseteq e
  /\ Rl!Op("rangeAll", 0) \in e \/ Rl!Op("rangeAtf", 0) \in e
  /\ DpOps \subseteq e \/ DpOps \cap e = {}
  /\ \A h \in {1, 2} : Rl!Op("hAssert", h) \in e \/ Rl!Op("hEnable", h) \in e =>
       Rl!Op("hClear", h) \in e /\ Rl!Op("hRemap", h) \in e
  /\ \A b \in {0, 1} : Rl!Op("e2mClear", b) \in e => Rl!Op("preset", b) \in e /\ Rl!Op("e2mClock", b) \in e

\* The starts of the CA35.
StartOps(range) == (VectorOps \cup RegionOps(range)) \cup LastOps

\* The three ways to start the CA35 are routines,
LEMMA Starts ==
  /\ Routine(Rl!StartCa35, StartOps("rangeAll")) /\ Routine(Rl!StartVendor, StartOps("rangeAtf"))
  /\ Routine(Rl!StartAtfBl33, StartOps("rangeAll") \cup EntryOps)
<1>1. \A r \in {"rangeAll", "rangeAtf"} :
        /\ \A a \in VectorOps \cup EntryOps, b \in RegionOps(r) \cup VectorOps \cup EntryOps : Precedes(a, b) /\ Precedes(b, a)
        /\ \A a \in VectorOps \cup EntryOps \cup RegionOps(r), b \in LastOps : Precedes(a, b)
  <2> SUFFICES ASSUME NEW r \in {"rangeAll", "rangeAtf"}
               PROVE  /\ \A a \in VectorOps \cup EntryOps, b \in RegionOps(r) \cup VectorOps \cup EntryOps :
                           Precedes(a, b) /\ Precedes(b, a)
                      /\ \A a \in VectorOps \cup EntryOps \cup RegionOps(r), b \in LastOps : Precedes(a, b)
    OBVIOUS
  <2>1. \A a \in VectorOps \cup EntryOps, b \in RegionOps(r) \cup VectorOps \cup EntryOps : Precedes(a, b) /\ Precedes(b, a)
    BY RanksOfRoutines DEF Precedes
  <2>2. \A a \in VectorOps \cup EntryOps \cup RegionOps(r) : Rank(a) <= FwWords + 44
    BY RanksOfRoutines, ReleaseConstants
  <2>3. \A b \in LastOps : Rank(b) > FwWords + 44
    BY RanksOfRoutines, ReleaseConstants
  <2>4. VectorOps \cup EntryOps \cup RegionOps(r) \in SUBSET AllOps /\ LastOps \in SUBSET AllOps /\ FwWords + 44 \in Nat
    BY RanksOfRoutines, ReleaseConstants
  <2>5. \A a \in VectorOps \cup EntryOps \cup RegionOps(r), b \in LastOps : Precedes(a, b)
    BY <2>2, <2>3, <2>4, Before
  <2> QED  BY <2>1, <2>5
<1>2. Routine(Rl!StartCa35, StartOps("rangeAll"))
  <2>1. Routine(Rl!SetRvbar \o Rl!EnableDramAccess, VectorOps \cup RegionOps("rangeAll"))
    BY <1>1, RoutineRvbar, RoutineRegion, InTurn
  <2>2. Routine((Rl!SetRvbar \o Rl!EnableDramAccess) \o Rl!ReleaseCa35, StartOps("rangeAll"))
    BY <1>1, <2>1, RoutineRelease, InTurn DEF StartOps
  <2> QED  BY <2>2 DEF Rl!StartCa35
<1>3. Routine(Rl!StartVendor, StartOps("rangeAtf"))
  <2>1. Routine(Rl!EnableVendorAccess \o Rl!SetRvbar, RegionOps("rangeAtf") \cup VectorOps)
    BY <1>1, RoutineRvbar, RoutineRegion, InTurn
  <2>2. Routine((Rl!EnableVendorAccess \o Rl!SetRvbar) \o Rl!ReleaseCa35, (RegionOps("rangeAtf") \cup VectorOps) \cup LastOps)
    BY <1>1, <2>1, RoutineRelease, InTurn
  <2>3. (RegionOps("rangeAtf") \cup VectorOps) \cup LastOps = StartOps("rangeAtf")
    BY DEF StartOps
  <2> QED  BY <2>2, <2>3 DEF Rl!StartVendor
<1>4. Routine(Rl!StartAtfBl33, StartOps("rangeAll") \cup EntryOps)
  <2>1. Routine(Rl!SetRvbar \o Rl!SetPrimaryEp, VectorOps \cup EntryOps)
    BY <1>1, RoutineRvbar, RoutineEp, InTurn
  <2>2. Routine((Rl!SetRvbar \o Rl!SetPrimaryEp) \o Rl!EnableDramAccess, (VectorOps \cup EntryOps) \cup RegionOps("rangeAll"))
    BY <1>1, <2>1, RoutineRegion, InTurn
  <2>3. Routine(((Rl!SetRvbar \o Rl!SetPrimaryEp) \o Rl!EnableDramAccess) \o Rl!ReleaseCa35,
                ((VectorOps \cup EntryOps) \cup RegionOps("rangeAll")) \cup LastOps)
    BY <1>1, <2>2, RoutineRelease, InTurn
  <2>4. ((VectorOps \cup EntryOps) \cup RegionOps("rangeAll")) \cup LastOps = StartOps("rangeAll") \cup EntryOps
    BY DEF StartOps
  <2> QED  BY <2>3, <2>4 DEF Rl!StartAtfBl33
<1> QED  BY <1>2, <1>3, <1>4

\* and come after everything else.
LEMMA StartRanks ==
  \A r \in {"rangeAll", "rangeAtf"} :
     /\ StartOps(r) \cup EntryOps \subseteq AllOps /\ AlwaysOps \subseteq StartOps(r) /\ Rl!Op(r, 0) \in StartOps(r)
     /\ \A o \in StartOps(r) \cup EntryOps : Rank(o) > FwWords + 32
<1> SUFFICES ASSUME NEW r \in {"rangeAll", "rangeAtf"}
             PROVE  /\ StartOps(r) \cup EntryOps \subseteq AllOps /\ AlwaysOps \subseteq StartOps(r) /\ Rl!Op(r, 0) \in StartOps(r)
                    /\ \A o \in StartOps(r) \cup EntryOps : Rank(o) > FwWords + 32
  OBVIOUS
<1>1. StartOps(r) \cup EntryOps \subseteq AllOps
  BY RanksOfRoutines DEF StartOps
<1>2. AlwaysOps \subseteq StartOps(r) /\ Rl!Op(r, 0) \in StartOps(r)
  BY DEF AlwaysOps, StartOps, RegionOps, LastOps, WritesOf
<1>3. \A o \in VectorOps \cup EntryOps \cup RegionOps(r) \cup LastOps : Rank(o) > FwWords + 32
  BY RanksOfRoutines, ReleaseConstants
<1> QED  BY <1>1, <1>2, <1>3 DEF StartOps

\* A write that is none of these is not among them.
LEMMA NotAmong ==
  /\ \A r \in {"rangeAll", "rangeAtf"} : DpOps \cap (StartOps(r) \cup EntryOps) = {}
  /\ \A r \in {"rangeAll", "rangeAtf"}, n \in {"hAssert", "hEnable"}, h \in {1, 2} : Rl!Op(n, h) \notin StartOps(r) \cup EntryOps
  /\ \A r \in {"rangeAll", "rangeAtf"}, b \in {0, 1} : Rl!Op("e2mClear", b) \notin StartOps(r) \cup EntryOps
<1>1. \A n \in {"hAssert", "hEnable"}, h \in {1, 2} : Rank(Rl!Op(n, h)) \in (FwWords + 7 + 6 * h)..(FwWords + 12 + 6 * h)
  <2>1. RankHelper["hAssert"] = 7 /\ RankHelper["hEnable"] = 12 /\ {"hAssert", "hEnable"} \subseteq DOMAIN RankHelper
    BY DEF RankHelper
  <2> QED  BY <2>1, RanksHelper, ReleaseConstants
<1>2. \A b \in {0, 1} : Rank(Rl!Op("e2mClear", b)) = FwWords + 30 - 3 * b
  BY RanksBridge DEF RankBridge
<1>3. \A n \in {"hAssert", "hEnable"}, h \in {1, 2} : ~(Rank(Rl!Op(n, h)) > FwWords + 32)
  BY <1>1, ReleaseConstants
<1>4. \A b \in {0, 1} : ~(Rank(Rl!Op("e2mClear", b)) > FwWords + 32)
  BY <1>2, ReleaseConstants
<1>5. \A o \in DpOps : ~(Rank(o) > FwWords + 32)
  BY RankBounds, ReleaseConstants
<1> QED  BY <1>3, <1>4, <1>5, StartRanks

Booting(s) == s \in Seq(AllOps) /\ Ordered(s) /\ Complete(ElementsOf(s))

\* Every boot is in order.
LEMMA BootsOrdered == \A s \in Rl!Boots : Booting(s)
<1>1. ASSUME NEW start, NEW r \in {"rangeAll", "rangeAtf"}, Routine(start, StartOps(r))
      PROVE  Booting(Rl!RuntimeFabric \o Rl!BringUpDp \o start)
  <2>1. Routine(Rl!RuntimeFabric, FabricOps)
    <3>1. FabricOps = {Rl!Op("fabric", 0)}
      BY DEF FabricOps, WritesOf
    <3> QED  BY <3>1, RanksOfRoutines, Routine1 DEF Rl!RuntimeFabric
  <2>2. \A a \in FabricOps, b \in DpOps : Precedes(a, b)
    BY RanksOfRoutines, RankBounds, ReleaseConstants DEF Precedes
  <2>3. Routine(Rl!RuntimeFabric \o Rl!BringUpDp, FabricOps \cup DpOps)
    BY <2>1, <2>2, RoutineDp, InTurn
  <2>4. \A a \in FabricOps \cup DpOps, b \in StartOps(r) : Precedes(a, b)
    <3>1. \A a \in FabricOps \cup DpOps : Rank(a) <= FwWords + 32
      BY RanksOfRoutines, RankBounds, ReleaseConstants
    <3>2. \A b \in StartOps(r) : Rank(b) > FwWords + 32
      BY StartRanks
    <3>3. FabricOps \cup DpOps \in SUBSET AllOps
      <4>1. DpOps \subseteq AllOps
        BY DEF AllOps
      <4> QED  BY <4>1, RanksOfRoutines
    <3>4. StartOps(r) \in SUBSET AllOps /\ FwWords + 32 \in Nat
      BY StartRanks, ReleaseConstants
    <3> QED  BY <3>1, <3>2, <3>3, <3>4, Before
  <2>5. Routine((Rl!RuntimeFabric \o Rl!BringUpDp) \o start, (FabricOps \cup DpOps) \cup StartOps(r))
    BY <1>1, <2>3, <2>4, InTurn
  <2>6. Complete((FabricOps \cup DpOps) \cup StartOps(r))
    <3> DEFINE e == (FabricOps \cup DpOps) \cup StartOps(r)
    <3>1. \A o \in FabricOps \cup DpOps : ~(Rank(o) > FwWords + 12)
      BY RanksOfRoutines, RankBounds, ReleaseConstants
    <3>2. /\ \A n \in {"hAssert", "hEnable"}, h \in {1, 2} : Rank(Rl!Op(n, h)) > FwWords + 12
          /\ \A b \in {0, 1} : Rank(Rl!Op("e2mClear", b)) > FwWords + 12
      <4>1. \A n \in {"hAssert", "hEnable"}, h \in {1, 2} : Rl!Op(n, h) \in HelperOps(h)
        BY DEF HelperOps, WritesOf
      <4>2. \A b \in {0, 1} : Rl!Op("e2mClear", b) \in BridgeOps
        BY DEF BridgeOps, WritesOf
      <4> QED  BY <4>1, <4>2, RanksOfHelpers, ReleaseConstants
    <3>3. /\ \A n \in {"hAssert", "hEnable"}, h \in {1, 2} : Rl!Op(n, h) \notin e
          /\ \A b \in {0, 1} : Rl!Op("e2mClear", b) \notin e
      BY <3>1, <3>2, NotAmong
    <3>4. AlwaysOps \subseteq e /\ Rl!Op(r, 0) \in e /\ DpOps \subseteq e
      BY StartRanks
    <3> HIDE DEF e
    <3>5. Complete(e)
      BY <3>3, <3>4 DEF Complete
    <3> QED  BY <3>5 DEF e
  <2> QED  BY <2>5, <2>6 DEF Routine, Booting
<1>2. Booting(Rl!InitSsp \o Rl!EnableSsp \o Rl!InitTsp \o Rl!EnableTsp \o Rl!StartAtfBl33)
  <2> DEFINE ssp == Rl!InitSsp \o Rl!EnableSsp
             tsp == Rl!InitTsp \o Rl!EnableTsp
             e == ((HelperOps(1) \cup HelperOps(2)) \cup (StartOps("rangeAll") \cup EntryOps))
  <2>1. \A a \in HelperOps(1), b \in HelperOps(2) : Precedes(a, b)
    BY RanksOfHelpers, ReleaseConstants DEF Precedes
  <2>2. Routine(ssp \o tsp, HelperOps(1) \cup HelperOps(2))
    BY <2>1, RoutineHelpers, InTurn
  <2>3. ssp \o tsp = Rl!InitSsp \o Rl!EnableSsp \o Rl!InitTsp \o Rl!EnableTsp
    <3>1. \A n \in {"hAssert", "hClear", "hHold", "hPoll", "hRemap", "hEnable"}, h \in {1, 2} : Rl!Op(n, h) \in AllOps
      BY RanksOfHelpers DEF HelperOps, WritesOf
    <3>2. ssp \in Seq(AllOps) /\ Rl!InitTsp \in Seq(AllOps) /\ Rl!EnableTsp \in Seq(AllOps)
      BY <3>1, RoutineHelpers DEF Routine, Rl!InitTsp, Rl!EnableTsp
    <3> HIDE DEF ssp
    <3>3. (ssp \o Rl!InitTsp) \o Rl!EnableTsp = ssp \o tsp
      BY <3>2, ConcatAssociative
    <3> QED  BY <3>3 DEF ssp
  <2>4. \A a \in HelperOps(1) \cup HelperOps(2), b \in StartOps("rangeAll") \cup EntryOps : Precedes(a, b)
    <3>1. \A a \in HelperOps(1) \cup HelperOps(2) : Rank(a) <= FwWords + 32
      BY RanksOfHelpers, ReleaseConstants
    <3>2. \A b \in StartOps("rangeAll") \cup EntryOps : Rank(b) > FwWords + 32
      BY StartRanks
    <3>3. HelperOps(1) \cup HelperOps(2) \in SUBSET AllOps /\ StartOps("rangeAll") \cup EntryOps \in SUBSET AllOps
          /\ FwWords + 32 \in Nat
      BY RanksOfHelpers, StartRanks, ReleaseConstants
    <3> QED  BY <3>1, <3>2, <3>3, Before
  <2>5. Routine((ssp \o tsp) \o Rl!StartAtfBl33, e)
    <3> HIDE DEF ssp, tsp
    <3> QED  BY <2>2, <2>4, Starts, InTurn
  <2>6. Complete(e)
    <3>1. DpOps \cap (HelperOps(1) \cup HelperOps(2)) = {}
      <4>1. \A a \in HelperOps(1) \cup HelperOps(2) : Rank(a) > FwWords + 12
        BY RanksOfHelpers, ReleaseConstants
      <4>2. \A a \in DpOps : ~(Rank(a) > FwWords + 12)
        BY RankBounds, ReleaseConstants
      <4> QED  BY <4>1, <4>2
    <3>2. DpOps \cap e = {}
      BY <3>1, NotAmong
    <3>3. \A h \in {1, 2} : Rl!Op("hClear", h) \in e /\ Rl!Op("hRemap", h) \in e
      BY DEF HelperOps, WritesOf
    <3>4. \A b \in {0, 1} : Rl!Op("e2mClear", b) \notin HelperOps(1) \cup HelperOps(2)
      BY DEF HelperOps, WritesOf, Rl!Op
    <3>5. \A b \in {0, 1} : Rl!Op("e2mClear", b) \notin e
      BY <3>4, NotAmong
    <3>6. AlwaysOps \subseteq e /\ Rl!Op("rangeAll", 0) \in e
      BY StartRanks
    <3> HIDE DEF e
    <3> QED  BY <3>2, <3>3, <3>5, <3>6 DEF Complete
  <2> QED  BY <2>3, <2>5, <2>6 DEF Routine, Booting
<1>3. Booting(Rl!InitPciE2m \o Rl!InitUfsAxiPath \o Rl!StartCa35)
  <2> DEFINE e == (BridgeOps \cup OwnOps) \cup StartOps("rangeAll")
  <2>1. Routine(Rl!InitUfsAxiPath, OwnOps)
    <3>1. OwnOps = {Rl!Op("ufsOwn", 0)}
      BY DEF OwnOps, WritesOf
    <3> QED  BY <3>1, RanksOfRoutines, Routine1 DEF Rl!InitUfsAxiPath
  <2>2. \A a \in BridgeOps, b \in OwnOps : Precedes(a, b)
    BY RanksOfHelpers, RanksOfRoutines, ReleaseConstants DEF Precedes
  <2>3. Routine(Rl!InitPciE2m \o Rl!InitUfsAxiPath, BridgeOps \cup OwnOps)
    BY <2>1, <2>2, RoutineE2m, InTurn
  <2>4. \A a \in BridgeOps \cup OwnOps, b \in StartOps("rangeAll") : Precedes(a, b)
    <3>1. \A a \in BridgeOps \cup OwnOps : Rank(a) <= FwWords + 32
      BY RanksOfHelpers, RanksOfRoutines, ReleaseConstants
    <3>2. \A b \in StartOps("rangeAll") : Rank(b) > FwWords + 32
      BY StartRanks
    <3>3. BridgeOps \cup OwnOps \in SUBSET AllOps /\ StartOps("rangeAll") \in SUBSET AllOps /\ FwWords + 32 \in Nat
      BY RanksOfHelpers, RanksOfRoutines, StartRanks, ReleaseConstants
    <3> QED  BY <3>1, <3>2, <3>3, Before
  <2>5. Routine((Rl!InitPciE2m \o Rl!InitUfsAxiPath) \o Rl!StartCa35, e)
    BY <2>3, <2>4, Starts, InTurn
  <2>6. Complete(e)
    <3>1. DpOps \cap (BridgeOps \cup OwnOps) = {}
      <4>1. \A a \in BridgeOps \cup OwnOps : Rank(a) > FwWords + 12
        BY RanksOfHelpers, RanksOfRoutines, ReleaseConstants
      <4>2. \A a \in DpOps : ~(Rank(a) > FwWords + 12)
        BY RankBounds, ReleaseConstants
      <4> QED  BY <4>1, <4>2
    <3>2. DpOps \cap e = {}
      BY <3>1, NotAmong
    <3>3. \A b \in {0, 1} : Rl!Op("preset", b) \in e /\ Rl!Op("e2mClock", b) \in e
      BY DEF BridgeOps, WritesOf
    <3>4. \A n \in {"hAssert", "hEnable"}, h \in {1, 2} : Rl!Op(n, h) \notin BridgeOps \cup OwnOps
      BY DEF BridgeOps, OwnOps, WritesOf, Rl!Op
    <3>5. \A n \in {"hAssert", "hEnable"}, h \in {1, 2} : Rl!Op(n, h) \notin e
      BY <3>4, NotAmong
    <3>6. AlwaysOps \subseteq e /\ Rl!Op("rangeAll", 0) \in e
      BY StartRanks
    <3> HIDE DEF e
    <3> QED  BY <3>2, <3>3, <3>5, <3>6 DEF Complete
  <2> QED  BY <2>5, <2>6 DEF Routine, Booting
<1>4. Booting(Rl!RuntimeFabric \o Rl!BringUpDp \o Rl!StartCa35)
      /\ Booting(Rl!RuntimeFabric \o Rl!BringUpDp \o Rl!StartVendor)
  BY <1>1, Starts
<1> QED  BY <1>2, <1>3, <1>4 DEF Rl!Boots

-----------------------------------------------------------------------------
(* The writes that a boot still makes.                                     *)

Due == ElementsOf(rlTodo)
Waits(n, i) == Rl!Op(n, i) \in Due
Queue == rlTodo \in Seq(AllOps) /\ Ordered(rlTodo)

\* The step makes or skips writes of these names only.
Dropped(names) ==
  /\ Queue'
  /\ Due' \subseteq Due
  /\ \A o \in Due \ Due' : o.do \in names

\* The first write of an ordered sequence comes before all others.
LEMMA FirstFirst ==
  ASSUME NEW s \in Seq(AllOps), Ordered(s), s # <<>>
  PROVE  /\ Tail(s) \in Seq(AllOps) /\ Ordered(Tail(s))
         /\ Head(s) \in ElementsOf(s) /\ ElementsOf(Tail(s)) \subseteq ElementsOf(s)
         /\ ElementsOf(s) \subseteq ElementsOf(Tail(s)) \cup {Head(s)}
         /\ \A o \in ElementsOf(Tail(s)) : Precedes(Head(s), o)
<1> DEFINE t == Tail(s)
<1>1. Len(s) \in Nat /\ Len(s) >= 1 /\ Head(s) = s[1]
  BY EmptySeq, LenProperties
<1>2. t \in Seq(AllOps) /\ Len(t) = Len(s) - 1 /\ \A i \in 1..Len(t) : t[i] = s[i + 1]
  BY <1>1, HeadTailProperties
<1> HIDE DEF t
<1>3. \A i \in 1..Len(t) : i + 1 \in 1..Len(s) /\ t[i] = s[i + 1]
  BY <1>1, <1>2
<1>4. Ordered(t)
  <2> SUFFICES ASSUME NEW i \in 1..Len(t), NEW j \in 1..Len(t), i < j PROVE Precedes(t[i], t[j])
    BY DEF Ordered
  <2>1. i + 1 < j + 1
    BY <1>1, <1>2
  <2> QED  BY <1>3, <2>1 DEF Ordered
<1>5. Head(s) \in ElementsOf(s)
  BY <1>1 DEF ElementsOf
<1>6. ElementsOf(t) \subseteq ElementsOf(s)
  BY <1>3 DEF ElementsOf
<1>7. ElementsOf(s) \subseteq ElementsOf(t) \cup {Head(s)}
  <2> SUFFICES ASSUME NEW i \in 1..Len(s), i # 1 PROVE s[i] \in ElementsOf(t)
    BY <1>1 DEF ElementsOf
  <2>1. i - 1 \in 1..Len(t) /\ (i - 1) + 1 = i
    BY <1>1, <1>2
  <2>2. t[i - 1] = s[i]
    BY <1>3, <2>1
  <2> QED  BY <2>1, <2>2 DEF ElementsOf
<1>8. \A o \in ElementsOf(t) : Precedes(Head(s), o)
  <2> SUFFICES ASSUME NEW i \in 1..Len(t) PROVE Precedes(s[1], t[i])
    BY <1>1 DEF ElementsOf
  <2>1. i + 1 \in 1..Len(s) /\ 1 \in 1..Len(s) /\ 1 < i + 1
    BY <1>1, <1>2
  <2> QED  BY <1>3, <2>1 DEF Ordered
<1> QED  BY <1>2, <1>4, <1>5, <1>6, <1>7, <1>8 DEF t

\* What is left behind the k - 1 first.
LEMMA RestRight ==
  ASSUME NEW s \in Seq(AllOps), Ordered(s), NEW k \in 1..Len(s)
  PROVE  /\ SubSeq(s, k, Len(s)) \in Seq(AllOps) /\ Ordered(SubSeq(s, k, Len(s)))
         /\ ElementsOf(SubSeq(s, k, Len(s))) \subseteq ElementsOf(s)
         /\ \A o \in ElementsOf(s) \ ElementsOf(SubSeq(s, k, Len(s))) : \E j \in 1..(k - 1) : s[j] = o
         /\ \A o \in ElementsOf(SubSeq(s, k, Len(s))) : o = s[k] \/ Precedes(s[k], o)
<1> DEFINE t == SubSeq(s, k, Len(s))
<1>1. Len(s) \in Nat /\ k \in Nat /\ 1 <= k /\ k <= Len(s)
  BY LenProperties
<1>2. t = [i \in 1 .. Len(s) - k + 1 |-> s[i + k - 1]]
  BY <1>1
<1>3. \A i \in 1 .. Len(s) - k + 1 : i + k - 1 \in 1..Len(s)
  BY <1>1
<1>4. t \in Seq(AllOps) /\ Len(t) = Len(s) - k + 1
  BY <1>1, <1>3, SubSeqProperties
<1>5. \A i \in 1..Len(t) : t[i] = s[i + k - 1] /\ i + k - 1 \in 1..Len(s)
  BY <1>2, <1>3, <1>4
<1> HIDE DEF t
<1>6. Ordered(t)
  <2> SUFFICES ASSUME NEW i \in 1..Len(t), NEW j \in 1..Len(t), i < j PROVE Precedes(t[i], t[j])
    BY DEF Ordered
  <2>1. i + k - 1 < j + k - 1
    BY <1>1, <1>4
  <2> QED  BY <1>5, <2>1 DEF Ordered
<1>7. ElementsOf(t) \subseteq ElementsOf(s)
  BY <1>5 DEF ElementsOf
<1>8. \A o \in ElementsOf(s) \ ElementsOf(t) : \E j \in 1..(k - 1) : s[j] = o
  <2> SUFFICES ASSUME NEW m \in 1..Len(s), m \notin 1..(k - 1) PROVE s[m] \in ElementsOf(t)
    BY DEF ElementsOf
  <2>1. m - k + 1 \in 1..Len(t) /\ (m - k + 1) + k - 1 = m
    BY <1>1, <1>4
  <2>2. t[m - k + 1] = s[m]
    BY <1>5, <2>1
  <2> QED  BY <2>1, <2>2 DEF ElementsOf
<1>9. \A o \in ElementsOf(t) : o = s[k] \/ Precedes(s[k], o)
  <2> SUFFICES ASSUME NEW i \in 1..Len(t), i # 1 PROVE Precedes(s[k], t[i])
    <3>1. 1 + k - 1 = k
      BY <1>1
    <3>2. 1 \in 1..Len(t) => t[1] = s[k]
      BY <1>5, <3>1
    <3> QED  BY <3>2 DEF ElementsOf
  <2>1. k < i + k - 1 /\ k \in 1..Len(s)
    BY <1>1, <1>4
  <2> QED  BY <1>5, <2>1 DEF Ordered
<1> QED  BY <1>4, <1>6, <1>7, <1>8, <1>9 DEF t

\* A write that is made leaves the later ones.
LEMMA Made ==
  ASSUME Queue, NEW n, NEW i, Rl!Writes(n, i)
  PROVE  /\ Dropped({n})
         /\ Waits(n, i) /\ Rl!Op(n, i) \in AllOps
         /\ Due \subseteq Due' \cup {Rl!Op(n, i)}
         /\ \A o \in Due' : Precedes(Rl!Op(n, i), o)
<1> DEFINE h == Rl!Op(n, i)
<1>1. rlTodo \in Seq(AllOps) /\ Ordered(rlTodo) /\ rlTodo # <<>> /\ Head(rlTodo) = h /\ rlTodo' = Tail(rlTodo)
  BY DEF Queue, Rl!Writes
<1>2. h.do = n
  BY DEF Rl!Op
<1> HIDE DEF h
<1>3. /\ Tail(rlTodo) \in Seq(AllOps) /\ Ordered(Tail(rlTodo))
      /\ h \in ElementsOf(rlTodo) /\ ElementsOf(Tail(rlTodo)) \subseteq ElementsOf(rlTodo)
      /\ ElementsOf(rlTodo) \subseteq ElementsOf(Tail(rlTodo)) \cup {h}
      /\ \A o \in ElementsOf(Tail(rlTodo)) : Precedes(h, o)
  BY <1>1, FirstFirst
<1>4. Due' = ElementsOf(Tail(rlTodo)) /\ Due = ElementsOf(rlTodo)
  BY <1>1 DEF Due, ElementsOf
<1>5. Queue'
  BY <1>1, <1>3 DEF Queue, Ordered
<1>6. h \in AllOps
  BY <1>1, <1>3 DEF ElementsOf
<1> QED  BY <1>2, <1>3, <1>4, <1>5, <1>6 DEF Dropped, Waits, h

\* A routine that returns early skips writes of its own.
LEMMA Skipped ==
  ASSUME Queue, NEW n, NEW i, NEW names, n \in names, rlTodo # <<>>, Head(rlTodo) = Rl!Op(n, i),
         Rl!Returns(names)
  PROVE  /\ Dropped(names)
         /\ Waits(n, i)
         /\ \E f \in AllOps : /\ f.do \notin names /\ Precedes(Rl!Op(n, i), f)
                              /\ \A o \in Due' : o = f \/ Precedes(f, o)
<1> DEFINE h == Rl!Op(n, i)
<1>1. rlTodo \in Seq(AllOps) /\ Ordered(rlTodo) /\ rlTodo # <<>> /\ Head(rlTodo) = h
  BY DEF Queue
<1>2. h.do = n
  BY DEF Rl!Op
<1> HIDE DEF h
<1>3. PICK k \in 1..Len(rlTodo) : /\ rlTodo[k].do \notin names
                                  /\ \A j \in 1..(k - 1) : rlTodo[j].do \in names
                                  /\ rlTodo' = SubSeq(rlTodo, k, Len(rlTodo))
  BY DEF Rl!Returns
<1>4. Len(rlTodo) \in Nat /\ 1 \in 1..Len(rlTodo) /\ rlTodo[1] = h
  BY <1>1, EmptySeq, LenProperties
<1>5. k # 1 /\ 1 < k
  BY <1>2, <1>3, <1>4
<1>6. Precedes(h, rlTodo[k]) /\ rlTodo[k] \in AllOps
  BY <1>1, <1>3, <1>4, <1>5 DEF Ordered
<1>7. Due = ElementsOf(rlTodo) /\ Due' = ElementsOf(SubSeq(rlTodo, k, Len(rlTodo)))
  BY <1>3 DEF Due, ElementsOf
<1>8. /\ SubSeq(rlTodo, k, Len(rlTodo)) \in Seq(AllOps) /\ Ordered(SubSeq(rlTodo, k, Len(rlTodo)))
      /\ Due' \subseteq Due
      /\ \A o \in Due \ Due' : \E j \in 1..(k - 1) : rlTodo[j] = o
      /\ \A o \in Due' : o = rlTodo[k] \/ Precedes(rlTodo[k], o)
  BY <1>1, <1>7, RestRight
<1>9. Queue'
  BY <1>3, <1>8 DEF Queue, Ordered
<1>10. \A o \in Due \ Due' : o.do \in names
  BY <1>3, <1>8
<1>11. Waits(n, i)
  BY <1>4, <1>7 DEF Waits, ElementsOf, h
<1> QED  BY <1>3, <1>6, <1>8, <1>9, <1>10, <1>11 DEF Dropped, h

-----------------------------------------------------------------------------
(* What the writes that are still to come leave to be done, by register.   *)

RegionReady ==
  /\ mpu \in [range : {"none", "all", "atf"}, masters : BOOLEAN, on : BOOLEAN, locked : BOOLEAN]
  /\ Waits("rangeAll", 0) \/ Waits("rangeAtf", 0) \/ mpu.range # "none"
  /\ mpu.locked => mpu.range # "none"
  /\ Waits("masters", 0) \/ mpu.masters
  /\ Waits("on", 0) \/ mpu.on
  /\ Waits("off", 0) => Waits("on", 0)

EpValues == {"zero", "old", "new"} \X {"zero", "old", "new"}
CoresReady ==
  /\ rvbar \in [Rl!Cores -> {"old", "new"}] /\ ep \in [Rl!Cores -> EpValues]
  /\ core \in [Rl!Cores -> {"held", "spin", "atf"}]
  /\ ufsAxi \in BOOLEAN /\ rel \in BOOLEAN
  /\ \A c \in Rl!Cores : Waits("rvbar", c) \/ rvbar[c] = "new"
  /\ Waits("ufsAxi", 0) \/ ufsAxi
  /\ Waits("ufsOwn", 0) => Waits("ufsAxi", 0)
  /\ rel => Due = {} /\ \A c \in Secondaries : ep[c] \in {<<"zero", "zero">>, <<"new", "new">>}
  /\ ~rel => /\ Waits("release", 0) /\ \A c \in Rl!Cores : core[c] = "held"
             /\ \A c \in Secondaries : /\ Waits("epZeroLow", c) \/ ep[c][1] = "zero"
                                       /\ Waits("epZeroHigh", c) \/ ep[c][2] = "zero"

\* While the release of the DPMCU is still to come.
Loading ==
  /\ ~dp.run
  /\ dp.reset => Waits("dpClear", 0)
  /\ Waits("dpPower", 0) \/ dp.power
  /\ dp.window => Waits("dpClose", 0)
  /\ Waits("dpClose", 0) => Waits("dpOpen", 0) \/ dp.window
  /\ rlFw => \A i \in 1..FwWords : Waits("dpWord", i) \/ dp.imem[i] = "new"

DpReady ==
  /\ dp \in [reset : BOOLEAN, power : BOOLEAN, window : BOOLEAN, run : BOOLEAN,
             imem : [1..FwWords -> {"old", "new"}], ints : BOOLEAN, hand : SUBSET {0, 1}]
  /\ rlFw \in BOOLEAN
  /\ \A o \in Due \cap DpOps, p \in DpOps : Rank(o) < Rank(p) => p \in Due
  /\ Waits("dpRun", 0) => Loading
  /\ dp.run => ~dp.window /\ ~dp.reset /\ dp.power /\ (rlFw => \A i \in 1..FwWords : dp.imem[i] = "new")

HelpersReady ==
  /\ helper \in [{1, 2} -> [reset : BOOLEAN, run : BOOLEAN, ready : BOOLEAN, remap : {"old", "new"}]]
  /\ \A h \in {1, 2} :
       /\ helper[h].run => helper[h].remap = "new" /\ ~helper[h].reset
       /\ Waits("hEnable", h) => /\ Waits("hRemap", h) \/ helper[h].remap = "new"
                                 /\ Waits("hClear", h) \/ ~helper[h].reset
       /\ Waits("hAssert", h) => Waits("hClear", h) /\ ~helper[h].run

BridgesReady ==
  /\ e2m \in [{0, 1} -> [reset : BOOLEAN, clock : BOOLEAN, preset : BOOLEAN]]
  /\ \A b \in {0, 1} :
       /\ ~e2m[b].reset => e2m[b].clock /\ e2m[b].preset
       /\ Waits("e2mClear", b) => /\ Waits("preset", b) \/ e2m[b].preset
                                  /\ Waits("e2mClock", b) \/ e2m[b].clock

Ready == Queue /\ RegionReady /\ CoresReady /\ DpReady /\ HelpersReady /\ BridgesReady
ReleaseInv ==
  /\ Queue /\ RegionReady /\ CoresReady /\ DpReady /\ HelpersReady /\ BridgesReady
  /\ resets \in 0..MaxResets

\* A step that makes or skips no write that a register waits for leaves it ready.
LEMMA RegionKept ==
  ASSUME RegionReady, NEW names, Dropped(names), mpu' = mpu,
         names \cap {"rangeAll", "rangeAtf", "masters", "on"} = {}
  PROVE  RegionReady'
<1>1. \A n \in {"rangeAll", "rangeAtf", "masters", "on"} : Waits(n, 0) => Waits(n, 0)'
  BY DEF Dropped, Waits, Rl!Op
<1>2. Waits("off", 0)' => Waits("off", 0)
  BY DEF Dropped, Waits
<1> QED  BY <1>1, <1>2 DEF RegionReady

\* The parts of Ready that writes of other registers keep: the cores,
LEMMA CoresKept ==
  ASSUME CoresReady, NEW names, Dropped(names), UNCHANGED <<rvbar, ep, ufsAxi, rel, core>>,
         names \cap {"rvbar", "ufsAxi", "release", "epZeroLow", "epZeroHigh"} = {}
  PROVE  CoresReady'
<1>1. \A n \in {"rvbar", "ufsAxi", "release", "epZeroLow", "epZeroHigh"}, i \in 0..3 : Waits(n, i) => Waits(n, i)'
  BY DEF Dropped, Waits, Rl!Op
<1>2. Waits("ufsOwn", 0)' => Waits("ufsOwn", 0)
  BY DEF Dropped, Waits
<1>3. Rl!Cores \subseteq 0..3 /\ Secondaries \subseteq 0..3 /\ 0 \in 0..3 /\ Rl!Cores' = Rl!Cores
  BY ReleaseConstants DEF Rl!Cores
<1>4. Due = {} => Due' = {}
  BY DEF Dropped
<1> QED  BY <1>1, <1>2, <1>3, <1>4 DEF CoresReady

\* the DPMCU,
LEMMA DpKept ==
  ASSUME DpReady, NEW names, Dropped(names), UNCHANGED <<dp, rlFw>>,
         \A o \in DpOps : o.do \notin names
  PROVE  DpReady'
<1>1. \A o \in DpOps : o \in Due' <=> o \in Due
  BY DEF Dropped
<1>2. /\ \A n \in {"dpRun", "dpClear", "dpPower", "dpClose", "dpOpen"} : Waits(n, 0)' <=> Waits(n, 0)
      /\ \A i \in 1..FwWords : Waits("dpWord", i)' <=> Waits("dpWord", i)
  BY <1>1 DEF Waits, DpOps, WritesOf, RankEarly
<1>3. Loading' <=> Loading
  BY <1>2 DEF Loading
<1>4. \A o \in Due' \cap DpOps, p \in DpOps : Rank(o) < Rank(p) => p \in Due'
  BY <1>1 DEF DpReady
<1> QED  BY <1>2, <1>3, <1>4 DEF DpReady, Rank, DpOps, WritesOf

\* the coprocessors
LEMMA HelpersKept ==
  ASSUME HelpersReady, NEW names, Dropped(names), helper' = helper,
         names \cap {"hRemap", "hClear"} = {}
  PROVE  HelpersReady'
<1>1. \A n \in {"hRemap", "hClear"}, h \in {1, 2} : Waits(n, h) => Waits(n, h)'
  BY DEF Dropped, Waits, Rl!Op
<1>2. \A n \in {"hEnable", "hAssert"}, h \in {1, 2} : Waits(n, h)' => Waits(n, h)
  BY DEF Dropped, Waits
<1> QED  BY <1>1, <1>2 DEF HelpersReady

\* and the bridges.
LEMMA BridgesKept ==
  ASSUME BridgesReady, NEW names, Dropped(names), e2m' = e2m,
         names \cap {"preset", "e2mClock"} = {}
  PROVE  BridgesReady'
<1>1. \A n \in {"preset", "e2mClock"}, b \in {0, 1} : Waits(n, b) => Waits(n, b)'
  BY DEF Dropped, Waits, Rl!Op
<1>2. \A b \in {0, 1} : Waits("e2mClear", b)' => Waits("e2mClear", b)
  BY DEF Dropped, Waits
<1> QED  BY <1>1, <1>2 DEF BridgesReady

\* A boot starts with nothing made.
BootStarts ==
  /\ rlTodo \in Rl!Boots /\ rlFw \in BOOLEAN /\ mpu = Rl!MpuOff /\ dp = Rl!DpOff /\ helper = Rl!HelperOff
  /\ rel = FALSE /\ core = [c \in Rl!Cores |-> "held"] /\ rvbar = [c \in Rl!Cores |-> "old"]
  /\ ep \in [Rl!Cores -> EpValues] /\ ufsAxi \in BOOLEAN
  /\ \E on \in BOOLEAN : e2m = [b \in Rl!Bridges |-> [reset |-> ~on, clock |-> on, preset |-> on]]

\* So every part is ready for it.
LEMMA BootReady == BootStarts => Ready
<1> SUFFICES ASSUME BootStarts PROVE Ready
  OBVIOUS
<1>0. PICK on \in BOOLEAN : e2m = [b \in Rl!Bridges |-> [reset |-> ~on, clock |-> on, preset |-> on]]
  BY DEF BootStarts
<1> USE DEF BootStarts
<1>1. Queue /\ Complete(Due)
  BY BootsOrdered DEF Booting, Queue, Due
<1>2. /\ \A n \in {"ufsAxi", "release", "masters", "on"} : Waits(n, 0)
      /\ \A c \in 0..3 : Waits("rvbar", c)
      /\ \A c \in 1..3 : Waits("epZeroLow", c) /\ Waits("epZeroHigh", c)
      /\ Waits("rangeAll", 0) \/ Waits("rangeAtf", 0)
  BY <1>1 DEF Complete, AlwaysOps, VectorOps, WritesOf, Waits
<1>3. RegionReady
  BY <1>2 DEF RegionReady, Rl!MpuOff
<1>4. CoresReady
  <2>1. \A c \in Rl!Cores : Waits("rvbar", c)
    BY <1>2, ReleaseConstants
  <2>2. \A c \in Secondaries : Waits("epZeroLow", c) /\ Waits("epZeroHigh", c)
    BY <1>2, ReleaseConstants
  <2>3. rvbar \in [Rl!Cores -> {"old", "new"}] /\ core \in [Rl!Cores -> {"held", "spin", "atf"}]
        /\ \A c \in Rl!Cores : core[c] = "held"
    OBVIOUS
  <2> QED  BY <1>2, <2>1, <2>2, <2>3 DEF CoresReady
<1>5. DpReady
  <2>1. \A o \in Due \cap DpOps, p \in DpOps : p \in Due
    BY <1>1 DEF Complete
  <2>2. Waits("dpRun", 0) => DpOps \subseteq Due
    <3>1. Rl!Op("dpRun", 0) \in DpOps
      BY DEF DpOps, WritesOf
    <3> QED  BY <2>1, <3>1 DEF Waits
  <2>3. DpOps \subseteq Due => /\ Waits("dpClear", 0) /\ Waits("dpPower", 0) /\ Waits("dpOpen", 0)
                               /\ \A i \in 1..FwWords : Waits("dpWord", i)
    BY DEF DpOps, WritesOf, Waits, RankEarly
  <2>4. Waits("dpRun", 0) => Loading
    BY <2>2, <2>3 DEF Loading, Rl!DpOff
  <2> QED  BY <2>1, <2>4 DEF DpReady, Rl!DpOff
<1>6. HelpersReady
  <2>1. \A h \in {1, 2} : Waits("hAssert", h) \/ Waits("hEnable", h) => Waits("hClear", h) /\ Waits("hRemap", h)
    BY <1>1 DEF Complete, Waits
  <2> QED  BY <2>1, ReleaseConstants DEF HelpersReady, Rl!HelperOff
<1>7. BridgesReady
  <2>1. \A b \in {0, 1} : Waits("e2mClear", b) => Waits("preset", b) /\ Waits("e2mClock", b)
    BY <1>1 DEF Complete, Waits
  <2> QED  BY <1>0, <2>1, ReleaseConstants DEF BridgesReady
<1> QED  BY <1>1, <1>3, <1>4, <1>5, <1>6, <1>7 DEF Ready

\* The index of a write.
LEMMA Indices ==
  /\ \A n \in {"epLow", "epHigh"} : \A c : Rl!Op(n, c) \in AllOps => c = 0
  /\ \A n \in {"epZeroLow", "epZeroHigh"} : \A c : Rl!Op(n, c) \in AllOps => c \in 1..3
<1> SUFFICES ASSUME NEW n \in {"epLow", "epHigh", "epZeroLow", "epZeroHigh"}, NEW c, Rl!Op(n, c) \in AllOps
             PROVE  IF n \in {"epLow", "epHigh"} THEN c = 0 ELSE c \in 1..3
  OBVIOUS
<1> DEFINE o == Rl!Op(n, c)
<1>1. o.do = n /\ o.i = c
  BY DEF Rl!Op
<1>2. ASSUME NEW names, NEW is, o \in WritesOf(names, is) PROVE n \in names /\ c \in is
  <2>1. PICK m \in names, k \in is : o = Rl!Op(m, k)
    BY <1>2 DEF WritesOf
  <2>2. o.do = m /\ o.i = k
    BY <2>1 DEF Rl!Op
  <2> QED  BY <1>1, <2>2
<1> HIDE DEF o
<1>3. o \notin DpOps
  BY <1>2 DEF DpOps, RankEarly
<1>4. n \notin {"fabric", "rvbar"} /\ n \notin DOMAIN RankHelper /\ n \notin DOMAIN RankBridge
      /\ (n \in {"epLow", "epHigh"} => n \notin DOMAIN RankEp)
      /\ (n \in {"epZeroLow", "epZeroHigh"} => n \notin DOMAIN RankLate)
  BY DEF RankHelper, RankBridge, RankEp, RankLate
<1>5. o \in WritesOf(DOMAIN RankLate \ {"rvbar"}, {0}) \/ o \in WritesOf(DOMAIN RankEp, 1..3)
  <2>1. o \in AllOps
    BY DEF o
  <2> QED  BY <1>2, <1>3, <1>4, <2>1 DEF AllOps
<1> QED  BY <1>2, <1>4, <1>5

\* What no longer waits when a write of the CA35 is made.
LEMMA LateWrites ==
  /\ ~Precedes(Rl!Op("on", 0), Rl!Op("off", 0))
  /\ \A r \in {"rangeAll", "rangeAtf"} : ~Precedes(Rl!Op("lock", 0), Rl!Op(r, 0))
  /\ ~Precedes(Rl!Op("ufsAxi", 0), Rl!Op("ufsOwn", 0))
  /\ \A o \in AllOps : ~Precedes(Rl!Op("release", 0), o)
<1>1. \A n \in {"on", "off", "lock", "rangeAll", "rangeAtf", "ufsAxi", "ufsOwn", "release"} :
        Rank(Rl!Op(n, 0)) = FwWords + RankLate[n]
  BY RanksLate DEF RankLate
<1>2. /\ RankLate["on"] = 43 /\ RankLate["off"] = 41 /\ RankLate["lock"] = 44 /\ RankLate["rangeAll"] = 40
      /\ RankLate["rangeAtf"] = 40 /\ RankLate["ufsAxi"] = 50 /\ RankLate["ufsOwn"] = 32 /\ RankLate["release"] = 60
  BY DEF RankLate
<1>3. \A n \in {"on", "off", "lock", "rangeAll", "rangeAtf"} : ~Loose(Rl!Op(n, 0))
  BY DEF Loose, Rl!Op
<1>4. \A n \in {"ufsAxi", "ufsOwn", "release"} : ~Middle(Rl!Op(n, 0))
  BY DEF Middle, Rl!Op
<1>5. \A o \in AllOps : Rank(o) <= FwWords + 60 /\ Rank(o) \in Nat
  BY RankBounds, ReleaseConstants
<1> QED  BY <1>1, <1>2, <1>3, <1>4, <1>5, ReleaseConstants DEF Precedes

\* The region of the DRAM.
LEMMA MpuKept == ReleaseInv /\ Rl!Mpu => Ready'
<1> SUFFICES ASSUME ReleaseInv, Rl!Mpu
             PROVE  Queue' /\ RegionReady' /\ CoresReady' /\ DpReady' /\ HelpersReady' /\ BridgesReady'
  BY DEF Ready
<1>1. PICK n \in {"rangeAll", "rangeAtf", "off", "masters", "on", "lock"} : Rl!Writes(n, 0)
  BY DEF Rl!Mpu
<1>2. /\ Dropped({n}) /\ Waits(n, 0) /\ Due \subseteq Due' \cup {Rl!Op(n, 0)}
      /\ \A o \in Due' : Precedes(Rl!Op(n, 0), o)
  BY <1>1, Made DEF ReleaseInv
<1>3. \A m : m # n /\ Waits(m, 0) => Waits(m, 0)'
  BY <1>2 DEF Waits, Rl!Op
<1>4. \A m : Waits(m, 0)' => Waits(m, 0)
  BY <1>2 DEF Dropped, Waits
<1>5. n = "on" => ~Waits("off", 0)'
  BY <1>2, LateWrites DEF Waits
<1>6. n = "lock" => ~Waits("rangeAll", 0) /\ ~Waits("rangeAtf", 0)
  <2> SUFFICES ASSUME n = "lock", NEW r \in {"rangeAll", "rangeAtf"}, Waits(r, 0) PROVE FALSE
    OBVIOUS
  <2>1. Waits(r, 0)'
    BY <1>3
  <2> QED  BY <1>2, <2>1, LateWrites DEF Waits
<1>7. \A m : Rl!Writes(m, 0) => m = n
  BY <1>1 DEF Rl!Writes, Rl!Op
<1>8. RegionReady'
  <2> USE DEF ReleaseInv, RegionReady
  <2>1. CASE n = "rangeAll"
    <3>1. mpu' = [mpu EXCEPT !.range = IF mpu.locked THEN @ ELSE "all"]
      BY <1>7, <2>1 DEF Rl!Mpu
    <3> QED  BY <1>3, <1>4, <2>1, <3>1
  <2>2. CASE n = "rangeAtf"
    <3>1. mpu' = [mpu EXCEPT !.range = IF mpu.locked THEN @ ELSE "atf"]
      BY <1>7, <2>2 DEF Rl!Mpu
    <3> QED  BY <1>3, <1>4, <2>2, <3>1
  <2>3. CASE n = "off"
    <3>1. mpu' = [mpu EXCEPT !.on = mpu.locked /\ @]
      BY <1>7, <2>3 DEF Rl!Mpu
    <3>2. Waits("on", 0)'
      BY <1>2, <1>3, <2>3
    <3> QED  BY <1>3, <1>4, <2>3, <3>1, <3>2
  <2>4. CASE n = "masters"
    <3>1. mpu' = [mpu EXCEPT !.masters = TRUE]
      BY <1>7, <2>4 DEF Rl!Mpu
    <3> QED  BY <1>3, <1>4, <2>4, <3>1
  <2>5. CASE n = "on"
    <3>1. mpu' = [mpu EXCEPT !.on = TRUE]
      BY <1>7, <2>5 DEF Rl!Mpu
    <3> QED  BY <1>3, <1>4, <1>5, <2>5, <3>1
  <2>6. CASE n = "lock"
    <3>1. mpu' = [mpu EXCEPT !.locked = TRUE]
      BY <1>7, <2>6 DEF Rl!Mpu
    <3> QED  BY <1>3, <1>4, <1>6, <2>6, <3>1
  <2> QED  BY <2>1, <2>2, <2>3, <2>4, <2>5, <2>6
<1>9. CoresReady'
  BY <1>2, CoresKept DEF ReleaseInv, Rl!Mpu
<1>10. DpReady'
  <2>1. \A o \in DpOps : o.do # n
    BY DEF DpOps, WritesOf, Rl!Op, RankEarly
  <2> QED  BY <1>2, <2>1, DpKept DEF ReleaseInv, Rl!Mpu
<1>11. HelpersReady' /\ BridgesReady'
  BY <1>2, HelpersKept, BridgesKept DEF ReleaseInv, Rl!Mpu
<1> QED  BY <1>2, <1>8, <1>9, <1>10, <1>11 DEF Dropped

\* The vectors.
LEMMA RvbarKept == ReleaseInv /\ (\E c \in 0..3 : Rl!Rvbar(c)) => Ready'
<1> SUFFICES ASSUME ReleaseInv, NEW c \in 0..3, Rl!Rvbar(c)
             PROVE  Queue' /\ RegionReady' /\ CoresReady' /\ DpReady' /\ HelpersReady' /\ BridgesReady'
  BY DEF Ready
<1>1. /\ Dropped({"rvbar"}) /\ Waits("rvbar", c) /\ Due \subseteq Due' \cup {Rl!Op("rvbar", c)}
  BY Made DEF ReleaseInv, Rl!Rvbar
<1>2. \A m, i : (m # "rvbar" \/ i # c) /\ Waits(m, i) => Waits(m, i)'
  BY <1>1 DEF Waits, Rl!Op
<1>3. \A m, i : Waits(m, i)' => Waits(m, i)
  BY <1>1 DEF Dropped, Waits
<1>4. ~rel
  BY <1>1 DEF ReleaseInv, CoresReady, Waits
<1>5. rvbar' \in [Rl!Cores -> {"old", "new"}] /\ \A d \in Rl!Cores : Waits("rvbar", d)' \/ rvbar'[d] = "new"
  <2>1. rvbar' = IF c \in Rl!Cores THEN [rvbar EXCEPT ![c] = "new"] ELSE rvbar
    BY DEF Rl!Rvbar
  <2>2. rvbar \in [Rl!Cores -> {"old", "new"}] /\ \A d \in Rl!Cores : Waits("rvbar", d) \/ rvbar[d] = "new"
    BY DEF ReleaseInv, CoresReady
  <2> QED  BY <1>2, <2>1, <2>2
<1>6. CoresReady'
  <2>1. UNCHANGED <<ep, ufsAxi, rel, core>> /\ Rl!Cores' = Rl!Cores
    BY DEF Rl!Rvbar, Rl!Cores
  <2> QED  BY <1>2, <1>3, <1>4, <1>5, <2>1 DEF ReleaseInv, CoresReady
<1>7. RegionReady' /\ HelpersReady' /\ BridgesReady'
  BY <1>1, RegionKept, HelpersKept, BridgesKept DEF ReleaseInv, Rl!Rvbar
<1>8. DpReady'
  <2>1. \A o \in DpOps : o.do # "rvbar"
    BY DEF DpOps, WritesOf, Rl!Op, RankEarly
  <2> QED  BY <1>1, <2>1, DpKept DEF ReleaseInv, Rl!Rvbar
<1> QED  BY <1>1, <1>6, <1>7, <1>8 DEF Dropped

\* The entry points: this boot clears those of the secondaries before it releases
\* them.
LEMMA EpKept == ReleaseInv /\ (\E c \in 0..3 : Rl!SetEp(c)) => Ready'
<1> SUFFICES ASSUME ReleaseInv, NEW c \in 0..3, Rl!SetEp(c)
             PROVE  Queue' /\ RegionReady' /\ CoresReady' /\ DpReady' /\ HelpersReady' /\ BridgesReady'
  BY DEF Ready
<1>1. PICK half \in {1, 2}, n \in {"epZeroLow", "epZeroHigh", "epLow", "epHigh"}, value \in {"zero", "new"} :
        /\ Rl!Half(c, half, n, value)
        /\ n = "epZeroLow" => half = 1 /\ value = "zero"
        /\ n = "epZeroHigh" => half = 2 /\ value = "zero"
  BY DEF Rl!SetEp
<1>2. /\ Dropped({n}) /\ Waits(n, c) /\ Rl!Op(n, c) \in AllOps /\ Due \subseteq Due' \cup {Rl!Op(n, c)}
  BY <1>1, Made DEF ReleaseInv, Rl!Half
<1>3. \A m, i : (m # n \/ i # c) /\ Waits(m, i) => Waits(m, i)'
  BY <1>2 DEF Waits, Rl!Op
<1>4. \A m, i : Waits(m, i)' => Waits(m, i)
  BY <1>2 DEF Dropped, Waits
<1>5. ~rel
  BY <1>2 DEF ReleaseInv, CoresReady, Waits
<1>6. n \in {"epLow", "epHigh"} => c \notin Secondaries
  BY <1>2, Indices, ReleaseConstants
<1>7. ep \in [Rl!Cores -> EpValues] /\ ep' = IF c \in Rl!Cores THEN [ep EXCEPT ![c][half] = value] ELSE ep
  BY <1>1 DEF ReleaseInv, CoresReady, Rl!Half
<1>8. ep' \in [Rl!Cores -> EpValues]
  <2>1. \A e \in EpValues : [e EXCEPT ![half] = value] \in EpValues
    BY DEF EpValues
  <2> QED  BY <1>7, <2>1
<1>9. ASSUME NEW d \in Secondaries
      PROVE  (Waits("epZeroLow", d)' \/ ep'[d][1] = "zero") /\ (Waits("epZeroHigh", d)' \/ ep'[d][2] = "zero")
  <2>1. d \in Rl!Cores /\ ep[d] \in EpValues
    BY <1>7, ReleaseConstants
  <2>2. (Waits("epZeroLow", d) \/ ep[d][1] = "zero") /\ (Waits("epZeroHigh", d) \/ ep[d][2] = "zero")
    BY <1>5 DEF ReleaseInv, CoresReady
  <2>3. CASE d # c
    <3>1. ep'[d] = ep[d]
      BY <1>7, <2>1, <2>3
    <3> QED  BY <1>3, <2>2, <2>3, <3>1
  <2>4. CASE d = c
    <3>1. ep'[d] = [ep[d] EXCEPT ![half] = value]
      BY <1>7, <2>1, <2>4
    <3>2. n \in {"epZeroLow", "epZeroHigh"}
      BY <1>6, <2>4
    <3>3. CASE n = "epZeroLow"
      <4>1. ep'[d][1] = "zero" /\ ep'[d][2] = ep[d][2]
        BY <1>1, <2>1, <3>1, <3>3 DEF EpValues
      <4> QED  BY <1>3, <2>2, <3>3, <4>1
    <3>4. CASE n = "epZeroHigh"
      <4>1. ep'[d][2] = "zero" /\ ep'[d][1] = ep[d][1]
        BY <1>1, <2>1, <3>1, <3>4 DEF EpValues
      <4> QED  BY <1>3, <2>2, <3>4, <4>1
    <3> QED  BY <3>2, <3>3, <3>4
  <2> QED  BY <2>3, <2>4
<1>10. CoresReady'
  <2>1. UNCHANGED <<rvbar, ufsAxi, rel, core>> /\ Rl!Cores' = Rl!Cores
    BY <1>1 DEF Rl!Half, Rl!Cores
  <2> QED  BY <1>3, <1>4, <1>5, <1>8, <1>9, <2>1 DEF ReleaseInv, CoresReady
<1>11. RegionReady' /\ HelpersReady' /\ BridgesReady'
  BY <1>1, <1>2, RegionKept, HelpersKept, BridgesKept DEF ReleaseInv, Rl!Half
<1>12. DpReady'
  <2>1. \A o \in DpOps : o.do # n
    BY DEF DpOps, WritesOf, Rl!Op, RankEarly
  <2> QED  BY <1>1, <1>2, <2>1, DpKept DEF ReleaseInv, Rl!Half
<1> QED  BY <1>2, <1>10, <1>11, <1>12 DEF Dropped

\* The path of the UFS and the release.
LEMMA ReleaseKept == ReleaseInv /\ (Rl!UfsPath \/ Rl!Released) => Ready'
<1> SUFFICES ASSUME ReleaseInv, Rl!UfsPath \/ Rl!Released
             PROVE  Queue' /\ RegionReady' /\ CoresReady' /\ DpReady' /\ HelpersReady' /\ BridgesReady'
  BY DEF Ready
<1>1. PICK n \in {"ufsAxi", "ufsOwn", "release"} :
        /\ Rl!Writes(n, 0) /\ (n = "ufsAxi" => ufsAxi' = TRUE) /\ (n = "ufsOwn" => ufsAxi' = FALSE)
        /\ IF n = "release" THEN rel' = TRUE /\ ufsAxi' = ufsAxi ELSE rel' = rel
        /\ UNCHANGED <<rvbar, ep, mpu, core, dp, rlFw, helper, e2m>>
  BY DEF Rl!UfsPath, Rl!Released
<1>2. /\ Dropped({n}) /\ Waits(n, 0) /\ Due \subseteq Due' \cup {Rl!Op(n, 0)}
      /\ \A o \in Due' : Precedes(Rl!Op(n, 0), o)
  BY <1>1, Made DEF ReleaseInv
<1>3. \A m, i : (m # n \/ i # 0) /\ Waits(m, i) => Waits(m, i)'
  BY <1>2 DEF Waits, Rl!Op
<1>4. \A m, i : Waits(m, i)' => Waits(m, i)
  BY <1>2 DEF Dropped, Waits
<1>5. ~rel
  BY <1>2 DEF ReleaseInv, CoresReady, Waits
<1>6. n = "ufsAxi" => ~Waits("ufsOwn", 0)'
  BY <1>2, LateWrites DEF Waits
<1>7. n = "release" => Due' = {}
  <2>1. Due' \subseteq AllOps
    BY <1>2 DEF Dropped, Queue, Due, ElementsOf
  <2> QED  BY <1>2, <2>1, LateWrites
<1>8. CoresReady'
  <2>1. Rl!Cores' = Rl!Cores
    BY DEF Rl!Cores
  <2>2. CASE n = "release"
    <3>1. Due = {Rl!Op("release", 0)}
      BY <1>2, <1>7, <2>2 DEF Waits
    <3>2. \A m, i : m # "release" => ~Waits(m, i)
      BY <3>1 DEF Waits, Rl!Op
    <3>3. ASSUME NEW c \in Secondaries PROVE ep[c] = <<"zero", "zero">>
      <4>1. ep[c][1] = "zero" /\ ep[c][2] = "zero" /\ ep[c] \in EpValues
        BY <1>5, <3>2, ReleaseConstants DEF ReleaseInv, CoresReady
      <4> QED  BY <4>1 DEF EpValues
    <3> QED  BY <1>1, <1>3, <1>4, <1>7, <2>1, <2>2, <3>2, <3>3 DEF ReleaseInv, CoresReady
  <2>3. CASE n = "ufsAxi"
    BY <1>1, <1>3, <1>4, <1>5, <1>6, <2>1, <2>3 DEF ReleaseInv, CoresReady
  <2>4. CASE n = "ufsOwn"
    <3>1. Waits("ufsAxi", 0)'
      BY <1>2, <1>3, <2>4 DEF ReleaseInv, CoresReady
    <3> QED  BY <1>1, <1>3, <1>4, <1>5, <2>1, <2>4, <3>1 DEF ReleaseInv, CoresReady
  <2> QED  BY <2>2, <2>3, <2>4
<1>9. RegionReady' /\ HelpersReady' /\ BridgesReady'
  BY <1>1, <1>2, RegionKept, HelpersKept, BridgesKept DEF ReleaseInv
<1>10. DpReady'
  <2>1. \A o \in DpOps : o.do # n
    BY DEF DpOps, WritesOf, Rl!Op, RankEarly
  <2> QED  BY <1>1, <1>2, <2>1, DpKept DEF ReleaseInv
<1> QED  BY <1>2, <1>8, <1>9, <1>10 DEF Dropped

\* The writes of the SSP and the TSP, in their order.
LEMMA HelperKept == ReleaseInv /\ (\E h \in Rl!Helpers : Rl!HelperWrite(h)) => Ready'
<1> SUFFICES ASSUME ReleaseInv, NEW h \in {1, 2}, Rl!HelperWrite(h)
             PROVE  Queue' /\ RegionReady' /\ CoresReady' /\ DpReady' /\ HelpersReady' /\ BridgesReady'
  BY ReleaseConstants DEF Ready
<1>1. PICK n \in {"hAssert", "hClear", "hHold", "hPoll", "hRemap", "hEnable"} : Rl!Writes(n, h)
  BY DEF Rl!HelperWrite
<1>2. /\ Dropped({n}) /\ Waits(n, h) /\ Due \subseteq Due' \cup {Rl!Op(n, h)}
      /\ \A o \in Due' : Precedes(Rl!Op(n, h), o)
  BY <1>1, Made DEF ReleaseInv
<1>3. \A m, i : (m # n \/ i # h) /\ Waits(m, i) => Waits(m, i)'
  BY <1>2 DEF Waits, Rl!Op
<1>4. \A m, i : Waits(m, i)' => Waits(m, i)
  BY <1>2 DEF Dropped, Waits
<1>5. \A m : Rl!Writes(m, h) => m = n
  BY <1>1 DEF Rl!Writes, Rl!Op
<1>6. /\ n = "hEnable" => ~Waits("hRemap", h) /\ ~Waits("hClear", h)
      /\ n \in {"hEnable", "hClear"} => ~Waits("hAssert", h)
  <2>1. SUFFICES ASSUME NEW m \in {"hRemap", "hClear", "hAssert"}, Waits(m, h),
                        n = "hEnable" \/ (n = "hClear" /\ m = "hAssert")
                 PROVE  FALSE
    OBVIOUS
  <2>2. Precedes(Rl!Op(n, h), Rl!Op(m, h))
    BY <1>2, <1>3, <2>1 DEF Waits
  <2>3. Rank(Rl!Op(n, h)) = FwWords + RankHelper[n] + 6 * h /\ Rank(Rl!Op(m, h)) = FwWords + RankHelper[m] + 6 * h
    BY RanksHelper DEF RankHelper
  <2>4. RankHelper[m] \in 7..11 /\ RankHelper[n] \in 7..12 /\ RankHelper[m] < RankHelper[n]
    BY <2>1 DEF RankHelper
  <2>5. ~Middle(Rl!Op(n, h))
    BY DEF Middle, Rl!Op
  <2> QED  BY <2>2, <2>3, <2>4, <2>5, ReleaseConstants DEF Precedes
<1>7. HelpersReady'
  <2> DEFINE R == [reset : BOOLEAN, run : BOOLEAN, ready : BOOLEAN, remap : {"old", "new"}]
             Fine(x) == /\ x.run => x.remap = "new" /\ ~x.reset
             g == helper[h]
  <2>1. helper \in [{1, 2} -> R] /\ g \in R /\ Fine(g)
        /\ (Waits("hEnable", h) => /\ Waits("hRemap", h) \/ g.remap = "new"
                                   /\ Waits("hClear", h) \/ ~g.reset)
        /\ (Waits("hAssert", h) => Waits("hClear", h) /\ ~g.run)
    BY DEF ReleaseInv, HelpersReady
  <2>2. PICK w \in R : /\ helper' = [helper EXCEPT ![h] = w] /\ Fine(w)
                       /\ (Waits("hEnable", h)' => /\ Waits("hRemap", h)' \/ w.remap = "new"
                                                   /\ Waits("hClear", h)' \/ ~w.reset)
                       /\ (Waits("hAssert", h)' => Waits("hClear", h)' /\ ~w.run)
    <3>0. CASE n = "hAssert"
      <4>1. helper' = [helper EXCEPT ![h].reset = TRUE]
        BY <1>5, <3>0 DEF Rl!HelperWrite
      <4> DEFINE w == [g EXCEPT !.reset = TRUE]
      <4>2. w \in R /\ w.run = g.run /\ w.remap = g.remap /\ w.reset = TRUE
        BY <2>1
      <4>3. helper' = [helper EXCEPT ![h] = w]
        BY <2>1, <4>1
      <4>4. Waits("hClear", h) /\ ~g.run
        BY <1>2, <2>1, <3>0
      <4> HIDE DEF w, R
      <4> QED  BY <1>3, <1>4, <2>1, <3>0, <4>2, <4>3, <4>4
    <3>1. CASE n = "hClear"
      <4>1. helper' = [helper EXCEPT ![h].reset = FALSE]
        BY <1>5, <3>1 DEF Rl!HelperWrite
      <4> DEFINE w == [g EXCEPT !.reset = FALSE]
      <4>2. w \in R /\ w.run = g.run /\ w.remap = g.remap /\ w.reset = FALSE
        BY <2>1
      <4>3. helper' = [helper EXCEPT ![h] = w]
        BY <2>1, <4>1
      <4> HIDE DEF w, R
      <4> QED  BY <1>3, <1>4, <1>6, <2>1, <3>1, <4>2, <4>3
    <3>2. CASE n = "hHold"
      <4>1. helper' = [helper EXCEPT ![h].run = FALSE]
        BY <1>5, <3>2 DEF Rl!HelperWrite
      <4> DEFINE w == [g EXCEPT !.run = FALSE]
      <4>2. w \in R /\ w.run = FALSE /\ w.remap = g.remap /\ w.reset = g.reset
        BY <2>1
      <4>3. helper' = [helper EXCEPT ![h] = w]
        BY <2>1, <4>1
      <4> HIDE DEF w, R
      <4> QED  BY <1>3, <1>4, <2>1, <3>2, <4>2, <4>3
    <3>3. CASE n = "hPoll"
      <4>1. PICK r \in BOOLEAN : helper' = [helper EXCEPT ![h].ready = r]
        BY <1>5, <3>3 DEF Rl!HelperWrite
      <4> DEFINE w == [g EXCEPT !.ready = r]
      <4>2. w \in R /\ w.run = g.run /\ w.remap = g.remap /\ w.reset = g.reset
        BY <2>1
      <4>3. helper' = [helper EXCEPT ![h] = w]
        BY <2>1, <4>1
      <4> HIDE DEF w, R
      <4> QED  BY <1>3, <1>4, <2>1, <3>3, <4>2, <4>3
    <3>4. CASE n = "hRemap"
      <4>1. helper' = [helper EXCEPT ![h].remap = "new"]
        BY <1>5, <3>4 DEF Rl!HelperWrite
      <4> DEFINE w == [g EXCEPT !.remap = "new"]
      <4>2. w \in R /\ w.run = g.run /\ w.remap = "new" /\ w.reset = g.reset
        BY <2>1
      <4>3. helper' = [helper EXCEPT ![h] = w]
        BY <2>1, <4>1
      <4> HIDE DEF w, R
      <4> QED  BY <1>3, <1>4, <2>1, <3>4, <4>2, <4>3
    <3>5. CASE n = "hEnable"
      <4>1. helper' = [helper EXCEPT ![h].run = TRUE]
        BY <1>5, <3>5 DEF Rl!HelperWrite
      <4> DEFINE w == [g EXCEPT !.run = TRUE]
      <4>2. w \in R /\ w.run = TRUE /\ w.remap = g.remap /\ w.reset = g.reset
        BY <2>1
      <4>3. helper' = [helper EXCEPT ![h] = w]
        BY <2>1, <4>1
      <4>4. g.remap = "new" /\ ~g.reset
        BY <1>2, <1>6, <2>1, <3>5
      <4>5. ~Waits("hAssert", h)'
        BY <1>4, <1>6, <3>5
      <4> HIDE DEF w, R
      <4> QED  BY <4>2, <4>3, <4>4, <4>5
    <3> QED  BY <3>0, <3>1, <3>2, <3>3, <3>4, <3>5
  <2>3. helper' \in [{1, 2} -> R]
    BY <2>1, <2>2
  <2>4. ASSUME NEW k \in {1, 2}, k # h
        PROVE  /\ Fine(helper'[k])
               /\ Waits("hEnable", k)' => /\ Waits("hRemap", k)' \/ helper'[k].remap = "new"
                                          /\ Waits("hClear", k)' \/ ~helper'[k].reset
               /\ Waits("hAssert", k)' => Waits("hClear", k)' /\ ~helper'[k].run
    <3>1. helper'[k] = helper[k]
      BY <2>1, <2>2, <2>4
    <3> QED  BY <1>3, <1>4, <2>4, <3>1 DEF ReleaseInv, HelpersReady
  <2>5. helper'[h] = w
    BY <2>1, <2>2
  <2> QED  BY <2>2, <2>3, <2>4, <2>5 DEF HelpersReady
<1>8. /\ UNCHANGED <<mpu, rvbar, ep, ufsAxi, rel, core, dp, rlFw, e2m>>
      /\ {n} \cap {"rangeAll", "rangeAtf", "masters", "on"} = {}
      /\ {n} \cap {"rvbar", "ufsAxi", "release", "epZeroLow", "epZeroHigh"} = {}
      /\ {n} \cap {"preset", "e2mClock"} = {}
      /\ \A o \in DpOps : o.do # n
  <2>1. \A o \in DpOps : o.do # n
    BY DEF DpOps, WritesOf, Rl!Op, RankEarly
  <2> QED  BY <2>1 DEF Rl!HelperWrite
<1>9. RegionReady' /\ CoresReady' /\ DpReady' /\ BridgesReady'
  BY <1>2, <1>8, RegionKept, CoresKept, DpKept, BridgesKept DEF ReleaseInv
<1> QED  BY <1>2, <1>7, <1>9 DEF Dropped

\* The bridges.  When both have left their reset, there is nothing to do.
LEMMA BridgeKept == ReleaseInv /\ Rl!E2m => Ready'
<1> SUFFICES ASSUME ReleaseInv, Rl!E2m
             PROVE  Queue' /\ RegionReady' /\ CoresReady' /\ DpReady' /\ HelpersReady' /\ BridgesReady'
  BY DEF Ready
<1> DEFINE R == [reset : BOOLEAN, clock : BOOLEAN, preset : BOOLEAN]
<1>1. /\ UNCHANGED <<mpu, rvbar, ep, ufsAxi, rel, core, dp, rlFw, helper>>
      /\ e2m \in [{0, 1} -> R] /\ Rl!Bridges = {0, 1}
  BY ReleaseConstants DEF Rl!E2m, ReleaseInv, BridgesReady
<1>2. ASSUME NEW names \in SUBSET Rl!E2mWrites, Dropped(names)
      PROVE  Queue' /\ RegionReady' /\ CoresReady' /\ DpReady' /\ HelpersReady'
  <2>1. \A o \in DpOps : o.do \notin names
    BY DEF DpOps, WritesOf, Rl!Op, RankEarly, Rl!E2mWrites
  <2>2. /\ names \cap {"rangeAll", "rangeAtf", "masters", "on"} = {}
        /\ names \cap {"rvbar", "ufsAxi", "release", "epZeroLow", "epZeroHigh"} = {}
        /\ names \cap {"hRemap", "hClear"} = {}
    BY DEF Rl!E2mWrites
  <2> QED  BY <1>1, <1>2, <2>1, <2>2, RegionKept, CoresKept, DpKept, HelpersKept DEF ReleaseInv, Dropped
<1>3. CASE /\ rlTodo # <<>> /\ Head(rlTodo) = Rl!Op("e2mCheck", 0) /\ e2m' = e2m
           /\ IF \E b \in {0, 1} : e2m[b].reset THEN rlTodo' = Tail(rlTodo) ELSE Rl!Returns(Rl!E2mWrites)
  <2>1. CASE \E b \in {0, 1} : e2m[b].reset
    <3>1. Rl!Writes("e2mCheck", 0)
      BY <1>3, <2>1 DEF Rl!Writes
    <3>2. Dropped({"e2mCheck"})
      BY <3>1, Made DEF ReleaseInv
    <3>3. BridgesReady'
      BY <1>3, <3>2, BridgesKept DEF ReleaseInv
    <3> QED  BY <1>2, <3>2, <3>3 DEF Rl!E2mWrites
  <2>2. CASE ~\E b \in {0, 1} : e2m[b].reset
    <3>1. Dropped(Rl!E2mWrites)
      BY <1>3, <2>2, Skipped DEF ReleaseInv, Rl!E2mWrites
    <3>2. BridgesReady'
      BY <1>1, <1>3, <2>2 DEF ReleaseInv, BridgesReady
    <3> QED  BY <1>2, <3>1, <3>2
  <2> QED  BY <2>1, <2>2
<1>4. ASSUME NEW b \in {0, 1}, NEW n \in {"preset", "e2mClock", "e2mClear"}, NEW w \in R,
             Rl!Writes(n, b), e2m' = [e2m EXCEPT ![b] = w],
             n = "preset" => w = [e2m[b] EXCEPT !.preset = TRUE],
             n = "e2mClock" => w = [e2m[b] EXCEPT !.clock = TRUE],
             n = "e2mClear" => w = [e2m[b] EXCEPT !.reset = FALSE]
      PROVE  Queue' /\ RegionReady' /\ CoresReady' /\ DpReady' /\ HelpersReady' /\ BridgesReady'
  <2>1. /\ Dropped({n}) /\ Waits(n, b) /\ Due \subseteq Due' \cup {Rl!Op(n, b)}
        /\ \A o \in Due' : Precedes(Rl!Op(n, b), o)
    BY <1>4, Made DEF ReleaseInv
  <2>2. \A m, i : (m # n \/ i # b) /\ Waits(m, i) => Waits(m, i)'
    BY <2>1 DEF Waits, Rl!Op
  <2>3. \A m, i : Waits(m, i)' => Waits(m, i)
    BY <2>1 DEF Dropped, Waits
  <2>4. n = "e2mClear" => ~Waits("preset", b) /\ ~Waits("e2mClock", b)
    <3> SUFFICES ASSUME n = "e2mClear", NEW m \in {"preset", "e2mClock"}, Waits(m, b) PROVE FALSE
      OBVIOUS
    <3>1. Precedes(Rl!Op("e2mClear", b), Rl!Op(m, b))
      BY <2>1, <2>2 DEF Waits
    <3>2. Rank(Rl!Op("e2mClear", b)) = FwWords + 30 - 3 * b /\ Rank(Rl!Op(m, b)) = FwWords + RankBridge[m] - 3 * b
          /\ RankBridge[m] \in 28..29
      BY RanksBridge DEF RankBridge
    <3>3. ~Middle(Rl!Op("e2mClear", b))
      BY DEF Middle, Rl!Op
    <3> QED  BY <3>1, <3>2, <3>3, ReleaseConstants DEF Precedes
  <2>5. e2m[b] \in R /\ (~e2m[b].reset => e2m[b].clock /\ e2m[b].preset)
        /\ (Waits("e2mClear", b) => /\ Waits("preset", b) \/ e2m[b].preset
                                    /\ Waits("e2mClock", b) \/ e2m[b].clock)
    BY <1>1 DEF ReleaseInv, BridgesReady
  <2>6. e2m' \in [{0, 1} -> R] /\ e2m'[b] = w /\ \A d \in {0, 1} : d # b => e2m'[d] = e2m[d]
    BY <1>1, <1>4
  <2>7. /\ ~w.reset => w.clock /\ w.preset
        /\ Waits("e2mClear", b)' => /\ Waits("preset", b)' \/ w.preset
                                    /\ Waits("e2mClock", b)' \/ w.clock
    <3>1. CASE n = "preset"
      <4>1. w.preset /\ w.clock = e2m[b].clock /\ w.reset = e2m[b].reset
        BY <1>4, <2>5, <3>1
      <4> QED  BY <2>2, <2>3, <2>5, <3>1, <4>1
    <3>2. CASE n = "e2mClock"
      <4>1. w.clock /\ w.preset = e2m[b].preset /\ w.reset = e2m[b].reset
        BY <1>4, <2>5, <3>2
      <4> QED  BY <2>2, <2>3, <2>5, <3>2, <4>1
    <3>3. CASE n = "e2mClear"
      <4>1. w.clock = e2m[b].clock /\ w.preset = e2m[b].preset
        BY <1>4, <2>5, <3>3
      <4>2. e2m[b].clock /\ e2m[b].preset
        BY <2>1, <2>4, <2>5, <3>3
      <4> QED  BY <4>1, <4>2
    <3> QED  BY <3>1, <3>2, <3>3
  <2>8. ASSUME NEW d \in {0, 1}, d # b
        PROVE  /\ ~e2m'[d].reset => e2m'[d].clock /\ e2m'[d].preset
               /\ Waits("e2mClear", d)' => /\ Waits("preset", d)' \/ e2m'[d].preset
                                           /\ Waits("e2mClock", d)' \/ e2m'[d].clock
    BY <2>2, <2>3, <2>6, <2>8 DEF ReleaseInv, BridgesReady
  <2>9. BridgesReady'
    <3>1. ASSUME NEW d \in {0, 1}
          PROVE  /\ ~e2m'[d].reset => e2m'[d].clock /\ e2m'[d].preset
                 /\ Waits("e2mClear", d)' => /\ Waits("preset", d)' \/ e2m'[d].preset
                                             /\ Waits("e2mClock", d)' \/ e2m'[d].clock
      <4>1. CASE d = b  BY <2>6, <2>7, <4>1
      <4>2. CASE d # b  BY <2>8, <4>2
      <4> QED  BY <4>1, <4>2
    <3> QED  BY <2>6, <3>1 DEF BridgesReady
  <2> QED  BY <1>2, <2>1, <2>9 DEF Rl!E2mWrites
<1>5. ASSUME NEW b \in {0, 1}, Rl!Writes("preset", b), e2m' = [e2m EXCEPT ![b].preset = TRUE]
      PROVE  Queue' /\ RegionReady' /\ CoresReady' /\ DpReady' /\ HelpersReady' /\ BridgesReady'
  <2>1. [e2m[b] EXCEPT !.preset = TRUE] \in R /\ e2m' = [e2m EXCEPT ![b] = [e2m[b] EXCEPT !.preset = TRUE]]
    BY <1>1, <1>5
  <2> HIDE DEF R
  <2> QED  BY <1>4, <1>5, <2>1
<1>6. ASSUME NEW b \in {0, 1}, Rl!Writes("e2mClock", b), e2m' = [e2m EXCEPT ![b].clock = TRUE]
      PROVE  Queue' /\ RegionReady' /\ CoresReady' /\ DpReady' /\ HelpersReady' /\ BridgesReady'
  <2>1. [e2m[b] EXCEPT !.clock = TRUE] \in R /\ e2m' = [e2m EXCEPT ![b] = [e2m[b] EXCEPT !.clock = TRUE]]
    BY <1>1, <1>6
  <2> HIDE DEF R
  <2> QED  BY <1>4, <1>6, <2>1
<1>7. ASSUME NEW b \in {0, 1}, Rl!Writes("e2mClear", b), e2m' = [e2m EXCEPT ![b].reset = FALSE]
      PROVE  Queue' /\ RegionReady' /\ CoresReady' /\ DpReady' /\ HelpersReady' /\ BridgesReady'
  <2>1. [e2m[b] EXCEPT !.reset = FALSE] \in R /\ e2m' = [e2m EXCEPT ![b] = [e2m[b] EXCEPT !.reset = FALSE]]
    BY <1>1, <1>7
  <2> HIDE DEF R
  <2> QED  BY <1>4, <1>7, <2>1
<1>8. \/ /\ rlTodo # <<>> /\ Head(rlTodo) = Rl!Op("e2mCheck", 0) /\ e2m' = e2m
         /\ IF \E b \in {0, 1} : e2m[b].reset THEN rlTodo' = Tail(rlTodo) ELSE Rl!Returns(Rl!E2mWrites)
      \/ \E b \in {0, 1} : \/ Rl!Writes("preset", b) /\ e2m' = [e2m EXCEPT ![b].preset = TRUE]
                           \/ Rl!Writes("e2mClock", b) /\ e2m' = [e2m EXCEPT ![b].clock = TRUE]
                           \/ Rl!Writes("e2mClear", b) /\ e2m' = [e2m EXCEPT ![b].reset = FALSE]
  BY <1>1 DEF Rl!E2m
<1> QED  BY <1>3, <1>5, <1>6, <1>7, <1>8

-----------------------------------------------------------------------------
(* The DPMCU.                                                              *)

\* The writes of its bring-up are made in turn, and none is left out before the
\* last.
LEMMA DpTurn ==
  ASSUME ReleaseInv, NEW n, NEW i, Rl!Writes(n, i), Rl!Op(n, i) \in DpOps
  PROVE  /\ Dropped({n}) /\ Rl!Op(n, i) \notin Due'
         /\ \A o \in Due' \cap DpOps, p \in DpOps : Rank(o) < Rank(p) => p \in Due'
         /\ \A p \in DpOps : Rank(p) < Rank(Rl!Op(n, i)) => p \notin Due
         /\ \A p \in DpOps : Rank(p) > Rank(Rl!Op(n, i)) => p \in Due'
         /\ \A p : p # Rl!Op(n, i) => (p \in Due' <=> p \in Due)
<1> DEFINE h == Rl!Op(n, i)
<1>1. /\ Dropped({n}) /\ h \in Due /\ Due \subseteq Due' \cup {h} /\ Due' \subseteq Due
      /\ \A o \in Due' : Precedes(h, o)
  BY Made DEF ReleaseInv, Waits, Dropped
<1>2. \A o \in DpOps : ~Middle(o) /\ Rank(o) \in Nat
  <2>1. \A o \in DpOps : ~Middle(o)
    BY DEF Middle, DpOps, WritesOf, Rl!Op, RankEarly
  <2> QED  BY <2>1, RankBounds, ReleaseConstants
<1>3. h \in DpOps /\ \A o \in Due \cap DpOps, p \in DpOps : Rank(o) < Rank(p) => p \in Due
  BY DEF ReleaseInv, DpReady
<1> HIDE DEF h
<1>4. \A o \in Due' : Rank(h) < Rank(o)
  BY <1>1, <1>2, <1>3 DEF Precedes
<1>5. h \notin Due'
  BY <1>2, <1>3, <1>4
<1>6. \A p \in DpOps : Rank(p) < Rank(h) => p \notin Due
  <2> SUFFICES ASSUME NEW p \in DpOps, Rank(p) < Rank(h), p \in Due PROVE FALSE
    OBVIOUS
  <2>1. p # h
    BY <1>2
  <2>2. Rank(h) < Rank(p)
    BY <1>1, <1>4, <2>1
  <2> QED  BY <1>2, <1>3, <2>2
<1>7. \A p \in DpOps : Rank(p) > Rank(h) => p \in Due'
  <2> SUFFICES ASSUME NEW p \in DpOps, Rank(p) > Rank(h) PROVE p \in Due'
    OBVIOUS
  <2>1. p \in Due /\ p # h
    BY <1>1, <1>2, <1>3
  <2> QED  BY <1>1, <2>1
<1>8. \A o \in Due' \cap DpOps, p \in DpOps : Rank(o) < Rank(p) => p \in Due'
  <2> SUFFICES ASSUME NEW o \in Due' \cap DpOps, NEW p \in DpOps, Rank(o) < Rank(p) PROVE p \in Due'
    OBVIOUS
  <2>1. Rank(p) > Rank(h)
    BY <1>2, <1>3, <1>4
  <2> QED  BY <1>7, <2>1
<1>9. \A p : p # h => (p \in Due' <=> p \in Due)
  BY <1>1
<1> QED  BY <1>1, <1>5, <1>6, <1>7, <1>8, <1>9 DEF h

\* The places of its writes.
LEMMA DpRanks ==
  /\ \A n \in {"dpAssert", "dpClear", "dpVersion", "dpDown", "dpPower", "dpOpen"} :
       Rl!Op(n, 0) \in DpOps /\ Rank(Rl!Op(n, 0)) = RankEarly[n]
  /\ \A i \in 1..FwWords : Rl!Op("dpWord", i) \in DpOps /\ Rank(Rl!Op("dpWord", i)) = 7 + i
  /\ \A n \in {"dpClose", "dpRun", "dpInts"} :
       Rl!Op(n, 0) \in DpOps /\ Rank(Rl!Op(n, 0)) = FwWords + RankLate[n]
  /\ \A s \in {0, 1} : Rl!Op("dpHand", s) \in DpOps
<1>1. \A n \in {"dpAssert", "dpClear", "dpVersion", "dpDown", "dpPower", "dpOpen"} : n \in DOMAIN RankEarly \ {"fabric"}
  BY DEF RankEarly
<1>2. \A n \in {"dpClose", "dpRun", "dpInts"} : n \in DOMAIN RankLate
  BY DEF RankLate
<1>3. \A n \in {"dpClose", "dpRun", "dpInts"} : Rank(Rl!Op(n, 0)) = FwWords + RankLate[n]
  BY <1>2, RanksLate
<1>4. \A i \in 1..FwWords : Rank(Rl!Op("dpWord", i)) = 7 + i
  BY RanksWord, ReleaseConstants
<1> QED  BY <1>1, <1>3, <1>4, RanksEarly DEF DpOps, WritesOf

\* What is out of the way, and what is still to come, when a write is made.
LEMMA DpOrder ==
  ASSUME ReleaseInv, NEW n, NEW i, Rl!Writes(n, i)
  PROVE  /\ n = "dpAssert" /\ i = 0 => /\ Waits("dpClear", 0)' /\ Waits("dpPower", 0)' /\ Waits("dpOpen", 0)'
                                       /\ \A k \in 1..FwWords : Waits("dpWord", k)'
         /\ n = "dpDown" /\ i = 0 => Waits("dpPower", 0)' /\ Waits("dpOpen", 0)'
         /\ n = "dpOpen" /\ i = 0 => Waits("dpClose", 0)'
         /\ n = "dpWord" /\ i \in 1..FwWords =>
              ~Waits("dpClear", 0) /\ ~Waits("dpPower", 0) /\ ~Waits("dpOpen", 0) /\ Waits("dpClose", 0) /\ Waits("dpRun", 0)
         /\ n = "dpClose" /\ i = 0 => ~Waits("dpOpen", 0)
         /\ n = "dpRun" /\ i = 0 => /\ ~Waits("dpClear", 0) /\ ~Waits("dpPower", 0) /\ ~Waits("dpClose", 0)
                                    /\ \A k \in 1..FwWords : ~Waits("dpWord", k)
<1>1. /\ RankEarly["dpAssert"] = 2 /\ RankEarly["dpClear"] = 3 /\ RankEarly["dpVersion"] = 4
      /\ RankEarly["dpDown"] = 5 /\ RankEarly["dpPower"] = 6 /\ RankEarly["dpOpen"] = 7
      /\ RankLate["dpClose"] = 8 /\ RankLate["dpRun"] = 9 /\ RankLate["dpInts"] = 10
  BY DEF RankEarly, RankLate
<1>2. CASE Rl!Op(n, i) \in DpOps
  <2> DEFINE h == Rl!Op(n, i)
  <2>1. /\ \A p \in DpOps : Rank(p) < Rank(h) => p \notin Due
        /\ \A p \in DpOps : Rank(p) > Rank(h) => p \in Due'
        /\ Due' \subseteq Due
    BY <1>2, DpTurn DEF Dropped
  <2>2. CASE n = "dpAssert" /\ i = 0
    <3>1. \A k \in 1..FwWords : Rank(Rl!Op("dpWord", k)) > Rank(h)
      BY <1>1, <2>2, DpRanks, ReleaseConstants
    <3>2. /\ Rank(Rl!Op("dpClear", 0)) > Rank(h) /\ Rank(Rl!Op("dpPower", 0)) > Rank(h)
          /\ Rank(Rl!Op("dpOpen", 0)) > Rank(h)
      BY <1>1, <2>2, DpRanks
    <3> HIDE DEF h
    <3> QED  BY <2>1, <2>2, <3>1, <3>2, DpRanks DEF Waits
  <2>3. CASE n = "dpDown" /\ i = 0
    <3>1. Rank(Rl!Op("dpPower", 0)) > Rank(h) /\ Rank(Rl!Op("dpOpen", 0)) > Rank(h)
      BY <1>1, <2>3, DpRanks
    <3> HIDE DEF h
    <3> QED  BY <2>1, <2>3, <3>1, DpRanks DEF Waits
  <2>4. CASE n = "dpOpen" /\ i = 0
    <3>1. Rank(Rl!Op("dpClose", 0)) > Rank(h)
      BY <1>1, <2>4, DpRanks, ReleaseConstants
    <3> HIDE DEF h
    <3> QED  BY <2>1, <2>4, <3>1, DpRanks DEF Waits
  <2>5. CASE n = "dpWord" /\ i \in 1..FwWords
    <3>1. /\ Rank(Rl!Op("dpClear", 0)) < Rank(h) /\ Rank(Rl!Op("dpPower", 0)) < Rank(h)
          /\ Rank(Rl!Op("dpOpen", 0)) < Rank(h)
          /\ Rank(Rl!Op("dpClose", 0)) > Rank(h) /\ Rank(Rl!Op("dpRun", 0)) > Rank(h)
      BY <1>1, <2>5, DpRanks, ReleaseConstants
    <3> HIDE DEF h
    <3> QED  BY <2>1, <2>5, <3>1, DpRanks DEF Waits
  <2>6. CASE n = "dpClose" /\ i = 0
    <3>1. Rank(Rl!Op("dpOpen", 0)) < Rank(h)
      BY <1>1, <2>6, DpRanks, ReleaseConstants
    <3> HIDE DEF h
    <3> QED  BY <2>1, <2>6, <3>1, DpRanks DEF Waits
  <2>7. CASE n = "dpRun" /\ i = 0
    <3>1. \A k \in 1..FwWords : Rank(Rl!Op("dpWord", k)) < Rank(h)
      BY <1>1, <2>7, DpRanks, ReleaseConstants
    <3>2. /\ Rank(Rl!Op("dpClear", 0)) < Rank(h) /\ Rank(Rl!Op("dpPower", 0)) < Rank(h)
          /\ Rank(Rl!Op("dpClose", 0)) < Rank(h)
      BY <1>1, <2>7, DpRanks, ReleaseConstants
    <3> HIDE DEF h
    <3> QED  BY <2>1, <2>7, <3>1, <3>2, DpRanks DEF Waits
  <2> QED  BY <2>2, <2>3, <2>4, <2>5, <2>6, <2>7
<1>3. CASE Rl!Op(n, i) \notin DpOps
  BY <1>3, DpRanks
<1> QED  BY <1>2, <1>3

\* The other registers do not rely on its writes.
LEMMA DpAlone ==
  ASSUME ReleaseInv, NEW names, Dropped(names), UNCHANGED <<mpu, rvbar, ep, ufsAxi, rel, core, helper, e2m>>,
         \A n \in names : n = "fabric" \/ n \in Rl!DpWrites \/ n = "dpAssert" \/ n = "dpClear"
  PROVE  Queue' /\ RegionReady' /\ CoresReady' /\ HelpersReady' /\ BridgesReady'
<1>1. /\ names \cap {"rangeAll", "rangeAtf", "masters", "on"} = {}
      /\ names \cap {"rvbar", "ufsAxi", "release", "epZeroLow", "epZeroHigh"} = {}
      /\ names \cap {"hRemap", "hClear"} = {}
      /\ names \cap {"preset", "e2mClock"} = {}
  BY DEF Rl!DpWrites
<1> QED  BY <1>1, RegionKept, CoresKept, HelpersKept, BridgesKept DEF ReleaseInv, Dropped

DpState == [reset : BOOLEAN, power : BOOLEAN, window : BOOLEAN, run : BOOLEAN,
            imem : [1..FwWords -> {"old", "new"}], ints : BOOLEAN, hand : SUBSET {0, 1}]
WholeWhenRuns(d, f) == d.run => ~d.window /\ ~d.reset /\ d.power /\ (f => \A i \in 1..FwWords : d.imem[i] = "new")

\* Every write of its bring-up leaves the DPMCU ready.
LEMMA DpWriteKept ==
  ASSUME ReleaseInv, NEW n, NEW i, Rl!Writes(n, i), Rl!Op(n, i) \in DpOps, rlFw' = rlFw,
         dp' \in DpState, WholeWhenRuns(dp', rlFw), Waits("dpRun", 0)' => Loading'
  PROVE  DpReady'
<1>1. \A o \in Due' \cap DpOps, p \in DpOps : Rank(o) < Rank(p) => p \in Due'
  BY DpTurn
<1> QED  BY <1>1 DEF DpReady, ReleaseInv, DpState, WholeWhenRuns, DpOps, WritesOf, Rank

\* What waits after the step waited before it, and all but the write itself.
LEMMA DpStays ==
  ASSUME ReleaseInv, NEW n, NEW i, Rl!Writes(n, i)
  PROVE  /\ \A m, k : (m # n \/ k # i) => (Waits(m, k)' <=> Waits(m, k))
         /\ \A m, k : Waits(m, k)' => Waits(m, k)
         /\ ~rel
<1>1. Due' \subseteq Due /\ Due \subseteq Due' \cup {Rl!Op(n, i)} /\ Due # {}
  BY Made DEF ReleaseInv, Dropped, Waits
<1>2. ~rel
  BY <1>1 DEF ReleaseInv, CoresReady
<1> QED  BY <1>1, <1>2 DEF Waits, Rl!Op

\* Each step of the DPMCU keeps the invariant: its reset,
LEMMA DpResetKept ==
  ReleaseInv /\ Rl!DpReset => Ready'
<1> SUFFICES ASSUME ReleaseInv, Rl!DpReset
             PROVE  Queue' /\ RegionReady' /\ CoresReady' /\ DpReady' /\ HelpersReady' /\ BridgesReady'
  BY DEF Ready
<1>1. PICK n \in {"dpAssert", "fabric", "dpClear"} :
        Rl!Writes(n, 0) /\ dp' = IF n = "dpAssert" THEN Rl!DpOff ELSE [dp EXCEPT !.reset = FALSE]
  BY DEF Rl!DpReset
<1>2. Dropped({n}) /\ UNCHANGED <<mpu, rvbar, ep, ufsAxi, rel, core, helper, e2m, rlFw>>
  BY <1>1, Made DEF ReleaseInv, Rl!DpReset
<1>3. dp \in DpState /\ rlFw \in BOOLEAN /\ WholeWhenRuns(dp, rlFw)
  BY DEF ReleaseInv, DpReady, DpState, WholeWhenRuns
<1>4. Waits("dpRun", 0) => Loading
  BY DEF ReleaseInv, DpReady
<1>5. DpReady'
  <2>1. CASE n = "dpAssert"
    <3>1. dp' = Rl!DpOff /\ Rl!Writes("dpAssert", 0) /\ Rl!Op("dpAssert", 0) \in DpOps
      BY <1>1, <2>1, DpRanks
    <3>2. dp' \in DpState /\ WholeWhenRuns(dp', rlFw)
      BY <3>1 DEF Rl!DpOff, DpState, WholeWhenRuns
    <3>3. Loading'
      BY <3>1, DpOrder DEF Loading, Rl!DpOff
    <3> QED  BY <1>2, <3>1, <3>2, <3>3, DpWriteKept
  <2>2. CASE n # "dpAssert"
    <3>1. dp' = [dp EXCEPT !.reset = FALSE]
      BY <1>1, <2>2
    <3>2. dp' \in DpState /\ dp'.reset = FALSE /\ dp'.power = dp.power /\ dp'.window = dp.window
          /\ dp'.run = dp.run /\ dp'.imem = dp.imem
      BY <1>3, <3>1 DEF DpState
    <3>3. WholeWhenRuns(dp', rlFw)
      BY <1>3, <3>2 DEF WholeWhenRuns
    <3>4. Loading /\ (\A m, k : m \notin {"fabric", "dpClear"} => (Waits(m, k)' <=> Waits(m, k))) => Loading'
      BY <1>2, <3>2 DEF Loading
    <3>5. \A m, k : m \notin {"fabric", "dpClear"} => (Waits(m, k)' <=> Waits(m, k))
      BY <1>1, <2>2, DpStays
    <3>6. Waits("dpRun", 0)' => Loading'
      BY <1>4, <3>4, <3>5
    <3>7. CASE n = "dpClear"
      <4>1. Rl!Op("dpClear", 0) \in DpOps /\ Rl!Writes("dpClear", 0)
        BY <1>1, <3>7, DpRanks
      <4> QED  BY <1>2, <3>2, <3>3, <3>6, <4>1, DpWriteKept
    <3>8. CASE n = "fabric"
      <4>1. \A o \in DpOps : o.do # "fabric"
        BY DEF DpOps, WritesOf, Rl!Op, RankEarly
      <4>2. \A o \in DpOps : o \in Due' <=> o \in Due
        BY <1>2, <3>8, <4>1 DEF Dropped
      <4>3. \A o \in Due' \cap DpOps, p \in DpOps : Rank(o) < Rank(p) => p \in Due'
        BY <4>2 DEF ReleaseInv, DpReady
      <4> QED  BY <1>2, <1>3, <3>2, <3>3, <3>6, <4>3 DEF DpReady, DpState, WholeWhenRuns, DpOps, WritesOf, Rank
    <3> QED  BY <1>1, <2>2, <3>7, <3>8
  <2> QED  BY <2>1, <2>2
<1>6. Queue' /\ RegionReady' /\ CoresReady' /\ HelpersReady' /\ BridgesReady'
  BY <1>2, DpAlone
<1> QED  BY <1>5, <1>6

\* Without a controller nothing of it is left to be written.
LEMMA DpVersionKept ==
  ReleaseInv /\ Rl!DpVersion => Ready'
<1> SUFFICES ASSUME ReleaseInv, Rl!DpVersion
             PROVE  Queue' /\ RegionReady' /\ CoresReady' /\ DpReady' /\ HelpersReady' /\ BridgesReady'
  BY DEF Ready
<1>1. UNCHANGED <<mpu, rvbar, ep, ufsAxi, rel, core, helper, e2m, dp, rlFw>>
  BY DEF Rl!DpVersion
<1>2. dp \in DpState /\ rlFw \in BOOLEAN /\ WholeWhenRuns(dp, rlFw) /\ (Waits("dpRun", 0) => Loading)
  BY DEF ReleaseInv, DpReady, DpState, WholeWhenRuns
<1>3. CASE Rl!Writes("dpVersion", 0)
  <2>1. Dropped({"dpVersion"}) /\ Rl!Op("dpVersion", 0) \in DpOps
    BY <1>3, Made, DpRanks DEF ReleaseInv
  <2>2. \A m, k : m # "dpVersion" => (Waits(m, k)' <=> Waits(m, k))
    BY <1>3, DpStays
  <2>3. Waits("dpRun", 0)' => Loading'
    BY <1>1, <1>2, <2>2 DEF Loading
  <2>4. DpReady'
    BY <1>1, <1>2, <1>3, <2>1, <2>3, DpWriteKept
  <2>5. Queue' /\ RegionReady' /\ CoresReady' /\ HelpersReady' /\ BridgesReady'
    BY <1>1, <2>1, DpAlone DEF Rl!DpWrites
  <2> QED  BY <2>4, <2>5
<1>4. CASE rlTodo # <<>> /\ Head(rlTodo) = Rl!Op("dpVersion", 0) /\ Rl!Returns(Rl!DpWrites)
  <2>1. "dpVersion" \in Rl!DpWrites
    BY DEF Rl!DpWrites
  <2>2. /\ Dropped(Rl!DpWrites)
        /\ \E f \in AllOps : /\ f.do \notin Rl!DpWrites /\ Precedes(Rl!Op("dpVersion", 0), f)
                             /\ \A o \in Due' : o = f \/ Precedes(f, o)
    BY <1>4, <2>1, Skipped DEF ReleaseInv
  <2>3. PICK f \in AllOps : /\ f.do \notin Rl!DpWrites /\ Precedes(Rl!Op("dpVersion", 0), f)
                            /\ \A o \in Due' : o = f \/ Precedes(f, o)
    BY <2>2
  <2>4. Rank(f) > 4
    <3>1. ~Middle(Rl!Op("dpVersion", 0))
      BY DEF Middle, Rl!Op
    <3>2. Rank(Rl!Op("dpVersion", 0)) = 4
      BY DpRanks DEF RankEarly
    <3> QED  BY <2>3, <3>1, <3>2 DEF Precedes
  <2>5. f \notin DpOps
    <3>1. SUFFICES ASSUME f \in DpOps PROVE FALSE
      OBVIOUS
    <3>2. f = Rl!Op("dpAssert", 0) \/ f = Rl!Op("dpClear", 0)
      BY <2>3, <3>1 DEF DpOps, WritesOf, Rl!Op, RankEarly, Rl!DpWrites
    <3> QED  BY <2>4, <3>2, DpRanks DEF RankEarly
  <2>6. Due' \cap DpOps = {}
    <3>1. SUFFICES ASSUME NEW o \in Due', o \in DpOps PROVE FALSE
      OBVIOUS
    <3>2. Precedes(f, o) /\ ~Middle(o)
      BY <2>3, <2>5, <3>1 DEF Middle, DpOps, WritesOf, Rl!Op, RankEarly
    <3>3. Rank(f) < Rank(o) /\ Rank(o) \in 2..(FwWords + 12)
      BY <3>1, <3>2, RankBounds DEF Precedes
    <3> QED  BY <2>4, <2>5, <3>3, RankBounds, ReleaseConstants
  <2>7. ~Waits("dpRun", 0)'
    BY <2>6, DpRanks DEF Waits
  <2>8. DpReady'
    <3>1. \A o \in Due' \cap DpOps, p \in DpOps : Rank(o) < Rank(p) => p \in Due'
      BY <2>6
    <3> QED  BY <1>1, <1>2, <2>7, <3>1 DEF DpReady, DpState, WholeWhenRuns, DpOps, WritesOf, Rank
  <2>9. Queue' /\ RegionReady' /\ CoresReady' /\ HelpersReady' /\ BridgesReady'
    BY <1>1, <2>2, DpAlone
  <2> QED  BY <2>8, <2>9
<1> QED  BY <1>3, <1>4 DEF Rl!DpVersion

\* the writes to its control register
LEMMA DpCtrlKept ==
  ReleaseInv /\ Rl!DpCtrl => Ready'
<1> SUFFICES ASSUME ReleaseInv, Rl!DpCtrl
             PROVE  Queue' /\ RegionReady' /\ CoresReady' /\ DpReady' /\ HelpersReady' /\ BridgesReady'
  BY DEF Ready
<1>1. PICK n \in {"dpDown", "dpPower", "dpOpen", "dpClose", "dpRun"} : Rl!Writes(n, 0)
  BY DEF Rl!DpCtrl
<1>2. Dropped({n}) /\ UNCHANGED <<mpu, rvbar, ep, ufsAxi, rel, core, helper, e2m, rlFw>> /\ Rl!Op(n, 0) \in DpOps
  BY <1>1, Made, DpRanks DEF ReleaseInv, Rl!DpCtrl
<1>3. \A m : Rl!Writes(m, 0) => m = n
  BY <1>1 DEF Rl!Writes, Rl!Op
<1>4. dp \in DpState /\ rlFw \in BOOLEAN /\ WholeWhenRuns(dp, rlFw) /\ (Waits("dpRun", 0) => Loading)
  BY DEF ReleaseInv, DpReady, DpState, WholeWhenRuns
<1>5. \A m, k : m # n => (Waits(m, k)' <=> Waits(m, k))
  BY <1>1, DpStays
<1>6. Waits("dpRun", 0)' => Waits("dpRun", 0)
  BY <1>1, DpStays
<1>7. n # "dpRun" => (dp.run => ~Waits("dpRun", 0))
  BY <1>4 DEF Loading
<1>8. dp' \in DpState /\ WholeWhenRuns(dp', rlFw) /\ (Waits("dpRun", 0)' => Loading')
  <2>1. CASE n = "dpDown"
    <3>1. dp' = [dp EXCEPT !.power = FALSE, !.window = FALSE, !.run = FALSE]
      BY <1>3, <2>1 DEF Rl!DpCtrl
    <3>2. /\ dp' \in DpState /\ dp'.reset = dp.reset /\ dp'.power = FALSE /\ dp'.window = FALSE
          /\ dp'.run = FALSE /\ dp'.imem = dp.imem
      BY <1>4, <3>1 DEF DpState
    <3>3. Waits("dpPower", 0)' /\ Waits("dpOpen", 0)'
      BY <1>1, <2>1, DpOrder
    <3> QED  BY <1>2, <1>4, <1>5, <1>6, <2>1, <3>2, <3>3 DEF Loading, WholeWhenRuns
  <2>2. CASE n = "dpPower"
    <3>1. dp' = [dp EXCEPT !.power = TRUE]
      BY <1>3, <2>2 DEF Rl!DpCtrl
    <3>2. /\ dp' \in DpState /\ dp'.reset = dp.reset /\ dp'.power = TRUE /\ dp'.window = dp.window
          /\ dp'.run = dp.run /\ dp'.imem = dp.imem
      BY <1>4, <3>1 DEF DpState
    <3> QED  BY <1>2, <1>4, <1>5, <1>6, <2>2, <3>2 DEF Loading, WholeWhenRuns
  <2>3. CASE n = "dpOpen"
    <3>1. dp' = [dp EXCEPT !.window = TRUE]
      BY <1>3, <2>3 DEF Rl!DpCtrl
    <3>2. /\ dp' \in DpState /\ dp'.reset = dp.reset /\ dp'.power = dp.power /\ dp'.window = TRUE
          /\ dp'.run = dp.run /\ dp'.imem = dp.imem
      BY <1>4, <3>1 DEF DpState
    <3>3. Waits("dpClose", 0)'
      BY <1>1, <2>3, DpOrder
    <3>4. Waits("dpRun", 0)
      <4>1. Rank(Rl!Op("dpOpen", 0)) < Rank(Rl!Op("dpRun", 0))
        BY DpRanks, ReleaseConstants DEF RankEarly, RankLate
      <4>2. Rl!Op("dpOpen", 0) \in Due \cap DpOps /\ Rl!Op("dpRun", 0) \in DpOps
        BY <1>1, <1>2, <2>3, Made, DpRanks DEF ReleaseInv, Waits
      <4> QED  BY <4>1, <4>2 DEF ReleaseInv, DpReady, Waits
    <3>5. ~dp.run
      BY <1>4, <3>4 DEF Loading
    <3> QED  BY <1>2, <1>4, <1>5, <1>6, <2>3, <3>2, <3>3, <3>5 DEF Loading, WholeWhenRuns
  <2>4. CASE n = "dpClose"
    <3>1. dp' = [dp EXCEPT !.window = FALSE]
      BY <1>3, <2>4 DEF Rl!DpCtrl
    <3>2. /\ dp' \in DpState /\ dp'.reset = dp.reset /\ dp'.power = dp.power /\ dp'.window = FALSE
          /\ dp'.run = dp.run /\ dp'.imem = dp.imem
      BY <1>4, <3>1 DEF DpState
    <3>3. ~Waits("dpClose", 0)'
      BY <1>1, <1>2, <2>4, DpTurn DEF Waits
    <3> QED  BY <1>2, <1>4, <1>5, <1>6, <2>4, <3>2, <3>3 DEF Loading, WholeWhenRuns
  <2>5. CASE n = "dpRun"
    <3>1. dp' = [dp EXCEPT !.run = TRUE]
      BY <1>3, <2>5 DEF Rl!DpCtrl
    <3>2. /\ dp' \in DpState /\ dp'.reset = dp.reset /\ dp'.power = dp.power /\ dp'.window = dp.window
          /\ dp'.run = TRUE /\ dp'.imem = dp.imem
      BY <1>4, <3>1 DEF DpState
    <3>3. ~Waits("dpRun", 0)'
      BY <1>1, <1>2, <2>5, DpTurn DEF Waits
    <3>4. /\ ~Waits("dpClear", 0) /\ ~Waits("dpPower", 0) /\ ~Waits("dpClose", 0)
          /\ \A k \in 1..FwWords : ~Waits("dpWord", k)
      BY <1>1, <2>5, DpOrder
    <3>5. Loading
      BY <1>1, <1>4, <2>5, Made DEF ReleaseInv
    <3> QED  BY <3>2, <3>3, <3>4, <3>5 DEF Loading, WholeWhenRuns
  <2> QED  BY <2>1, <2>2, <2>3, <2>4, <2>5
<1>9. DpReady'
  BY <1>1, <1>2, <1>8, DpWriteKept
<1>10. Queue' /\ RegionReady' /\ CoresReady' /\ HelpersReady' /\ BridgesReady'
  BY <1>2, DpAlone DEF Rl!DpWrites
<1> QED  BY <1>9, <1>10

\* A word arrives: the memory has power, and the window to it is open.
LEMMA DpWordKept ==
  ReleaseInv /\ (\E i \in 1..FwWords : Rl!DpWord(i)) => Ready'
<1> SUFFICES ASSUME ReleaseInv, NEW i \in 1..FwWords, Rl!DpWord(i)
             PROVE  Queue' /\ RegionReady' /\ CoresReady' /\ DpReady' /\ HelpersReady' /\ BridgesReady'
  BY DEF Ready
<1>1. Rl!Writes("dpWord", i)
  BY DEF Rl!DpWord
<1>2. Dropped({"dpWord"}) /\ UNCHANGED <<mpu, rvbar, ep, ufsAxi, rel, core, helper, e2m, rlFw>>
      /\ Rl!Op("dpWord", i) \in DpOps
  BY <1>1, Made, DpRanks DEF ReleaseInv, Rl!DpWord
<1>3. dp \in DpState /\ rlFw \in BOOLEAN /\ (Waits("dpRun", 0) => Loading)
  BY DEF ReleaseInv, DpReady, DpState
<1>4. ~Waits("dpClear", 0) /\ ~Waits("dpPower", 0) /\ ~Waits("dpOpen", 0) /\ Waits("dpClose", 0) /\ Waits("dpRun", 0)
  BY <1>1, DpOrder
<1>5. Loading /\ dp.power /\ dp.window /\ ~dp.reset /\ ~dp.run
  BY <1>3, <1>4 DEF Loading
<1> DEFINE v == IF rlFw THEN "new" ELSE dp.imem[i]
<1>6. dp' = [dp EXCEPT !.imem[i] = v]
  BY <1>5 DEF Rl!DpWord
<1>7. /\ dp' \in DpState /\ dp'.reset = dp.reset /\ dp'.power = dp.power /\ dp'.window = dp.window
      /\ dp'.run = dp.run /\ dp'.imem = [dp.imem EXCEPT ![i] = v]
  <2>1. v \in {"old", "new"}
    BY <1>3 DEF DpState
  <2> HIDE DEF v
  <2> QED  BY <1>3, <1>6, <2>1 DEF DpState
<1>8. \A m, k : (m # "dpWord" \/ k # i) => (Waits(m, k)' <=> Waits(m, k))
  BY <1>1, DpStays
<1>9. \A k \in 1..FwWords : rlFw => Waits("dpWord", k)' \/ dp'.imem[k] = "new"
  <2> SUFFICES ASSUME NEW k \in 1..FwWords, rlFw PROVE Waits("dpWord", k)' \/ dp'.imem[k] = "new"
    OBVIOUS
  <2>1. dp.imem \in [1..FwWords -> {"old", "new"}]
    BY <1>3 DEF DpState
  <2>2. CASE k = i
    BY <1>7, <2>1, <2>2
  <2>3. CASE k # i
    <3>1. dp'.imem[k] = dp.imem[k]
      BY <1>7, <2>1, <2>3
    <3> QED  BY <1>5, <1>8, <2>3, <3>1 DEF Loading
  <2> QED  BY <2>2, <2>3
<1>10. Loading'
  BY <1>2, <1>5, <1>7, <1>8, <1>9 DEF Loading
<1>11. WholeWhenRuns(dp', rlFw)
  BY <1>5, <1>7 DEF WholeWhenRuns
<1>12. DpReady'
  BY <1>1, <1>2, <1>7, <1>10, <1>11, DpWriteKept
<1>13. Queue' /\ RegionReady' /\ CoresReady' /\ HelpersReady' /\ BridgesReady'
  BY <1>2, DpAlone DEF Rl!DpWrites
<1> QED  BY <1>12, <1>13

\* and its handshake.
LEMMA DpHandshakeKept ==
  ReleaseInv /\ Rl!DpHandshake => Ready'
<1> SUFFICES ASSUME ReleaseInv, Rl!DpHandshake
             PROVE  Queue' /\ RegionReady' /\ CoresReady' /\ DpReady' /\ HelpersReady' /\ BridgesReady'
  BY DEF Ready
<1>1. PICK n \in {"dpInts", "dpHand"}, s \in {0, 1} :
        /\ Rl!Writes(n, s) /\ (n = "dpInts" => s = 0)
        /\ dp' = IF n = "dpInts" THEN [dp EXCEPT !.ints = TRUE] ELSE [dp EXCEPT !.hand = @ \cup {s}]
  BY DEF Rl!DpHandshake
<1>2. Dropped({n}) /\ UNCHANGED <<mpu, rvbar, ep, ufsAxi, rel, core, helper, e2m, rlFw>> /\ Rl!Op(n, s) \in DpOps
  BY <1>1, Made, DpRanks DEF ReleaseInv, Rl!DpHandshake
<1>3. dp \in DpState /\ rlFw \in BOOLEAN /\ WholeWhenRuns(dp, rlFw) /\ (Waits("dpRun", 0) => Loading)
  BY DEF ReleaseInv, DpReady, DpState, WholeWhenRuns
<1>4. /\ dp' \in DpState /\ dp'.reset = dp.reset /\ dp'.power = dp.power /\ dp'.window = dp.window
      /\ dp'.run = dp.run /\ dp'.imem = dp.imem
  BY <1>1, <1>3 DEF DpState
<1>5. \A m, k : m # n => (Waits(m, k)' <=> Waits(m, k))
  BY <1>1, DpStays
<1>6. Waits("dpRun", 0)' => Loading'
  BY <1>1, <1>2, <1>3, <1>4, <1>5 DEF Loading
<1>7. WholeWhenRuns(dp', rlFw)
  BY <1>3, <1>4 DEF WholeWhenRuns
<1>8. DpReady'
  BY <1>1, <1>2, <1>4, <1>6, <1>7, DpWriteKept
<1>9. Queue' /\ RegionReady' /\ CoresReady' /\ HelpersReady' /\ BridgesReady'
  BY <1>2, DpAlone DEF Rl!DpWrites
<1> QED  BY <1>8, <1>9

-----------------------------------------------------------------------------
(* The cores that run, and the whole.                                      *)

\* A core that was released finds all that it needs.
LEMMA CoreStepKept ==
  ASSUME ReleaseInv, \/ \E c \in Rl!Cores : Rl!Fetch(c)
                     \/ \E c \in Secondaries : Rl!Jump(c) \/ Rl!Publish(c)
  PROVE  Ready'
<1> USE DEF Ready
<1>1. UNCHANGED <<rlTodo, rvbar, mpu, ufsAxi, rel, dp, rlFw, helper, e2m>> /\ Rl!Cores' = Rl!Cores
  BY DEF Rl!Fetch, Rl!Jump, Rl!Publish, Rl!Cores
<1>2. Dropped({}) /\ Due' = Due
  BY <1>1 DEF Dropped, ReleaseInv, Queue, Due, Ordered, ElementsOf
<1>3. Queue' /\ RegionReady' /\ DpReady' /\ HelpersReady' /\ BridgesReady'
  BY <1>1, <1>2, RegionKept, DpKept, HelpersKept, BridgesKept DEF ReleaseInv, Dropped
<1>4. \A m, i : Waits(m, i)' <=> Waits(m, i)
  BY <1>2 DEF Waits
<1>5. rel /\ Due = {}
  <2>1. \A c \in Rl!Cores : core[c] # "held" => rel
    BY DEF ReleaseInv, CoresReady
  <2>2. 0 \in Rl!Cores /\ Secondaries \subseteq Rl!Cores
    BY ReleaseConstants
  <2>3. rel
    BY <2>1, <2>2 DEF Rl!Fetch, Rl!Jump, Rl!Publish
  <2> QED  BY <2>3 DEF ReleaseInv, CoresReady
<1>6. \A m, i : ~Waits(m, i)
  BY <1>5 DEF Waits
<1>7. /\ mpu.on /\ mpu.masters /\ mpu.range # "none" /\ ufsAxi /\ \A c \in Rl!Cores : rvbar[c] = "new"
      /\ \A c \in Secondaries : ep[c] \in {<<"zero", "zero">>, <<"new", "new">>}
  BY <1>5, <1>6 DEF ReleaseInv, RegionReady, CoresReady
<1>8. core \in [Rl!Cores -> {"held", "spin", "atf"}] /\ ep \in [Rl!Cores -> EpValues]
  BY DEF ReleaseInv, CoresReady
<1>9. CASE \E c \in Rl!Cores : Rl!Fetch(c)
  <2>1. PICK c \in Rl!Cores : Rl!Fetch(c)
    BY <1>9
  <2>2. core' = [core EXCEPT ![c] = IF c = 0 THEN "atf" ELSE "spin"] /\ ep' = ep
    BY <1>7, <2>1 DEF Rl!Fetch
  <2>3. core' \in [Rl!Cores -> {"held", "spin", "atf"}]
    BY <1>8, <2>2
  <2>4. CoresReady'
    BY <1>1, <1>2, <1>4, <1>5, <2>2, <2>3 DEF ReleaseInv, CoresReady
  <2> QED  BY <1>3, <2>4
<1>10. CASE \E c \in Secondaries : Rl!Jump(c)
  <2>1. PICK c \in Secondaries : Rl!Jump(c)
    BY <1>10
  <2>2. core' = [core EXCEPT ![c] = "atf"] /\ ep' = ep
    BY <1>7, <2>1 DEF Rl!Jump
  <2>3. core' \in [Rl!Cores -> {"held", "spin", "atf"}]
    BY <1>8, <2>2
  <2>4. CoresReady'
    BY <1>1, <1>2, <1>4, <1>5, <2>2, <2>3 DEF ReleaseInv, CoresReady
  <2> QED  BY <1>3, <2>4
<1>11. CASE \E c \in Secondaries : Rl!Publish(c)
  <2>1. PICK c \in Secondaries : Rl!Publish(c)
    BY <1>11
  <2>2. ep' = [ep EXCEPT ![c] = <<"new", "new">>] /\ core' = core
    BY <2>1 DEF Rl!Publish
  <2>3. ep' \in [Rl!Cores -> EpValues]
    BY <1>8, <2>2 DEF EpValues
  <2>4. \A d \in Secondaries : ep'[d] \in {<<"zero", "zero">>, <<"new", "new">>}
    BY <1>7, <1>8, <2>2, ReleaseConstants
  <2>5. CoresReady'
    BY <1>1, <1>2, <1>4, <1>5, <2>2, <2>3, <2>4 DEF ReleaseInv, CoresReady
  <2> QED  BY <1>3, <2>5
<1> QED  BY <1>9, <1>10, <1>11

\* The invariant holds at the start.
LEMMA ReleaseInit == Rl!Init => ReleaseInv
<1> SUFFICES ASSUME Rl!Init PROVE ReleaseInv
  OBVIOUS
<1>1. ep = [c \in Rl!Cores |-> <<"old", "old">>] /\ ufsAxi = FALSE /\ resets = 0
  BY DEF Rl!Init
<1>2. ep \in [Rl!Cores -> EpValues]
  BY <1>1 DEF EpValues
<1>3. BootStarts
  BY <1>1, <1>2 DEF Rl!Init, BootStarts
<1>4. resets \in 0..MaxResets
  BY <1>1, ReleaseConstants
<1> QED  BY <1>3, <1>4, BootReady DEF ReleaseInv, Ready

\* A reset of the SoC leaves the scratch registers, and the path of the UFS.
LEMMA ResetKept == ReleaseInv /\ Rl!Reset => Ready'
<1>1. ReleaseInv /\ Rl!Reset => BootStarts'
  <2> SUFFICES ASSUME ReleaseInv, Rl!Reset PROVE BootStarts'
    OBVIOUS
  <2>1. /\ (rlTodo \in Rl!Boots)' /\ rlFw' \in BOOLEAN /\ (mpu = Rl!MpuOff)' /\ (dp = Rl!DpOff)'
        /\ (helper = Rl!HelperOff)' /\ rel' = FALSE /\ (core = [c \in Rl!Cores |-> "held"])'
        /\ (rvbar = [c \in Rl!Cores |-> "old"])'
        /\ (e2m = [b \in Rl!Bridges |-> [reset |-> ~FALSE, clock |-> FALSE, preset |-> FALSE]])'
        /\ ufsAxi' = ufsAxi /\ Rl!Cores' = Rl!Cores /\ Rl!Bridges' = Rl!Bridges
    BY DEF Rl!Reset, Rl!Boots, Rl!MpuOff, Rl!DpOff, Rl!HelperOff, Rl!Cores, Rl!Bridges
  <2>2. (ep \in [Rl!Cores -> EpValues])'
    <3>1. \A c \in Rl!Cores : [half \in 1..2 |-> IF ep[c][half] = "zero" THEN "zero" ELSE "old"] \in EpValues
      BY DEF EpValues
    <3>2. ep' = [c \in Rl!Cores |-> [half \in 1..2 |-> IF ep[c][half] = "zero" THEN "zero" ELSE "old"]]
      BY DEF Rl!Reset
    <3>3. EpValues' = EpValues
      BY DEF EpValues
    <3> QED  BY <2>1, <3>1, <3>2, <3>3
  <2>3. (ufsAxi \in BOOLEAN)'
    BY <2>1 DEF ReleaseInv, CoresReady
  <2> QED  BY <2>1, <2>2, <2>3 DEF BootStarts
<1> QED  BY <1>1, BootReady, PTL

\* Every step of a boot and of the cores keeps it.
LEMMA ReleaseStepKept == ReleaseInv /\ [Rl!Next]_(Rl!releaseVars) => ReleaseInv'
<1> SUFFICES ASSUME ReleaseInv, [Rl!Next]_(Rl!releaseVars) PROVE ReleaseInv'
  OBVIOUS
<1>1. CASE UNCHANGED Rl!releaseVars
  <2>1. UNCHANGED <<rlTodo, rvbar, ep, mpu, ufsAxi, rel, core, dp, rlFw, helper, e2m, resets>>
    BY <1>1 DEF Rl!releaseVars
  <2>2. Dropped({})
    BY <2>1 DEF Dropped, ReleaseInv, Queue, Due, Ordered, ElementsOf
  <2>3. Queue' /\ RegionReady' /\ CoresReady' /\ DpReady' /\ HelpersReady' /\ BridgesReady'
    BY <2>1, <2>2, RegionKept, CoresKept, DpKept, HelpersKept, BridgesKept DEF ReleaseInv, Dropped
  <2> QED  BY <2>1, <2>3 DEF ReleaseInv
<1>2. CASE Rl!Next
  <2>1. Rl!Reset => Ready'
    BY ResetKept
  <2>2. Rl!Mpu \/ Rl!UfsPath \/ Rl!Released \/ Rl!DpReset \/ Rl!DpVersion \/ Rl!DpCtrl \/ Rl!DpHandshake \/ Rl!E2m
          => Ready'
    BY MpuKept, ReleaseKept, DpResetKept, DpVersionKept, DpCtrlKept, DpHandshakeKept, BridgeKept
  <2>3. (\E c \in 0..3 : Rl!Rvbar(c) \/ Rl!SetEp(c)) \/ (\E i \in 1..FwWords : Rl!DpWord(i))
          \/ (\E h \in Rl!Helpers : Rl!HelperWrite(h)) => Ready'
    BY RvbarKept, EpKept, DpWordKept, HelperKept
  <2>4. (\E c \in Rl!Cores : Rl!Fetch(c)) \/ (\E c \in Secondaries : Rl!Jump(c) \/ Rl!Publish(c)) => Ready'
    BY CoreStepKept
  <2>5. Ready'
    BY <1>2, <2>1, <2>2, <2>3, <2>4 DEF Rl!Next
  <2>6. resets' \in 0..MaxResets
    <3>1. resets \in 0..MaxResets
      BY DEF ReleaseInv
    <3>2. Rl!Reset => resets' \in 0..MaxResets
      BY <3>1, ReleaseConstants DEF Rl!Reset
    <3>3. Rl!Mpu \/ Rl!UfsPath \/ Rl!Released \/ Rl!DpReset \/ Rl!DpVersion \/ Rl!DpCtrl \/ Rl!DpHandshake \/ Rl!E2m
            => resets' = resets
      BY DEF Rl!Mpu, Rl!UfsPath, Rl!Released, Rl!DpReset, Rl!DpVersion, Rl!DpCtrl, Rl!DpHandshake, Rl!E2m
    <3>4. (\E c \in 0..3 : Rl!Rvbar(c) \/ Rl!SetEp(c)) \/ (\E i \in 1..FwWords : Rl!DpWord(i))
            \/ (\E h \in Rl!Helpers : Rl!HelperWrite(h)) => resets' = resets
      BY DEF Rl!Rvbar, Rl!SetEp, Rl!Half, Rl!DpWord, Rl!HelperWrite
    <3>5. (\E c \in Rl!Cores : Rl!Fetch(c)) \/ (\E c \in Secondaries : Rl!Jump(c) \/ Rl!Publish(c))
            => resets' = resets
      BY DEF Rl!Fetch, Rl!Jump, Rl!Publish
    <3> QED  BY <1>2, <3>1, <3>2, <3>3, <3>4, <3>5 DEF Rl!Next
  <2> QED  BY <2>5, <2>6 DEF Ready, ReleaseInv
<1> QED  BY <1>1, <1>2

\* And it implies that cores and coprocessors start right.
LEMMA ReleaseSettled == ReleaseInv => Rl!TypeOK /\ Rl!CoresStartRight /\ Rl!HelpersStartRight
<1> SUFFICES ASSUME ReleaseInv PROVE Rl!TypeOK /\ Rl!CoresStartRight /\ Rl!HelpersStartRight
  OBVIOUS
<1>1. Rl!TypeOK
  BY DEF ReleaseInv, CoresReady, DpReady, EpValues, Rl!TypeOK
<1>2. Rl!CoresStartRight
  BY DEF ReleaseInv, CoresReady, Rl!CoresStartRight
<1>3. Rl!HelpersStartRight
  BY ReleaseConstants DEF ReleaseInv, DpReady, HelpersReady, BridgesReady, Rl!HelpersStartRight
<1> QED  BY <1>1, <1>2, <1>3

\* No core of the CA35 starts at a stale entry point or before the memory answers
\* it, and no other processor or bridge before what it relies on is written,
\* whatever the firmware, and wherever the SoC is reset.
THEOREM ReleaseRight == Rl!Spec => [](Rl!TypeOK /\ Rl!CoresStartRight /\ Rl!HelpersStartRight)
  BY ReleaseInit, ReleaseStepKept, ReleaseSettled, PTL DEF Rl!Spec

-----------------------------------------------------------------------------
(* Entropy for Caliptra.                                                   *)

\* What is assumed of the feed's constants.
LEMMA FeedConstants == BlockWords \in Nat \ {0} /\ MaxDraws \in Nat \ {0} /\ MaxLoops \in Nat \ {0}
  BY PartsAssumption DEF Fe!FeedAssumption

\* The instance counts as the library does.
LEMMA FeedCardinality == \A S : Fe!Cardinality(S) = Cardinality(S)
  BY DEF Fe!Cardinality, Cardinality

\* The first n words of a block that is drawn at once.
Drawn(n, d) == {<<w, d>> : w \in 1..n}

\* The variables of the entropy feed hold what they may.
FeedTypes ==
  /\ feAt \in {"out", "look", "feed", "done"} /\ wait \in BOOLEAN /\ loops \in 0..MaxLoops
  /\ draw \in 0..MaxDraws /\ next \in 1..(BlockWords + 1) /\ data \in [1..BlockWords -> 0..MaxDraws]
  /\ req \in BOOLEAN /\ done \in BOOLEAN /\ ready \in BOOLEAN /\ fatal \in BOOLEAN
  /\ feRet \in {"none", "ok", "fatal", "timeout", "idle", "fed"} /\ uc \in {"work", "ask", "read"}

\* A call that is under way has looks left; the host writes only while the request
\* stands, and the request stands only until the block is whole.
Answering ==
  /\ feAt # "out" => loops # 0
  /\ feAt \in {"feed", "done"} =>
       /\ req /\ draw # 0
       /\ \A w \in 1..(next - 1) : data[w] = draw
  /\ feAt = "done" => next = BlockWords + 1
  /\ req => uc = "ask" /\ ~done
  /\ done => draw # 0 /\ \A w \in 1..BlockWords : data[w] = draw
  /\ uc = "read" => done

\* What Caliptra has read so far are the first words of the last draw, and what it
\* took before are whole blocks of earlier draws.
Taking ==
  /\ IsFiniteSet(read) /\ Cardinality(read) \in 0..BlockWords
  /\ uc # "read" => read = {}
  /\ uc = "read" => read = Drawn(Cardinality(read), draw)
  /\ \A b \in blocks : \E d \in 1..draw :
       b = Drawn(BlockWords, d) /\ (feAt \in {"feed", "done"} \/ done => d # draw)

FeedInv == FeedTypes /\ Answering /\ Taking

\* The invariant holds at the start.
LEMMA FeedStarts == Fe!Init => FeedInv
<1> SUFFICES ASSUME Fe!Init PROVE FeedInv
  OBVIOUS
<1>1. FeedTypes
  <2>1. data \in [1..BlockWords -> 0..MaxDraws]
    BY FeedConstants DEF Fe!Init
  <2>2. loops \in 0..MaxLoops /\ draw \in 0..MaxDraws /\ next \in 1..(BlockWords + 1)
    BY FeedConstants DEF Fe!Init
  <2> QED  BY <2>1, <2>2 DEF Fe!Init, FeedTypes
<1>2. Answering
  BY DEF Fe!Init, Answering
<1>3. Taking
  BY FeedConstants, FS_EmptySet DEF Fe!Init, Taking
<1> QED  BY <1>1, <1>2, <1>3 DEF FeedInv

\* The host's steps write the words of one draw while the request stands.
LEMMA HostKept == FeedInv /\ (Fe!Call \/ Fe!Look \/ Fe!Write \/ Fe!Done) => FeedInv'
<1> SUFFICES ASSUME FeedInv, Fe!Call \/ Fe!Look \/ Fe!Write \/ Fe!Done PROVE FeedInv'
  OBVIOUS
<1> USE FeedConstants DEF FeedInv
<1>1. CASE Fe!Call
  <2> USE <1>1 DEF Fe!Call, Fe!ucVars
  <2>1. FeedTypes'
    BY DEF FeedTypes
  <2>2. Answering'
    BY DEF FeedTypes, Answering
  <2>3. Taking'
    BY DEF Taking
  <2> QED  BY <2>1, <2>2, <2>3
<1>2. CASE Fe!Look
  <2> USE <1>2 DEF Fe!Look, Fe!ucVars, Fe!Again, Fe!Return
  <2>1. FeedTypes'
    BY DEF FeedTypes, Answering
  <2>2. Answering'
    BY DEF FeedTypes, Answering
  <2>3. Taking'
    <3>1. CASE feAt' = "feed"
      <4>1. req /\ uc = "ask" /\ draw' = draw + 1 /\ draw \in Nat
        BY <3>1 DEF FeedTypes, Answering
      <4>2. UNCHANGED <<uc, read, blocks>>
        OBVIOUS
      <4> QED  BY <4>1, <4>2 DEF Taking
    <3>2. CASE feAt' # "feed"
      <4>1. UNCHANGED <<draw, done, uc, read, blocks>> /\ feAt' \in {"out", "look"}
        BY <3>2
      <4> QED  BY <4>1 DEF Taking
    <3> QED  BY <3>1, <3>2
  <2> QED  BY <2>1, <2>2, <2>3
<1>3. CASE Fe!Write
  <2> USE <1>3 DEF Fe!Write, Fe!ucVars
  <2>1. FeedTypes'
    BY DEF FeedTypes
  <2>2. Answering'
    BY DEF FeedTypes, Answering
  <2>3. Taking'
    BY DEF Taking
  <2> QED  BY <2>1, <2>2, <2>3
<1>4. CASE Fe!Done
  <2> USE <1>4 DEF Fe!Done, Fe!ucVars, Fe!Again, Fe!Return
  <2>1. FeedTypes'
    BY DEF FeedTypes, Answering
  <2>2. Answering'
    BY DEF FeedTypes, Answering
  <2>3. Taking'
    BY DEF FeedTypes, Answering, Taking
  <2> QED  BY <2>1, <2>2, <2>3
<1> QED  BY <1>1, <1>2, <1>3, <1>4

\* Caliptra reads only once the done bit is set, and the words do not change until
\* it asks again.
LEMMA CaliptraKept == FeedInv /\ (Fe!Ask \/ Fe!ReadWord \/ Fe!Taken \/ Fe!Change) => FeedInv'
<1> SUFFICES ASSUME FeedInv, Fe!Ask \/ Fe!ReadWord \/ Fe!Taken \/ Fe!Change PROVE FeedInv'
  OBVIOUS
<1> USE FeedConstants, FeedCardinality DEF FeedInv
<1>1. CASE Fe!Ask
  <2> USE <1>1 DEF Fe!Ask, Fe!hostVars
  <2>1. FeedTypes'
    BY DEF FeedTypes
  <2>2. Answering'
    BY DEF FeedTypes, Answering
  <2>3. Taking'
    BY DEF Taking
  <2> QED  BY <2>1, <2>2, <2>3
<1>2. CASE Fe!ReadWord
  <2> USE <1>2 DEF Fe!ReadWord, Fe!hostVars
  <2> DEFINE n == Cardinality(read)
  <2>1. done /\ n \in 0..BlockWords /\ IsFiniteSet(read) /\ read = Drawn(n, draw)
    <3>1. done /\ n \in 0..BlockWords /\ IsFiniteSet(read)
      BY DEF Answering, Taking
    <3>2. CASE uc = "read"
      BY <3>1, <3>2 DEF Taking
    <3>3. CASE uc # "read"
      <4>1. read = {} /\ n = 0
        BY <3>3, FS_EmptySet DEF Taking
      <4> HIDE DEF n
      <4> QED  BY <3>1, <4>1 DEF Drawn
    <3> QED  BY <3>1, <3>2, <3>3
  <2>2. n + 1 \in 1..BlockWords /\ read' = read \cup {<<n + 1, draw>>} /\ <<n + 1, draw>> \notin read
    <3>1. n + 1 \in 1..BlockWords /\ read' = read \cup {<<n + 1, data[n + 1]>>}
      BY <2>1
    <3> HIDE DEF n
    <3>2. data[n + 1] = draw
      BY <2>1, <3>1 DEF Answering
    <3> QED  BY <2>1, <3>1, <3>2 DEF Drawn
  <2>3. IsFiniteSet(read') /\ Cardinality(read') = n + 1
    BY <2>1, <2>2, FS_AddElement
  <2>4. read' = Drawn(n + 1, draw)
    <3> HIDE DEF n
    <3>1. Drawn(n + 1, draw) = Drawn(n, draw) \cup {<<n + 1, draw>>}
      BY <2>1 DEF Drawn
    <3> QED  BY <2>1, <2>2, <3>1
  <2>5. FeedTypes'
    BY DEF FeedTypes
  <2>6. Answering'
    BY <2>1 DEF Answering
  <2>7. Taking'
    <3>1. Cardinality(read') \in 0..BlockWords /\ UNCHANGED <<draw, feAt, done, blocks>> /\ uc' = "read"
      BY <2>2, <2>3
    <3>2. read' = Drawn(Cardinality(read'), draw)
      BY <2>3, <2>4
    <3>3. \A b \in blocks' : \E d \in 1..(draw') :
             b = Drawn(BlockWords, d) /\ (feAt' \in {"feed", "done"} \/ done' => d # draw')
      BY <3>1 DEF Taking
    <3> QED  BY <2>3, <3>1, <3>2, <3>3 DEF Taking
  <2> QED  BY <2>5, <2>6, <2>7
<1>3. CASE Fe!Taken
  <2> USE <1>3 DEF Fe!Taken, Fe!hostVars
  <2>1. done /\ draw \in 1..MaxDraws /\ read = Drawn(BlockWords, draw)
    <3>1. done /\ read = Drawn(BlockWords, draw)
      BY DEF Answering, Taking
    <3>2. draw # 0 /\ draw \in 0..MaxDraws
      BY <3>1 DEF FeedTypes, Answering
    <3> QED  BY <3>1, <3>2
  <2>2. feAt \notin {"feed", "done"}
    BY <2>1 DEF Answering
  <2>3. FeedTypes'
    BY DEF FeedTypes
  <2>4. Answering'
    BY <2>2 DEF Answering
  <2>5. Taking'
    BY <2>1, <2>2, FS_EmptySet DEF Taking
  <2> QED  BY <2>3, <2>4, <2>5
<1>4. CASE Fe!Change
  <2> USE <1>4 DEF Fe!Change, Fe!hostVars
  <2>1. FeedTypes'
    BY DEF FeedTypes
  <2>2. Answering'
    BY DEF Answering
  <2>3. Taking'
    BY DEF Taking
  <2> QED  BY <2>1, <2>2, <2>3
<1> QED  BY <1>1, <1>2, <1>3, <1>4

\* Every step of the host and of Caliptra keeps it.
LEMMA FeedKept == FeedInv /\ [Fe!Next]_(Fe!feedVars) => FeedInv'
<1> SUFFICES ASSUME FeedInv, [Fe!Next]_(Fe!feedVars) PROVE FeedInv'
  OBVIOUS
<1>1. CASE UNCHANGED Fe!feedVars
  BY <1>1 DEF Fe!feedVars, Fe!hostVars, Fe!ucVars, FeedInv, FeedTypes, Answering, Taking
<1> QED  BY <1>1, HostKept, CaliptraKept DEF Fe!Next

\* And it implies that entropy is fresh.
LEMMA FeedSettled == FeedInv => Fe!TypeOK /\ Fe!FreshEntropy
<1> SUFFICES ASSUME FeedInv PROVE Fe!TypeOK /\ Fe!FreshEntropy
  OBVIOUS
<1>1. Fe!TypeOK
  BY FeedConstants, FeedCardinality DEF FeedInv, FeedTypes, Taking, Fe!TypeOK
<1>2. \A b \in blocks : \E d \in 1..draw : b = {<<w, d>> : w \in 1..BlockWords}
  BY DEF FeedInv, Taking, Drawn
<1>3. read \cap (UNION blocks) = {}
  <2> SUFFICES ASSUME NEW b \in blocks, NEW x \in read \cap b PROVE FALSE
    OBVIOUS
  <2>1. uc = "read" /\ done /\ read = Drawn(Cardinality(read), draw)
    BY DEF FeedInv, Taking, Answering
  <2>2. PICK d \in 1..draw : b = Drawn(BlockWords, d) /\ d # draw
    BY <2>1 DEF FeedInv, Taking
  <2> QED  BY <2>1, <2>2 DEF Drawn
<1> QED  BY <1>1, <1>2, <1>3 DEF Fe!FreshEntropy

\* Caliptra takes no word twice and no block that is half written, however its
\* requests and the calls of the host fall together, for blocks of any size.
THEOREM FeedRight == Fe!Spec => [](Fe!TypeOK /\ Fe!FreshEntropy)
  BY FeedStarts, FeedKept, FeedSettled, PTL DEF Fe!Spec

-----------------------------------------------------------------------------
(* The links between the dies.                                             *)

\* What is assumed of the links' constants.
LEMMA LinkConstants ==
  /\ Taps \in Nat \ {0} /\ MinWindow \in Nat /\ Retries \in Nat \ {0}
  /\ Margin \in Nat /\ DefaultDelay \in Nat /\ VideoDelay \in Nat /\ Lanes \in Nat \ {0}
  /\ LaneEnd \in 0..255 /\ Taps <= LaneEnd /\ DefaultDelay <= LaneEnd
  /\ Earlier \subseteq {w \in (0..(Taps - 1)) \X (0..(Taps - 1)) : w[1] <= w[2]}
  BY PartsAssumption DEF Sl!SliAssumption

\* What a byte gives back.
LEMMA BytesBack == Sl!Byte(-1) = 255 /\ \A d \in 0..255 : Sl!Byte(d) = d
  BY DEF Sl!Byte

\* A run that nothing continues is a window, and the only one that ends there.
LEMMA RunIsWindow ==
  ASSUME NEW s \in SUBSET Int, NEW a \in Int, NEW b \in Int, a <= b, a..b \subseteq s,
         a - 1 \notin s, b + 1 \notin s
  PROVE  /\ <<a, b>> \in Sl!WindowsOf(s)
         /\ \A w \in Sl!WindowsOf(s) : w[2] = b => w = <<a, b>>
<1>1. a \in a..b /\ b \in a..b
  OBVIOUS
<1>2. <<a, b>> \in Sl!WindowsOf(s)
  BY <1>1 DEF Sl!WindowsOf
<1>3. ASSUME NEW w \in Sl!WindowsOf(s), w[2] = b PROVE w = <<a, b>>
  <2>1. w \in s \X s /\ w[1] <= b /\ w[1]..b \subseteq s /\ w[1] - 1 \notin s
    BY <1>3 DEF Sl!WindowsOf
  <2>2. w[1] \in Int /\ w[1] \in s
    BY <2>1
  <2>3. ~(w[1] < a)
    <3> SUFFICES ASSUME w[1] < a PROVE FALSE
      OBVIOUS
    <3>1. a - 1 \in w[1]..b
      BY <2>2
    <3> QED  BY <2>1, <3>1
  <2>4. ~(w[1] > a)
    <3> SUFFICES ASSUME w[1] > a PROVE FALSE
      OBVIOUS
    <3>1. w[1] - 1 \in a..b
      BY <2>1, <2>2
    <3> QED  BY <2>1, <3>1
  <2> QED  BY <1>3, <2>1, <2>2, <2>3, <2>4
<1> QED  BY <1>2, <1>3

\* The windows of a set of delays that end below n.
Below(s, n) == {w \in Sl!WindowsOf(s) : w[2] < n}

\* A delay that passes neither opens nor closes the windows before it.
LEMMA NoneCloses ==
  ASSUME NEW n \in Nat, NEW s \in SUBSET (0..(n - 1))
  PROVE  Below(s \cup {n}, n) = Below(s, n - 1)
<1> DEFINE t == s \cup {n}
<1>1. \A x \in s : x \in Int /\ x <= n - 1
  OBVIOUS
<1>2. ASSUME NEW w \in Below(t, n) PROVE w \in Below(s, n - 1)
  <2>1. w \in t \X t /\ w[1] <= w[2] /\ w[1]..w[2] \subseteq t /\ w[1] - 1 \notin t /\ w[2] + 1 \notin t
        /\ w[2] < n
    BY <1>2 DEF Below, Sl!WindowsOf
  <2>2. w = <<w[1], w[2]>> /\ w[1] \in Int /\ w[2] \in Int
    <3>1. w = <<w[1], w[2]>> /\ w[1] \in t /\ w[2] \in t
      BY <2>1
    <3> QED  BY <1>1, <3>1
  <2>3. w[2] # n - 1
    BY <2>1, <2>2
  <2>4. w[1] \in s /\ w[2] \in s /\ w[1]..w[2] \subseteq s
    BY <2>1, <2>2
  <2>5. w \in s \X s /\ w[2] < n - 1
    BY <2>1, <2>2, <2>3, <2>4
  <2> QED  BY <2>1, <2>4, <2>5 DEF Below, Sl!WindowsOf
<1>3. ASSUME NEW w \in Below(s, n - 1) PROVE w \in Below(t, n)
  <2>1. w \in s \X s /\ w[1] <= w[2] /\ w[1]..w[2] \subseteq s /\ w[1] - 1 \notin s /\ w[2] + 1 \notin s
        /\ w[2] < n - 1
    BY <1>3 DEF Below, Sl!WindowsOf
  <2>2. w[1] \in Int /\ w[2] \in Int /\ w[1] \in s /\ w[2] \in s
    BY <1>1, <2>1
  <2>3. w[1] - 1 # n /\ w[2] + 1 # n /\ w[2] < n
    BY <2>1, <2>2
  <2>4. w \in t \X t /\ w[1]..w[2] \subseteq t /\ w[1] - 1 \notin t /\ w[2] + 1 \notin t
    BY <2>1, <2>3
  <2> QED  BY <2>1, <2>3, <2>4 DEF Below, Sl!WindowsOf
<1> QED  BY <1>2, <1>3

\* What the scratch words hold is a range of bytes.
LoggedRight == \A l \in Sl!Links : /\ logged[l] = <<logged[l][1], logged[l][2]>>
                                   /\ logged[l][1] \in 0..255 /\ logged[l][2] \in 0..255
                                   /\ logged[l][1] <= logged[l][2]

\* During a sweep: the locals hold the run that is open, no window that is closed
\* is wider than the one logged, and that one was seen in this calibration.
Open ==
  IF first = -1 THEN last = -1 /\ tap - 1 \notin seen
  ELSE /\ first \in 0..(tap - 1) /\ last = tap - 1
       /\ first..last \subseteq seen /\ first - 1 \notin seen

Best(ws, n, w) ==
  /\ \A v \in ws : Sl!Width(v) <= n
  /\ n > 0 => w \in ws /\ Sl!Width(w) = n

Sweeping ==
  spc = "sweep" => /\ tap \in 0..Taps /\ seen \subseteq 0..(tap - 1) /\ lane = 0
                   /\ Open /\ Best(windows \cup Below(seen, tap - 1), win, logged[link])

\* After the sweep the locals are those of the widest window.
SweptRight ==
  spc = "swept" => /\ lane = 0 /\ logged[link] = <<first, last>> /\ Best(windows, win, logged[link])

\* The delays of a lane that pass follow each other.
LaneRun ==
  IF first = -1 THEN last = -1 /\ seen = {}
  ELSE first \in Nat /\ first <= last /\ last < hi /\ seen = first..last /\ tap \in {last + 1, hi}

InLane ==
  /\ spc \in {"set", "lane", "lanedone"} => lane \in 0..Lanes
  /\ spc \in {"lane", "lanedone"} =>
       /\ link = "slim" /\ lane < Lanes /\ lo <= hi /\ hi <= LaneEnd
  /\ spc = "lane" => LaneRun /\ tap <= hi
  /\ spc = "lanedone" => (seen # {} => tap \in seen)
  /\ spc \in {"set", "lane", "lanedone"} /\ link = "slim" /\ win > 0 => delay["slim"] <= LaneEnd

\* Which links are calibrated, and what the flags tell of it.
Staged ==
  /\ link = "slim" => "ahb" \in cal
  /\ link \in {"up", "down"} => "skip" \in flags
  /\ "ready" \in flags => {"ahb", "slim"} \subseteq cal
  /\ "skip" \in flags => "ready" \in flags /\ guarded = {0, 1}
  /\ spc \in {"ahbc1", "ack", "ahbc0", "mark"} => "ready" \in flags
  /\ spc \in {"ack", "ahbc0", "mark"} => 1 \in guarded
  /\ spc = "mark" => 0 \in guarded
  /\ spc = "ok" => "skip" \in flags

\* A coarse sweep has set the middle of a widest window.
Coarse ==
  spc = "set" /\ lane = 0 /\ Sl!Wide # {} =>
    \E w \in Sl!Wide : /\ \A v \in Sl!Wide : Sl!Width(v) <= Sl!Width(w)
                       /\ \/ delay[link] = (w[1] + w[2]) \div 2
                          \/ link # "ahb" /\ w = <<0, 1>>

\* A delay is the middle of a window or one of the fallbacks.
DelaysRight == \A l \in Sl!Links : delay[l] \in 0..(255 + DefaultDelay + VideoDelay)

SliInv ==
  /\ Sl!TypeOK /\ LoggedRight /\ DelaysRight /\ Sweeping /\ SweptRight /\ InLane /\ Staged /\ Coarse

\* The invariant holds at the start.
LEMMA SliStarts == Sl!Init => SliInv
<1> SUFFICES ASSUME Sl!Init PROVE SliInv
  OBVIOUS
<1>0. PICK a \in Earlier, n \in Earlier \cup {Sl!NoWindow} :
        logged = [l \in Sl!Links |-> CASE l = "ahb" -> a [] l = "slim" -> n [] OTHER -> <<0, 0>>]
  BY DEF Sl!Init
<1>1. \A w \in {a, n, <<0, 0>>} : /\ w = <<w[1], w[2]>> /\ w[1] \in 0..255 /\ w[2] \in 0..255
                                 /\ w[1] <= w[2]
  <2>1. \A w \in Earlier : /\ w = <<w[1], w[2]>> /\ w[1] \in 0..255 /\ w[2] \in 0..255
                          /\ w[1] <= w[2]
    <3> SUFFICES ASSUME NEW w \in Earlier
                 PROVE  /\ w = <<w[1], w[2]>> /\ w[1] \in 0..255 /\ w[2] \in 0..255
                        /\ w[1] <= w[2]
      OBVIOUS
    <3>1. w \in (0..(Taps - 1)) \X (0..(Taps - 1)) /\ w[1] <= w[2]
      BY LinkConstants
    <3> QED  BY <3>1, LinkConstants
  <2>2. Sl!NoWindow = <<255, 255>>
    BY BytesBack DEF Sl!NoWindow
  <2> QED  BY <2>1, <2>2
<1>2. \A l \in Sl!Links : logged[l] \in {a, n, <<0, 0>>}
  BY <1>0
<1>3. LoggedRight
  BY <1>1, <1>2 DEF LoggedRight
<1> USE LinkConstants DEF Sl!Init
<1>4. Sl!TypeOK
  <2>1. logged \in [Sl!Links -> (0..255) \X (0..255)]
    <3>1. \A l \in Sl!Links : logged[l] \in (0..255) \X (0..255)
      BY <1>3 DEF LoggedRight
    <3>2. logged = [l \in Sl!Links |-> logged[l]]
      BY <1>0
    <3> QED  BY <3>1, <3>2
  <2>2. delay \in [Sl!Links -> Sl!Delays]
    BY DEF Sl!Delays
  <2>3. tap \in Sl!Delays /\ {first, last} \subseteq {-1} \cup Sl!Delays /\ {lo, hi} \subseteq Sl!Delays
        /\ win \in 0..Taps /\ try \in 1..Retries /\ lane \in 0..Lanes
    BY DEF Sl!Delays
  <2>4. spc \in Sl!Points /\ link \in Sl!Links
    BY DEF Sl!Points, Sl!Links
  <2> QED  BY <2>1, <2>2, <2>3, <2>4 DEF Sl!TypeOK
<1>5. DelaysRight
  BY DEF DelaysRight
<1>6. Sweeping /\ SweptRight /\ InLane /\ Staged /\ Coarse
  BY DEF Sweeping, SweptRight, InLane, Staged, Coarse
<1> QED  BY <1>3, <1>4, <1>5, <1>6 DEF SliInv

\* The parts of the invariant that a step leaves alone.
LEMMA StagedKept == Staged /\ UNCHANGED <<flags, guarded, link, cal>>
                    /\ spc' \notin {"ahbc1", "ack", "ahbc0", "mark", "ok"} => Staged'
  BY DEF Staged

\* The registers keep their bounds while they are not written.
LEMMA RegistersKept == LoggedRight /\ DelaysRight /\ UNCHANGED <<logged, delay>> => LoggedRight' /\ DelaysRight'
  BY DEF LoggedRight, DelaysRight

\* Where nothing is swept there is nothing to say of the locals.
LEMMA NotSweeping ==
  spc' \notin {"sweep", "swept", "set", "lane", "lanedone"} => Sweeping' /\ SweptRight' /\ InLane' /\ Coarse'
  BY DEF Sweeping, SweptRight, InLane, Coarse

\* A sweep begins with nothing seen.
LEMMA SweepBegins ==
  spc' = "sweep" /\ Sl!Fresh => Sweeping' /\ SweptRight' /\ InLane' /\ Coarse'
<1> SUFFICES ASSUME spc' = "sweep", Sl!Fresh PROVE Sweeping' /\ SweptRight' /\ InLane' /\ Coarse'
  OBVIOUS
<1>1. (windows \cup Below(seen, tap - 1))' = {}
  BY DEF Sl!Fresh, Below, Sl!WindowsOf
<1>2. Best(windows \cup Below(seen, tap - 1), win, logged[link])'
  BY <1>1 DEF Best, Sl!Fresh
<1>3. Sweeping'
  BY <1>2, LinkConstants DEF Sweeping, Open, Sl!Fresh
<1> QED  BY <1>3 DEF SweptRight, InLane, Coarse

\* The numbers that the locals of a sweep can hold.
LEMMA FreshTypes == Sl!Fresh => /\ tap' \in Sl!Delays /\ {first', last'} \subseteq {-1} \cup Sl!Delays
                                /\ win' \in 0..Taps /\ try' \in 1..Retries /\ lane' \in 0..Lanes
                                /\ {lo', hi'} \subseteq Sl!Delays /\ seen' \subseteq Sl!Delays
                                /\ windows' \subseteq (0..Taps) \X (0..Taps)
  BY LinkConstants DEF Sl!Fresh, Sl!Delays

-----------------------------------------------------------------------------
(* The stages.                                                             *)

\* The steps from stage to stage keep the invariant.
LEMMA StagesKept == SliInv /\ (Sl!Restart \/ Sl!InitF \/ Sl!InitR \/ Sl!Settle \/ Sl!Advance) => SliInv'
<1> SUFFICES ASSUME SliInv, Sl!Restart \/ Sl!InitF \/ Sl!InitR \/ Sl!Settle \/ Sl!Advance PROVE SliInv'
  OBVIOUS
<1>1. CASE Sl!Restart
  <2> USE <1>1 DEF Sl!Restart, Sl!sliRegs
  <2>1. Sl!TypeOK'
    BY FreshTypes DEF SliInv, Sl!TypeOK, Sl!Points, Sl!Links
  <2>2. Staged'
    BY DEF SliInv, Staged
  <2> QED  BY <2>1, <2>2, NotSweeping, RegistersKept DEF SliInv
<1>2. CASE Sl!InitF
  <2> USE <1>2 DEF Sl!InitF, Sl!Goto, Sl!BeginSweep, Sl!sweepVars
  <2>1. CASE clk \/ "skip" \in flags
    <3>0. spc' = "skipped" /\ UNCHANGED <<clk, flags, guarded, logged, delay, link, tap, first, last, win, try,
                                          lane, lo, hi, seen, windows, cal>>
      BY <2>1
    <3>1. Sl!TypeOK'
      BY <3>0 DEF SliInv, Sl!TypeOK, Sl!Points
    <3>2. Staged'
      BY <2>1 DEF SliInv, Staged
    <3> QED  BY <2>1, <3>1, <3>2, NotSweeping, RegistersKept DEF SliInv
  <2>2. CASE ~(clk \/ "skip" \in flags)
    <3>1. Sl!TypeOK'
      BY <2>2, FreshTypes DEF SliInv, Sl!TypeOK, Sl!Points, Sl!Links
    <3>2. Staged'
      BY <2>2 DEF SliInv, Staged
    <3> QED  BY <2>2, <3>1, <3>2, SweepBegins, RegistersKept DEF SliInv
  <2> QED  BY <2>1, <2>2
<1>3. CASE Sl!InitR
  <2> USE <1>3 DEF Sl!InitR, Sl!Goto, Sl!sweepVars, Sl!sliRegs
  <2>1. spc' \in {"ok", "ahbc1", "timeout"}
    OBVIOUS
  <2>2. spc' = "ok" => "skip" \in flags
    OBVIOUS
  <2>3. spc' = "ahbc1" => "ready" \in flags
    OBVIOUS
  <2>4. Sl!TypeOK'
    BY <2>1 DEF SliInv, Sl!TypeOK, Sl!Points
  <2>5. Staged'
    BY <2>1, <2>2, <2>3 DEF SliInv, Staged
  <2> QED  BY <2>1, <2>4, <2>5, NotSweeping, RegistersKept DEF SliInv
<1>4. CASE Sl!Settle
  <2>1. UNCHANGED <<clk, logged, delay, cal>>
    BY <1>4 DEF Sl!Settle
  <2>2. CASE spc = "mark"
    <3>1. flags' = flags \cup {"skip"} /\ spc' = "sweep" /\ link' = "up" /\ Sl!Fresh /\ guarded' = guarded
      BY <1>4, <2>2 DEF Sl!Settle, Sl!BeginSweep, Sl!Goto
    <3>2. Sl!TypeOK'
      BY <2>1, <3>1, FreshTypes DEF SliInv, Sl!TypeOK, Sl!Points, Sl!Links
    <3>3. guarded = {0, 1} /\ "ready" \in flags
      BY <2>2 DEF SliInv, Staged, Sl!TypeOK
    <3>4. Staged'
      BY <2>1, <3>1, <3>3 DEF SliInv, Staged
    <3> QED  BY <2>1, <3>1, <3>2, <3>4, SweepBegins, RegistersKept DEF SliInv
  <2>3. CASE spc # "mark"
    <3> USE <1>4, <2>3 DEF Sl!Settle, Sl!Goto, Sl!sweepVars
    <3>1. spc' \in {"ack", "ahbc0", "mark"} /\ UNCHANGED <<link, Sl!sweepVars>>
      OBVIOUS
    <3>2. Sl!TypeOK'
      BY <2>1, <3>1 DEF SliInv, Sl!TypeOK, Sl!Points
    <3>3. Staged'
      BY <2>1, <3>1 DEF SliInv, Staged, Sl!TypeOK
    <3> QED  BY <2>1, <3>1, <3>2, <3>3, NotSweeping, RegistersKept DEF SliInv
  <2> QED  BY <2>2, <2>3
<1>5. CASE Sl!Advance
  <2> USE <1>5
  <2>0. spc = "set" /\ cal' = cal \cup {link} /\ UNCHANGED <<clk, guarded, logged, delay>> /\ link \in Sl!Links
    BY DEF Sl!Advance, SliInv, Sl!TypeOK
  <2>1. CASE link \in {"ahb", "up"}
    <3>1. /\ spc' = "sweep" /\ Sl!Fresh /\ flags' = flags
          /\ (link = "ahb" /\ link' = "slim") \/ (link = "up" /\ link' = "down")
      <4>1. CASE link = "ahb"
        BY <4>1 DEF Sl!Advance, Sl!BeginSweep, Sl!Goto
      <4>2. CASE link = "up"
        BY <4>2 DEF Sl!Advance, Sl!BeginSweep, Sl!Goto
      <4> QED  BY <2>1, <4>1, <4>2
    <3>2. Sl!TypeOK'
      BY <2>0, <3>1, FreshTypes DEF SliInv, Sl!TypeOK, Sl!Points, Sl!Links
    <3>3. Staged'
      BY <2>0, <3>1 DEF SliInv, Staged
    <3> QED  BY <2>0, <3>1, <3>2, <3>3, SweepBegins, RegistersKept DEF SliInv
  <2>2. CASE link = "slim"
    <3>1. spc' = "r" /\ Sl!Fresh /\ flags' = flags \cup {"ready"} /\ link' = link
      BY <2>2 DEF Sl!Advance, Sl!Goto
    <3>2. Sl!TypeOK'
      BY <2>0, <3>1, FreshTypes DEF SliInv, Sl!TypeOK, Sl!Points, Sl!Links
    <3>3. Staged'
      BY <2>0, <2>2, <3>1 DEF SliInv, Staged
    <3> QED  BY <2>0, <3>1, <3>2, <3>3, NotSweeping, RegistersKept DEF SliInv
  <2>3. CASE link = "down"
    <3>1. spc' = "ok" /\ Sl!Fresh /\ UNCHANGED <<flags, link>>
      BY <2>3 DEF Sl!Advance, Sl!Goto
    <3>2. Sl!TypeOK'
      BY <2>0, <3>1, FreshTypes DEF SliInv, Sl!TypeOK, Sl!Points, Sl!Links
    <3>3. Staged'
      BY <2>0, <2>3, <3>1 DEF SliInv, Staged
    <3> QED  BY <2>0, <3>1, <3>2, <3>3, NotSweeping, RegistersKept DEF SliInv
  <2> QED  BY <2>0, <2>1, <2>2, <2>3 DEF Sl!Links
<1> QED  BY <1>1, <1>2, <1>3, <1>4, <1>5

-----------------------------------------------------------------------------
(* The coarse sweeps.                                                      *)

\* What the steps of a sweep leave alone beside the registers.
LEMMA SweepStages ==
  SliInv /\ UNCHANGED <<flags, guarded, link, cal>> /\ spc' \in {"sweep", "swept", "set", "lane", "lanedone"}
    => Staged'
  BY DEF SliInv, Staged

\* The open run ends with the delay before this one.
LEMMA OpenRun ==
  ASSUME SliInv, spc = "sweep", first # -1, tap \notin seen
  PROVE  /\ first \in 0..(tap - 1) /\ last = tap - 1
         /\ <<first, last>> \in Sl!WindowsOf(seen)
         /\ \A w \in Sl!WindowsOf(seen) : w[2] = last => w = <<first, last>>
<1>1. tap \in 0..Taps /\ seen \subseteq 0..(tap - 1) /\ first \in 0..(tap - 1) /\ last = tap - 1
      /\ first..last \subseteq seen /\ first - 1 \notin seen
  BY DEF SliInv, Sweeping, Open
<1>2. seen \in SUBSET Int /\ first \in Int /\ last \in Int /\ first <= last /\ last + 1 \notin seen
  BY <1>1
<1> QED  BY <1>1, <1>2, RunIsWindow

\* Without an open run no window ends with the delay before this one, with one only this run.
LEMMA LastCloses ==
  ASSUME SliInv, spc = "sweep"
  PROVE  /\ first = -1 => Below(seen, tap) = Below(seen, tap - 1)
         /\ first # -1 => Below(seen, tap) = Below(seen, tap - 1) \cup {<<first, last>>}
<1>1. tap \in 0..Taps /\ seen \subseteq 0..(tap - 1) /\ Taps \in Nat /\ Open
  BY LinkConstants DEF SliInv, Sweeping
<1>2. \A w \in Sl!WindowsOf(seen) : w[2] \in Int /\ w[2] \in seen /\ w[2] <= tap - 1
  <2> SUFFICES ASSUME NEW w \in Sl!WindowsOf(seen) PROVE w[2] \in Int /\ w[2] \in seen /\ w[2] <= tap - 1
    OBVIOUS
  <2>1. w[2] \in seen
    BY DEF Sl!WindowsOf
  <2>2. tap \in Int /\ \A x \in seen : x \in Int /\ x <= tap - 1
    BY <1>1
  <2> QED  BY <2>1, <2>2
<1>3. CASE first = -1
  <2>1. tap - 1 \notin seen
    BY <1>1, <1>3 DEF Open
  <2>2. \A w \in Sl!WindowsOf(seen) : w[2] < tap <=> w[2] < tap - 1
    BY <1>1, <1>2, <2>1
  <2> QED  BY <1>3, <2>2 DEF Below
<1>4. CASE first # -1
  <2>1. /\ last = tap - 1 /\ <<first, last>> \in Sl!WindowsOf(seen)
        /\ \A w \in Sl!WindowsOf(seen) : w[2] = last => w = <<first, last>>
    <3>1. tap \notin seen
      BY <1>1
    <3> QED  BY <1>4, <3>1, OpenRun
  <2>2. \A w \in Sl!WindowsOf(seen) : w[2] < tap <=> w[2] < tap - 1 \/ w[2] = last
    BY <1>1, <1>2, <2>1
  <2>3. \A w \in Sl!WindowsOf(seen) : w[2] < tap <=> w[2] < tap - 1 \/ w = <<first, last>>
    BY <2>1, <2>2
  <2> QED  BY <1>4, <2>1, <2>3 DEF Below
<1> QED  BY <1>3, <1>4

\* A run that is wider than what is logged takes its place, a narrower one does not.
LEMMA BestKept ==
  ASSUME NEW ws, ws \subseteq (0..Taps) \X (0..Taps), NEW n \in 0..Taps, NEW w, Best(ws, n, w),
         NEW a \in 0..Taps, NEW b \in 0..Taps, a <= b
  PROVE  /\ b - a > n => Best(ws \cup {<<a, b>>}, b - a, <<a, b>>)
         /\ ~(b - a > n) => Best(ws \cup {<<a, b>>}, n, w)
<1>1. Taps \in Nat /\ Sl!Width(<<a, b>>) = b - a
  BY LinkConstants DEF Sl!Width
<1>2. ASSUME NEW v \in ws PROVE Sl!Width(v) \in Int /\ Sl!Width(v) <= n
  <2>1. v[1] \in Int /\ v[2] \in Int
    BY <1>1
  <2> QED  BY <2>1 DEF Sl!Width, Best
<1>3. CASE b - a > n
  BY <1>1, <1>2, <1>3 DEF Best
<1>4. CASE ~(b - a > n)
  BY <1>1, <1>2, <1>4 DEF Best
<1> QED  BY <1>3, <1>4

\* The windows of a sweep are pairs of its delays.
LEMMA WindowTypes ==
  SliInv /\ spc = "sweep" => Sl!WindowsOf(seen) \subseteq (0..Taps) \X (0..Taps)
<1> SUFFICES ASSUME SliInv, spc = "sweep" PROVE Sl!WindowsOf(seen) \subseteq (0..Taps) \X (0..Taps)
  OBVIOUS
<1>1. seen \subseteq 0..Taps
  BY LinkConstants DEF SliInv, Sweeping
<1> QED  BY <1>1 DEF Sl!WindowsOf

\* A measurement keeps it.
LEMMA MeasureKept ==
  ASSUME SliInv, NEW pass \in BOOLEAN, Sl!Measure(pass) PROVE SliInv'
<1> USE DEF Sl!Measure
<1>1. /\ spc = "sweep" /\ spc' = "sweep" /\ tap' = tap + 1 /\ tap < Taps
      /\ UNCHANGED <<clk, flags, guarded, delay, spc, link, try, lane, lo, hi, windows, cal>>
  OBVIOUS
<1>2. tap \in 0..Taps /\ seen \subseteq 0..(tap - 1) /\ lane = 0 /\ Open /\ Best(windows \cup Below(seen, tap - 1), win, logged[link])
      /\ Taps \in Nat /\ win \in 0..Taps /\ link \in Sl!Links /\ windows \subseteq (0..Taps) \X (0..Taps)
  BY <1>1, LinkConstants DEF SliInv, Sweeping, Sl!TypeOK
<1>3. tap' \in 1..Taps /\ tap' \in Sl!Delays /\ tap' - 1 = tap
  BY <1>1, <1>2, LinkConstants DEF Sl!Delays
<1>4. Staged' /\ SweptRight' /\ InLane' /\ Coarse'
  BY <1>1, SweepStages DEF SweptRight, InLane, Coarse
<1>5. DelaysRight'
  BY <1>1 DEF SliInv, DelaysRight
<1>6. CASE pass
  <2>1. /\ first' = (IF first = -1 THEN tap ELSE first) /\ last' = tap /\ seen' = seen \cup {tap}
        /\ UNCHANGED <<win, logged>>
    BY <1>6
  <2>2. seen' \subseteq 0..(tap' - 1) /\ seen' \subseteq Sl!Delays
    BY <1>2, <1>3, <2>1, LinkConstants DEF Sl!Delays
  <2>3. Open'
    <3>1. CASE first = -1
      <4>1. tap - 1 \notin seen /\ tap \in Nat
        BY <1>2, <3>1 DEF Open
      <4>2. first' = tap /\ last' = tap /\ seen' = seen \cup {tap}
        BY <2>1, <3>1
      <4>3. first' \in 0..(tap' - 1) /\ last' = tap' - 1 /\ first' # -1
        BY <1>3, <4>1, <4>2
      <4>4. first'..last' = {tap} /\ first' - 1 \notin seen'
        BY <4>1, <4>2
      <4> QED  BY <4>2, <4>3, <4>4 DEF Open
    <3>2. CASE first # -1
      <4>1. first \in 0..(tap - 1) /\ last = tap - 1 /\ first..last \subseteq seen /\ first - 1 \notin seen
        BY <1>2, <3>2 DEF Open
      <4>2. first' = first /\ last' = tap
        BY <2>1, <3>2
      <4>3. first..tap \subseteq seen \cup {tap} /\ first - 1 # tap
        BY <1>2, <4>1
      <4>4. first' \in 0..(tap' - 1) /\ last' = tap' - 1
        BY <1>2, <1>3, <4>1, <4>2
      <4> QED  BY <2>1, <3>2, <4>1, <4>2, <4>3, <4>4 DEF Open
    <3> QED  BY <3>1, <3>2
  <2>4. Below(seen', tap' - 1) = Below(seen, tap - 1)
    <3>1. Below(seen \cup {tap}, tap) = Below(seen, tap - 1)
      BY <1>2, NoneCloses
    <3> QED  BY <1>3, <2>1, <3>1
  <2>5. Best(windows \cup Below(seen, tap - 1), win, logged[link])'
    BY <1>1, <1>2, <2>1, <2>4
  <2>6. Sweeping'
    BY <1>1, <1>2, <1>3, <2>2, <2>3, <2>5 DEF Sweeping
  <2>7. LoggedRight'
    BY <2>1 DEF SliInv, LoggedRight
  <2>8. {first', last'} \subseteq {-1} \cup Sl!Delays
    BY <1>1, <1>2, <2>1, LinkConstants DEF SliInv, Sl!TypeOK, Sl!Delays
  <2>9. Sl!TypeOK'
    BY <1>1, <1>3, <2>1, <2>2, <2>8 DEF SliInv, Sl!TypeOK
  <2> QED  BY <1>4, <1>5, <2>6, <2>7, <2>9 DEF SliInv
<1>7. CASE ~pass
  <2>1. first' = -1 /\ last' = -1 /\ seen' = seen
    BY <1>7
  <2>2. Open'
    BY <1>2, <1>3, <2>1 DEF Open
  <2>3. /\ Best(windows \cup Below(seen, tap), win', logged'[link])
        /\ LoggedRight' /\ win' \in 0..Taps /\ logged' \in [Sl!Links -> (0..255) \X (0..255)]
    <3>0. logged \in [Sl!Links -> (0..255) \X (0..255)] /\ LoggedRight
      BY DEF SliInv, Sl!TypeOK
    <3>1. CASE first = -1
      <4>1. last = -1 /\ UNCHANGED <<win, logged, link, windows, seen>>
        BY <1>1, <1>2, <1>7, <3>1 DEF Open
      <4>2. Below(seen, tap) = Below(seen, tap - 1)
        BY <1>1, <3>1, LastCloses
      <4> QED  BY <1>2, <3>0, <4>1, <4>2 DEF LoggedRight
    <3>2. CASE first # -1
      <4>1. first \in 0..(tap - 1) /\ last = tap - 1
        BY <1>2, <3>2 DEF Open
      <4>2. first \in 0..(Taps - 1) /\ last \in 0..(Taps - 1) /\ first <= last /\ last # -1
        BY <1>1, <1>2, <4>1
      <4>3. /\ win' = (IF last - first > win THEN last - first ELSE win)
            /\ logged' = IF last - first > win THEN [logged EXCEPT ![link] = <<first, last>>] ELSE logged
        BY <1>7, <4>2
      <4>4. logged'[link] = IF last - first > win THEN <<first, last>> ELSE logged[link]
        BY <1>2, <3>0, <4>3
      <4>5. Below(seen, tap) = Below(seen, tap - 1) \cup {<<first, last>>}
        BY <1>1, <3>2, LastCloses
      <4>6. Below(seen, tap - 1) \subseteq (0..Taps) \X (0..Taps)
        BY <1>1, WindowTypes DEF Below
      <4> DEFINE ws == windows \cup Below(seen, tap - 1)
      <4>7. ws \subseteq (0..Taps) \X (0..Taps) /\ Best(ws, win, logged[link]) /\ first \in 0..Taps /\ last \in 0..Taps
        BY <1>2, <4>2, <4>6
      <4> HIDE DEF ws
      <4>8. Best(ws \cup {<<first, last>>}, win', logged'[link])
        <5>1. /\ last - first > win => Best(ws \cup {<<first, last>>}, last - first, <<first, last>>)
              /\ ~(last - first > win) => Best(ws \cup {<<first, last>>}, win, logged[link])
          BY <1>2, <4>2, <4>7, BestKept
        <5> QED  BY <4>3, <4>4, <5>1
      <4>9. LoggedRight'
        BY <3>0, <4>2, <4>3, LinkConstants DEF LoggedRight
      <4>10. win' \in 0..Taps /\ logged' \in [Sl!Links -> (0..255) \X (0..255)]
        <5>1. <<first, last>> \in (0..255) \X (0..255) /\ last - first \in 0..Taps
          BY <1>2, <4>2, LinkConstants
        <5> QED  BY <1>2, <3>0, <4>3, <5>1
      <4>11. windows \cup Below(seen, tap) = ws \cup {<<first, last>>}
        BY <4>5 DEF ws
      <4> QED  BY <4>8, <4>9, <4>10, <4>11
    <3> QED  BY <3>1, <3>2
  <2>6. Sweeping'
    BY <1>1, <1>2, <1>3, <2>1, <2>2, <2>3 DEF Sweeping
  <2>9. Sl!TypeOK'
    BY <1>1, <1>3, <2>1, <2>3 DEF SliInv, Sl!TypeOK
  <2> QED  BY <1>4, <1>5, <2>3, <2>6, <2>9 DEF SliInv
<1> QED  BY <1>6, <1>7

\* At the end the window that is still open counts with the others.
LEMMA EndSweepKept ==
  ASSUME SliInv, Sl!EndSweep PROVE SliInv'
<1> USE DEF Sl!EndSweep, Sl!Goto
<1>1. /\ spc = "sweep" /\ tap = Taps /\ spc' = "swept" /\ windows' = windows \cup Sl!WindowsOf(seen)
      /\ UNCHANGED <<clk, flags, guarded, delay, link, tap, try, lane, lo, hi, seen, cal>>
  OBVIOUS
<1>2. /\ tap \in 0..Taps /\ seen \subseteq 0..(tap - 1) /\ lane = 0 /\ Open
      /\ Best(windows \cup Below(seen, tap - 1), win, logged[link])
      /\ Taps \in Nat \ {0} /\ win \in 0..Taps /\ link \in Sl!Links /\ windows \subseteq (0..Taps) \X (0..Taps)
      /\ logged \in [Sl!Links -> (0..255) \X (0..255)] /\ LoggedRight
  BY <1>1, LinkConstants DEF SliInv, Sweeping, Sl!TypeOK
<1>3. Below(seen, tap) = Sl!WindowsOf(seen)
  <2>1. \A w \in Sl!WindowsOf(seen) : w[2] \in seen
    BY DEF Sl!WindowsOf
  <2>2. \A x \in seen : x < tap
    BY <1>2
  <2> QED  BY <2>1, <2>2 DEF Below
<1>4. Staged' /\ Sweeping' /\ InLane' /\ Coarse'
  BY <1>1, SweepStages DEF Sweeping, InLane, Coarse
<1>5. DelaysRight'
  BY <1>1 DEF SliInv, DelaysRight
<1>6. windows' \subseteq (0..Taps) \X (0..Taps)
  BY <1>1, <1>2, WindowTypes
<1> DEFINE wider == last # -1 /\ last - first > win
           w == IF wider THEN <<first, last>> ELSE logged[link]
<1>7. /\ first' = w[1] /\ last' = w[2] /\ logged' = [logged EXCEPT ![link] = w]
      /\ win' = IF wider THEN last - first ELSE win
  OBVIOUS
<1>8. wider => first \in 0..(Taps - 1) /\ last \in 0..(Taps - 1) /\ first <= last
  BY <1>1, <1>2 DEF Open
<1>9. w = <<w[1], w[2]>> /\ w[1] \in 0..255 /\ w[2] \in 0..255 /\ w[1] <= w[2] /\ win' \in 0..Taps
  <2>1. CASE wider
    <3>1. Taps \in Nat /\ Taps <= 255
      BY LinkConstants
    <3>2. first \in 0..(Taps - 1) /\ last \in 0..(Taps - 1) /\ first <= last
      BY <1>8, <2>1
    <3>3. first \in 0..255 /\ last \in 0..255 /\ first <= last /\ last - first \in 0..Taps
      BY ONLY <3>1, <3>2
    <3>4. w = <<first, last>> /\ win' = last - first
      BY <1>7, <2>1
    <3> HIDE DEF w
    <3> QED  BY <3>3, <3>4
  <2>2. CASE ~wider
    <3>1. w = logged[link] /\ win' = win
      BY <1>7, <2>2
    <3> HIDE DEF w
    <3> QED  BY <1>2, <3>1 DEF LoggedRight
  <2> QED  BY <2>1, <2>2
<1>10. Best(windows', win', w)
  <2>1. CASE first = -1
    <3>1. last = -1 /\ Sl!WindowsOf(seen) = Below(seen, tap - 1)
      BY <1>1, <1>2, <1>3, <2>1, LastCloses DEF Open
    <3> QED  BY <1>1, <1>2, <1>7, <3>1
  <2>2. CASE first # -1
    <3>1. first \in 0..Taps /\ last \in 0..Taps /\ first <= last /\ last # -1
      BY <1>1, <1>2, <2>2 DEF Open
    <3>2. Sl!WindowsOf(seen) = Below(seen, tap - 1) \cup {<<first, last>>}
      BY <1>1, <1>3, <2>2, LastCloses
    <3>3. Below(seen, tap - 1) \subseteq (0..Taps) \X (0..Taps)
      BY <1>1, WindowTypes DEF Below
    <3> DEFINE ws == windows \cup Below(seen, tap - 1)
    <3>4. ws \subseteq (0..Taps) \X (0..Taps) /\ Best(ws, win, logged[link])
      BY <1>2, <3>3
    <3>5. windows' = ws \cup {<<first, last>>}
      BY <1>1, <3>2
    <3> HIDE DEF ws
    <3>6. /\ last - first > win => Best(ws \cup {<<first, last>>}, last - first, <<first, last>>)
          /\ ~(last - first > win) => Best(ws \cup {<<first, last>>}, win, logged[link])
      BY <1>2, <3>1, <3>4, BestKept
    <3> QED  BY <1>7, <3>1, <3>5, <3>6
  <2> QED  BY <2>1, <2>2
<1> HIDE DEF w, wider
<1>11. logged'[link] = w /\ logged' \in [Sl!Links -> (0..255) \X (0..255)]
  <2>1. w \in (0..255) \X (0..255)
    BY <1>2, <1>9
  <2> QED  BY <1>2, <1>7, <2>1
<1>12. LoggedRight'
  BY <1>2, <1>7, <1>9 DEF LoggedRight
<1>13. SweptRight'
  BY <1>1, <1>2, <1>7, <1>9, <1>10, <1>11 DEF SweptRight
<1>14. Sl!TypeOK'
  <2>1. {first', last'} \subseteq {-1} \cup Sl!Delays
    BY <1>2, <1>7, <1>9, LinkConstants DEF Sl!Delays
  <2> QED  BY <1>1, <1>6, <1>9, <1>11, <2>1 DEF SliInv, Sl!TypeOK, Sl!Points
<1> QED  BY <1>4, <1>5, <1>12, <1>13, <1>14 DEF SliInv

\* Another try keeps what is logged.
LEMMA TryAgainKept ==
  ASSUME SliInv, Sl!TryAgain PROVE SliInv'
<1> USE DEF Sl!TryAgain, Sl!Goto, Sl!sliRegs
<1>1. /\ spc = "swept" /\ spc' = "sweep" /\ tap' = 0 /\ first' = -1 /\ last' = -1 /\ seen' = {}
      /\ try' = try + 1 /\ try < Retries
      /\ UNCHANGED <<clk, flags, guarded, logged, delay, link, win, lane, lo, hi, windows, cal>>
  OBVIOUS
<1>2. lane = 0 /\ Best(windows, win, logged[link])
  BY <1>1 DEF SliInv, SweptRight
<1>3. Staged' /\ SweptRight' /\ InLane' /\ Coarse'
  BY <1>1, SweepStages DEF SweptRight, InLane, Coarse
<1>4. LoggedRight' /\ DelaysRight'
  BY <1>1, RegistersKept DEF SliInv
<1>5. (windows \cup Below(seen, tap - 1))' = windows
  BY <1>1 DEF Below, Sl!WindowsOf
<1>6. Sweeping'
  <2>1. Best(windows \cup Below(seen, tap - 1), win, logged[link])'
    BY <1>1, <1>2, <1>5
  <2>2. Open' /\ tap' \in 0..Taps /\ seen' \subseteq 0..(tap' - 1) /\ lane' = 0
    BY <1>1, <1>2, LinkConstants DEF Open
  <2> QED  BY <2>1, <2>2 DEF Sweeping
<1>7. Sl!TypeOK'
  BY <1>1, LinkConstants DEF SliInv, Sl!TypeOK, Sl!Points, Sl!Delays
<1> QED  BY <1>3, <1>4, <1>6, <1>7 DEF SliInv

\* The middle of the widest window is set, or the fallback for a middle of zero.
LEMMA ChooseKept ==
  ASSUME SliInv, Sl!Choose PROVE SliInv'
<1>1. /\ spc = "swept" /\ spc' = "set" /\ delay' = [delay EXCEPT ![link] = Sl!Middle]
      /\ UNCHANGED <<clk, flags, guarded, logged, link, tap, first, last, win, try, lane, lo, hi, seen, windows, cal>>
  BY DEF Sl!Choose, Sl!Goto, Sl!sweepVars
<1>2. /\ lane = 0 /\ logged[link] = <<first, last>> /\ Best(windows, win, logged[link]) /\ link \in Sl!Links
      /\ delay \in [Sl!Links -> Sl!Delays] /\ win \in 0..Taps /\ windows \subseteq (0..Taps) \X (0..Taps)
  BY <1>1 DEF SliInv, SweptRight, Sl!TypeOK
<1>3. first \in 0..255 /\ last \in 0..255 /\ first <= last
  BY <1>2 DEF SliInv, LoggedRight
<1> DEFINE m == (first + last) \div 2
<1>4. m \in 0..255 /\ m <= last /\ (m = 0 /\ first < last => first = 0 /\ last = 1)
  BY <1>3, LinkConstants
<1>5. /\ Sl!Middle \in {m, DefaultDelay, VideoDelay}
      /\ Sl!Middle # m => m = 0 /\ link # "ahb"
      /\ link = "slim" => Sl!Middle \in {m, DefaultDelay}
  <2>1. Sl!Middle = IF m # 0 \/ link = "ahb" THEN m ELSE IF link = "slim" THEN DefaultDelay ELSE VideoDelay
    BY DEF Sl!Middle
  <2> HIDE DEF m
  <2> QED  BY <2>1
<1> HIDE DEF m
<1>6. Sl!Middle \in 0..(255 + DefaultDelay + VideoDelay) /\ Sl!Middle \in Sl!Delays
  BY <1>4, <1>5, LinkConstants DEF Sl!Delays
<1>7. delay'[link] = Sl!Middle
  BY <1>1, <1>2
<1>8. Staged' /\ Sweeping' /\ SweptRight' /\ InLane'
  <2>1. lane' \in 0..Lanes
    BY <1>1 DEF SliInv, Sl!TypeOK
  <2>2. ASSUME link = "slim", win > 0 PROVE delay'["slim"] <= LaneEnd
    <3>1. <<first, last>> \in (0..Taps) \X (0..Taps)
      BY <1>2, <2>2 DEF Best
    <3>2. last <= Taps
      BY <3>1
    <3>3. Sl!Middle \in {m, DefaultDelay}
      BY <1>5, <2>2
    <3> QED  BY <1>3, <1>4, <1>7, <2>2, <3>2, <3>3, LinkConstants
  <2>3. InLane'
    BY <1>1, <2>1, <2>2 DEF InLane
  <2> QED  BY <1>1, <2>3, SweepStages DEF Sweeping, SweptRight
<1>9. LoggedRight' /\ DelaysRight'
  <2>1. LoggedRight'
    BY <1>1 DEF SliInv, LoggedRight
  <2>2. DelaysRight'
    BY <1>1, <1>2, <1>6 DEF SliInv, DelaysRight
  <2> QED  BY <2>1, <2>2
<1>10. Coarse'
  <2> SUFFICES ASSUME Sl!Wide # {}
               PROVE  \E w \in Sl!Wide : /\ \A v \in Sl!Wide : Sl!Width(v) <= Sl!Width(w)
                                         /\ \/ delay'[link] = (w[1] + w[2]) \div 2
                                            \/ link # "ahb" /\ w = <<0, 1>>
    <3>1. Sl!Wide' = Sl!Wide
      BY <1>1 DEF Sl!Wide
    <3> QED  BY <1>1, <3>1 DEF Coarse
  <2>1. PICK v \in windows : Sl!Width(v) > 0 /\ Sl!Width(v) <= win /\ Sl!Width(v) \in Int
    <3>1. PICK v \in windows : Sl!Width(v) > 0 /\ Sl!Width(v) <= win
      BY <1>2 DEF Sl!Wide, Best
    <3>2. v[1] \in Int /\ v[2] \in Int
      BY <1>2, <3>1, LinkConstants
    <3> QED  BY <3>1, <3>2 DEF Sl!Width
  <2>2. win > 0 /\ <<first, last>> \in windows /\ Sl!Width(<<first, last>>) = win
    BY <1>2, <2>1 DEF Best
  <2>3. <<first, last>> \in Sl!Wide /\ \A u \in Sl!Wide : Sl!Width(u) <= Sl!Width(<<first, last>>)
    BY <1>2, <2>2 DEF Sl!Wide, Best
  <2>4. first < last
    BY <1>3, <2>2 DEF Sl!Width
  <2>5. delay'[link] = (first + last) \div 2 \/ (link # "ahb" /\ <<first, last>> = <<0, 1>>)
    BY <1>4, <1>5, <1>7, <2>4 DEF m
  <2> QED  BY <2>3, <2>5
<1>11. Sl!TypeOK'
  BY <1>1, <1>2, <1>6 DEF SliInv, Sl!TypeOK, Sl!Points
<1> QED  BY <1>8, <1>9, <1>10, <1>11 DEF SliInv

-----------------------------------------------------------------------------
(* The lanes.                                                              *)

\* The steps of the lanes keep it.
LEMMA LanesKept ==
  ASSUME SliInv, Sl!FineTune \/ (\E pass \in BOOLEAN : Sl!MeasureLane(pass)) \/ Sl!LaneAgain \/ Sl!ChooseLane
                 \/ Sl!NextLane
  PROVE  SliInv'
<1>0. /\ delay \in [Sl!Links -> Sl!Delays] /\ delay["slim"] \in 0..(255 + DefaultDelay + VideoDelay)
      /\ lane \in 0..Lanes /\ lo \in Sl!Delays /\ hi \in Sl!Delays
      /\ spc \in {"lane", "lanedone"} =>
           link = "slim" /\ lane < Lanes /\ lo <= hi /\ hi <= LaneEnd
      /\ spc = "lane" => LaneRun /\ tap <= hi
      /\ spc \in {"set", "lane", "lanedone"} /\ link = "slim" /\ win > 0 => delay["slim"] <= LaneEnd
  BY DEF SliInv, Sl!TypeOK, DelaysRight, InLane, Sl!Links
<1>1. CASE Sl!FineTune
  <2>1. /\ spc = "set" /\ link = "slim" /\ win > 0 /\ lane < Lanes /\ spc' = "lane"
        /\ lo' = (IF delay["slim"] < Margin THEN 0 ELSE delay["slim"] - Margin)
        /\ hi' = Sl!Least(delay["slim"] + Margin, LaneEnd)
        /\ tap' = lo' /\ first' = -1 /\ last' = -1 /\ seen' = {} /\ try' = 1
        /\ UNCHANGED <<clk, flags, guarded, logged, delay, link, win, lane, windows, cal>>
    BY <1>1 DEF Sl!FineTune, Sl!Goto, Sl!sliRegs
  <2>2. lo' \in Sl!Delays /\ hi' \in Sl!Delays /\ lo' <= hi' /\ hi' <= LaneEnd
    <3>1. delay["slim"] <= LaneEnd
      BY <1>0, <2>1
    <3> QED  BY <1>0, <2>1, <3>1, LinkConstants DEF Sl!Delays, Sl!Least
  <2>3. InLane'
    BY <1>0, <2>1, <2>2 DEF InLane, LaneRun
  <2>4. Sl!TypeOK'
    BY <2>1, <2>2, LinkConstants DEF SliInv, Sl!TypeOK, Sl!Points
  <2>5. Staged' /\ Sweeping' /\ SweptRight' /\ Coarse' /\ LoggedRight' /\ DelaysRight'
    BY <2>1, SweepStages, RegistersKept DEF SliInv, Sweeping, SweptRight, Coarse
  <2> QED  BY <2>3, <2>4, <2>5 DEF SliInv
<1>2. ASSUME NEW pass \in BOOLEAN, Sl!MeasureLane(pass) PROVE SliInv'
  <2>1. /\ spc = "lane" /\ tap < hi /\ spc' = "lane"
        /\ UNCHANGED <<clk, flags, guarded, logged, delay, link, win, try, lane, lo, hi, windows, cal>>
    BY <1>2 DEF Sl!MeasureLane, Sl!sliRegs
  <2>2. LaneRun /\ tap \in Sl!Delays /\ hi \in Sl!Delays /\ seen \subseteq Sl!Delays
        /\ {first, last} \subseteq {-1} \cup Sl!Delays
    BY <1>0, <2>1 DEF SliInv, Sl!TypeOK
  <2>3. LaneRun' /\ tap' <= hi' /\ tap' \in Sl!Delays /\ seen' \subseteq Sl!Delays
        /\ {first', last'} \subseteq {-1} \cup Sl!Delays
    <3>1. CASE pass
      <4>1. first' = (IF first = -1 THEN tap ELSE first) /\ last' = tap /\ seen' = seen \cup {tap} /\ tap' = tap + 1
        BY <1>2, <3>1 DEF Sl!MeasureLane
      <4>2. LaneRun'
        <5>1. CASE first = -1
          <6>1. first' = tap /\ seen' = tap..tap /\ tap \in Nat
            <7>1. tap \in Nat /\ seen = {}
              BY <2>2, <5>1, LinkConstants DEF LaneRun, Sl!Delays
            <7> QED  BY <4>1, <5>1, <7>1
          <6> QED  BY <2>1, <2>2, <4>1, <6>1 DEF LaneRun, Sl!Delays
        <5>2. CASE first # -1
          <6>1. first \in Nat /\ last \in Nat /\ first <= last /\ seen = first..last /\ tap = last + 1 /\ tap \in Nat
            BY <2>1, <2>2, <5>2 DEF LaneRun, Sl!Delays
          <6>2. (first..last) \cup {tap} = first..tap
            BY <6>1
          <6> QED  BY <2>1, <2>2, <4>1, <5>2, <6>1, <6>2 DEF LaneRun, Sl!Delays
        <5> QED  BY <5>1, <5>2
      <4> QED  BY <2>1, <2>2, <4>1, <4>2, LinkConstants DEF Sl!Delays
    <3>2. CASE ~pass
      <4>1. tap' = (IF last # -1 THEN hi ELSE tap + 1) /\ UNCHANGED <<first, last, seen>>
        BY <1>2, <3>2 DEF Sl!MeasureLane
      <4> QED  BY <2>1, <2>2, <4>1, LinkConstants DEF LaneRun, Sl!Delays
    <3> QED  BY <3>1, <3>2
  <2>4. InLane'
    BY <1>0, <2>1, <2>3 DEF InLane
  <2>5. Sl!TypeOK'
    BY <2>1, <2>3 DEF SliInv, Sl!TypeOK
  <2>6. Staged' /\ Sweeping' /\ SweptRight' /\ Coarse' /\ LoggedRight' /\ DelaysRight'
    BY <2>1, SweepStages, RegistersKept DEF SliInv, Sweeping, SweptRight, Coarse
  <2> QED  BY <2>4, <2>5, <2>6 DEF SliInv
<1>3. CASE Sl!LaneAgain
  <2>1. /\ spc = "lane" /\ spc' = "lane" /\ try' = try + 1 /\ try < Retries /\ tap' = lo /\ first' = -1 /\ last' = -1
        /\ seen' = {} /\ UNCHANGED <<clk, flags, guarded, logged, delay, link, win, lane, lo, hi, windows, cal>>
    BY <1>3 DEF Sl!LaneAgain, Sl!sliRegs
  <2>2. InLane'
    BY <1>0, <2>1 DEF InLane, LaneRun
  <2>3. Sl!TypeOK'
    BY <2>1, LinkConstants DEF SliInv, Sl!TypeOK
  <2>4. Staged' /\ Sweeping' /\ SweptRight' /\ Coarse' /\ LoggedRight' /\ DelaysRight'
    BY <2>1, SweepStages, RegistersKept DEF SliInv, Sweeping, SweptRight, Coarse
  <2> QED  BY <2>2, <2>3, <2>4 DEF SliInv
<1>4. CASE Sl!ChooseLane
  <2>1. /\ spc = "lane" /\ spc' = "lanedone" /\ tap' = Sl!LaneMiddle
        /\ logged' = [logged EXCEPT !["slim"] = IF lane = 0 THEN <<Sl!Byte(first), Sl!Byte(last)>> ELSE @]
        /\ UNCHANGED <<clk, flags, guarded, delay, link, first, last, win, try, lane, lo, hi, seen, windows, cal>>
    BY <1>4 DEF Sl!ChooseLane, Sl!Goto
  <2>2. tap' \in Sl!Delays /\ (seen # {} => tap' \in seen)
    <3>1. CASE first = -1
      <4>1. seen = {} /\ tap' = (lo + hi) \div 2
        BY <1>0, <2>1, <3>1 DEF LaneRun, Sl!LaneMiddle
      <4> QED  BY <1>0, <4>1, LinkConstants DEF Sl!Delays
    <3>2. CASE first # -1
      <4>1. first \in Nat /\ last \in Nat /\ first <= last /\ seen = first..last /\ tap' = (first + last) \div 2
        BY <1>0, <2>1, <3>2 DEF LaneRun, Sl!LaneMiddle, SliInv, Sl!TypeOK, Sl!Delays
      <4>2. tap' \in seen
        BY <4>1
      <4> QED  BY <4>2 DEF SliInv, Sl!TypeOK
    <3> QED  BY <3>1, <3>2
  <2>3. InLane'
    BY <1>0, <2>1, <2>2 DEF InLane
  <2>4. /\ Sl!Byte(first) \in 0..255 /\ Sl!Byte(last) \in 0..255 /\ Sl!Byte(first) <= Sl!Byte(last)
    <3>1. CASE first = -1
      <4>1. last = -1
        BY <1>0, <2>1, <3>1 DEF LaneRun
      <4> QED  BY <3>1, <4>1, BytesBack
    <3>2. CASE first # -1
      <4>1. first \in 0..255 /\ last \in 0..255 /\ first <= last
        <5>1. first \in Nat /\ first <= last /\ last < hi /\ hi <= LaneEnd
          BY <1>0, <2>1, <3>2 DEF LaneRun
        <5>2. last \in Int /\ hi \in Int
          BY <1>0, LinkConstants DEF SliInv, Sl!TypeOK, Sl!Delays
        <5> QED  BY <5>1, <5>2, LinkConstants
      <4> QED  BY <4>1, BytesBack
    <3> QED  BY <3>1, <3>2
  <2>5. logged \in [Sl!Links -> (0..255) \X (0..255)] /\ LoggedRight
    BY DEF SliInv, Sl!TypeOK
  <2>6. logged' \in [Sl!Links -> (0..255) \X (0..255)] /\ LoggedRight'
    <3> DEFINE w == IF lane = 0 THEN <<Sl!Byte(first), Sl!Byte(last)>> ELSE logged["slim"]
    <3>1. "slim" \in Sl!Links /\ logged' = [logged EXCEPT !["slim"] = w]
      BY <2>1 DEF Sl!Links
    <3>2. w = <<w[1], w[2]>> /\ w[1] \in 0..255 /\ w[2] \in 0..255 /\ w[1] <= w[2]
      BY <2>4, <2>5, <3>1 DEF LoggedRight
    <3> HIDE DEF w
    <3>3. w \in (0..255) \X (0..255)
      BY <3>2
    <3>4. LoggedRight'
      BY <2>5, <3>1, <3>2 DEF LoggedRight
    <3> QED  BY <2>5, <3>1, <3>3, <3>4
  <2>7. Sl!TypeOK'
    BY <2>1, <2>2, <2>6 DEF SliInv, Sl!TypeOK, Sl!Points
  <2>8. Staged' /\ Sweeping' /\ SweptRight' /\ Coarse' /\ DelaysRight'
    BY <2>1, SweepStages DEF SliInv, Sweeping, SweptRight, Coarse, DelaysRight
  <2> QED  BY <2>3, <2>6, <2>7, <2>8 DEF SliInv
<1>5. CASE Sl!NextLane
  <2>1. /\ spc = "lanedone" /\ spc' = "set" /\ lane' = lane + 1 /\ tap' = 0 /\ seen' = {} /\ first' = -1 /\ last' = -1
        /\ lo' = 0 /\ hi' = 0 /\ try' = 1
        /\ UNCHANGED <<clk, flags, guarded, logged, delay, link, win, windows, cal>>
    BY <1>5 DEF Sl!NextLane, Sl!Goto, Sl!sliRegs
  <2>2. lane' \in 0..Lanes /\ lane' # 0
    BY <1>0, <2>1, LinkConstants
  <2>3. Sl!TypeOK'
    BY <2>1, <2>2, LinkConstants DEF SliInv, Sl!TypeOK, Sl!Points, Sl!Delays
  <2>4. Staged' /\ Sweeping' /\ SweptRight' /\ InLane' /\ Coarse' /\ LoggedRight' /\ DelaysRight'
    BY <2>1, <2>2, SweepStages, RegistersKept DEF SliInv, Sweeping, SweptRight, InLane, Coarse
  <2> QED  BY <2>3, <2>4 DEF SliInv
<1> QED  BY <1>1, <1>2, <1>3, <1>4, <1>5

\* So does every step.
LEMMA SliKept == SliInv /\ [Sl!Next]_(Sl!sliVars) => SliInv'
<1> SUFFICES ASSUME SliInv, [Sl!Next]_(Sl!sliVars) PROVE SliInv'
  OBVIOUS
<1>1. CASE UNCHANGED Sl!sliVars
  <2>1. UNCHANGED <<clk, flags, guarded, logged, delay, spc, link, tap, first, last, win, try, lane, lo, hi, seen,
                    windows, cal>>
    BY <1>1 DEF Sl!sliVars, Sl!sliRegs, Sl!sweepVars
  <2>2. Sl!TypeOK' /\ LoggedRight' /\ DelaysRight'
    BY <2>1 DEF SliInv, Sl!TypeOK, LoggedRight, DelaysRight
  <2>3. Sweeping' /\ SweptRight'
    BY <2>1 DEF SliInv, Sweeping, Open, Below, SweptRight
  <2>4. InLane' /\ Staged' /\ Coarse'
    BY <2>1 DEF SliInv, InLane, LaneRun, Staged, Coarse, Sl!Wide
  <2> QED  BY <2>2, <2>3, <2>4 DEF SliInv
<1>2. CASE \E pass \in BOOLEAN : Sl!Measure(pass)
  BY <1>2, MeasureKept
<1> QED  BY <1>1, <1>2, StagesKept, EndSweepKept, TryAgainKept, ChooseKept, LanesKept DEF Sl!Next

\* And it implies that every delay is centred and no link is used unsound.
LEMMA SliSettled == SliInv => Sl!TypeOK /\ Sl!Centred /\ Sl!SoundWhenOk
<1> SUFFICES ASSUME SliInv PROVE Sl!TypeOK /\ Sl!Centred /\ Sl!SoundWhenOk
  OBVIOUS
<1>1. Sl!Centred
  BY DEF SliInv, InLane, Coarse, Sl!Centred
<1>2. Sl!SoundWhenOk
  BY DEF SliInv, Staged, Sl!SoundWhenOk
<1> QED  BY <1>1, <1>2 DEF SliInv

\* A link is left at the middle of a widest window that any of its sweeps saw, a
\* lane at a delay that passed, and init_r returns Ok only when both links are
\* calibrated and the timeouts are back, for any number of delays, tries and
\* lanes and wherever the processor is restarted.
THEOREM SliRight == Sl!Spec => [](Sl!TypeOK /\ Sl!Centred /\ Sl!SoundWhenOk)
  BY SliStarts, SliKept, SliSettled, PTL DEF Sl!Spec

-----------------------------------------------------------------------------
(* What Caliptra answers.                                                  *)

\* What is assumed of the framing's constants.
LEMMA FramingConstants ==
  /\ Manifests \subseteq Nat /\ CertRooms \subseteq Nat /\ Lengths \subseteq Nat
  /\ MaxCert \in Nat /\ MaxCalls \in Nat
  BY PartsAssumption DEF Fr!FramingAssumption

\* What the command under way makes of the answer.
Drained ==
  IF call.kind # "cert" THEN Fr!DrainOutput(call.room)
  ELSE IF Fr!Got > Fr!Response THEN Fr!InvalidLength ELSE Fr!Cert(call.room)
Outcome ==
  IF answer.status = "CmdFailure" THEN Fr!Quick("CmdFailed")
  ELSE IF call.kind = "authorize" /\ Drained # Fr!InvalidLength THEN Fr!Quick(Fr!Verdict(Drained.val))
  ELSE Drained

\* What was returned last is what came of this answer to this call, unless the call
\* was refused.
FramingInv ==
  /\ call \in Fr!Calls \cup {Fr!Quiet} /\ frStep \in {"idle", "sent", "answered"}
  /\ frStep = "answered" => call \in Fr!Calls /\ answer \in Fr!Answers
  /\ frStep = "sent" => call \in Fr!Calls
  /\ frStep = "idle" /\ call.kind # "none" =>
       /\ call \in Fr!Calls /\ answer \in Fr!Answers
       /\ frRet # Fr!InvalidLength => frRet = Outcome

\* The commands.
LEMMA CallKinds ==
  ASSUME NEW c \in Fr!Calls
  PROVE  /\ c.kind \in {"info", "manifest", "authorize", "cert"} /\ c.room \in Nat
         /\ c.kind = "authorize" => c.room = 3
<1>1. CASE c \in {[kind |-> "info", parts |-> <<>>, room |-> 2]}
  BY <1>1
<1>2. CASE c \in {[kind |-> "manifest", parts |-> <<Fr!Le(n), [i \in 1..n |-> i]>>, room |-> 2] : n \in Manifests}
  BY <1>2
<1>3. CASE c \in {[kind |-> "authorize", parts |-> <<Fr!Le(1), Fr!Digest, Fr!Zero, Fr!Le(2)>>, room |-> 3]}
  BY <1>3
<1>4. CASE c \in {[kind |-> "cert", parts |-> <<Fr!Le(n), Fr!Digest, Fr!Digest, [i \in 1..n |-> i]>>, room |-> r] :
                    n \in Manifests, r \in CertRooms}
  BY <1>4, FramingConstants
<1> QED  BY <1>1, <1>2, <1>3, <1>4 DEF Fr!Calls

\* The bytes of an answer are a sequence of numbers.
LEMMA AnswerBytes ==
  ASSUME NEW a \in Fr!Answers
  PROVE  /\ a.status \in {"DataReady", "CmdComplete", "CmdFailure"}
         /\ a.bytes \in Seq(Nat)
<1> DEFINE empty == {[status |-> s, bytes |-> <<>>] : s \in {"CmdComplete", "CmdFailure"}}
<1>1. CASE a \in empty
  <2>1. PICK s \in {"CmdComplete", "CmdFailure"} : a = [status |-> s, bytes |-> <<>>]
    BY <1>1
  <2>2. <<>> \in Seq(Nat)
    OBVIOUS
  <2> QED  BY <2>1, <2>2
<1>2. CASE a \notin empty
  <2> DEFINE thirds == {Fr!IMAGE_AUTHORIZED, Fr!IMAGE_NOT_AUTHORIZED} \cup {Fr!Le(k) : k \in CertRooms}
             bytes(third, n) == <<1, 2, 3, 4, 0, 0, 0, 0>> \o third \o [i \in 1..n |-> 10 + i]
  <2>1. PICK third \in thirds, n \in Lengths : a = [status |-> "DataReady", bytes |-> Fr!Bytes(third, n)]
    <3> DEFINE full == {[status |-> "DataReady", bytes |-> Fr!Bytes(third, n)] : third \in thirds, n \in Lengths}
    <3>1. Fr!Answers = empty \cup full
      BY DEF Fr!Answers
    <3>2. a \in full
      <4> HIDE DEF empty, full
      <4> QED  BY <1>2, <3>1
    <3> HIDE DEF thirds
    <3>3. \E third \in thirds, n \in Lengths : a = [status |-> "DataReady", bytes |-> Fr!Bytes(third, n)]
      BY <3>2
    <3> QED  BY <3>3
  <2>2. n \in Nat /\ third \in Seq(Nat) /\ Len(third) = 4
    <3>1. \E k, l \in Nat : third = <<k, l, l, l>>
      BY FramingConstants DEF Fr!IMAGE_AUTHORIZED, Fr!IMAGE_NOT_AUTHORIZED, Fr!Le
    <3> QED  BY <3>1, FramingConstants
  <2>3. [i \in 1..n |-> 10 + i] \in Seq(Nat) /\ Len([i \in 1..n |-> 10 + i]) = n
    BY <2>2
  <2> DEFINE header == <<1, 2, 3, 4, 0, 0, 0, 0>>
  <2>4. header \in Seq(Nat) /\ Len(header) = 8
    OBVIOUS
  <2>5. header \o third \in Seq(Nat) /\ Len(header \o third) = 12
    <3> HIDE DEF header
    <3>1. header \in Seq(Nat) /\ third \in Seq(Nat)
      BY <2>2, <2>4
    <3>2. header \o third \in Seq(Nat) /\ Len(header \o third) = Len(header) + Len(third)
      BY <3>1, ConcatProperties
    <3> QED  BY <2>2, <2>4, <3>2
  <2>6. bytes(third, n) \in Seq(Nat) /\ Len(bytes(third, n)) = 12 + n
    BY <2>2, <2>3, <2>5, ConcatProperties
  <2>9. Fr!Bytes(third, n) = SubSeq(bytes(third, n), 1, n)
    BY DEF Fr!Bytes
  <2> HIDE DEF bytes
  <2>7. \A i \in 1..n : bytes(third, n)[i] \in Nat
    BY <2>2, <2>6
  <2>8. SubSeq(bytes(third, n), 1, n) \in Seq(Nat)
    BY <2>2, <2>7, SubSeqProperties
  <2> QED  BY <2>1, <2>8, <2>9
<1> QED  BY <1>1, <1>2

\* The outcome depends on nothing else.
LEMMA OutcomeStays == UNCHANGED <<call, answer>> => Outcome' = Outcome
<1> SUFFICES ASSUME UNCHANGED <<call, answer>> PROVE Outcome' = Outcome
  OBVIOUS
<1>1. Fr!Got' = Fr!Got /\ Fr!Response' = Fr!Response
  BY DEF Fr!Got, Fr!Response
<1>2. ASSUME NEW i PROVE Fr!DataOut(i)' = Fr!DataOut(i)
  BY DEF Fr!DataOut, Fr!Full
<1>3. Fr!DrainOutputBytes' = Fr!DrainOutputBytes
  BY <1>1, <1>2 DEF Fr!DrainOutputBytes
<1>4. Fr!DrainOutput(call.room)' = Fr!DrainOutput(call.room)
  BY <1>2 DEF Fr!DrainOutput, Fr!InvalidLength, Fr!Quick, Fr!Result, Fr!Zero, Fr!Le
<1>5. Fr!Cert(call.room)' = Fr!Cert(call.room)
  BY <1>1, <1>3 DEF Fr!Cert, Fr!CertFits, Fr!InvalidLength, Fr!Quick, Fr!Result, Fr!Number
<1>6. Drained' = Drained
  BY <1>1, <1>4, <1>5 DEF Drained, Fr!InvalidLength, Fr!Quick, Fr!Result
<1> QED
  BY <1>6 DEF Outcome, Fr!InvalidLength, Fr!Quick, Fr!Result, Fr!Verdict, Fr!FromRaw, Fr!IMAGE_AUTHORIZED,
              Fr!IMAGE_NOT_AUTHORIZED

\* The invariant holds at the start.
LEMMA FramingStarts == Fr!Init => FramingInv
  BY DEF Fr!Init, FramingInv, Fr!Quiet

\* Every step of a command keeps it.
LEMMA FramingKept == FramingInv /\ [Fr!Next]_(Fr!framingVars) => FramingInv'
<1> SUFFICES ASSUME FramingInv, [Fr!Next]_(Fr!framingVars) PROVE FramingInv'
  OBVIOUS
<1>1. ASSUME NEW c \in Fr!Calls, Fr!Refuse(c) PROVE FramingInv'
  BY <1>1 DEF Fr!Refuse, FramingInv
<1>2. ASSUME NEW c \in Fr!Calls, Fr!Send(c) PROVE FramingInv'
  BY <1>2 DEF Fr!Send, FramingInv
<1>3. CASE Fr!Respond
  BY <1>3 DEF Fr!Respond, FramingInv
<1>4. CASE Fr!Finish
  <2>1. UNCHANGED <<call, answer>> /\ frStep = "answered" /\ frStep' = "idle" /\ frRet' = Outcome
    BY <1>4 DEF Fr!Finish, Outcome, Drained
  <2>2. Outcome' = Outcome
    BY <2>1, OutcomeStays
  <2> QED  BY <2>1, <2>2 DEF FramingInv
<1>5. CASE UNCHANGED Fr!framingVars
  <2>1. UNCHANGED <<call, frStep, answer, frRet>>
    BY <1>5 DEF Fr!framingVars
  <2>2. Outcome' = Outcome
    BY <2>1, OutcomeStays
  <2> QED  BY <2>1, <2>2 DEF FramingInv
<1> QED  BY <1>1, <1>2, <1>3, <1>4, <1>5 DEF Fr!Next

-----------------------------------------------------------------------------
\* A whole word of the answer holds its four bytes.
LEMMA WordHolds ==
  ASSUME answer.bytes \in Seq(Nat), NEW i \in Nat \ {0}, 4 * i <= Len(answer.bytes)
  PROVE  Fr!DataOut(i) = Fr!Slice(4 * i - 3, 4 * i)
<1> DEFINE l == Len(answer.bytes)
<1>1. l \in Nat /\ DOMAIN answer.bytes = 1..l
  OBVIOUS
<1> HIDE DEF l
<1>2. ASSUME NEW k \in 1..4
      PROVE  4 * (i - 1) + k <= l /\ 4 * i - 3 - 1 + k = 4 * (i - 1) + k /\ 4 * (i - 1) + k \in 1..l
  BY <1>1 DEF l
<1>3. Fr!DataOut(i) = [k \in 1..4 |-> answer.bytes[4 * (i - 1) + k]]
  BY <1>2 DEF Fr!DataOut, Fr!Full, l
<1>4. 4 * i - (4 * i - 3) + 1 = 4
  OBVIOUS
<1>5. Fr!Slice(4 * i - 3, 4 * i) = [k \in 1..4 |-> answer.bytes[4 * (i - 1) + k]]
  <2>1. Fr!Slice(4 * i - 3, 4 * i) =
          [k \in 1..4 |-> IF 4 * i - 3 - 1 + k \in DOMAIN answer.bytes THEN answer.bytes[4 * i - 3 - 1 + k] ELSE -1]
    BY <1>4 DEF Fr!Slice
  <2> QED  BY <1>1, <1>2, <2>1
<1> QED  BY <1>3, <1>5

\* A byte that is drained is that of the answer.
LEMMA ByteHolds ==
  ASSUME answer.bytes \in Seq(Nat), MaxCert \in Nat,
         NEW i \in 1..Fr!Response, i <= Fr!Got, Fr!Got = Len(answer.bytes)
  PROVE  Fr!DrainOutputBytes[i] = answer.bytes[i]
<1>1. Len(answer.bytes) \in Nat /\ Fr!Response \in Nat
  BY DEF Fr!Response
<1> DEFINE j == (i + 3) \div 4
           k == ((i - 1) % 4) + 1
<1>2. j \in Nat /\ k \in 1..4 /\ 4 * (j - 1) + k = i
  BY <1>1
<1>3. Fr!DrainOutputBytes[i] = Fr!DataOut(j)[k]
  BY DEF Fr!DrainOutputBytes
<1> HIDE DEF j, k
<1>4. Fr!DataOut(j)[k] = answer.bytes[i]
  BY <1>1, <1>2 DEF Fr!DataOut, Fr!Full
<1> QED  BY <1>3, <1>4

\* What DrainOutput returns: an error, or words each of which is one of the answer
\* or was never written.
LEMMA DrainedWords ==
  ASSUME answer.bytes \in Seq(Nat), NEW room \in Nat, Fr!DrainOutput(room) # Fr!InvalidLength
  PROVE  /\ Fr!DrainOutput(room).is = "words" /\ DOMAIN Fr!DrainOutput(room).val = 1..room
         /\ \A i \in 1..room : \/ Fr!DrainOutput(room).val[i] = Fr!Zero
                               \/ /\ answer.status = "DataReady"
                                  /\ Fr!DrainOutput(room).val[i] = Fr!Slice(4 * i - 3, 4 * i)
<1> DEFINE n == IF answer.status = "DataReady" THEN Len(answer.bytes) \div 4 ELSE 0
           val == [i \in 1..room |-> IF i <= n THEN Fr!DataOut(i) ELSE Fr!Zero]
<1>1. Fr!DrainOutput(room) = [is |-> "words", val |-> val]
  BY DEF Fr!DrainOutput, Fr!Result
<1>2. ASSUME NEW i \in 1..room, i <= n
      PROVE  answer.status = "DataReady" /\ Fr!DataOut(i) = Fr!Slice(4 * i - 3, 4 * i)
  <2>1. answer.status = "DataReady" /\ i <= Len(answer.bytes) \div 4
    <3>1. CASE answer.status = "DataReady"
      BY <1>2, <3>1
    <3>2. CASE answer.status # "DataReady"
      BY <1>2, <3>2
    <3> QED  BY <3>1, <3>2
  <2>2. 4 * i <= Len(answer.bytes)
    <3>1. Len(answer.bytes) \in Nat
      OBVIOUS
    <3>2. \A l \in Nat : i <= l \div 4 => 4 * i <= l
      OBVIOUS
    <3> QED  BY <2>1, <3>1, <3>2
  <2> QED  BY <2>1, <2>2, WordHolds
<1> HIDE DEF n
<1> QED  BY <1>1, <1>2

\* What Cert returns: an error, or the certificate that the answer holds.
LEMMA CertOfAnswer ==
  ASSUME answer.bytes \in Seq(Nat), NEW room \in Nat, ~(Fr!Got > Fr!Response),
         Fr!Cert(room) # Fr!InvalidLength
  PROVE  /\ Fr!Cert(room).is = "cert" /\ answer.status = "DataReady"
         /\ Fr!Number(Fr!Slice(9, 12)) = Len(Fr!Cert(room).val) /\ Len(Fr!Cert(room).val) <= room
         /\ Fr!Cert(room).val = Fr!Slice(13, 12 + Len(Fr!Cert(room).val))
<1> DEFINE b == answer.bytes
           head == [k \in 1..4 |-> Fr!DrainOutputBytes[8 + k]]
           long == Fr!Number(head)
           val == SubSeq(Fr!DrainOutputBytes, 13, 12 + long)
<1>1. Fr!Got >= 12 /\ long <= room /\ 12 + long <= Fr!Got /\ Fr!Cert(room) = [is |-> "cert", val |-> val]
  BY DEF Fr!Cert, Fr!CertFits, Fr!Result
<1>2. Len(b) \in Nat /\ DOMAIN b = 1..Len(b) /\ Fr!Response \in Nat /\ MaxCert \in Nat
      /\ \A i \in 1..Len(b) : b[i] \in Nat
  BY FramingConstants DEF Fr!Response
<1>3. answer.status = "DataReady" /\ Fr!Got = Len(b)
  BY <1>1 DEF Fr!Got
<1>4. \A i \in 1..Len(b) : Fr!DrainOutputBytes[i] = b[i]
  <2> SUFFICES ASSUME NEW i \in 1..Len(b) PROVE Fr!DrainOutputBytes[i] = b[i]
    OBVIOUS
  <2>1. i \in 1..Fr!Response /\ i <= Fr!Got
    BY <1>2, <1>3
  <2> QED  BY <1>2, <1>3, <2>1, ByteHolds
<1>5. head = Fr!Slice(9, 12) /\ \A k \in 1..4 : head[k] \in Nat
  <2>1. \A k \in 1..4 : 8 + k \in 1..Len(b) /\ 9 - 1 + k = 8 + k
    BY <1>1, <1>2, <1>3
  <2>2. \A k \in 1..4 : Fr!DrainOutputBytes[8 + k] = b[8 + k]
    BY <1>4, <2>1
  <2>3. Fr!Slice(9, 12) = [k \in 1..4 |-> b[8 + k]]
    <3>1. Fr!Slice(9, 12) = [k \in 1..4 |-> IF 9 - 1 + k \in DOMAIN answer.bytes THEN answer.bytes[9 - 1 + k] ELSE -1]
      BY DEF Fr!Slice
    <3> QED  BY <1>2, <2>1, <3>1
  <2> QED  BY <1>2, <2>1, <2>2, <2>3
<1>6. long \in Nat
  <2>1. head[1] \in Nat /\ head[2] \in Nat /\ head[3] \in Nat /\ head[4] \in Nat
    BY <1>5
  <2>3. long = head[1] + 256 * (head[2] + 256 * (head[3] + 256 * head[4]))
    BY DEF Fr!Number
  <2> HIDE DEF head, long
  <2>4. head[3] + 256 * head[4] \in Nat
    BY <2>1
  <2>5. head[2] + 256 * (head[3] + 256 * head[4]) \in Nat
    BY <2>1, <2>4
  <2> DEFINE rest == head[2] + 256 * (head[3] + 256 * head[4])
  <2>6. head[1] + 256 * rest \in Nat
    <3>1. rest \in Nat
      BY <2>5
    <3> HIDE DEF rest
    <3> QED  BY <2>1, <3>1
  <2> QED  BY <2>3, <2>6
<1> HIDE DEF head, long
<1>7. \A i \in 13..(12 + long) : i \in 1..Len(b) /\ Fr!DrainOutputBytes[i] = b[i] /\ b[i] \in Nat
  <2> SUFFICES ASSUME NEW i \in 13..(12 + long)
               PROVE  i \in 1..Len(b) /\ Fr!DrainOutputBytes[i] = b[i] /\ b[i] \in Nat
    OBVIOUS
  <2>1. i \in 1..Len(b)
    BY <1>1, <1>2, <1>3, <1>6
  <2> QED  BY <1>2, <1>4, <2>1
<1>8. /\ Len(val) = long /\ val \in Seq(Nat)
      /\ \A i \in 1..long : val[i] = Fr!DrainOutputBytes[13 + i - 1]
  <2>1. \A i \in 13..(12 + long) : Fr!DrainOutputBytes[i] \in Nat
    BY <1>7
  <2>2. /\ val \in Seq(Nat) /\ Len(val) = IF 13 <= 12 + long THEN ((12 + long) - 13) + 1 ELSE 0
        /\ \A i \in 1..(((12 + long) - 13) + 1) : val[i] = Fr!DrainOutputBytes[13 + i - 1]
    BY <1>6, <2>1, SubSeqProperties
  <2> HIDE DEF val
  <2> QED  BY <1>6, <2>2
<1> HIDE DEF val
<1>9. val = Fr!Slice(13, 12 + long)
  <2>1. Fr!Slice(13, 12 + long) =
          [k \in 1..long |-> IF 13 - 1 + k \in DOMAIN answer.bytes THEN answer.bytes[13 - 1 + k] ELSE -1]
    <3>1. ((12 + long) - 13) + 1 = long
      BY <1>6
    <3>2. Fr!Slice(13, 12 + long) =
            [k \in 1..(((12 + long) - 13) + 1) |->
               IF 13 - 1 + k \in DOMAIN answer.bytes THEN answer.bytes[13 - 1 + k] ELSE -1]
      BY DEF Fr!Slice
    <3> QED  BY <3>1, <3>2
  <2>2. \A k \in 1..long : 13 - 1 + k \in 13..(12 + long) /\ 13 + k - 1 = 13 - 1 + k
    BY <1>6
  <2>3. \A k \in 1..long : val[k] = b[13 - 1 + k] /\ 13 - 1 + k \in DOMAIN b
    BY <1>2, <1>7, <1>8, <2>2
  <2>4. val = [k \in 1..long |-> val[k]]
    BY <1>6, <1>8
  <2> QED  BY <2>1, <2>3, <2>4
<1> QED  BY <1>1, <1>3, <1>5, <1>8, <1>9 DEF long

\* And it implies that commands say no more than the answer.
LEMMA FramingSettled == FramingInv => Fr!OnItsWord
<1> SUFFICES ASSUME FramingInv, Fr!Said PROVE Fr!OnItsWord
  BY DEF Fr!OnItsWord
<1> DEFINE Verdict == frRet.is = "Authorized" =>
             answer.status = "DataReady" /\ Fr!Slice(9, 12) = Fr!IMAGE_AUTHORIZED
           Cert == frRet.is = "cert" =>
             /\ answer.status = "DataReady" /\ Fr!Number(Fr!Slice(9, 12)) = Len(frRet.val)
             /\ Len(frRet.val) <= call.room /\ frRet.val = Fr!Slice(13, 12 + Len(frRet.val))
           Words == frRet.is = "words" =>
             \A i \in DOMAIN frRet.val : frRet.val[i] \in {Fr!Zero, Fr!Slice(4 * i - 3, 4 * i)}
<1>1. /\ call \in Fr!Calls /\ answer \in Fr!Answers /\ frRet = Outcome
      /\ frRet.is \notin {"InvalidLength", "CmdFailed"}
  BY DEF FramingInv, Fr!Said, Fr!InvalidLength, Fr!Quick, Fr!Result
<1>2. answer.bytes \in Seq(Nat) /\ call.room \in Nat /\ (call.kind = "authorize" => call.room = 3)
  BY <1>1, AnswerBytes, CallKinds
<1>3. answer.status # "CmdFailure" /\ Drained # Fr!InvalidLength
  BY <1>1 DEF Outcome, Fr!Quick, Fr!Result, Fr!InvalidLength
<1>4. ASSUME call.kind = "cert" PROVE Verdict /\ Cert /\ Words
  <2>1. ~(Fr!Got > Fr!Response) /\ Drained = Fr!Cert(call.room) /\ frRet = Drained
    BY <1>1, <1>3, <1>4 DEF Drained, Outcome
  <2> QED  BY <1>2, <1>3, <2>1, CertOfAnswer
<1>5. ASSUME call.kind # "cert" PROVE Verdict /\ Cert /\ Words
  <2>1. Drained = Fr!DrainOutput(call.room)
    BY <1>5 DEF Drained
  <2>2. /\ Drained.is = "words" /\ DOMAIN Drained.val = 1..call.room
        /\ \A i \in 1..call.room : \/ Drained.val[i] = Fr!Zero
                                   \/ answer.status = "DataReady" /\ Drained.val[i] = Fr!Slice(4 * i - 3, 4 * i)
    BY <1>2, <1>3, <2>1, DrainedWords
  <2>3. CASE call.kind # "authorize"
    <3>1. frRet = Drained
      BY <1>1, <1>3, <2>3 DEF Outcome
    <3> QED  BY <1>3, <2>2, <3>1
  <2>4. CASE call.kind = "authorize"
    <3>1. frRet.is = Fr!FromRaw(Drained.val[3])
      BY <1>1, <1>3, <2>4 DEF Outcome, Fr!Quick, Fr!Result, Fr!Verdict
    <3>2. frRet.is \in {"Authorized", "NotAuthorized", "Unknown"}
          /\ (frRet.is = "Authorized" => Drained.val[3] = Fr!IMAGE_AUTHORIZED)
      BY <3>1 DEF Fr!FromRaw
    <3>3. Fr!Zero # Fr!IMAGE_AUTHORIZED
      BY DEF Fr!Zero, Fr!Le, Fr!IMAGE_AUTHORIZED
    <3>4. \/ Drained.val[3] = Fr!Zero
          \/ answer.status = "DataReady" /\ Drained.val[3] = Fr!Slice(9, 12)
      <4>1. 3 \in 1..call.room /\ 4 * 3 - 3 = 9 /\ 4 * 3 = 12
        BY <1>2, <2>4
      <4>2. ASSUME NEW i \in 1..call.room, i = 3
            PROVE  \/ Drained.val[i] = Fr!Zero
                   \/ answer.status = "DataReady" /\ Drained.val[i] = Fr!Slice(4 * i - 3, 4 * i)
        <5> HIDE DEF Verdict, Cert, Words
        <5> QED  BY <2>2
      <4> HIDE DEF Verdict, Cert, Words
      <4> QED  BY <4>1, <4>2
    <3> QED  BY <1>3, <3>2, <3>3, <3>4
  <2> QED  BY <2>3, <2>4
<1>6. Verdict /\ Cert /\ Words
  BY <1>4, <1>5
<1> HIDE DEF Verdict, Cert, Words
<1>7. ~Fr!OnItsWord => ~(Verdict /\ Cert /\ Words)
  BY <1>3 DEF Fr!OnItsWord, Verdict, Cert, Words
<1> QED  BY <1>6, <1>7

\* No command says more than the response to it: whatever the length of the
\* response, the room of the caller and the calls before.
THEOREM FramingRight == Fr!Spec => []Fr!OnItsWord
  BY FramingStarts, FramingKept, FramingSettled, PTL DEF Fr!Spec

-----------------------------------------------------------------------------
(* The parts side by side.                                                 *)

\* A step is one of the part that runs, or none of its variables change.
LEMMA OnlyItsOwn ==
  ASSUME [MCNext]_all
  PROVE  /\ part' = part
         /\ part = "release" => [Rl!Next]_(Rl!releaseVars)
         /\ part \in {"monitor", "bus"} => [Fi!Next]_(Fi!filtersVars)
         /\ part = "sli" => [Sl!Next]_(Sl!sliVars)
         /\ part = "phy" => [Ph!Next]_(Ph!phyVars)
         /\ part = "framing" => [Fr!Next]_(Fr!framingVars)
         /\ part = "feed" => [Fe!Next]_(Fe!feedVars)
         /\ part = "scu" => [Sc!Next]_(Sc!scuVars)
         /\ part = "policy" => [Po!Next]_(Po!policyVars)
         /\ part = "wdt" => [Wd!Next]_(Wd!wdtVars)
         /\ part = "pwm" => [Pw!Next]_(Pw!pwmVars)
<1>1. CASE UNCHANGED all
  BY <1>1 DEF all, slV, phV, Ph!phyVars, Ph!hostVars, Ph!ramVars, Ph!mcuVars, rlV, fiV, frV, feV, scV, poV, wdV, pwV, Sl!sliVars, Sl!sliRegs, Sl!sweepVars,
     Fr!framingVars, Fe!feedVars, Fe!hostVars, Fe!ucVars, Rl!releaseVars, Fi!filtersVars, Fi!engineVars,
     Fi!busVars, Sc!scuVars, Po!policyVars, Wd!wdtVars, Pw!pwmVars
<1>2. CASE MCNext
  BY <1>2 DEF MCNext, Only, Fi!Next
<1> QED  BY <1>1, <1>2

\* The part that runs is right.
PlatformInv ==
  /\ part = "sli" => SliInv
  /\ part = "phy" => PhyInv
  /\ part = "framing" => FramingInv
  /\ part = "feed" => FeedInv
  /\ part = "release" => ReleaseInv
  /\ part \in {"monitor", "bus"} => FiltersInv
  /\ part = "scu" => ScuInv
  /\ part = "policy" => PolicyInv
  /\ part = "wdt" => WdtInv
  /\ part = "pwm" => PwmInv

\* The parts share no state, so each keeps its own invariant.
THEOREM PlatformRight == MCSpec => []PlatformInv
<1>1. MCInit => PlatformInv
  BY SliStarts, PhyStarts, PartsAssumption, FramingStarts, FeedStarts, ReleaseInit, FiltersInit, ScuInit, PolicyInit, WdtInit, PwmInit
     DEF MCInit, SlInit, PhInit, FrInit, FeInit, RlInit, FiInit, ScInit, PoInit, WdInit, PwInit, PlatformInv
<1>2. PlatformInv /\ [MCNext]_all => PlatformInv'
  <2> SUFFICES ASSUME PlatformInv, [MCNext]_all PROVE PlatformInv'
    OBVIOUS
  <2>1. part' = "release" => ReleaseInv'
    BY OnlyItsOwn, ReleaseStepKept DEF PlatformInv
  <2>2. part' \in {"monitor", "bus"} => FiltersInv'
    BY OnlyItsOwn, FiltersKept DEF PlatformInv
  <2>3. part' = "scu" => ScuInv'
    BY OnlyItsOwn, ScuKept DEF PlatformInv
  <2>4. part' = "policy" => PolicyInv'
    BY OnlyItsOwn, PolicyKept DEF PlatformInv
  <2>5. part' = "wdt" => WdtInv'
    BY OnlyItsOwn, WdtKept DEF PlatformInv
  <2>6. part' = "pwm" => PwmInv'
    BY OnlyItsOwn, PwmKept DEF PlatformInv
  <2>7. part' = "sli" => SliInv'
    BY OnlyItsOwn, SliKept DEF PlatformInv
  <2>8. part' = "framing" => FramingInv'
    BY OnlyItsOwn, FramingKept DEF PlatformInv
  <2>9. part' = "feed" => FeedInv'
    BY OnlyItsOwn, FeedKept DEF PlatformInv
  <2>10. part' = "phy" => PhyInv'
    BY OnlyItsOwn, PhyKept, PartsAssumption DEF PlatformInv
  <2> QED  BY <2>1, <2>2, <2>3, <2>4, <2>5, <2>6, <2>7, <2>8, <2>9, <2>10 DEF PlatformInv
<1> QED  BY <1>1, <1>2, PTL DEF MCSpec

\* What a core, a bus, a chip select, a register or a peripheral is left with is
\* what was asked for, and in this order, for any sizes of the parts.
THEOREM SetUpRight == MCSpec => []SetUp
<1>1. PlatformInv => SetUp
  BY PhySettled, PartsAssumption, ReleaseSettled, FiltersRight1, ScuSettled, PolicyListed, PwmAsked DEF PlatformInv, SetUp, WdtInv
<1> QED  BY <1>1, PlatformRight, PTL

\* A link that worked anywhere in its calibration is set to where it worked, and what
\* Caliptra said or was given is of this request, for any sizes of the parts.
THEOREM BelievedRight == MCSpec => []Believed
<1>1. PlatformInv => Believed
  BY SliSettled, PhySettled, PartsAssumption, FramingSettled, FeedSettled DEF PlatformInv, Believed
<1> QED  BY <1>1, PlatformRight, PTL

=============================================================================
