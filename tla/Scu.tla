--------------------------------- MODULE Scu --------------------------------
(***************************************************************************)
(* Resets and clock gates of the AST1060 (reset.rs, clock.rs): two         *)
(* contexts, tasks or a task and a handler, operate two peripherals whose  *)
(* bits lie in the same registers, through either of the two interfaces.   *)
(***************************************************************************)
EXTENDS Integers, Sequences, FiniteSets

CONSTANTS
  Contexts,
  MaxOps   \* bound: operations of a context

ScuAssumption == Contexts # {} /\ MaxOps \in Nat

VARIABLES
  own,    \* the peripheral of each context
  rst, stop,  \* bits set in RESET_CTRL1/2 and CLKSTOP1/2, as <<bank, bit>>
  todo,   \* the register writes a context has still to make
  ops,
  asked   \* history: what the context asked for last, "none" or whether reset and stopped

scuVars == <<own, rst, stop, todo, ops, asked>>

-----------------------------------------------------------------------------
ResetInfo ==
  [Sram |-> <<1, 0>>, I2cSmbus |-> <<2, 2>>, I3cDma |-> <<2, 7>>, I3c0 |-> <<2, 8>>,
   I3c1 |-> <<2, 9>>, I3c2 |-> <<2, 10>>, I3c3 |-> <<2, 11>>, Adc |-> <<2, 23>>, Jtag1 |-> <<2, 26>>,
   Uart1 |-> <<2, 28>>, Uart2 |-> <<2, 29>>, Uart3 |-> <<2, 30>>, Uart4 |-> <<2, 31>>]

\* Mutant: the clock bit of a neighbour.
ClockInfoNext ==
  [Sram |-> <<1, 0>>, Hace |-> <<1, 13>>, RsaEcc |-> <<2, 6>>,
   I3c0 |-> <<2, 8>>, I3c1 |-> <<2, 9>>, I3c2 |-> <<2, 10>>, I3c3 |-> <<2, 10>>]

ClockInfo ==
  [Sram |-> <<1, 0>>, Hace |-> <<1, 13>>, RsaEcc |-> <<2, 6>>,
   I3c0 |-> <<2, 8>>, I3c1 |-> <<2, 9>>, I3c2 |-> <<2, 10>>, I3c3 |-> <<2, 11>>]

\* clock.rs: the same clocks as numbers, 32 of them to a bank.
ClockGate == [Sram |-> 0, Hace |-> 13, RsaEcc |-> 38, I3c0 |-> 40, I3c1 |-> 41, I3c2 |-> 42, I3c3 |-> 43]
GateRegBit(v) == IF v < 32 THEN <<1, v>> ELSE <<2, v - 32>>

Peripherals == DOMAIN ResetInfo \cup DOMAIN ClockInfo

\* The writes of an operation on p: none if p has no such bit.
Write(reg, val, info, p) == IF p \in DOMAIN info THEN <<[reg |-> reg, val |-> val, bit |-> info[p]]>> ELSE <<>>
GateWrite(val, p) ==
  IF p \in DOMAIN ClockGate THEN <<[reg |-> "stop", val |-> val, bit |-> GateRegBit(ClockGate[p])]>> ELSE <<>>

ResetAssert(p) == Write("rst", TRUE, ResetInfo, p)
ResetDeassert(p) == Write("rst", FALSE, ResetInfo, p)
ClockEnable(p) == Write("stop", FALSE, ClockInfo, p)
ClockDisable(p) == Write("stop", TRUE, ClockInfo, p)
ResetPulse(p) == ResetAssert(p) \o ResetDeassert(p)

\* Mutant: the clock of a peripheral out of reset is left stopped.
PeriphEnableReset(p) == ResetDeassert(p)

PeriphEnable(p) == ClockEnable(p) \o ResetDeassert(p)

\* What the caller of each operation may then count on.
Effect(op, was) ==
  CASE op = "assert" -> [was EXCEPT !.rst = "yes"]
    [] op \in {"deassert", "pulse"} -> [was EXCEPT !.rst = "no"]
    [] op \in {"clock on", "gate on"} -> [was EXCEPT !.stop = "no"]
    [] op \in {"clock off", "gate off"} -> [was EXCEPT !.stop = "yes"]
    [] OTHER -> [rst |-> "no", stop |-> "no"]

Operations == {"assert", "deassert", "pulse", "clock on", "clock off", "gate on", "gate off", "enable"}

Writes(op, p) ==
  CASE op = "assert" -> ResetAssert(p) [] op = "deassert" -> ResetDeassert(p)
    [] op = "pulse" -> ResetPulse(p) [] op = "enable" -> PeriphEnable(p)
    [] op = "clock on" -> ClockEnable(p) [] op = "clock off" -> ClockDisable(p)
    [] op = "gate on" -> GateWrite(FALSE, p) [] OTHER -> GateWrite(TRUE, p)

-----------------------------------------------------------------------------
TypeOK ==
  /\ own \in [Contexts -> Peripherals] /\ {rst, stop} \subseteq SUBSET ({1, 2} \X (0..31))
  /\ \A c \in Contexts : Len(todo[c]) <= 2 /\ ops[c] \in 0..MaxOps
                         /\ asked[c].rst \in {"none", "yes", "no"} /\ asked[c].stop \in {"none", "yes", "no"}

\* Nobody else operates the peripheral of a context; its bits are as a reset left
\* them or as the boot code did.
Init ==
  /\ own \in {o \in [Contexts -> Peripherals] : \A c, d \in Contexts : c # d => o[c] # o[d]}
  /\ \E all \in BOOLEAN :
       /\ rst = {ResetInfo[p] : p \in {q \in DOMAIN ResetInfo : all /\ \E c \in Contexts : own[c] = q}}
       /\ stop = {ClockInfo[p] : p \in {q \in DOMAIN ClockInfo : all /\ \E c \in Contexts : own[c] = q}}
  /\ todo = [c \in Contexts |-> <<>>] /\ ops = [c \in Contexts |-> 0]
  /\ asked = [c \in Contexts |-> [rst |-> "none", stop |-> "none"]]

Call(c, op) ==
  /\ todo[c] = <<>> /\ ops[c] < MaxOps
  /\ ops' = [ops EXCEPT ![c] = @ + 1]
  /\ todo' = [todo EXCEPT ![c] = Writes(op, own[c])]
  /\ asked' = [asked EXCEPT ![c] = Effect(op, @)]
  /\ UNCHANGED <<own, rst, stop>>

\* The registers come in pairs: a one sets its bit, or clears it, and no other.
Store(c) ==
  /\ todo[c] # <<>>
  /\ todo' = [todo EXCEPT ![c] = Tail(@)]
  /\ LET w == Head(todo[c])
         new(s) == IF w.val THEN s \cup {w.bit} ELSE s \ {w.bit}
     IN IF w.reg = "rst" THEN rst' = new(rst) /\ UNCHANGED stop ELSE stop' = new(stop) /\ UNCHANGED rst
  /\ UNCHANGED <<own, ops, asked>>

Next == \E c \in Contexts : Store(c) \/ \E op \in Operations : Call(c, op)

Spec == Init /\ [][Next]_scuVars

-----------------------------------------------------------------------------
\* A peripheral is in reset, and its clock stopped, as its own driver last asked,
\* whatever the driver of another does at the same time and through either
\* interface.
AsAskedFor ==
  \A c \in Contexts : todo[c] = <<>> =>
    /\ own[c] \in DOMAIN ResetInfo /\ asked[c].rst # "none" =>
         (asked[c].rst = "yes") = (ResetInfo[own[c]] \in rst)
    /\ own[c] \in DOMAIN ClockInfo /\ asked[c].stop # "none" =>
         (asked[c].stop = "yes") = (ClockInfo[own[c]] \in stop)
=============================================================================
