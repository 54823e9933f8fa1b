------------------------------ MODULE MCTimes -------------------------------
(* Finite instances of what somebody sleeps on: the time drivers of the    *)
(* BootMCU and of the Cortex-M cores, the countdown timers and the edges   *)
(* of input pins.  They share no state: every behaviour runs one of them,  *)
(* which `part` names.                                                     *)
EXTENDS TimeDriver, TLC

CONSTANTS t1, t2, n1, p1, p2, MaxTicks, MaxWake
VARIABLE part

VARIABLES ticks, pend, masked, wake
tk == <<ticks, pend, masked, wake>>
Tk == INSTANCE TickDriver WITH Sleepers <- Tasks, Never <- None

VARIABLES en, reload, cnt, status, wakers, cpc, ready, cur, isrPc, isrNo, due
cd == <<en, reload, cnt, status, wakers, cpc, ready, cur, isrPc, isrNo, due>>
OwnTimer == t1 :> n1
Cd == INSTANCE Timer WITH Tasks <- {t1}, Timers <- {n1}, TimerOf <- OwnTimer, Periods <- {1}, pc <- cpc

VARIABLES level, armed, latched, wakerPins, fired, gpWakers, gpc, slot, want, gpReady, gpCur,
  gpIsr, gpGroup, isrBits, event, toggles
gp == <<level, armed, latched, wakerPins, fired, gpWakers, gpc, slot, want, gpReady, gpCur, gpIsr,
        gpGroup, isrBits, event, toggles>>
OwnPins == (t1 :> p1) @@ (t2 :> p2)
TwoGroups == (p1 :> 0) @@ (p2 :> 1)
Gp == INSTANCE Gpio WITH Pins <- {p1, p2}, PinOf <- OwnPins, GroupOf <- TwoGroups, NumGroups <- 2,
        MaxWaiting <- 1, Senses <- {"rising"}, MaxToggles <- 2,
        intr <- armed, status <- latched, wakers <- gpWakers, pc <- gpc, ready <- gpReady,
        cur <- gpCur, isrPc <- gpIsr, isrGroup <- gpGroup

ASSUME PartsAssumption == Cd!TimerAssumption /\ Tk!TickDriverAssumption

MCInit ==
  /\ part \in {"driver", "tick", "countdown", "edges"} /\ Init /\ Tk!Init /\ Cd!Init
  /\ Gp!Init /\ (part # "edges" => level = [p \in {p1, p2} |-> FALSE])
D == part = "driver" /\ UNCHANGED <<part, tk, cd, gp>>
T == part = "tick" /\ UNCHANGED <<part, vars, cd, gp>>
C == part = "countdown" /\ UNCHANGED <<part, vars, tk, gp>>
G == part = "edges" /\ UNCHANGED <<part, vars, tk, cd>>
MCNext ==
  \/ D /\ Next
  \/ T /\ Tk!Next
  \/ C /\ Cd!Next
  \/ G /\ Gp!Next

\* The fairness of the module that runs: one condition stands for one of each
\* module, since `part` never changes.
all == <<part, vars, tk, cd, gp>>
Fair ==
  /\ WF_all((D /\ Tick) \/ (T /\ Tk!Period) \/ (C /\ Cd!Tick(n1)) \/ (G /\ Gp!Isr))
  /\ WF_all((D /\ Match) \/ (T /\ masked /\ Tk!Mask) \/ (C /\ (Cd!IsrClear \/ Cd!IsrWake))
            \/ (G /\ \E t \in Tasks : Gp!Step(t)))
  /\ WF_all(D /\ Inside("isr"))
  /\ SF_all((D /\ IsrEnter) \/ (T /\ Tk!OnTick) \/ (C /\ Cd!IsrEnter(n1))
            \/ (G /\ \E t \in Tasks : Gp!Yield(t)))
  /\ SF_all((D /\ (Inside("thread") \/ Enqueue \/ NowReturns)) \/ (C /\ Cd!Inside(t1))
            \/ (G /\ Gp!Poll(t2)))
  /\ SF_all(C /\ Cd!Yield(t1)) /\ SF_all((C /\ Cd!Poll(t1)) \/ (G /\ Gp!Poll(t1)))

MCSpec == MCInit /\ [][MCNext]_all /\ Fair

TypesOK == TypeOK /\ Tk!TypeOK

\* No driver wakes a task before its deadline.
NobodyEarly == NeverEarly /\ Tk!NeverEarly

\* Every sleep and every countdown that overflowed during its wait is answered:
\* Served of both drivers and PolledAfterOverflow.
Unanswered(t) == queue[t] # None \/ wake[t] # None \/ t \in due
AllServed == \A t \in Tasks : Unanswered(t) ~> ~Unanswered(t)

\* Every event of a wait that holds a slot resolves it.
EdgeDelivered == Gp!EdgeDelivered
=============================================================================
