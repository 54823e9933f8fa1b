------------------------------- MODULE MCBoot -------------------------------
(* Finite instances of the two sequences of a boot that go on beside       *)
(* hardware which answers late or never: the transactions with Caliptra's  *)
(* mailbox and the bring-up of DRAM.  They share no state: every behaviour *)
(* runs one of them, which `part` names.                                   *)
EXTENDS Cptra

CONSTANTS Attempts, NumMrs, Sizes, MaxMsgs   \* of Dram
VARIABLE part

VARIABLES ddr4, phys, wdt, protect, hw, mrs, busy, bits, failed, training, mail, passed, size,
  flag, at, attempt, saved, pass, msg, msgs, sent, sz, err
dr == <<ddr4, phys, wdt, protect, hw, mrs, busy, bits, failed, training, mail, passed, size,
        flag, at, attempt, saved, pass, msg, msgs, sent, sz, err>>
Dr == INSTANCE Dram WITH pc <- at, status <- bits

ASSUME PartsAssumption == Dr!DramAssumption

MCInit == part \in {"mailbox", "dram"} /\ Init /\ Dr!Init
M == part = "mailbox" /\ UNCHANGED <<part, dr>>
D == part = "dram" /\ UNCHANGED <<part, vars>>
MCNext ==
  \/ M /\ Next
  \/ D /\ Dr!Next

\* The fairness of the module that runs.
all == <<part, vars, dr>>
Fair ==
  /\ \A t \in Tasks : WF_all(M /\ Inside(t)) /\ WF_all(M /\ Expire(t)) /\ SF_all(M /\ Resume(t))
  /\ WF_all(D /\ Dr!Step) /\ WF_all(D /\ Dr!Complete("mpll")) /\ WF_all(D /\ Dr!Complete("mr"))

MCSpec == MCInit /\ [][MCNext]_all /\ Fair

TypesOK == TypeOK /\ Dr!TypeOK
UsableWhenUsed == Dr!UsableWhenUsed
SizeRight == Dr!SizeRight
NoneLeftOver == Dr!NoneLeftOver

\* init returns, when it is init that runs.
Ends == part = "dram" => Dr!Ends
=============================================================================
