------------------------------- MODULE MCGpio -------------------------------
(* Finite instances of Gpio for TLC.                                       *)
EXTENDS Gpio, TLC

CONSTANTS p1, p2, t1, t2

\* Two tasks, each on a pin of its own, in two groups.
OwnPins == (t1 :> p1) @@ (t2 :> p2)
TwoGroups == (p1 :> 0) @@ (p2 :> 1)

EdgeSenses == {"rising", "falling"}
=============================================================================
