------------------------------- MODULE MCTimer ------------------------------
(* Finite instances of Timer for TLC.                                      *)
EXTENDS Timer, TLC

CONSTANTS n1, n2, t1, t2

OwnTimers == (t1 :> n1) @@ (t2 :> n2)
OneTimer == (t1 :> n1)
=============================================================================
