-------------------------------- MODULE MCIpc -------------------------------
(* Finite instances of Ipc for TLC.                                        *)
EXTENDS Ipc, TLC

CONSTANTS r1, s1, s2

OnOne == (s1 :> 1) @@ (s2 :> 1)
AsyncAndTry == (s1 :> "async") @@ (s2 :> "try")
=============================================================================
