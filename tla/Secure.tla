------------------------------- MODULE Secure -------------------------------
(***************************************************************************)
(* The RSA and the ECDSA engine of the secure boot controller:             *)
(* `Rsa::run_engine` under `sign` and `verify` (rsa.rs) and                *)
(* `Ecdsa::verify` (ecdsa.rs), under src/embassy-aspeed/src.               *)
(*                                                                         *)
(* The engines share the trigger register and an SRAM in which each has    *)
(* its own part.  Nothing keeps two calls apart: what happens between two  *)
(* awaits is one step here.  Numbers are named by the call they belong to. *)
(***************************************************************************)
EXTENDS FiniteSets

CONSTANTS
  Signers,    \* the tasks that use RSA
  Verifiers,  \* the tasks that use ECDSA
  Zero,       \* a part of the SRAM that is wiped
  Junk        \* what comes out of operands of two calls

\* What the modules that use this one assume of the constants.
SecureAssumption ==
  /\ Signers \cap Verifiers = {}
  /\ {Zero, Junk} \cap (Signers \cup Verifiers) = {} /\ Zero # Junk

VARIABLES
  sram,     \* the operands and the result of RSA in the SRAM
  rsaRun,   \* what the RSA engine computes from, or Zero when it does nothing
  rsaReady, \* RSA_READY
  rpc,      \* rpc[t]: where the call of t stands
  answer,   \* answer[t]: what the call of t has read as its result
  whole,    \* history: whole[t] is whether the call of t had the engine to itself
  scalars,  \* the operands of ECDSA in the SRAM
  eccOn, eccRun, \* ECC_EN, and what the ECC engine computes from
  eccDone,  \* the done and pass bits, as the call they tell of
  trig      \* ENGINE_TRIG

rsaVars == <<sram, rsaRun, rsaReady>>
eccVars == <<scalars, eccOn, eccRun, eccDone>>
callVars == <<rpc, answer, whole>>
secureVars == <<rsaVars, eccVars, callVars, trig>>

Calls == Signers \cup Verifiers
Values == Calls \cup {Zero, Junk}

TypeOK ==
  /\ sram \in [operands : Values, result : Values]
  /\ rsaRun \in Values /\ rsaReady \in BOOLEAN
  /\ rpc \in [Calls -> {"idle", "enabled", "triggered", "polling", "read", "late"}]
  /\ answer \in [Calls -> Values] /\ whole \in [Calls -> BOOLEAN]
  /\ scalars \in Values /\ eccOn \in BOOLEAN /\ eccRun \in Values /\ eccDone \in Values
  /\ trig \subseteq {"rsa", "ecc"}

Init ==
  /\ sram = [operands |-> Zero, result |-> Zero]
  /\ rsaRun = Zero /\ rsaReady = FALSE
  /\ rpc = [t \in Calls |-> "idle"]
  /\ answer = [t \in Calls |-> Zero] /\ whole = [t \in Calls |-> FALSE]
  /\ scalars = Zero /\ eccOn = FALSE /\ eccRun = Zero /\ eccDone = Zero
  /\ trig = {}

-----------------------------------------------------------------------------
(* The engines.                                                            *)

RsaComplete ==
  /\ rsaRun # Zero
  /\ sram' = [sram EXCEPT !.result = rsaRun]
  /\ rsaRun' = Zero /\ rsaReady' = TRUE
  /\ UNCHANGED <<eccVars, callVars, trig>>

EccComplete ==
  /\ eccRun # Zero
  /\ eccDone' = eccRun /\ eccRun' = Zero
  /\ UNCHANGED <<rsaVars, scalars, eccOn, callVars, trig>>

-----------------------------------------------------------------------------
(* RSA.                                                                    *)

Goto(t, l) == rpc' = [rpc EXCEPT ![t] = l]

\* A call that starts an engine takes it from those that still use it.
Takes(t, group, idle) ==
  whole' = [u \in Calls |-> IF u = t THEN idle /\ \A v \in group \ {t} : rpc[v] = "idle"
                            ELSE whole[u] /\ u \notin group]

\* The operands change under an engine that is at work.
Mixed(run) == IF run = Zero THEN Zero ELSE Junk

\* Mutant: the engine is triggered before the operands are in place.
RsaStartEarly(t) ==
  /\ rpc[t] = "idle"
  /\ sram' = [operands |-> t, result |-> Zero]
  /\ rsaRun' = Junk /\ rsaReady' = FALSE
  /\ trig' = {}
  /\ Takes(t, Signers, rsaRun = Zero)
  /\ answer' = [answer EXCEPT ![t] = Zero]
  /\ Goto(t, "polling")
  /\ UNCHANGED eccVars

\* run_engine wipes the SRAM, writes the operands and pulses the trigger.  An
\* engine that is still at work starts again or finishes with mixed operands.
\* Both writes set the whole register: an ECC trigger is cleared before its
\* time, which the engine may have missed.
RsaStart(t) ==
  /\ rpc[t] = "idle"
  /\ sram' = [operands |-> t, result |-> Zero]
  /\ rsaRun' \in {t, IF rsaRun = Zero THEN t ELSE Junk} /\ rsaReady' = FALSE
  /\ trig' = {} /\ eccRun' \in {eccRun} \cup {Zero : x \in trig}
  /\ Takes(t, Signers, rsaRun = Zero)
  /\ answer' = [answer EXCEPT ![t] = Zero]
  /\ Goto(t, "polling")
  /\ UNCHANGED <<scalars, eccOn, eccDone>>

Wipe == sram' = [operands |-> Zero, result |-> Zero] /\ rsaRun' = Mixed(rsaRun)

\* Mutant: the result is read whether or not the engine is ready.
RsaReadAnyway(t) ==
  /\ t \in Signers /\ rpc[t] = "polling"
  /\ answer' = [answer EXCEPT ![t] = sram.result]
  /\ Wipe
  /\ Goto(t, "read")
  /\ UNCHANGED <<rsaReady, eccVars, whole, trig>>

\* The poll sees RSA_READY; the result is read and the SRAM wiped.
RsaRead(t) ==
  /\ t \in Signers /\ rpc[t] = "polling" /\ rsaReady
  /\ answer' = [answer EXCEPT ![t] = sram.result]
  /\ Wipe
  /\ Goto(t, "read")
  /\ UNCHANGED <<rsaReady, eccVars, whole, trig>>

\* Mutant: a call that times out leaves its operands.
RsaTimeoutKeeps(t) ==
  /\ t \in Signers /\ rpc[t] = "polling" /\ ~rsaReady
  /\ Goto(t, "late")
  /\ UNCHANGED <<rsaVars, eccVars, answer, whole, trig>>

\* 100 ms have passed: the SRAM is wiped under the engine.
RsaTimeout(t) ==
  /\ t \in Signers /\ rpc[t] = "polling" /\ ~rsaReady
  /\ Wipe
  /\ Goto(t, "late")
  /\ UNCHANGED <<rsaReady, eccVars, answer, whole, trig>>

-----------------------------------------------------------------------------
(* ECDSA.                                                                  *)

\* Mutant: the engine is not reset, and keeps its done bit.
EccEnableOnly(t) ==
  /\ rpc[t] = "idle"
  /\ eccOn' = TRUE
  /\ Takes(t, Verifiers, TRUE)
  /\ answer' = [answer EXCEPT ![t] = Zero]
  /\ Goto(t, "enabled")
  /\ UNCHANGED <<rsaVars, scalars, eccRun, eccDone, trig>>

\* verify resets the engine, enables it and waits ...
EccEnable(t) ==
  /\ rpc[t] = "idle"
  /\ eccOn' = TRUE /\ eccRun' = Zero /\ eccDone' = Zero
  /\ Takes(t, Verifiers, TRUE)
  /\ answer' = [answer EXCEPT ![t] = Zero]
  /\ Goto(t, "enabled")
  /\ UNCHANGED <<rsaVars, scalars, trig>>

\* ... loads curve, key, signature and digest, sets the trigger and waits.
\* A trigger that a dropped call has left set may not count again ...
EccTrigger(t) ==
  /\ t \in Verifiers /\ rpc[t] = "enabled"
  /\ scalars' = t
  /\ trig' = {"ecc"}
  /\ eccRun' \in {IF eccRun = Zero THEN t ELSE Junk} \cup {eccRun : x \in trig}
  /\ Goto(t, "triggered")
  /\ UNCHANGED <<rsaVars, eccOn, eccDone, answer, whole>>

\* ... clears the trigger and polls for the done bit.
EccUntrigger(t) ==
  /\ t \in Verifiers /\ rpc[t] = "triggered"
  /\ trig' = {}
  /\ Goto(t, "polling")
  /\ UNCHANGED <<rsaVars, eccVars, answer, whole>>

EccRead(t) ==
  /\ t \in Verifiers /\ rpc[t] = "polling" /\ eccDone # Zero
  /\ answer' = [answer EXCEPT ![t] = eccDone]
  /\ Goto(t, "read")
  /\ UNCHANGED <<rsaVars, eccVars, whole, trig>>

\* 50 ms have passed.
EccTimeout(t) ==
  /\ t \in Verifiers /\ rpc[t] = "polling" /\ eccDone = Zero
  /\ Goto(t, "late")
  /\ UNCHANGED <<rsaVars, eccVars, answer, whole, trig>>

-----------------------------------------------------------------------------

\* The call returns, or its future is dropped at an await.
Return(t) ==
  /\ rpc[t] \in {"read", "late"}
  /\ Goto(t, "idle")
  /\ UNCHANGED <<rsaVars, eccVars, answer, whole, trig>>

Cancel(t) ==
  /\ rpc[t] \in {"enabled", "triggered", "polling"}
  /\ Goto(t, "idle")
  /\ whole' = [whole EXCEPT ![t] = FALSE]
  /\ UNCHANGED <<rsaVars, eccVars, answer, trig>>

Next ==
  \/ RsaComplete \/ EccComplete
  \/ \E t \in Signers : RsaStart(t) \/ RsaRead(t) \/ RsaTimeout(t)
  \/ \E t \in Verifiers :
       EccEnable(t) \/ EccTrigger(t) \/ EccUntrigger(t) \/ EccRead(t) \/ EccTimeout(t)
  \/ \E t \in Calls : Return(t) \/ Cancel(t)

Spec == Init /\ [][Next]_secureVars

-----------------------------------------------------------------------------
(* Properties.                                                             *)

\* A call that met no other of its engine, idle when it began, returns what was
\* computed from its own operands, also after calls that timed out or were dropped.
OwnResult == \A t \in Calls : rpc[t] = "read" /\ whole[t] => answer[t] = t

\* "All SRAM regions are zeroed before and after each operation": when an RSA
\* call has returned its key is not in the SRAM, also if it timed out.
Wiped == \A t \in Signers : rpc[t] \in {"read", "late"} => sram.operands # t
=============================================================================
